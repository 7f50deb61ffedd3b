---------------------------- MODULE QuantsProofs ----------------------------
(***************************************************************************)
(* Proofs about Quants, for rows of any length and any bytes.              *)
(*                                                                         *)
(* The layout of a kernel is separated from its arithmetic: its dots are   *)
(* runs of lanes on the activation block (Runs), and an activation block   *)
(* is laid out in runs of quants (Seats).  Where the two agree every quant *)
(* is read once, under its own scale.                                      *)
(***************************************************************************)
EXTENDS QuantsForms, TLAPS

(* The loads of a form, the dots' own aside, end within the two blocks.    *)
Within(f, xBytes, yBytes) ==
    /\ \A l \in f.ld : l[1] + l[2] <= xBytes
    /\ \A l \in f.ldy : l[1] + l[2] <= yBytes

(* The dots are one per g in G, the one of g on the lanes ln[g] from y[g]  *)
(* on, under the scale at yd[g].                                           *)
Covers(dots, G, y, yd, ln) ==
    /\ \A d \in dots : \E g \in G : d.y = y[g] /\ d.yd = yd[g] /\ DOMAIN d.w = ln[g]
    /\ \A g \in G : \E d \in dots : d.y = y[g]
    /\ \A d, e \in dots : d.y = e.y => d = e

(* The quants K of row r of an activation block lie on the lanes of G, each *)
(* lane holding one.                                                       *)
Seats(a, r, K, G, y, yd, ln) ==
    /\ \A g \in G : y[g] \in Int /\ 0 \in ln[g]
    /\ \A k \in K : \E g \in G : /\ QuantAt(a, r, k) - y[g] \in ln[g]
                                 /\ ScaleAt(a, r, k) = yd[g]
    /\ \A g, h \in G : \A p \in Int : p - y[g] \in ln[g] /\ p - y[h] \in ln[h] => g = h
    /\ \A g \in G : \A m \in ln[g] : \E k \in K : y[g] + m = QuantAt(a, r, k)
    /\ \A k \in K : QuantAt(a, r, k) \in Int

(* QuantsOnce of one form.                                                 *)
Once(f, a, r, K) ==
    /\ \A k \in K :
          LET readers == Reading(f, QuantAt(a, r, k))
          IN  \E d \in readers : readers = {d} /\ d.yd = ScaleAt(a, r, k)
    /\ \A d \in f.dots : \A m \in DOMAIN d.w : d.y + m \in {QuantAt(a, r, k) : k \in K}

-----------------------------------------------------------------------------
(* Layouts.                                                                *)

LEMMA CoversOnce ==
    ASSUME NEW f, NEW a, NEW r, NEW K, NEW G, NEW y, NEW yd, NEW ln,
           Covers(f.dots, G, y, yd, ln), Seats(a, r, K, G, y, yd, ln)
    PROVE  Once(f, a, r, K)
<1>1. ASSUME NEW k \in K
      PROVE  LET readers == Reading(f, QuantAt(a, r, k))
             IN  \E d \in readers : readers = {d} /\ d.yd = ScaleAt(a, r, k)
  <2> DEFINE p == QuantAt(a, r, k)
  <2>1. p \in Int
    BY DEF Seats
  <2>2. PICK g \in G : p - y[g] \in ln[g] /\ ScaleAt(a, r, k) = yd[g]
    BY DEF Seats
  <2> HIDE DEF p
  <2>3. PICK d \in f.dots : d.y = y[g]
    BY DEF Covers
  <2>4. \A e \in f.dots : p - e.y \in DOMAIN e.w => e.y = y[g] /\ e.yd = yd[g]
    <3> TAKE e \in f.dots
    <3>0. HAVE p - e.y \in DOMAIN e.w
    <3>1. PICK h \in G : e.y = y[h] /\ e.yd = yd[h] /\ DOMAIN e.w = ln[h]
      BY DEF Covers
    <3>2. p - y[h] \in ln[h]
      BY <3>0, <3>1
    <3>3. h = g
      BY <3>2, <2>1, <2>2, Zenon DEF Seats
    <3> QED BY <3>1, <3>3
  <2>5. DOMAIN d.w = ln[g] /\ d.yd = yd[g]
    <3>1. PICK h \in G : d.y = y[h] /\ d.yd = yd[h] /\ DOMAIN d.w = ln[h]
      BY DEF Covers
    <3>2. h = g
      <4>1. y[g] \in Int /\ 0 \in ln[g] /\ y[h] = y[g] /\ 0 \in ln[h]
        BY <2>3, <3>1 DEF Seats
      <4>2. y[g] - y[g] \in ln[g] /\ y[g] - y[h] \in ln[h]
        BY <4>1
      <4> QED BY <4>1, <4>2 DEF Seats
    <3> QED BY <3>1, <3>2
  <2>6. d \in Reading(f, p)
    BY <2>2, <2>3, <2>5 DEF Reading
  <2>7. \A e \in Reading(f, p) : e = d
    BY <2>3, <2>4 DEF Reading, Covers
  <2>8. Reading(f, p) = {d}
    BY <2>6, <2>7
  <2> QED BY <2>2, <2>5, <2>6, <2>8 DEF p
<1>2. ASSUME NEW d \in f.dots, NEW m \in DOMAIN d.w
      PROVE  d.y + m \in {QuantAt(a, r, k) : k \in K}
  <2>1. PICK h \in G : d.y = y[h] /\ d.yd = yd[h] /\ DOMAIN d.w = ln[h]
    BY DEF Covers
  <2>2. PICK k \in K : y[h] + m = QuantAt(a, r, k)
    BY <1>2, <2>1 DEF Seats
  <2> QED BY <2>1, <2>2
<1> QED BY <1>1, <1>2 DEF Once

Constant(c, S) == [s \in S |-> c]

(* A block in runs of quants that all have the lanes L.                    *)
LEMMA RunsSeats ==
    ASSUME NEW a, NEW r, NEW K, NEW G, NEW L, L \subseteq Int, 0 \in L, NEW y, NEW yd,
           \A g \in G : y[g] \in Int,
           \A g, h \in G : \A m, l \in L : y[g] + m = y[h] + l => g = h,
           \A k \in K : \E g \in G : \E m \in L :
               QuantAt(a, r, k) = y[g] + m /\ ScaleAt(a, r, k) = yd[g],
           \A g \in G : \A m \in L : \E k \in K :
               y[g] + m = QuantAt(a, r, k)
    PROVE  Seats(a, r, K, G, y, yd, Constant(L, G))
<1> DEFINE ln == Constant(L, G)
<1>1. \A g \in G : ln[g] = L
  BY DEF Constant
<1> HIDE DEF ln
<1>2. \A m \in L : m \in Int
  OBVIOUS
<1>3. \A k \in K : \E g \in G : /\ QuantAt(a, r, k) - y[g] \in ln[g]
                                /\ ScaleAt(a, r, k) = yd[g]
  <2> TAKE k \in K
  <2>1. PICK g \in G, m \in L :
            QuantAt(a, r, k) = y[g] + m /\ ScaleAt(a, r, k) = yd[g]
    OBVIOUS
  <2>2. QuantAt(a, r, k) - y[g] = m
    BY ONLY <1>2, <2>1, m \in L, g \in G, \A e \in G : y[e] \in Int
  <2> QED BY <1>1, <2>1, <2>2
<1>4. \A g, h \in G : \A p \in Int : p - y[g] \in ln[g] /\ p - y[h] \in ln[h] => g = h
  <2> TAKE g, h \in G
  <2> TAKE p \in Int
  <2>1. HAVE p - y[g] \in ln[g] /\ p - y[h] \in ln[h]
  <2>2. y[g] \in Int /\ y[h] \in Int /\ p - y[g] \in L /\ p - y[h] \in L
    BY <1>1, <2>1
  <2>3. y[g] + (p - y[g]) = y[h] + (p - y[h])
    BY ONLY <2>2, p \in Int
  <2>4. \A m, l \in L : y[g] + m = y[h] + l => g = h
    OBVIOUS
  <2> QED BY ONLY <2>2, <2>3, <2>4
<1>5. \A k \in K : QuantAt(a, r, k) \in Int
  <2> TAKE k \in K
  <2>1. PICK g \in G, m \in L : QuantAt(a, r, k) = y[g] + m
    OBVIOUS
  <2>2. y[g] \in Int /\ m \in Int
    BY <1>2
  <2> QED BY ONLY <2>1, <2>2
<1>6. \A g \in G : y[g] \in Int /\ 0 \in ln[g]
  BY <1>1
<1>7. \A g \in G : \A m \in ln[g] : \E k \in K : y[g] + m = QuantAt(a, r, k)
  <2> TAKE g \in G
  <2> TAKE m \in ln[g]
  <2> QED BY <1>1
<1> QED BY ONLY <1>3, <1>4, <1>5, <1>6, <1>7 DEF Seats, ln

(* Runs at equal distances: run g starts at base + step * g.               *)
Strided(base, step, top) == [g \in 0 .. top |-> base + step * g]

(* The dots of a form as such runs of lanes 0 .. last, under one scale.    *)
Runs(dots, base, step, top, last, c) ==
    /\ \A d \in dots : \E g \in 0 .. top :
           d.y = base + step * g /\ d.yd = c /\ DOMAIN d.w = 0 .. last
    /\ \A g \in 0 .. top : \E d \in dots : d.y = base + step * g
    /\ \A d, e \in dots : d.y = e.y => d = e

(* The quants of a row as such runs.                                       *)
InRuns(a, r, K, base, step, top, last, c) ==
    /\ \A k \in K : \E g \in 0 .. top : \E m \in 0 .. last :
           QuantAt(a, r, k) = base + step * g + m /\ ScaleAt(a, r, k) = c
    /\ \A g \in 0 .. top : \A m \in 0 .. last : \E k \in K :
           QuantAt(a, r, k) = base + step * g + m

LEMMA RunsOnce ==
    ASSUME NEW f, NEW a, NEW r, NEW K, NEW base \in Int, NEW step \in {4, 8, 16, 32},
           NEW top, NEW last \in {3, 7, 15}, last < step, NEW c,
           Runs(f.dots, base, step, top, last, c), InRuns(a, r, K, base, step, top, last, c)
    PROVE  Once(f, a, r, K)
<1> DEFINE G  == 0 .. top
           L  == 0 .. last
           y  == Strided(base, step, top)
           yd == Constant(c, G)
           ln == Constant(L, G)
<1>1. \A g \in G : y[g] = base + step * g /\ yd[g] = c /\ ln[g] = L
  BY DEF Strided, Constant
<1>2. \A g \in G : g \in Int
  OBVIOUS
<1> HIDE DEF y, yd
<1>3. Covers(f.dots, G, y, yd, ln)
  <2> HIDE DEF ln, G
  <2>1. ASSUME NEW d \in f.dots
        PROVE  \E g \in G : d.y = y[g] /\ d.yd = yd[g] /\ DOMAIN d.w = ln[g]
    <3>1. PICK g \in G : d.y = base + step * g /\ d.yd = c /\ DOMAIN d.w = 0 .. last
      BY DEF Runs, G
    <3> QED BY <1>1, <3>1
  <2>2. ASSUME NEW g \in G
        PROVE  \E d \in f.dots : d.y = y[g]
    <3>1. PICK d \in f.dots : d.y = base + step * g
      BY <2>2 DEF Runs, G
    <3> QED BY <1>1, <2>2, <3>1
  <2> QED BY <2>1, <2>2 DEF Covers, Runs
<1>4. Seats(a, r, K, G, y, yd, ln)
  <2>1. \A g \in G : y[g] \in Int
    <3> TAKE g \in G
    <3>1. CASE step = 4
      BY <1>1, <3>1
    <3>2. CASE step = 8
      BY <1>1, <3>2
    <3>3. CASE step = 16
      BY <1>1, <3>3
    <3>4. CASE step = 32
      BY <1>1, <3>4
    <3> QED BY <3>1, <3>2, <3>3, <3>4
  <2>2. ASSUME NEW g \in G, NEW h \in G, NEW m \in L, NEW l \in L, y[g] + m = y[h] + l
        PROVE  g = h
    <3>1. CASE step = 4
      BY <1>1, <2>2, <3>1
    <3>2. CASE step = 8
      BY <1>1, <2>2, <3>2
    <3>3. CASE step = 16
      BY <1>1, <2>2, <3>3
    <3>4. CASE step = 32
      BY <1>1, <2>2, <3>4
    <3> QED BY <3>1, <3>2, <3>3, <3>4
  <2>3. ASSUME NEW k \in K
        PROVE  \E g \in G : \E m \in L : QuantAt(a, r, k) = y[g] + m /\ ScaleAt(a, r, k) = yd[g]
    <3>1. PICK g \in G, m \in L : QuantAt(a, r, k) = base + step * g + m /\ ScaleAt(a, r, k) = c
      BY <2>3 DEF InRuns
    <3> QED BY <1>1, <3>1
  <2>4. ASSUME NEW g \in G, NEW m \in L
        PROVE  \E k \in K : y[g] + m = QuantAt(a, r, k)
    <3>1. PICK k \in K : QuantAt(a, r, k) = base + step * g + m
      BY <2>4 DEF InRuns
    <3> QED BY <1>1, <3>1
  <2>5. L \subseteq Int /\ 0 \in L
    OBVIOUS
  <2> HIDE DEF G, L
  <2> QED BY ONLY <2>1, <2>2, <2>3, <2>4, <2>5, RunsSeats DEF ln
<1> HIDE DEF G, ln
<1> QED BY <1>3, <1>4, CoversOnce

(* The activation blocks.                                                  *)
LEMMA Acts ==
    /\ Activations.q8_K = [bytes |-> 292, qs |-> 4, n |-> 256, rows |-> 1, run |-> 256, d |-> 0]
    /\ Activations.q8_0 = [bytes |-> 34, qs |-> 2, n |-> 32, rows |-> 1, run |-> 32, d |-> 0]
    /\ Activations.q8_1 = [bytes |-> 36, qs |-> 4, n |-> 32, rows |-> 1, run |-> 32, d |-> 0]
    /\ Activations.q8_0x4by4 = [bytes |-> 136, qs |-> 8, n |-> 32, rows |-> 4, run |-> 4, d |-> 2]
    /\ Activations.q8_0x4by8 = [bytes |-> 136, qs |-> 8, n |-> 32, rows |-> 4, run |-> 8, d |-> 2]
    /\ Activations.q8_Kx4 = [bytes |-> 1168, qs |-> 16, n |-> 256, rows |-> 4, run |-> 8, d |-> 4]
BY DEF Activations

LEMMA SeatK ==
    ASSUME NEW k \in 0 .. 255
    PROVE  QuantAt(Activations.q8_K, 0, k) = 4 + k /\ ScaleAt(Activations.q8_K, 0, k) = 0
BY Acts DEF QuantAt, ScaleAt

LEMMA Seat0 ==
    ASSUME NEW k \in 0 .. 31
    PROVE  QuantAt(Activations.q8_0, 0, k) = 2 + k /\ ScaleAt(Activations.q8_0, 0, k) = 0
BY Acts DEF QuantAt, ScaleAt

LEMMA Seat1 ==
    ASSUME NEW k \in 0 .. 31
    PROVE  QuantAt(Activations.q8_1, 0, k) = 4 + k /\ ScaleAt(Activations.q8_1, 0, k) = 0
BY Acts DEF QuantAt, ScaleAt

LEMMA SeatKx4 ==
    ASSUME NEW k \in 0 .. 255, NEW r \in 0 .. 3
    PROVE  /\ QuantAt(Activations.q8_Kx4, r, k) = (16 + 8 * r) + 32 * (k \div 8) + (k % 8)
           /\ ScaleAt(Activations.q8_Kx4, r, k) = 4 * r
BY Acts DEF QuantAt, ScaleAt

LEMMA Seat0x4by8 ==
    ASSUME NEW k \in 0 .. 31, NEW r \in 0 .. 3
    PROVE  /\ QuantAt(Activations.q8_0x4by8, r, k) = (8 + 8 * r) + 32 * (k \div 8) + (k % 8)
           /\ ScaleAt(Activations.q8_0x4by8, r, k) = 2 * r
BY Acts DEF QuantAt, ScaleAt

LEMMA Seat0x4by4 ==
    ASSUME NEW k \in 0 .. 31, NEW r \in 0 .. 3
    PROVE  /\ QuantAt(Activations.q8_0x4by4, r, k) = (8 + 4 * r) + 16 * (k \div 4) + (k % 4)
           /\ ScaleAt(Activations.q8_0x4by4, r, k) = 2 * r
BY Acts DEF QuantAt, ScaleAt

(* A row of one q8_K, q8_0 or q8_1 block in runs of 4, 8 or 16.            *)
LEMMA PlainInRuns ==
    ASSUME NEW a, NEW top \in {31, 255}, NEW base \in Int,
           \A k \in 0 .. top : QuantAt(a, 0, k) = base + k /\ ScaleAt(a, 0, k) = 0
    PROVE  /\ \A runs \in Int : 4 * runs + 3 = top =>
                  InRuns(a, 0, 0 .. top, base, 4, runs, 3, 0)
           /\ \A runs \in Int : 8 * runs + 7 = top =>
                  InRuns(a, 0, 0 .. top, base, 8, runs, 7, 0)
           /\ \A runs \in Int : 16 * runs + 15 = top =>
                  InRuns(a, 0, 0 .. top, base, 16, runs, 15, 0)
<1>1. ASSUME NEW n \in {4, 8, 16}, NEW runs \in Int, n * runs + (n - 1) = top
      PROVE  InRuns(a, 0, 0 .. top, base, n, runs, n - 1, 0)
  <2>1. ASSUME NEW k \in 0 .. top
        PROVE  /\ k \div n \in 0 .. runs /\ k % n \in 0 .. n - 1
               /\ base + k = base + n * (k \div n) + (k % n)
    <3>1. CASE n = 4
      BY <1>1, <3>1
    <3>2. CASE n = 8
      BY <1>1, <3>2
    <3>3. CASE n = 16
      BY <1>1, <3>3
    <3> QED BY <3>1, <3>2, <3>3
  <2>2. ASSUME NEW g \in 0 .. runs, NEW m \in 0 .. n - 1
        PROVE  /\ n * g + m \in 0 .. top
               /\ base + (n * g + m) = base + n * g + m
    <3>1. CASE n = 4
      BY <1>1, <3>1
    <3>2. CASE n = 8
      BY <1>1, <3>2
    <3>3. CASE n = 16
      BY <1>1, <3>3
    <3> QED BY <3>1, <3>2, <3>3
  <2>3. ASSUME NEW k \in 0 .. top
        PROVE  \E g \in 0 .. runs : \E m \in 0 .. n - 1 :
                   QuantAt(a, 0, k) = base + n * g + m /\ ScaleAt(a, 0, k) = 0
    BY ONLY <2>1, k \in 0 .. top, \A q \in 0 .. top : QuantAt(a, 0, q) = base + q /\ ScaleAt(a, 0, q) = 0
  <2>4. ASSUME NEW g \in 0 .. runs, NEW m \in 0 .. n - 1
        PROVE  \E k \in 0 .. top : QuantAt(a, 0, k) = base + n * g + m
    BY ONLY <2>2, g \in 0 .. runs, m \in 0 .. n - 1, \A q \in 0 .. top : QuantAt(a, 0, q) = base + q /\ ScaleAt(a, 0, q) = 0
  <2> QED BY <2>3, <2>4 DEF InRuns
<1>2. 4 - 1 = 3 /\ 8 - 1 = 7 /\ 16 - 1 = 15 /\ {4, 8, 16} \subseteq Int
  OBVIOUS
<1>3. ASSUME NEW runs \in Int, 4 * runs + 3 = top
      PROVE  InRuns(a, 0, 0 .. top, base, 4, runs, 3, 0)
  <2>1. InRuns(a, 0, 0 .. top, base, 4, runs, 4 - 1, 0)
    BY <1>1, <1>3
  <2> QED BY <2>1
<1>4. ASSUME NEW runs \in Int, 8 * runs + 7 = top
      PROVE  InRuns(a, 0, 0 .. top, base, 8, runs, 7, 0)
  <2>1. InRuns(a, 0, 0 .. top, base, 8, runs, 8 - 1, 0)
    BY <1>1, <1>4
  <2> QED BY <2>1
<1>5. ASSUME NEW runs \in Int, 16 * runs + 15 = top
      PROVE  InRuns(a, 0, 0 .. top, base, 16, runs, 15, 0)
  <2>1. InRuns(a, 0, 0 .. top, base, 16, runs, 16 - 1, 0)
    BY <1>1, <1>5
  <2> QED BY <2>1
<1> QED BY <1>3, <1>4, <1>5

LEMMA PlainLayouts ==
    /\ InRuns(Activations.q8_K, 0, 0 .. 255, 4, 8, 31, 7, 0)
    /\ InRuns(Activations.q8_K, 0, 0 .. 255, 4, 16, 15, 15, 0)
    /\ InRuns(Activations.q8_0, 0, 0 .. 31, 2, 4, 7, 3, 0)
    /\ InRuns(Activations.q8_0, 0, 0 .. 31, 2, 8, 3, 7, 0)
    /\ InRuns(Activations.q8_0, 0, 0 .. 31, 2, 16, 1, 15, 0)
    /\ InRuns(Activations.q8_1, 0, 0 .. 31, 4, 16, 1, 15, 0)
<1>1. /\ InRuns(Activations.q8_K, 0, 0 .. 255, 4, 8, 31, 7, 0)
      /\ InRuns(Activations.q8_K, 0, 0 .. 255, 4, 16, 15, 15, 0)
  BY SeatK, PlainInRuns
<1>2. /\ InRuns(Activations.q8_0, 0, 0 .. 31, 2, 4, 7, 3, 0)
      /\ InRuns(Activations.q8_0, 0, 0 .. 31, 2, 8, 3, 7, 0)
      /\ InRuns(Activations.q8_0, 0, 0 .. 31, 2, 16, 1, 15, 0)
  BY Seat0, PlainInRuns
<1>3. InRuns(Activations.q8_1, 0, 0 .. 31, 4, 16, 1, 15, 0)
  BY Seat1, PlainInRuns
<1> QED BY <1>1, <1>2, <1>3

LEMMA FourRowLayouts ==
    ASSUME NEW r \in 0 .. 3
    PROVE  /\ InRuns(Activations.q8_Kx4, r, 0 .. 255, 16 + 8 * r, 32, 31, 7, 4 * r)
           /\ InRuns(Activations.q8_0x4by8, r, 0 .. 31, 8 + 8 * r, 32, 3, 7, 2 * r)
           /\ InRuns(Activations.q8_0x4by4, r, 0 .. 31, 8 + 4 * r, 16, 7, 3, 2 * r)
<1>1. InRuns(Activations.q8_Kx4, r, 0 .. 255, 16 + 8 * r, 32, 31, 7, 4 * r)
  <2>1. \A k \in 0 .. 255 : k \div 8 \in 0 .. 31 /\ k % 8 \in 0 .. 7
    OBVIOUS
  <2>2. ASSUME NEW g \in 0 .. 31, NEW m \in 0 .. 7
        PROVE  8 * g + m \in 0 .. 255 /\ (8 * g + m) \div 8 = g /\ (8 * g + m) % 8 = m
    OBVIOUS
  <2>3. ASSUME NEW k \in 0 .. 255
        PROVE  \E g \in 0 .. 31 : \E m \in 0 .. 7 :
                   /\ QuantAt(Activations.q8_Kx4, r, k) = (16 + 8 * r) + 32 * g + m
                   /\ ScaleAt(Activations.q8_Kx4, r, k) = 4 * r
    <3>1. /\ QuantAt(Activations.q8_Kx4, r, k) = (16 + 8 * r) + 32 * (k \div 8) + (k % 8)
          /\ ScaleAt(Activations.q8_Kx4, r, k) = 4 * r
      BY SeatKx4
    <3> QED BY <2>1, <3>1, SMTT(30)
  <2>4. ASSUME NEW g \in 0 .. 31, NEW m \in 0 .. 7
        PROVE  \E k \in 0 .. 255 : QuantAt(Activations.q8_Kx4, r, k) = (16 + 8 * r) + 32 * g + m
    <3>1. 8 * g + m \in 0 .. 255
      BY <2>2, SMTT(30)
    <3>2. QuantAt(Activations.q8_Kx4, r, 8 * g + m) = (16 + 8 * r) + 32 * g + m
      BY <2>2, <3>1, SeatKx4, SMTT(30)
    <3> QED BY <3>1, <3>2
  <2> QED BY <2>3, <2>4, Zenon DEF InRuns
<1>2. InRuns(Activations.q8_0x4by8, r, 0 .. 31, 8 + 8 * r, 32, 3, 7, 2 * r)
  <2>1. \A k \in 0 .. 31 : k \div 8 \in 0 .. 3 /\ k % 8 \in 0 .. 7
    OBVIOUS
  <2>2. ASSUME NEW g \in 0 .. 3, NEW m \in 0 .. 7
        PROVE  8 * g + m \in 0 .. 31 /\ (8 * g + m) \div 8 = g /\ (8 * g + m) % 8 = m
    OBVIOUS
  <2>3. ASSUME NEW k \in 0 .. 31
        PROVE  \E g \in 0 .. 3 : \E m \in 0 .. 7 :
                   /\ QuantAt(Activations.q8_0x4by8, r, k) = (8 + 8 * r) + 32 * g + m
                   /\ ScaleAt(Activations.q8_0x4by8, r, k) = 2 * r
    <3>1. /\ QuantAt(Activations.q8_0x4by8, r, k) = (8 + 8 * r) + 32 * (k \div 8) + (k % 8)
          /\ ScaleAt(Activations.q8_0x4by8, r, k) = 2 * r
      BY Seat0x4by8
    <3> QED BY <2>1, <3>1
  <2>4. ASSUME NEW g \in 0 .. 3, NEW m \in 0 .. 7
        PROVE  \E k \in 0 .. 31 : QuantAt(Activations.q8_0x4by8, r, k) = (8 + 8 * r) + 32 * g + m
    <3>1. 8 * g + m \in 0 .. 31
      BY <2>2
    <3>2. QuantAt(Activations.q8_0x4by8, r, 8 * g + m) = (8 + 8 * r) + 32 * g + m
      BY <2>2, <3>1, Seat0x4by8, SMTT(30)
    <3> QED BY <3>1, <3>2
  <2> QED BY <2>3, <2>4, Zenon DEF InRuns
<1>3. InRuns(Activations.q8_0x4by4, r, 0 .. 31, 8 + 4 * r, 16, 7, 3, 2 * r)
  <2>1. \A k \in 0 .. 31 : k \div 4 \in 0 .. 7 /\ k % 4 \in 0 .. 3
    OBVIOUS
  <2>2. ASSUME NEW g \in 0 .. 7, NEW m \in 0 .. 3
        PROVE  4 * g + m \in 0 .. 31 /\ (4 * g + m) \div 4 = g /\ (4 * g + m) % 4 = m
    OBVIOUS
  <2>3. ASSUME NEW k \in 0 .. 31
        PROVE  \E g \in 0 .. 7 : \E m \in 0 .. 3 :
                   /\ QuantAt(Activations.q8_0x4by4, r, k) = (8 + 4 * r) + 16 * g + m
                   /\ ScaleAt(Activations.q8_0x4by4, r, k) = 2 * r
    <3>1. /\ QuantAt(Activations.q8_0x4by4, r, k) = (8 + 4 * r) + 16 * (k \div 4) + (k % 4)
          /\ ScaleAt(Activations.q8_0x4by4, r, k) = 2 * r
      BY Seat0x4by4
    <3> QED BY <2>1, <3>1
  <2>4. ASSUME NEW g \in 0 .. 7, NEW m \in 0 .. 3
        PROVE  \E k \in 0 .. 31 : QuantAt(Activations.q8_0x4by4, r, k) = (8 + 4 * r) + 16 * g + m
    <3>1. 4 * g + m \in 0 .. 31
      BY <2>2
    <3>2. QuantAt(Activations.q8_0x4by4, r, 4 * g + m) = (8 + 4 * r) + 16 * g + m
      BY <2>2, <3>1, Seat0x4by4
    <3> QED BY <3>1, <3>2
  <2> QED BY <2>3, <2>4, Zenon DEF InRuns
<1> QED BY <1>1, <1>2, <1>3, SMTT(30)

-----------------------------------------------------------------------------
(* The dots of 256 quants: sixteen of 16 lanes.                            *)

KRuns(dots) == Runs(dots, 4, 16, 15, 15, 0)

LEMMA KRuns44 ==
    ASSUME NEW D,
           \A j \in 0 .. 3, k \in 0 .. 3 :
               D[j][k].y = 4 + 64 * j + 16 * k /\ D[j][k].yd = 0 /\ DOMAIN D[j][k].w = 0 .. 15
    PROVE  KRuns(Dots44(D))
<1> DEFINE dots == Dots44(D)
<1>1. ASSUME NEW d \in dots
      PROVE  \E g \in 0 .. 15 : d.y = 4 + 16 * g /\ d.yd = 0 /\ DOMAIN d.w = 0 .. 15
  <2>1. PICK j \in 0 .. 3, k \in 0 .. 3 : d = D[j][k]
    BY DEF Dots44
  <2>2. 4 * j + k \in 0 .. 15 /\ 4 + 64 * j + 16 * k = 4 + 16 * (4 * j + k)
    OBVIOUS
  <2> QED BY <2>1, <2>2
<1>2. ASSUME NEW g \in 0 .. 15
      PROVE  \E d \in dots : d.y = 4 + 16 * g
  <2>1. ((g \div 4) % 4) \in 0 .. 3 /\ (g % 4) \in 0 .. 3
    OBVIOUS
  <2>2. 4 + 64 * ((g \div 4) % 4) + 16 * (g % 4) = 4 + 16 * g
    OBVIOUS
  <2>3. D[((g \div 4) % 4)][(g % 4)] \in dots
    BY <2>1 DEF Dots44
  <2> QED BY <2>1, <2>2, <2>3
<1>3. ASSUME NEW d \in dots, NEW e \in dots, d.y = e.y
      PROVE  d = e
  <2>1. PICK j \in 0 .. 3, k \in 0 .. 3 : d = D[j][k]
    BY DEF Dots44
  <2>2. PICK jj \in 0 .. 3, kk \in 0 .. 3 : e = D[jj][kk]
    BY DEF Dots44
  <2>3. 4 + 64 * j + 16 * k = 4 + 64 * jj + 16 * kk
    BY <1>3, <2>1, <2>2, SMTT(30)
  <2>4. j = jj /\ k = kk
    BY <2>3
  <2> QED BY <2>1, <2>2, <2>4
<1> QED BY <1>1, <1>2, <1>3 DEF KRuns, Runs

LEMMA KRuns82 ==
    ASSUME NEW D,
           \A j \in 0 .. 7, k \in 0 .. 1 :
               D[j][k].y = 4 + 32 * j + 16 * k /\ D[j][k].yd = 0 /\ DOMAIN D[j][k].w = 0 .. 15
    PROVE  KRuns(Dots82(D))
<1> DEFINE dots == Dots82(D)
<1>1. ASSUME NEW d \in dots
      PROVE  \E g \in 0 .. 15 : d.y = 4 + 16 * g /\ d.yd = 0 /\ DOMAIN d.w = 0 .. 15
  <2>1. PICK j \in 0 .. 7, k \in 0 .. 1 : d = D[j][k]
    BY DEF Dots82
  <2>2. 2 * j + k \in 0 .. 15 /\ 4 + 32 * j + 16 * k = 4 + 16 * (2 * j + k)
    OBVIOUS
  <2> QED BY <2>1, <2>2
<1>2. ASSUME NEW g \in 0 .. 15
      PROVE  \E d \in dots : d.y = 4 + 16 * g
  <2>1. ((g \div 2) % 8) \in 0 .. 7 /\ (g % 2) \in 0 .. 1
    OBVIOUS
  <2>2. 4 + 32 * ((g \div 2) % 8) + 16 * (g % 2) = 4 + 16 * g
    OBVIOUS
  <2>3. D[((g \div 2) % 8)][(g % 2)] \in dots
    BY <2>1 DEF Dots82
  <2> QED BY <2>1, <2>2, <2>3
<1>3. ASSUME NEW d \in dots, NEW e \in dots, d.y = e.y
      PROVE  d = e
  <2>1. PICK j \in 0 .. 7, k \in 0 .. 1 : d = D[j][k]
    BY DEF Dots82
  <2>2. PICK jj \in 0 .. 7, kk \in 0 .. 1 : e = D[jj][kk]
    BY DEF Dots82
  <2>3. 4 + 32 * j + 16 * k = 4 + 32 * jj + 16 * kk
    BY <1>3, <2>1, <2>2, ZenonT(60)
  <2>4. j = jj /\ k = kk
    BY <2>3
  <2> QED BY <2>1, <2>2, <2>4
<1> QED BY <1>1, <1>2, <1>3 DEF KRuns, Runs

LEMMA KRuns242 ==
    ASSUME NEW D,
           \A j \in 0 .. 1, k \in 0 .. 3, l \in 0 .. 1 :
               D[j][k][l].y = 4 + 128 * j + 32 * k + 16 * l /\ D[j][k][l].yd = 0 /\ DOMAIN D[j][k][l].w = 0 .. 15
    PROVE  KRuns(Dots242(D))
<1> DEFINE dots == Dots242(D)
<1>1. ASSUME NEW d \in dots
      PROVE  \E g \in 0 .. 15 : d.y = 4 + 16 * g /\ d.yd = 0 /\ DOMAIN d.w = 0 .. 15
  <2>1. PICK j \in 0 .. 1, k \in 0 .. 3, l \in 0 .. 1 : d = D[j][k][l]
    BY DEF Dots242
  <2>2. 8 * j + 2 * k + l \in 0 .. 15 /\ 4 + 128 * j + 32 * k + 16 * l = 4 + 16 * (8 * j + 2 * k + l)
    OBVIOUS
  <2> QED BY <2>1, <2>2
<1>2. ASSUME NEW g \in 0 .. 15
      PROVE  \E d \in dots : d.y = 4 + 16 * g
  <2>1. ((g \div 8) % 2) \in 0 .. 1 /\ ((g \div 2) % 4) \in 0 .. 3 /\ (g % 2) \in 0 .. 1
    OBVIOUS
  <2>2. 4 + 128 * ((g \div 8) % 2) + 32 * ((g \div 2) % 4) + 16 * (g % 2) = 4 + 16 * g
    OBVIOUS
  <2>3. D[((g \div 8) % 2)][((g \div 2) % 4)][(g % 2)] \in dots
    BY <2>1 DEF Dots242
  <2> QED BY <2>1, <2>2, <2>3
<1>3. ASSUME NEW d \in dots, NEW e \in dots, d.y = e.y
      PROVE  d = e
  <2>1. PICK j \in 0 .. 1, k \in 0 .. 3, l \in 0 .. 1 : d = D[j][k][l]
    BY DEF Dots242
  <2>2. PICK jj \in 0 .. 1, kk \in 0 .. 3, ll \in 0 .. 1 : e = D[jj][kk][ll]
    BY DEF Dots242
  <2>3. 4 + 128 * j + 32 * k + 16 * l
        = 4 + 128 * jj + 32 * kk + 16 * ll
    <3>1. D[j][k][l].y = 4 + 128 * j + 32 * k + 16 * l
      OBVIOUS
    <3>2. D[jj][kk][ll].y = 4 + 128 * jj + 32 * kk + 16 * ll
      OBVIOUS
    <3> QED BY <1>3, <2>1, <2>2, <3>1, <3>2
  <2>4. j = jj /\ k = kk /\ l = ll
    BY <2>3
  <2> QED BY <2>1, <2>2, <2>4
<1> QED BY <1>1, <1>2, <1>3 DEF KRuns, Runs

LEMMA KRuns224 ==
    ASSUME NEW D,
           \A j \in 0 .. 1, k \in 0 .. 1, l \in 0 .. 3 :
               D[j][k][l].y = 4 + 128 * j + 64 * k + 16 * l /\ D[j][k][l].yd = 0 /\ DOMAIN D[j][k][l].w = 0 .. 15
    PROVE  KRuns(Dots224(D))
<1> DEFINE dots == Dots224(D)
<1>1. ASSUME NEW d \in dots
      PROVE  \E g \in 0 .. 15 : d.y = 4 + 16 * g /\ d.yd = 0 /\ DOMAIN d.w = 0 .. 15
  <2>1. PICK j \in 0 .. 1, k \in 0 .. 1, l \in 0 .. 3 : d = D[j][k][l]
    BY DEF Dots224
  <2>2. 8 * j + 4 * k + l \in 0 .. 15 /\ 4 + 128 * j + 64 * k + 16 * l = 4 + 16 * (8 * j + 4 * k + l)
    OBVIOUS
  <2> QED BY <2>1, <2>2
<1>2. ASSUME NEW g \in 0 .. 15
      PROVE  \E d \in dots : d.y = 4 + 16 * g
  <2>1. ((g \div 8) % 2) \in 0 .. 1 /\ ((g \div 4) % 2) \in 0 .. 1 /\ (g % 4) \in 0 .. 3
    OBVIOUS
  <2>2. 4 + 128 * ((g \div 8) % 2) + 64 * ((g \div 4) % 2) + 16 * (g % 4) = 4 + 16 * g
    OBVIOUS
  <2>3. D[((g \div 8) % 2)][((g \div 4) % 2)][(g % 4)] \in dots
    BY <2>1 DEF Dots224
  <2> QED BY <2>1, <2>2, <2>3
<1>3. ASSUME NEW d \in dots, NEW e \in dots, d.y = e.y
      PROVE  d = e
  <2>1. PICK j \in 0 .. 1, k \in 0 .. 1, l \in 0 .. 3 : d = D[j][k][l]
    BY DEF Dots224
  <2>2. PICK jj \in 0 .. 1, kk \in 0 .. 1, ll \in 0 .. 3 : e = D[jj][kk][ll]
    BY DEF Dots224
  <2>3. 4 + 128 * j + 64 * k + 16 * l
        = 4 + 128 * jj + 64 * kk + 16 * ll
    <3>1. D[j][k][l].y = 4 + 128 * j + 64 * k + 16 * l
      OBVIOUS
    <3>2. D[jj][kk][ll].y = 4 + 128 * jj + 64 * kk + 16 * ll
      OBVIOUS
    <3> QED BY <1>3, <2>1, <2>2, <3>1, <3>2
  <2>4. j = jj /\ k = kk /\ l = ll
    BY <2>3
  <2> QED BY <2>1, <2>2, <2>4
<1> QED BY <1>1, <1>2, <1>3 DEF KRuns, Runs

LEMMA KRuns422 ==
    ASSUME NEW D,
           \A j \in 0 .. 3, k \in 0 .. 1, l \in 0 .. 1 :
               D[j][k][l].y = 4 + 64 * j + 32 * k + 16 * l /\ D[j][k][l].yd = 0 /\ DOMAIN D[j][k][l].w = 0 .. 15
    PROVE  KRuns(Dots422(D))
<1> DEFINE dots == Dots422(D)
<1>1. ASSUME NEW d \in dots
      PROVE  \E g \in 0 .. 15 : d.y = 4 + 16 * g /\ d.yd = 0 /\ DOMAIN d.w = 0 .. 15
  <2>1. PICK j \in 0 .. 3, k \in 0 .. 1, l \in 0 .. 1 : d = D[j][k][l]
    BY DEF Dots422
  <2>2. 4 * j + 2 * k + l \in 0 .. 15 /\ 4 + 64 * j + 32 * k + 16 * l = 4 + 16 * (4 * j + 2 * k + l)
    OBVIOUS
  <2> QED BY <2>1, <2>2
<1>2. ASSUME NEW g \in 0 .. 15
      PROVE  \E d \in dots : d.y = 4 + 16 * g
  <2>1. ((g \div 4) % 4) \in 0 .. 3 /\ ((g \div 2) % 2) \in 0 .. 1 /\ (g % 2) \in 0 .. 1
    OBVIOUS
  <2>2. 4 + 64 * ((g \div 4) % 4) + 32 * ((g \div 2) % 2) + 16 * (g % 2) = 4 + 16 * g
    OBVIOUS
  <2>3. D[((g \div 4) % 4)][((g \div 2) % 2)][(g % 2)] \in dots
    BY <2>1 DEF Dots422
  <2> QED BY <2>1, <2>2, <2>3
<1>3. ASSUME NEW d \in dots, NEW e \in dots, d.y = e.y
      PROVE  d = e
  <2>1. PICK j \in 0 .. 3, k \in 0 .. 1, l \in 0 .. 1 : d = D[j][k][l]
    BY DEF Dots422
  <2>2. PICK jj \in 0 .. 3, kk \in 0 .. 1, ll \in 0 .. 1 : e = D[jj][kk][ll]
    BY DEF Dots422
  <2>3. 4 + 64 * j + 32 * k + 16 * l
        = 4 + 64 * jj + 32 * kk + 16 * ll
    <3>1. D[j][k][l].y = 4 + 64 * j + 32 * k + 16 * l
      OBVIOUS
    <3>2. D[jj][kk][ll].y = 4 + 64 * jj + 32 * kk + 16 * ll
      OBVIOUS
    <3> QED BY <1>3, <2>1, <2>2, <3>1, <3>2
  <2>4. j = jj /\ k = kk /\ l = ll
    BY <2>3
  <2> QED BY <2>1, <2>2, <2>4
<1> QED BY <1>1, <1>2, <1>3 DEF KRuns, Runs

-----------------------------------------------------------------------------
(* The row dots of arm64, for activations of 256 quants: each kernel's     *)
(* weights and scales under the indices of its loops.                      *)

LEMMA a64Q4_K_Layout ==
    ASSUME NEW b
    PROVE  KRuns(A64!a64VecDotQ4_KKernel(b).dots) /\ Within(A64!a64VecDotQ4_KKernel(b), 144, 292)
<1>1. A64!a64VecDotQ4_KKernel(b).dots = Dots44(a64Q4_K_Dots(b))
  BY SMTT(30) DEF A64!a64VecDotQ4_KKernel, A64!KBlock, A64!KNibbles,
         A64!Form, A64!Dot, A64!DotOn, A64!L16, A64!L4, A64!L8,
         Dots44, a64Q4_K_Dots, a64Q4_K_w, a64Q4_K_s
<1>2. \A j \in 0 .. 3, k \in 0 .. 3 :
         /\ a64Q4_K_Dots(b)[j][k].y = 4 + 64 * j + 16 * k
         /\ a64Q4_K_Dots(b)[j][k].yd = 0 /\ DOMAIN a64Q4_K_Dots(b)[j][k].w = 0 .. 15
  BY DEF a64Q4_K_Dots, a64Q4_K_w, A64!Dot, A64!DotOn
<1>3. KRuns(Dots44(a64Q4_K_Dots(b)))
  BY <1>2, KRuns44
<1>4. Within(A64!a64VecDotQ4_KKernel(b), 144, 292)
  BY DEF Within, A64!a64VecDotQ4_KKernel, A64!KBlock, A64!KNibbles,
         A64!Form, A64!Dot, A64!DotOn, A64!L16, A64!L4, A64!L8, A64!Ld, A64!BSums
<1> QED BY <1>1, <1>3, <1>4

LEMMA a64Q5_K_Layout ==
    ASSUME NEW b
    PROVE  KRuns(A64!a64VecDotQ5_KKernel(b).dots) /\ Within(A64!a64VecDotQ5_KKernel(b), 176, 292)
<1>1. A64!a64VecDotQ5_KKernel(b).dots = Dots44(a64Q5_K_Dots(b))
  BY SMTT(30) DEF A64!a64VecDotQ5_KKernel, A64!KBlock, A64!KNibbles,
         A64!Form, A64!Dot, A64!DotOn, A64!L16, A64!L4, A64!L8,
         Dots44, a64Q5_K_Dots, a64Q5_K_w, a64Q5_K_s
<1>2. \A j \in 0 .. 3, k \in 0 .. 3 :
         /\ a64Q5_K_Dots(b)[j][k].y = 4 + 64 * j + 16 * k
         /\ a64Q5_K_Dots(b)[j][k].yd = 0 /\ DOMAIN a64Q5_K_Dots(b)[j][k].w = 0 .. 15
  BY Zenon DEF a64Q5_K_Dots, a64Q5_K_w, A64!Dot, A64!DotOn
<1>3. KRuns(Dots44(a64Q5_K_Dots(b)))
  BY <1>2, KRuns44
<1>4. Within(A64!a64VecDotQ5_KKernel(b), 176, 292)
  BY DEF Within, A64!a64VecDotQ5_KKernel, A64!KBlock, A64!KNibbles,
         A64!Form, A64!Dot, A64!DotOn, A64!L16, A64!L4, A64!L8, A64!Ld, A64!BSums
<1> QED BY <1>1, <1>3, <1>4

LEMMA a64Q6_K_Layout ==
    ASSUME NEW b
    PROVE  KRuns(A64!a64VecDotQ6_KKernel(b).dots) /\ Within(A64!a64VecDotQ6_KKernel(b), 210, 292)
<1>1. A64!a64VecDotQ6_KKernel(b).dots = Dots224(a64Q6_K_Dots(b))
  BY DEF A64!a64VecDotQ6_KKernel, A64!Q6KBlock, A64!Form, A64!L4, A64!L8,
         Dots224, a64Q6_K_Dots
<1>2. \A j \in 0 .. 1, p \in 0 .. 1, k \in 0 .. 3 :
         /\ a64Q6_K_Dots(b)[j][p][k].y = 4 + 128 * j + 64 * p + 16 * k
         /\ a64Q6_K_Dots(b)[j][p][k].yd = 0 /\ DOMAIN a64Q6_K_Dots(b)[j][p][k].w = 0 .. 15
  <2>1. \A j \in 0 .. 1, p \in 0 .. 1, k \in 0 .. 3 :
           /\ A64!a64Q6Dot(b, j, p, k).y = 4 + 128 * j + 64 * p + 16 * k
           /\ A64!a64Q6Dot(b, j, p, k).yd = 0 /\ DOMAIN A64!a64Q6Dot(b, j, p, k).w = 0 .. 15
    BY DEF A64!a64Q6Dot, A64!Dot, A64!DotOn, A64!L16
  <2>2. \A j \in 0 .. 1, p \in 0 .. 1, k \in 0 .. 3 : a64Q6_K_Dots(b)[j][p][k] = A64!a64Q6Dot(b, j, p, k)
    BY DEF a64Q6_K_Dots
  <2> QED BY <2>1, <2>2
<1>3. KRuns(Dots224(a64Q6_K_Dots(b)))
  BY <1>2, KRuns224
<1>4. Within(A64!a64VecDotQ6_KKernel(b), 210, 292)
  BY DEF Within, A64!a64VecDotQ6_KKernel, A64!Q6KBlock, A64!a64Q6Dot,
         A64!Form, A64!Dot, A64!DotOn, A64!L16, A64!L4, A64!L8, A64!Ld, A64!BSums
<1> QED BY <1>1, <1>3, <1>4

LEMMA a64Q2_K_Layout ==
    ASSUME NEW b
    PROVE  KRuns(A64!a64VecDotQ2_KKernel(b).dots) /\ Within(A64!a64VecDotQ2_KKernel(b), 84, 292)
<1>1. A64!a64VecDotQ2_KKernel(b).dots = Dots242(a64Q2_K_Dots(b))
  BY DEF A64!a64VecDotQ2_KKernel,
         A64!Form, A64!Dot, A64!DotOn, A64!L16, A64!L4, A64!L8,
         Dots242, a64Q2_K_Dots, a64Q2_K_w, a64Q2_K_s
<1>2. \A j \in 0 .. 1, s \in 0 .. 3, h \in 0 .. 1 :
         /\ a64Q2_K_Dots(b)[j][s][h].y = 4 + 128 * j + 32 * s + 16 * h
         /\ a64Q2_K_Dots(b)[j][s][h].yd = 0 /\ DOMAIN a64Q2_K_Dots(b)[j][s][h].w = 0 .. 15
  <2>1. \A j \in 0 .. 1, s \in 0 .. 3, h \in 0 .. 1 : DOMAIN a64Q2_K_w(b, j, s, h) = 0 .. 15
    BY DEF a64Q2_K_w
  <2> QED BY <2>1 DEF a64Q2_K_Dots, A64!Dot, A64!DotOn
<1>3. KRuns(Dots242(a64Q2_K_Dots(b)))
  BY <1>2, KRuns242
<1>4. Within(A64!a64VecDotQ2_KKernel(b), 84, 292)
  BY DEF Within, A64!a64VecDotQ2_KKernel,
         A64!Form, A64!Dot, A64!DotOn, A64!L16, A64!L4, A64!L8, A64!Ld, A64!BSums
<1> QED BY <1>1, <1>3, <1>4

LEMMA a64Q3_K_Layout ==
    ASSUME NEW b
    PROVE  KRuns(A64!a64VecDotQ3_KKernel(b).dots) /\ Within(A64!a64VecDotQ3_KKernel(b), 110, 292)
<1>1. A64!a64VecDotQ3_KKernel(b).dots = Dots242(a64Q3_K_Dots(b))
  BY DEF A64!a64VecDotQ3_KKernel,
         A64!Form, A64!Dot, A64!DotOn, A64!L16, A64!L4, A64!L8,
         Dots242, a64Q3_K_Dots, a64Q3_K_w, a64Q3_K_s
<1>2. \A j \in 0 .. 1, s \in 0 .. 3, h \in 0 .. 1 :
         /\ a64Q3_K_Dots(b)[j][s][h].y = 4 + 128 * j + 32 * s + 16 * h
         /\ a64Q3_K_Dots(b)[j][s][h].yd = 0 /\ DOMAIN a64Q3_K_Dots(b)[j][s][h].w = 0 .. 15
  <2>1. \A j \in 0 .. 1, s \in 0 .. 3, h \in 0 .. 1 : DOMAIN a64Q3_K_w(b, j, s, h) = 0 .. 15
    BY DEF a64Q3_K_w
  <2> QED BY <2>1 DEF a64Q3_K_Dots, A64!Dot, A64!DotOn
<1>3. KRuns(Dots242(a64Q3_K_Dots(b)))
  BY <1>2, KRuns242
<1>4. Within(A64!a64VecDotQ3_KKernel(b), 110, 292)
  BY DEF Within, A64!a64VecDotQ3_KKernel,
         A64!Form, A64!Dot, A64!DotOn, A64!L16, A64!L4, A64!L8, A64!Ld, A64!BSums
<1> QED BY <1>1, <1>3, <1>4

LEMMA a64IQ4XS_Layout ==
    ASSUME NEW b
    PROVE  KRuns(A64!a64VecDotIQ4XSKernel(b).dots) /\ Within(A64!a64VecDotIQ4XSKernel(b), 136, 292)
<1>1. A64!a64VecDotIQ4XSKernel(b).dots = Dots422(a64IQ4XS_Dots(b))
  BY DEF A64!a64VecDotIQ4XSKernel,
         A64!Form, A64!Dot, A64!DotOn, A64!L16, A64!L4, A64!L8,
         Dots422, a64IQ4XS_Dots, a64IQ4XS_w, a64IQ4XS_s
<1>2. \A p \in 0 .. 3, o \in 0 .. 1, h \in 0 .. 1 :
         /\ a64IQ4XS_Dots(b)[p][o][h].y = 4 + 64 * p + 32 * o + 16 * h
         /\ a64IQ4XS_Dots(b)[p][o][h].yd = 0 /\ DOMAIN a64IQ4XS_Dots(b)[p][o][h].w = 0 .. 15
  <2>1. \A p \in 0 .. 3, o \in 0 .. 1, h \in 0 .. 1 : DOMAIN a64IQ4XS_w(b, p, o, h) = 0 .. 15
    BY DEF a64IQ4XS_w
  <2> QED BY <2>1 DEF a64IQ4XS_Dots, A64!Dot, A64!DotOn
<1>3. KRuns(Dots422(a64IQ4XS_Dots(b)))
  BY <1>2, KRuns422
<1>4. Within(A64!a64VecDotIQ4XSKernel(b), 136, 292)
  BY DEF Within, A64!a64VecDotIQ4XSKernel,
         A64!Form, A64!Dot, A64!DotOn, A64!L16, A64!L4, A64!L8, A64!Ld, A64!BSums
<1> QED BY <1>1, <1>3, <1>4

LEMMA a64TQ2_0_Layout ==
    ASSUME NEW b
    PROVE  KRuns(A64!a64VecDotTQ2_0Kernel(b).dots) /\ Within(A64!a64VecDotTQ2_0Kernel(b), 66, 292)
<1>1. A64!a64VecDotTQ2_0Kernel(b).dots = Dots242(a64TQ2_0_Dots(b))
  BY SMTT(30) DEF A64!a64VecDotTQ2_0Kernel,
         A64!Form, A64!Dot, A64!DotOn, A64!L16, A64!L4, A64!L8,
         Dots242, a64TQ2_0_Dots, a64TQ2_0_w, a64TQ2_0_s
<1>2. \A j \in 0 .. 1, l \in 0 .. 3, h \in 0 .. 1 :
         /\ a64TQ2_0_Dots(b)[j][l][h].y = 4 + 128 * j + 32 * l + 16 * h
         /\ a64TQ2_0_Dots(b)[j][l][h].yd = 0 /\ DOMAIN a64TQ2_0_Dots(b)[j][l][h].w = 0 .. 15
  <2>1. \A j \in 0 .. 1, l \in 0 .. 3, h \in 0 .. 1 : DOMAIN a64TQ2_0_w(b, j, l, h) = 0 .. 15
    BY DEF a64TQ2_0_w
  <2> QED BY <2>1 DEF a64TQ2_0_Dots, A64!Dot, A64!DotOn
<1>3. KRuns(Dots242(a64TQ2_0_Dots(b)))
  BY <1>2, KRuns242
<1>4. Within(A64!a64VecDotTQ2_0Kernel(b), 66, 292)
  BY DEF Within, A64!a64VecDotTQ2_0Kernel,
         A64!Form, A64!Dot, A64!DotOn, A64!L16, A64!L4, A64!L8, A64!Ld, A64!BSums
<1> QED BY <1>1, <1>3, <1>4

LEMMA a64IQ3XXS_Layout ==
    ASSUME NEW b
    PROVE  KRuns(A64!a64VecDotIQ3XXSKernel(b).dots) /\ Within(A64!a64VecDotIQ3XXSKernel(b), 98, 292)
<1>1. A64!a64VecDotIQ3XXSKernel(b).dots = Dots82(a64IQ3XXS_Dots(b))
  BY DEF A64!a64VecDotIQ3XXSKernel, A64!GridDots,
         A64!Form, A64!Dot, A64!DotOn, A64!L16, A64!L4, A64!L8,
         Dots82, a64IQ3XXS_Dots, a64IQ3XXS_w, a64IQ3XXS_s
<1>2. \A g \in 0 .. 7, h \in 0 .. 1 :
         /\ a64IQ3XXS_Dots(b)[g][h].y = 4 + 32 * g + 16 * h
         /\ a64IQ3XXS_Dots(b)[g][h].yd = 0 /\ DOMAIN a64IQ3XXS_Dots(b)[g][h].w = 0 .. 15
  BY Zenon DEF a64IQ3XXS_Dots, a64IQ3XXS_w, A64!Dot, A64!DotOn
<1>3. KRuns(Dots82(a64IQ3XXS_Dots(b)))
  BY <1>2, KRuns82
<1>4. Within(A64!a64VecDotIQ3XXSKernel(b), 98, 292)
  BY DEF Within, A64!a64VecDotIQ3XXSKernel, A64!GridDots,
         A64!Form, A64!Dot, A64!DotOn, A64!L16, A64!L4, A64!L8, A64!Ld, A64!BSums
<1> QED BY <1>1, <1>3, <1>4

LEMMA a64IQ3S_Layout ==
    ASSUME NEW b
    PROVE  KRuns(A64!a64VecDotIQ3SKernel(b).dots) /\ Within(A64!a64VecDotIQ3SKernel(b), 110, 292)
<1>1. A64!a64VecDotIQ3SKernel(b).dots = Dots82(a64IQ3S_Dots(b))
  BY DEF A64!a64VecDotIQ3SKernel, A64!GridDots,
         A64!Form, A64!Dot, A64!DotOn, A64!L16, A64!L4, A64!L8,
         Dots82, a64IQ3S_Dots, a64IQ3S_w, a64IQ3S_s
<1>2. \A g \in 0 .. 7, h \in 0 .. 1 :
         /\ a64IQ3S_Dots(b)[g][h].y = 4 + 32 * g + 16 * h
         /\ a64IQ3S_Dots(b)[g][h].yd = 0 /\ DOMAIN a64IQ3S_Dots(b)[g][h].w = 0 .. 15
  BY Zenon DEF a64IQ3S_Dots, a64IQ3S_w, A64!Dot, A64!DotOn
<1>3. KRuns(Dots82(a64IQ3S_Dots(b)))
  BY <1>2, KRuns82
<1>4. Within(A64!a64VecDotIQ3SKernel(b), 110, 292)
  BY DEF Within, A64!a64VecDotIQ3SKernel, A64!GridDots,
         A64!Form, A64!Dot, A64!DotOn, A64!L16, A64!L4, A64!L8, A64!Ld, A64!BSums
<1> QED BY <1>1, <1>3, <1>4

LEMMA a64IQ1S_Layout ==
    ASSUME NEW b
    PROVE  KRuns(A64!a64VecDotIQ1SKernel(b).dots) /\ Within(A64!a64VecDotIQ1SKernel(b), 50, 292)
<1>1. A64!a64VecDotIQ1SKernel(b).dots = Dots82(a64IQ1S_Dots(b))
  BY DEF A64!a64VecDotIQ1SKernel, A64!GridDots,
         A64!Form, A64!Dot, A64!DotOn, A64!L16, A64!L4, A64!L8,
         Dots82, a64IQ1S_Dots, a64IQ1S_w, a64IQ1S_s
<1>2. \A g \in 0 .. 7, h \in 0 .. 1 :
         /\ a64IQ1S_Dots(b)[g][h].y = 4 + 32 * g + 16 * h
         /\ a64IQ1S_Dots(b)[g][h].yd = 0 /\ DOMAIN a64IQ1S_Dots(b)[g][h].w = 0 .. 15
  BY Zenon DEF a64IQ1S_Dots, a64IQ1S_w, A64!Dot, A64!DotOn
<1>3. KRuns(Dots82(a64IQ1S_Dots(b)))
  BY <1>2, KRuns82
<1>4. Within(A64!a64VecDotIQ1SKernel(b), 50, 292)
  BY DEF Within, A64!a64VecDotIQ1SKernel, A64!GridDots,
         A64!Form, A64!Dot, A64!DotOn, A64!L16, A64!L4, A64!L8, A64!Ld, A64!BSums
<1> QED BY <1>1, <1>3, <1>4

LEMMA a64IQ1M_Layout ==
    ASSUME NEW b
    PROVE  KRuns(A64!a64VecDotIQ1MKernel(b).dots) /\ Within(A64!a64VecDotIQ1MKernel(b), 56, 292)
<1>1. A64!a64VecDotIQ1MKernel(b).dots = Dots82(a64IQ1M_Dots(b))
  BY DEF A64!a64VecDotIQ1MKernel, A64!GridDots,
         A64!Form, A64!Dot, A64!DotOn, A64!L16, A64!L4, A64!L8,
         Dots82, a64IQ1M_Dots, a64IQ1M_w, a64IQ1M_s
<1>2. \A g \in 0 .. 7, h \in 0 .. 1 :
         /\ a64IQ1M_Dots(b)[g][h].y = 4 + 32 * g + 16 * h
         /\ a64IQ1M_Dots(b)[g][h].yd = 0 /\ DOMAIN a64IQ1M_Dots(b)[g][h].w = 0 .. 15
  BY Zenon DEF a64IQ1M_Dots, a64IQ1M_w, A64!Dot, A64!DotOn
<1>3. KRuns(Dots82(a64IQ1M_Dots(b)))
  BY <1>2, KRuns82
<1>4. Within(A64!a64VecDotIQ1MKernel(b), 56, 292)
  BY DEF Within, A64!a64VecDotIQ1MKernel, A64!GridDots,
         A64!Form, A64!Dot, A64!DotOn, A64!L16, A64!L4, A64!L8, A64!Ld, A64!BSums
<1> QED BY <1>1, <1>3, <1>4

LEMMA a64IQ2XXS_Layout ==
    ASSUME NEW b
    PROVE  KRuns(A64!a64VecDotIQ2("iq2_xxs", b).dots) /\ Within(A64!a64VecDotIQ2("iq2_xxs", b), 66, 292)
<1>1. A64!a64VecDotIQ2("iq2_xxs", b).dots = Dots82(a64IQ2XXS_Dots(b))
  BY DEF A64!a64VecDotIQ2, A64!GridDots,
         A64!Form, A64!Dot, A64!DotOn, A64!L16, A64!L4, A64!L8,
         Dots82, a64IQ2XXS_Dots, a64IQ2XXS_w, a64IQ2XXS_s
<1>2. \A g \in 0 .. 7, h \in 0 .. 1 :
         /\ a64IQ2XXS_Dots(b)[g][h].y = 4 + 32 * g + 16 * h
         /\ a64IQ2XXS_Dots(b)[g][h].yd = 0 /\ DOMAIN a64IQ2XXS_Dots(b)[g][h].w = 0 .. 15
  BY Zenon DEF a64IQ2XXS_Dots, a64IQ2XXS_w, A64!Dot, A64!DotOn
<1>3. KRuns(Dots82(a64IQ2XXS_Dots(b)))
  BY <1>2, KRuns82
<1>4. Within(A64!a64VecDotIQ2("iq2_xxs", b), 66, 292)
  BY DEF Within, A64!a64VecDotIQ2, A64!GridDots,
         A64!Form, A64!Dot, A64!DotOn, A64!L16, A64!L4, A64!L8, A64!Ld, A64!BSums
<1> QED BY <1>1, <1>3, <1>4

LEMMA a64IQ2XS_Layout ==
    ASSUME NEW b
    PROVE  KRuns(A64!a64VecDotIQ2("iq2_xs", b).dots) /\ Within(A64!a64VecDotIQ2("iq2_xs", b), 74, 292)
<1>1. A64!a64VecDotIQ2("iq2_xs", b).dots = Dots82(a64IQ2XS_Dots(b))
  BY DEF A64!a64VecDotIQ2, A64!GridDots,
         A64!Form, A64!Dot, A64!DotOn, A64!L16, A64!L4, A64!L8,
         Dots82, a64IQ2XS_Dots, a64IQ2XS_w, a64IQ2XS_s
<1>2. \A g \in 0 .. 7, h \in 0 .. 1 :
         /\ a64IQ2XS_Dots(b)[g][h].y = 4 + 32 * g + 16 * h
         /\ a64IQ2XS_Dots(b)[g][h].yd = 0 /\ DOMAIN a64IQ2XS_Dots(b)[g][h].w = 0 .. 15
  BY Zenon DEF a64IQ2XS_Dots, a64IQ2XS_w, A64!Dot, A64!DotOn
<1>3. KRuns(Dots82(a64IQ2XS_Dots(b)))
  BY <1>2, KRuns82
<1>4. Within(A64!a64VecDotIQ2("iq2_xs", b), 74, 292)
  BY DEF Within, A64!a64VecDotIQ2, A64!GridDots,
         A64!Form, A64!Dot, A64!DotOn, A64!L16, A64!L4, A64!L8, A64!Ld, A64!BSums
<1> QED BY <1>1, <1>3, <1>4

LEMMA a64IQ2S_Layout ==
    ASSUME NEW b
    PROVE  KRuns(A64!a64VecDotIQ2("iq2_s", b).dots) /\ Within(A64!a64VecDotIQ2("iq2_s", b), 82, 292)
<1>1. A64!a64VecDotIQ2("iq2_s", b).dots = Dots82(a64IQ2S_Dots(b))
  BY DEF A64!a64VecDotIQ2, A64!GridDots,
         A64!Form, A64!Dot, A64!DotOn, A64!L16, A64!L4, A64!L8,
         Dots82, a64IQ2S_Dots, a64IQ2S_w, a64IQ2S_s
<1>2. \A g \in 0 .. 7, h \in 0 .. 1 :
         /\ a64IQ2S_Dots(b)[g][h].y = 4 + 32 * g + 16 * h
         /\ a64IQ2S_Dots(b)[g][h].yd = 0 /\ DOMAIN a64IQ2S_Dots(b)[g][h].w = 0 .. 15
  BY Zenon DEF a64IQ2S_Dots, a64IQ2S_w, A64!Dot, A64!DotOn
<1>3. KRuns(Dots82(a64IQ2S_Dots(b)))
  BY <1>2, KRuns82
<1>4. Within(A64!a64VecDotIQ2("iq2_s", b), 82, 292)
  BY DEF Within, A64!a64VecDotIQ2, A64!GridDots,
         A64!Form, A64!Dot, A64!DotOn, A64!L16, A64!L4, A64!L8, A64!Ld, A64!BSums
<1> QED BY <1>1, <1>3, <1>4

-----------------------------------------------------------------------------
(* The row dots of arm64 over one q8_0 or q8_1 block: two dots.            *)

Pair(first, lo, hi) == {A64!Dot(first, lo, 1), A64!Dot(first + 16, hi, 1)}

LEMMA PairRuns ==
    ASSUME NEW lo, NEW hi, DOMAIN lo = 0 .. 15, DOMAIN hi = 0 .. 15
    PROVE  /\ Runs(Pair(2, lo, hi), 2, 16, 1, 15, 0)
           /\ Runs(Pair(4, lo, hi), 4, 16, 1, 15, 0)
<1>1. ASSUME NEW first \in {2, 4}
      PROVE  Runs(Pair(first, lo, hi), first, 16, 1, 15, 0)
  <2> DEFINE d0 == A64!Dot(first, lo, 1)
             d1 == A64!Dot(first + 16, hi, 1)
  <2>1. /\ d0.y = first /\ d0.yd = 0 /\ DOMAIN d0.w = 0 .. 15
        /\ d1.y = first + 16 /\ d1.yd = 0 /\ DOMAIN d1.w = 0 .. 15
    BY DEF A64!Dot, A64!DotOn
  <2> HIDE DEF d0, d1
  <2>2. first + 16 * 0 = first /\ first + 16 * 1 = first + 16 /\ first # first + 16
    OBVIOUS
  <2>3. \A d \in {d0, d1} : \E g \in 0 .. 1 :
            d.y = first + 16 * g /\ d.yd = 0 /\ DOMAIN d.w = 0 .. 15
    BY <2>1, <2>2, 0 \in 0 .. 1, 1 \in 0 .. 1
  <2>4. \A g \in 0 .. 1 : \E d \in {d0, d1} : d.y = first + 16 * g
    <3> TAKE g \in 0 .. 1
    <3>1. g = 0 \/ g = 1
      OBVIOUS
    <3> QED BY <2>1, <2>2, <3>1
  <2>5. \A d, e \in {d0, d1} : d.y = e.y => d = e
    BY <2>1, <2>2
  <2> QED BY <2>3, <2>4, <2>5 DEF Pair, Runs, d0, d1
<1> QED BY <1>1

LEMMA a64Q4_0_Layout ==
    ASSUME NEW b
    PROVE  Runs(A64!a64VecDotLegacy("q4_0", b).dots, 2, 16, 1, 15, 0) /\ Within(A64!a64VecDotLegacy("q4_0", b), 18, 34)
<1>1. A64!a64VecDotLegacy("q4_0", b).dots
      = Pair(2, a64Q4_0_lo(b), a64Q4_0_hi(b))
  BY DEF A64!a64VecDotLegacy, A64!Form, A64!L16, Pair, a64Q4_0_lo, a64Q4_0_hi
<1>2. DOMAIN a64Q4_0_lo(b) = 0 .. 15 /\ DOMAIN a64Q4_0_hi(b) = 0 .. 15
  BY DEF a64Q4_0_lo, a64Q4_0_hi
<1>3. Within(A64!a64VecDotLegacy("q4_0", b), 18, 34)
  BY DEF Within, A64!a64VecDotLegacy, A64!Form, A64!Dot, A64!DotOn, A64!L16, A64!L4, A64!L8, A64!Ld
<1> QED BY <1>1, <1>2, <1>3, PairRuns

LEMMA a64Q8_0_Layout ==
    ASSUME NEW b
    PROVE  Runs(A64!a64VecDotLegacy("q8_0", b).dots, 2, 16, 1, 15, 0) /\ Within(A64!a64VecDotLegacy("q8_0", b), 34, 34)
<1>1. A64!a64VecDotLegacy("q8_0", b).dots
      = Pair(2, a64Q8_0_lo(b), a64Q8_0_hi(b))
  BY DEF A64!a64VecDotLegacy, A64!Form, A64!L16, Pair, a64Q8_0_lo, a64Q8_0_hi
<1>2. DOMAIN a64Q8_0_lo(b) = 0 .. 15 /\ DOMAIN a64Q8_0_hi(b) = 0 .. 15
  BY DEF a64Q8_0_lo, a64Q8_0_hi
<1>3. Within(A64!a64VecDotLegacy("q8_0", b), 34, 34)
  BY DEF Within, A64!a64VecDotLegacy, A64!Form, A64!Dot, A64!DotOn, A64!L16, A64!L4, A64!L8, A64!Ld
<1> QED BY <1>1, <1>2, <1>3, PairRuns

LEMMA a64Q5_0_Layout ==
    ASSUME NEW b
    PROVE  Runs(A64!a64VecDotQ5_0Kernel(b).dots, 2, 16, 1, 15, 0) /\ Within(A64!a64VecDotQ5_0Kernel(b), 22, 34)
<1>1. A64!a64VecDotQ5_0Kernel(b).dots
      = Pair(2, a64Q5_0_lo(b), a64Q5_0_hi(b))
  BY DEF A64!a64VecDotQ5_0Kernel, A64!Form, A64!L16, Pair, a64Q5_0_lo, a64Q5_0_hi
<1>2. DOMAIN a64Q5_0_lo(b) = 0 .. 15 /\ DOMAIN a64Q5_0_hi(b) = 0 .. 15
  BY DEF a64Q5_0_lo, a64Q5_0_hi
<1>3. Within(A64!a64VecDotQ5_0Kernel(b), 22, 34)
  BY DEF Within, A64!a64VecDotQ5_0Kernel, A64!Form, A64!Dot, A64!DotOn, A64!L16, A64!L4, A64!L8, A64!Ld
<1> QED BY <1>1, <1>2, <1>3, PairRuns

LEMMA a64Q4_1_Layout ==
    ASSUME NEW b
    PROVE  Runs(A64!a64VecDotQx1Kernel(FALSE, b).dots, 4, 16, 1, 15, 0) /\ Within(A64!a64VecDotQx1Kernel(FALSE, b), 20, 36)
<1>1. A64!a64VecDotQx1Kernel(FALSE, b).dots
      = Pair(4, a64Q4_1_lo(b), a64Q4_1_hi(b))
  BY DEF A64!a64VecDotQx1Kernel, A64!Form, A64!L16, Pair, a64Q4_1_lo, a64Q4_1_hi
<1>2. DOMAIN a64Q4_1_lo(b) = 0 .. 15 /\ DOMAIN a64Q4_1_hi(b) = 0 .. 15
  BY DEF a64Q4_1_lo, a64Q4_1_hi
<1>3. Within(A64!a64VecDotQx1Kernel(FALSE, b), 20, 36)
  BY DEF Within, A64!a64VecDotQx1Kernel, A64!Form, A64!Dot, A64!DotOn, A64!L16, A64!L4, A64!L8, A64!Ld
<1> QED BY <1>1, <1>2, <1>3, PairRuns

LEMMA a64Q5_1_Layout ==
    ASSUME NEW b
    PROVE  Runs(A64!a64VecDotQx1Kernel(TRUE, b).dots, 4, 16, 1, 15, 0) /\ Within(A64!a64VecDotQx1Kernel(TRUE, b), 24, 36)
<1>1. A64!a64VecDotQx1Kernel(TRUE, b).dots
      = Pair(4, a64Q5_1_lo(b), a64Q5_1_hi(b))
  BY DEF A64!a64VecDotQx1Kernel, A64!Form, A64!L16, Pair, a64Q5_1_lo, a64Q5_1_hi
<1>2. DOMAIN a64Q5_1_lo(b) = 0 .. 15 /\ DOMAIN a64Q5_1_hi(b) = 0 .. 15
  BY DEF a64Q5_1_lo, a64Q5_1_hi
<1>3. Within(A64!a64VecDotQx1Kernel(TRUE, b), 24, 36)
  BY DEF Within, A64!a64VecDotQx1Kernel, A64!Form, A64!Dot, A64!DotOn, A64!L16, A64!L4, A64!L8, A64!Ld
<1> QED BY <1>1, <1>2, <1>3, PairRuns

LEMMA a64MXFP4_Layout ==
    ASSUME NEW b
    PROVE  Runs(A64!a64VecDotLUT32("mxfp4", b).dots, 2, 16, 1, 15, 0) /\ Within(A64!a64VecDotLUT32("mxfp4", b), 17, 34)
<1>1. A64!a64VecDotLUT32("mxfp4", b).dots
      = Pair(2, a64MXFP4_lo(b), a64MXFP4_hi(b))
  BY DEF A64!a64VecDotLUT32, A64!Form, A64!L16, Pair, a64MXFP4_lo, a64MXFP4_hi
<1>2. DOMAIN a64MXFP4_lo(b) = 0 .. 15 /\ DOMAIN a64MXFP4_hi(b) = 0 .. 15
  BY DEF a64MXFP4_lo, a64MXFP4_hi
<1>3. Within(A64!a64VecDotLUT32("mxfp4", b), 17, 34)
  BY DEF Within, A64!a64VecDotLUT32, A64!Form, A64!Dot, A64!DotOn, A64!L16, A64!L4, A64!L8, A64!Ld
<1> QED BY <1>1, <1>2, <1>3, PairRuns

LEMMA a64IQ4NL_Layout ==
    ASSUME NEW b
    PROVE  Runs(A64!a64VecDotLUT32("iq4_nl", b).dots, 2, 16, 1, 15, 0) /\ Within(A64!a64VecDotLUT32("iq4_nl", b), 18, 34)
<1>1. A64!a64VecDotLUT32("iq4_nl", b).dots
      = Pair(2, a64IQ4NL_lo(b), a64IQ4NL_hi(b))
  BY DEF A64!a64VecDotLUT32, A64!Form, A64!L16, Pair, a64IQ4NL_lo, a64IQ4NL_hi
<1>2. DOMAIN a64IQ4NL_lo(b) = 0 .. 15 /\ DOMAIN a64IQ4NL_hi(b) = 0 .. 15
  BY DEF a64IQ4NL_lo, a64IQ4NL_hi
<1>3. Within(A64!a64VecDotLUT32("iq4_nl", b), 18, 34)
  BY DEF Within, A64!a64VecDotLUT32, A64!Form, A64!Dot, A64!DotOn, A64!L16, A64!L4, A64!L8, A64!Ld
<1> QED BY <1>1, <1>2, <1>3, PairRuns

-----------------------------------------------------------------------------
(* Several q8_0 blocks side by side, each with its own scale, in dots of   *)
(* n lanes: dot h of block q.                                              *)
BlockRuns(dots, blocks, n, top, last) ==
    /\ \A d \in dots : \E q \in 0 .. blocks, h \in 0 .. top :
           d.y = 34 * q + 2 + n * h /\ d.yd = 34 * q /\ DOMAIN d.w = 0 .. last
    /\ \A q \in 0 .. blocks, h \in 0 .. top : \E d \in dots : d.y = 34 * q + 2 + n * h
    /\ \A d, e \in dots : d.y = e.y => d = e

LEMMA Seat0s ==
    ASSUME NEW k \in Nat
    PROVE  /\ QuantAt(Activations.q8_0, 0, k) = 34 * (k \div 32) + 2 + (k % 32)
           /\ ScaleAt(Activations.q8_0, 0, k) = 34 * (k \div 32)
<1>1. (k % 32) \div 32 = 0 /\ (k % 32) % 32 = k % 32 /\ k % 32 \in 0 .. 31 /\ k \div 32 \in Int
  OBVIOUS
<1> QED BY <1>1, Acts DEF QuantAt, ScaleAt

(* Dot h of n lanes of block q.                                            *)
BlockAt(blocks, n, top) == [g \in (0 .. blocks) \X (0 .. top) |-> 34 * g[1] + 2 + n * g[2]]
BlockScale(blocks, top) == [g \in (0 .. blocks) \X (0 .. top) |-> 34 * g[1]]

LEMMA BlocksOnce ==
    ASSUME NEW f, NEW blocks \in {1, 3}, NEW n, NEW top, NEW last,
           (n = 8 /\ top = 3 /\ last = 7) \/ (n = 16 /\ top = 1 /\ last = 15)
               \/ (n = 32 /\ top = 0 /\ last = 31),
           BlockRuns(f.dots, blocks, n, top, last)
    PROVE  Once(f, Activations.q8_0, 0, 0 .. 32 * blocks + 31)
<1> DEFINE a == Activations.q8_0
           G == (0 .. blocks) \X (0 .. top)
           y == BlockAt(blocks, n, top)
           yd == BlockScale(blocks, top)
           L == 0 .. last
           K == 0 .. 32 * blocks + 31
<1>1. \A q \in 0 .. blocks, h \in 0 .. top :
          /\ <<q, h>> \in G /\ y[<<q, h>>] = 34 * q + 2 + n * h /\ yd[<<q, h>>] = 34 * q
  BY DEF BlockAt, BlockScale
<1>2. \A g \in G : g[1] \in 0 .. blocks /\ g[2] \in 0 .. top /\ g = <<g[1], g[2]>>
  OBVIOUS
<1>3. \A q \in 0 .. blocks, h \in 0 .. top : \A m \in 0 .. last :
          /\ 32 * q + n * h + m \in K
          /\ (32 * q + n * h + m) \div 32 = q /\ (32 * q + n * h + m) % 32 = n * h + m
  <2>1. CASE n = 8 /\ top = 3 /\ last = 7
    BY <2>1
  <2>2. CASE n = 16 /\ top = 1 /\ last = 15
    BY <2>2
  <2>3. CASE n = 32 /\ top = 0 /\ last = 31
    BY <2>3
  <2> QED BY <2>1, <2>2, <2>3
<1>4. \A k \in K : /\ k \div 32 \in 0 .. blocks
                   /\ (k % 32) \div n \in 0 .. top /\ (k % 32) % n \in 0 .. last
                   /\ k % 32 = n * ((k % 32) \div n) + ((k % 32) % n)
  <2>1. CASE n = 8 /\ top = 3 /\ last = 7
    BY <2>1
  <2>2. CASE n = 16 /\ top = 1 /\ last = 15
    BY <2>2
  <2>3. CASE n = 32 /\ top = 0 /\ last = 31
    BY <2>3
  <2> QED BY <2>1, <2>2, <2>3
<1>5. ASSUME NEW q \in 0 .. blocks, NEW p \in 0 .. blocks, NEW h \in 0 .. top, NEW j \in 0 .. top,
             NEW m \in L, NEW l \in L, 34 * q + 2 + n * h + m = 34 * p + 2 + n * j + l
      PROVE  q = p /\ h = j
  <2>1. CASE n = 8 /\ top = 3 /\ last = 7
    BY <1>5, <2>1
  <2>2. CASE n = 16 /\ top = 1 /\ last = 15
    BY <1>5, <2>2
  <2>3. CASE n = 32 /\ top = 0 /\ last = 31
    BY <1>5, <2>3
  <2> QED BY <2>1, <2>2, <2>3
<1>6. n \in Int
  OBVIOUS
<1>7. \A k \in K : k \in Nat
  OBVIOUS
<1> HIDE DEF a, G, y, yd, K
<1>8. Covers(f.dots, G, y, yd, Constant(L, G))
  <2>1. \A d \in f.dots : \E g \in G : d.y = y[g] /\ d.yd = yd[g] /\ DOMAIN d.w = Constant(L, G)[g]
    <3> TAKE d \in f.dots
    <3>1. PICK q \in 0 .. blocks, h \in 0 .. top :
              d.y = 34 * q + 2 + n * h /\ d.yd = 34 * q /\ DOMAIN d.w = 0 .. last
      BY DEF BlockRuns
    <3>2. Constant(L, G)[<<q, h>>] = L
      BY <1>1 DEF Constant
    <3> QED BY <1>1, <3>1, <3>2
  <2>2. \A g \in G : \E d \in f.dots : d.y = y[g]
    <3> TAKE g \in G
    <3>1. PICK d \in f.dots : d.y = 34 * g[1] + 2 + n * g[2]
      BY <1>2 DEF BlockRuns
    <3>2. y[<<g[1], g[2]>>] = 34 * g[1] + 2 + n * g[2]
      BY <1>1, <1>2
    <3> QED BY <1>2, <3>1, <3>2
  <2> QED BY <2>1, <2>2 DEF Covers, BlockRuns
<1>9. Seats(a, 0, K, G, y, yd, Constant(L, G))
  <2>1. \A g \in G : y[g] \in Int
    <3> TAKE g \in G
    <3>1. y[<<g[1], g[2]>>] = 34 * g[1] + 2 + n * g[2]
      BY <1>1, <1>2
    <3>2. g[1] \in Int /\ g[2] \in Int
      BY <1>2
    <3>3. n * g[2] \in Int
      BY <1>6, <3>2
    <3> QED BY <1>2, <3>1, <3>2, <3>3
  <2>2. ASSUME NEW g \in G, NEW e \in G, NEW m \in L, NEW l \in L, y[g] + m = y[e] + l
        PROVE  g = e
    <3>1. /\ y[<<g[1], g[2]>>] = 34 * g[1] + 2 + n * g[2]
          /\ y[<<e[1], e[2]>>] = 34 * e[1] + 2 + n * e[2]
      BY <1>1, <1>2
    <3>2. 34 * g[1] + 2 + n * g[2] + m = 34 * e[1] + 2 + n * e[2] + l
      BY <1>2, <2>2, <3>1
    <3>3. g[1] = e[1] /\ g[2] = e[2]
      BY <1>2, <1>5, <3>2
    <3> QED BY <1>2, <3>3
  <2>3. ASSUME NEW k \in K
        PROVE  \E g \in G : \E m \in L : QuantAt(a, 0, k) = y[g] + m /\ ScaleAt(a, 0, k) = yd[g]
    <3> DEFINE q == k \div 32
               h == (k % 32) \div n
               m == (k % 32) % n
    <3>1. q \in 0 .. blocks /\ h \in 0 .. top /\ m \in L /\ k % 32 = n * h + m
      BY <1>4
    <3>2. QuantAt(a, 0, k) = 34 * q + 2 + (k % 32) /\ ScaleAt(a, 0, k) = 34 * q
      BY <1>7, Seat0s DEF a
    <3> HIDE DEF q, h, m
    <3>3. <<q, h>> \in G /\ y[<<q, h>>] = 34 * q + 2 + n * h /\ yd[<<q, h>>] = 34 * q
      BY <1>1, <3>1
    <3>4. q \in Int /\ h \in Int /\ m \in Int
      BY <3>1
    <3>5. n * h \in Int
      BY <1>6, <3>4
    <3>6. QuantAt(a, 0, k) = y[<<q, h>>] + m
      BY ONLY <3>1, <3>2, <3>3, <3>4, <3>5
    <3> QED BY <3>1, <3>2, <3>3, <3>6
  <2>4. ASSUME NEW g \in G, NEW m \in L
        PROVE  \E k \in K : y[g] + m = QuantAt(a, 0, k)
    <3> DEFINE q == g[1]
               h == g[2]
               k == 32 * q + n * h + m
    <3>1. q \in 0 .. blocks /\ h \in 0 .. top /\ g = <<q, h>>
      BY <1>2
    <3>2. k \in K /\ k \div 32 = q /\ k % 32 = n * h + m
      BY <1>3, <3>1
    <3> HIDE DEF k
    <3>3. QuantAt(a, 0, k) = 34 * (k \div 32) + 2 + (k % 32)
      BY <1>7, <3>2, Seat0s DEF a
    <3>4. y[<<q, h>>] = 34 * q + 2 + n * h
      BY <1>1, <3>1
    <3>5. q \in Int /\ h \in Int /\ m \in Int
      BY <3>1
    <3>6. n * h \in Int
      BY <1>6, <3>5
    <3>7. y[g] + m = QuantAt(a, 0, k)
      BY <3>1, <3>2, <3>3, <3>4, <3>5, <3>6
    <3> QED BY <3>2, <3>7
  <2>5. L \subseteq Int /\ 0 \in L
    OBVIOUS
  <2> HIDE DEF L
  <2> QED BY ONLY <2>1, <2>2, <2>3, <2>4, <2>5, RunsSeats
<1> HIDE DEF L
<1>10. Once(f, a, 0, K)
  BY ONLY <1>8, <1>9, CoversOnce
<1> QED BY <1>10 DEF a, K

(* Dots under two indices.                                                 *)
Grid2(D, P, H) == {D[p][h] : p \in P, h \in H}

LEMMA InGrid2 ==
    ASSUME NEW D, NEW P, NEW H, NEW p \in P, NEW h \in H
    PROVE  D[p][h] \in Grid2(D, P, H)
BY DEF Grid2

LEMMA GridBlocks ==
    ASSUME NEW D, NEW blocks \in {1, 3}, NEW n, NEW top, NEW last,
           (n = 16 /\ top = 1 /\ last = 15) \/ (n = 32 /\ top = 0 /\ last = 31),
           \A q \in 0 .. blocks, h \in 0 .. top :
               /\ D[q][h].y = 34 * q + 2 + n * h
               /\ D[q][h].yd = 34 * q /\ DOMAIN D[q][h].w = 0 .. last
    PROVE  BlockRuns(Grid2(D, 0 .. blocks, 0 .. top), blocks, n, top, last)
<1>1. ASSUME NEW d \in Grid2(D, 0 .. blocks, 0 .. top)
      PROVE  \E q \in 0 .. blocks, h \in 0 .. top :
                 /\ d = D[q][h] /\ d.y = 34 * q + 2 + n * h
                 /\ d.yd = 34 * q /\ DOMAIN d.w = 0 .. last
  <2>1. PICK q \in 0 .. blocks, h \in 0 .. top : d = D[q][h]
    BY DEF Grid2
  <2> QED BY <2>1
<1>2. ASSUME NEW q \in 0 .. blocks, NEW h \in 0 .. top
      PROVE  \E d \in Grid2(D, 0 .. blocks, 0 .. top) : d.y = 34 * q + 2 + n * h
  <2>1. D[q][h] \in Grid2(D, 0 .. blocks, 0 .. top)
    BY InGrid2
  <2> QED BY <2>1
<1>3. ASSUME NEW d \in Grid2(D, 0 .. blocks, 0 .. top), NEW e \in Grid2(D, 0 .. blocks, 0 .. top), d.y = e.y
      PROVE  d = e
  <2>1. PICK q \in 0 .. blocks, h \in 0 .. top : d = D[q][h] /\ d.y = 34 * q + 2 + n * h
    BY <1>1
  <2>2. PICK p \in 0 .. blocks, j \in 0 .. top : e = D[p][j] /\ e.y = 34 * p + 2 + n * j
    BY <1>1
  <2>3. 34 * q + 2 + n * h = 34 * p + 2 + n * j
    BY <1>3, <2>1, <2>2
  <2>4. q = p /\ h = j
    <3>1. CASE n = 16 /\ top = 1
      BY <2>3, <3>1
    <3>2. CASE n = 32 /\ top = 0
      BY <2>3, <3>2
    <3> QED BY <3>1, <3>2
  <2> QED BY <2>1, <2>2, <2>4
<1> QED BY <1>1, <1>2, <1>3 DEF BlockRuns

(* nvfp4 indexes its dots by runs of 16 quants, two of a block.            *)
LEMMA HalfBlocks ==
    ASSUME NEW D, NEW n, NEW per, NEW top, NEW last,
           (n = 8 /\ per = 1 /\ top = 3 /\ last = 7) \/ (n = 16 /\ per = 0 /\ top = 1 /\ last = 15),
           \A s \in 0 .. 3, h \in 0 .. per :
               /\ D[s][h].y = 34 * (s \div 2) + 2 + (s % 2) * 16 + n * h
               /\ D[s][h].yd = 34 * (s \div 2) /\ DOMAIN D[s][h].w = 0 .. last
    PROVE  BlockRuns(Grid2(D, 0 .. 3, 0 .. per), 1, n, top, last)
<1>1. ASSUME NEW d \in Grid2(D, 0 .. 3, 0 .. per)
      PROVE  \E s \in 0 .. 3, h \in 0 .. per :
                 /\ d = D[s][h] /\ d.y = 34 * (s \div 2) + 2 + (s % 2) * 16 + n * h
                 /\ d.yd = 34 * (s \div 2) /\ DOMAIN d.w = 0 .. last
  <2>1. PICK s \in 0 .. 3, h \in 0 .. per : d = D[s][h]
    BY DEF Grid2
  <2> QED BY <2>1
<1>2. ASSUME NEW d \in Grid2(D, 0 .. 3, 0 .. per)
      PROVE  \E q \in 0 .. 1, h \in 0 .. top :
                 d.y = 34 * q + 2 + n * h /\ d.yd = 34 * q /\ DOMAIN d.w = 0 .. last
  <2>1. PICK s \in 0 .. 3, h \in 0 .. per :
            /\ d.y = 34 * (s \div 2) + 2 + (s % 2) * 16 + n * h
            /\ d.yd = 34 * (s \div 2) /\ DOMAIN d.w = 0 .. last
    BY <1>1
  <2>2. s \div 2 \in 0 .. 1
    OBVIOUS
  <2>3. \E j \in 0 .. top : (s % 2) * 16 + n * h = n * j
    <3>1. CASE n = 8 /\ per = 1 /\ top = 3
      <4>1. (2 * (s % 2) + h) \in 0 .. 3 /\ (s % 2) * 16 + 8 * h = 8 * (2 * (s % 2) + h)
        BY <3>1
      <4> QED BY <3>1, <4>1
    <3>2. CASE n = 16 /\ per = 0 /\ top = 1
      <4>1. (s % 2) \in 0 .. 1 /\ h = 0 /\ (s % 2) * 16 + 16 * h = 16 * (s % 2)
        BY <3>2
      <4> QED BY <3>2, <4>1
    <3> QED BY <3>1, <3>2
  <2>4. PICK j \in 0 .. top : (s % 2) * 16 + n * h = n * j
    BY <2>3
  <2>5. d.y = 34 * (s \div 2) + 2 + n * j
    <3>1. s % 2 \in Int /\ s \div 2 \in Int /\ n * h \in Int /\ n * j \in Int
      OBVIOUS
    <3> QED BY <2>1, <2>4, <3>1
  <2> QED BY <2>1, <2>2, <2>5
<1>3. ASSUME NEW q \in 0 .. 1, NEW h \in 0 .. top
      PROVE  \E d \in Grid2(D, 0 .. 3, 0 .. per) : d.y = 34 * q + 2 + n * h
  <2>1. CASE n = 8 /\ per = 1 /\ top = 3
    <3> DEFINE s == 2 * q + h \div 2
    <3>1. s \in 0 .. 3 /\ h % 2 \in 0 .. 1 /\ s \div 2 = q /\ s % 2 = h \div 2
          /\ (h \div 2) * 16 + 8 * (h % 2) = 8 * h
      BY <2>1
    <3> HIDE DEF s
    <3>2. D[s][h % 2].y = 34 * (s \div 2) + 2 + (s % 2) * 16 + n * (h % 2)
      BY <2>1, <3>1
    <3>3. D[s][h % 2].y = 34 * q + 2 + n * h
      BY <2>1, <3>1, <3>2
    <3>4. D[s][h % 2] \in Grid2(D, 0 .. 3, 0 .. per)
      BY <2>1, <3>1 DEF Grid2
    <3> QED BY <3>3, <3>4
  <2>2. CASE n = 16 /\ per = 0 /\ top = 1
    <3> DEFINE s == 2 * q + h
    <3>1. s \in 0 .. 3 /\ 0 \in 0 .. 0 /\ s \div 2 = q /\ s % 2 = h
      BY <2>2
    <3> HIDE DEF s
    <3>2. D[s][0].y = 34 * (s \div 2) + 2 + (s % 2) * 16 + n * 0
      BY <2>2, <3>1
    <3>3. D[s][0].y = 34 * q + 2 + n * h
      BY <2>2, <3>1, <3>2
    <3>4. D[s][0] \in Grid2(D, 0 .. 3, 0 .. per)
      BY <2>2, <3>1 DEF Grid2
    <3> QED BY <3>3, <3>4
  <2> QED BY <2>1, <2>2
<1>4. ASSUME NEW d \in Grid2(D, 0 .. 3, 0 .. per), NEW e \in Grid2(D, 0 .. 3, 0 .. per), d.y = e.y
      PROVE  d = e
  <2>1. PICK s \in 0 .. 3, h \in 0 .. per :
            d = D[s][h] /\ d.y = 34 * (s \div 2) + 2 + (s % 2) * 16 + n * h
    BY <1>1
  <2>2. PICK t \in 0 .. 3, j \in 0 .. per :
            e = D[t][j] /\ e.y = 34 * (t \div 2) + 2 + (t % 2) * 16 + n * j
    BY <1>1
  <2>3. 34 * (s \div 2) + 2 + (s % 2) * 16 + n * h = 34 * (t \div 2) + 2 + (t % 2) * 16 + n * j
    BY <1>4, <2>1, <2>2
  <2>4. s = t /\ h = j
    <3>1. CASE n = 8 /\ per = 1
      BY <2>3, <3>1
    <3>2. CASE n = 16 /\ per = 0
      BY <2>3, <3>2
    <3> QED BY <3>1, <3>2
  <2> QED BY <2>1, <2>2, <2>4
<1> QED BY <1>2, <1>3, <1>4 DEF BlockRuns

LEMMA a64Q1_0_Layout ==
    ASSUME NEW b
    PROVE  BlockRuns(A64!a64VecDotQ1_0Kernel(b).dots, 3, 16, 1, 15) /\ Within(A64!a64VecDotQ1_0Kernel(b), 18, 136)
<1>1. A64!a64VecDotQ1_0Kernel(b).dots = Grid2(a64Q1_0_Dots(b), 0 .. 3, 0 .. 1)
  BY DEF A64!a64VecDotQ1_0Kernel, A64!Form, A64!Dot, A64!DotOn, A64!L16, A64!L4, A64!L8,
         Grid2, a64Q1_0_Dots, a64Q1_0_w
<1>2. \A k \in 0 .. 3, h \in 0 .. 1 :
         /\ a64Q1_0_Dots(b)[k][h].y = 34 * k + 2 + 16 * h
         /\ a64Q1_0_Dots(b)[k][h].yd = 34 * k /\ DOMAIN a64Q1_0_Dots(b)[k][h].w = 0 .. 15
  BY DEF a64Q1_0_Dots, a64Q1_0_w, A64!DotOn
<1>3. BlockRuns(Grid2(a64Q1_0_Dots(b), 0 .. 3, 0 .. 1), 3, 16, 1, 15)
  BY <1>2, GridBlocks
<1>4. Within(A64!a64VecDotQ1_0Kernel(b), 18, 136)
  BY DEF Within, A64!a64VecDotQ1_0Kernel, A64!Form, A64!Dot, A64!DotOn, A64!L16, A64!L4, A64!L8, A64!Ld
<1> QED BY <1>1, <1>3, <1>4

LEMMA a64Q2_0_Layout ==
    ASSUME NEW b
    PROVE  BlockRuns(A64!a64VecDotQ2_0Kernel(b).dots, 1, 16, 1, 15) /\ Within(A64!a64VecDotQ2_0Kernel(b), 18, 68)
<1>1. A64!a64VecDotQ2_0Kernel(b).dots = Grid2(a64Q2_0_Dots(b), 0 .. 1, 0 .. 1)
  BY DEF A64!a64VecDotQ2_0Kernel, A64!Form, A64!Dot, A64!DotOn, A64!L16, A64!L4, A64!L8,
         Grid2, a64Q2_0_Dots, a64Q2_0_w
<1>2. \A k \in 0 .. 1, h \in 0 .. 1 :
         /\ a64Q2_0_Dots(b)[k][h].y = 34 * k + 2 + 16 * h
         /\ a64Q2_0_Dots(b)[k][h].yd = 34 * k /\ DOMAIN a64Q2_0_Dots(b)[k][h].w = 0 .. 15
  BY DEF a64Q2_0_Dots, a64Q2_0_w, A64!DotOn
<1>3. BlockRuns(Grid2(a64Q2_0_Dots(b), 0 .. 1, 0 .. 1), 1, 16, 1, 15)
  BY <1>2, GridBlocks
<1>4. Within(A64!a64VecDotQ2_0Kernel(b), 18, 68)
  BY DEF Within, A64!a64VecDotQ2_0Kernel, A64!Form, A64!Dot, A64!DotOn, A64!L16, A64!L4, A64!L8, A64!Ld
<1> QED BY <1>1, <1>3, <1>4

LEMMA a64NVFP4_Layout ==
    ASSUME NEW b
    PROVE  BlockRuns(A64!a64VecDotNVFP4Kernel(b).dots, 1, 8, 3, 7) /\ Within(A64!a64VecDotNVFP4Kernel(b), 36, 68)
<1>1. A64!a64VecDotNVFP4Kernel(b).dots = Grid2(a64NVFP4_Dots(b), 0 .. 3, 0 .. 1)
  BY DEF A64!a64VecDotNVFP4Kernel, A64!Form, A64!Dot, A64!DotOn, A64!L16, A64!L4, A64!L8,
         Grid2, a64NVFP4_Dots, a64NVFP4_w
<1>2. \A s \in 0 .. 3, h \in 0 .. 1 :
         /\ a64NVFP4_Dots(b)[s][h].y = 34 * (s \div 2) + 2 + (s % 2) * 16 + 8 * h
         /\ a64NVFP4_Dots(b)[s][h].yd = 34 * (s \div 2) /\ DOMAIN a64NVFP4_Dots(b)[s][h].w = 0 .. 7
  BY DEF a64NVFP4_Dots, a64NVFP4_w, A64!DotOn
<1>3. BlockRuns(Grid2(a64NVFP4_Dots(b), 0 .. 3, 0 .. 1), 1, 8, 3, 7)
  BY <1>2, HalfBlocks
<1>4. Within(A64!a64VecDotNVFP4Kernel(b), 36, 68)
  BY DEF Within, A64!a64VecDotNVFP4Kernel, A64!Form, A64!Dot, A64!DotOn, A64!L16, A64!L4, A64!L8, A64!Ld
<1> QED BY <1>1, <1>3, <1>4

LEMMA x64Q1_0_Are ==
    ASSUME NEW b
    PROVE  X64!x64VecDotQ1_0Kernel(b).dots = Grid2(x64Q1_0_Dots(b), 0 .. 3, 0 .. 0)
BY DEF X64!x64VecDotQ1_0Kernel, X64!Form, X64!Dot, X64!DotOn, X64!L16, X64!L4, X64!L32, X64!L8, X64!SignedPairs,
       Grid2, x64Q1_0_Dots, x64Q1_0_w

LEMMA x64Q1_0_Layout ==
    ASSUME NEW b
    PROVE  BlockRuns(X64!x64VecDotQ1_0Kernel(b).dots, 3, 32, 0, 31) /\ Within(X64!x64VecDotQ1_0Kernel(b), 18, 136)
<1>1. \A k \in 0 .. 3, h \in 0 .. 0 :
         /\ x64Q1_0_Dots(b)[k][h].y = 34 * k + 2 + 32 * h
         /\ x64Q1_0_Dots(b)[k][h].yd = 34 * k /\ DOMAIN x64Q1_0_Dots(b)[k][h].w = 0 .. 31
  BY DEF x64Q1_0_Dots, x64Q1_0_w, X64!DotOn
<1>2. BlockRuns(Grid2(x64Q1_0_Dots(b), 0 .. 3, 0 .. 0), 3, 32, 0, 31)
  BY <1>1, GridBlocks
<1>3. Within(X64!x64VecDotQ1_0Kernel(b), 18, 136)
  BY DEF Within, X64!x64VecDotQ1_0Kernel, X64!Form, X64!Dot, X64!DotOn, X64!L16, X64!L4, X64!L32, X64!L8, X64!SignedPairs, X64!Ld
<1> QED BY ONLY <1>2, <1>3, x64Q1_0_Are, Zenon

LEMMA x64Q2_0_Are ==
    ASSUME NEW b
    PROVE  X64!x64VecDotQ2_0Kernel(b).dots = Grid2(x64Q2_0_Dots(b), 0 .. 1, 0 .. 0)
BY DEF X64!x64VecDotQ2_0Kernel, X64!Form, X64!Dot, X64!DotOn, X64!L16, X64!L4, X64!L32, X64!L8, X64!SignedPairs,
       Grid2, x64Q2_0_Dots, x64Q2_0_w

LEMMA x64Q2_0_Layout ==
    ASSUME NEW b
    PROVE  BlockRuns(X64!x64VecDotQ2_0Kernel(b).dots, 1, 32, 0, 31) /\ Within(X64!x64VecDotQ2_0Kernel(b), 18, 68)
<1>1. \A k \in 0 .. 1, h \in 0 .. 0 :
         /\ x64Q2_0_Dots(b)[k][h].y = 34 * k + 2 + 32 * h
         /\ x64Q2_0_Dots(b)[k][h].yd = 34 * k /\ DOMAIN x64Q2_0_Dots(b)[k][h].w = 0 .. 31
  BY DEF x64Q2_0_Dots, x64Q2_0_w, X64!DotOn
<1>2. BlockRuns(Grid2(x64Q2_0_Dots(b), 0 .. 1, 0 .. 0), 1, 32, 0, 31)
  BY <1>1, GridBlocks
<1>3. Within(X64!x64VecDotQ2_0Kernel(b), 18, 68)
  BY DEF Within, X64!x64VecDotQ2_0Kernel, X64!Form, X64!Dot, X64!DotOn, X64!L16, X64!L4, X64!L32, X64!L8, X64!SignedPairs, X64!Ld
<1> QED BY ONLY <1>2, <1>3, x64Q2_0_Are, Zenon

LEMMA x64NVFP4_Are ==
    ASSUME NEW b
    PROVE  X64!x64VecDotNVFP4Kernel(b).dots = Grid2(x64NVFP4_Dots(b), 0 .. 3, 0 .. 0)
BY DEF X64!x64VecDotNVFP4Kernel, X64!Form, X64!Dot, X64!DotOn, X64!L16, X64!L4, X64!L32, X64!L8, X64!SignedPairs,
       Grid2, x64NVFP4_Dots, x64NVFP4_w

LEMMA x64NVFP4_Layout ==
    ASSUME NEW b
    PROVE  BlockRuns(X64!x64VecDotNVFP4Kernel(b).dots, 1, 16, 1, 15) /\ Within(X64!x64VecDotNVFP4Kernel(b), 36, 68)
<1>1. \A s \in 0 .. 3, h \in 0 .. 0 :
         /\ x64NVFP4_Dots(b)[s][h].y = 34 * (s \div 2) + 2 + (s % 2) * 16 + 16 * h
         /\ x64NVFP4_Dots(b)[s][h].yd = 34 * (s \div 2) /\ DOMAIN x64NVFP4_Dots(b)[s][h].w = 0 .. 15
  BY DEF x64NVFP4_Dots, x64NVFP4_w, X64!DotOn
<1>2. BlockRuns(Grid2(x64NVFP4_Dots(b), 0 .. 3, 0 .. 0), 1, 16, 1, 15)
  BY <1>1, HalfBlocks
<1>3. Within(X64!x64VecDotNVFP4Kernel(b), 36, 68)
  BY DEF Within, X64!x64VecDotNVFP4Kernel, X64!Form, X64!Dot, X64!DotOn, X64!L16, X64!L4, X64!L32, X64!L8, X64!SignedPairs, X64!Ld
<1> QED BY ONLY <1>2, <1>3, x64NVFP4_Are, Zenon

-----------------------------------------------------------------------------
(* tq1_0: lanes of three widths.                                           *)
Each(E, G) == {E[g] : g \in G}

LEMMA EachCovers ==
    ASSUME NEW E, NEW G, NEW y, NEW yd, NEW ln,
           \A g \in G : E[g].y = y[g] /\ E[g].yd = yd[g] /\ DOMAIN E[g].w = ln[g],
           \A g, h \in G : y[g] = y[h] => g = h
    PROVE  Covers(Each(E, G), G, y, yd, ln)
<1>1. ASSUME NEW d \in Each(E, G)
      PROVE  \E g \in G : d = E[g] /\ d.y = y[g] /\ d.yd = yd[g] /\ DOMAIN d.w = ln[g]
  <2>1. PICK g \in G : d = E[g]
    BY DEF Each
  <2> QED BY <2>1
<1>2. ASSUME NEW g \in G
      PROVE  \E d \in Each(E, G) : d.y = y[g]
  <2>1. E[g] \in Each(E, G)
    BY <1>2 DEF Each
  <2> QED BY <2>1
<1>3. ASSUME NEW d \in Each(E, G), NEW e \in Each(E, G), d.y = e.y
      PROVE  d = e
  <2>1. PICK g \in G : d = E[g] /\ d.y = y[g]
    BY <1>1
  <2>2. PICK h \in G : e = E[h] /\ e.y = y[h]
    BY <1>1
  <2> QED BY <1>3, <2>1, <2>2
<1> QED BY <1>1, <1>2, <1>3 DEF Covers

LEMMA a64TQ1Seats ==
    Seats(Activations.q8_K, 0, 0 .. 255, 0 .. 18, a64TQ1_y, Constant(0, 0 .. 18), a64TQ1_ln)
<1> DEFINE a == Activations.q8_K
           y == a64TQ1_y
           ln == a64TQ1_ln
<1>1. \A g \in 0 .. 18 : /\ g < 15 => y[g] = 4 + 16 * g /\ ln[g] = 0 .. 15
                         /\ ~(g < 15) => y[g] = 244 + 4 * (g - 15) /\ ln[g] = 0 .. 3
  BY DEF a64TQ1_y, a64TQ1_ln
<1>2. \A k \in 0 .. 255 : QuantAt(a, 0, k) = 4 + k /\ ScaleAt(a, 0, k) = 0
  BY SeatK
<1>3. \A g \in 0 .. 18 : Constant(0, 0 .. 18)[g] = 0
  BY DEF Constant
<1> HIDE DEF a, y, ln
<1>4. \A g \in 0 .. 18 : y[g] \in Int /\ 0 \in ln[g]
  <2> TAKE g \in 0 .. 18
  <2>1. CASE g < 15
    BY <1>1, <2>1
  <2>2. CASE ~(g < 15)
    BY <1>1, <2>2
  <2> QED BY <2>1, <2>2
<1>5. ASSUME NEW k \in 0 .. 255
      PROVE  \E g \in 0 .. 18 : /\ QuantAt(a, 0, k) - y[g] \in ln[g]
                                /\ ScaleAt(a, 0, k) = Constant(0, 0 .. 18)[g]
  <2>1. CASE k < 240
    <3>1. (k \div 16) \in 0 .. 18 /\ k \div 16 < 15 /\ 4 + k - (4 + 16 * (k \div 16)) \in 0 .. 15
      BY <2>1
    <3>2. y[k \div 16] = 4 + 16 * (k \div 16) /\ ln[k \div 16] = 0 .. 15
      BY <1>1, <3>1
    <3> QED BY <1>2, <1>3, <3>1, <3>2
  <2>2. CASE ~(k < 240)
    <3> DEFINE g == 15 + (k - 240) \div 4
    <3>1. g \in 0 .. 18 /\ ~(g < 15) /\ 4 + k - (244 + 4 * (g - 15)) \in 0 .. 3
      BY <2>2
    <3> HIDE DEF g
    <3>2. y[g] = 244 + 4 * (g - 15) /\ ln[g] = 0 .. 3
      BY <1>1, <3>1
    <3> QED BY <1>2, <1>3, <3>1, <3>2
  <2> QED BY <2>1, <2>2
<1>6. ASSUME NEW g \in 0 .. 18, NEW h \in 0 .. 18, NEW p \in Int,
             p - y[g] \in ln[g], p - y[h] \in ln[h]
      PROVE  g = h
  <2>1. CASE g < 15 /\ h < 15
    BY <1>1, <1>6, <2>1
  <2>2. CASE g < 15 /\ ~(h < 15)
    BY <1>1, <1>6, <2>2
  <2>3. CASE ~(g < 15) /\ h < 15
    BY <1>1, <1>6, <2>3
  <2>4. CASE ~(g < 15) /\ ~(h < 15)
    BY <1>1, <1>6, <2>4
  <2> QED BY <2>1, <2>2, <2>3, <2>4
<1>7. ASSUME NEW g \in 0 .. 18, NEW m \in ln[g]
      PROVE  \E k \in 0 .. 255 : y[g] + m = QuantAt(a, 0, k)
  <2>1. CASE g < 15
    <3>1. m \in 0 .. 15 /\ y[g] = 4 + 16 * g
      BY <1>1, <1>7, <2>1
    <3>2. 16 * g + m \in 0 .. 255 /\ 4 + 16 * g + m = 4 + (16 * g + m)
      BY <2>1, <3>1
    <3> QED BY <1>2, <3>1, <3>2
  <2>2. CASE ~(g < 15)
    <3>1. m \in 0 .. 3 /\ y[g] = 244 + 4 * (g - 15)
      BY <1>1, <1>7, <2>2
    <3>2. 240 + 4 * (g - 15) + m \in 0 .. 255
          /\ 244 + 4 * (g - 15) + m = 4 + (240 + 4 * (g - 15) + m)
      BY <2>2, <3>1
    <3> QED BY <1>2, <3>1, <3>2
  <2> QED BY <2>1, <2>2
<1>8. \A k \in 0 .. 255 : QuantAt(a, 0, k) \in Int
  BY <1>2
<1> QED BY <1>4, <1>5, <1>6, <1>7, <1>8, Zenon DEF Seats, a, y, ln

LEMMA x64TQ1Seats ==
    Seats(Activations.q8_K, 0, 0 .. 255, 0 .. 13, x64TQ1_y, Constant(0, 0 .. 13), x64TQ1_ln)
<1> DEFINE a == Activations.q8_K
           y == x64TQ1_y
           ln == x64TQ1_ln
<1>1. \A g \in 0 .. 13 : /\ g < 5 => y[g] = 4 + 32 * g /\ ln[g] = 0 .. 31
                         /\ ~(g < 5) /\ g < 10 => y[g] = 164 + 16 * (g - 5) /\ ln[g] = 0 .. 15
                         /\ ~(g < 10) => y[g] = 244 + 4 * (g - 10) /\ ln[g] = 0 .. 3
  BY DEF x64TQ1_y, x64TQ1_ln
<1>2. \A k \in 0 .. 255 : QuantAt(a, 0, k) = 4 + k /\ ScaleAt(a, 0, k) = 0
  BY SeatK
<1>3. \A g \in 0 .. 13 : Constant(0, 0 .. 13)[g] = 0
  BY DEF Constant
<1> HIDE DEF a, y, ln
<1>4. \A g \in 0 .. 13 : y[g] \in Int /\ 0 \in ln[g]
  <2> TAKE g \in 0 .. 13
  <2>1. CASE g < 5
    BY <1>1, <2>1
  <2>2. CASE ~(g < 5) /\ g < 10
    BY <1>1, <2>2
  <2>3. CASE ~(g < 10)
    BY <1>1, <2>3
  <2> QED BY <2>1, <2>2, <2>3
<1>5. ASSUME NEW k \in 0 .. 255
      PROVE  \E g \in 0 .. 13 : /\ QuantAt(a, 0, k) - y[g] \in ln[g]
                                /\ ScaleAt(a, 0, k) = Constant(0, 0 .. 13)[g]
  <2>1. CASE k < 160
    <3>1. (k \div 32) \in 0 .. 13 /\ k \div 32 < 5 /\ 4 + k - (4 + 32 * (k \div 32)) \in 0 .. 31
      BY <2>1
    <3>2. y[k \div 32] = 4 + 32 * (k \div 32) /\ ln[k \div 32] = 0 .. 31
      BY <1>1, <3>1
    <3> QED BY <1>2, <1>3, <3>1, <3>2
  <2>2. CASE ~(k < 160) /\ k < 240
    <3> DEFINE g == 5 + (k - 160) \div 16
    <3>1. g \in 0 .. 13 /\ ~(g < 5) /\ g < 10 /\ 4 + k - (164 + 16 * (g - 5)) \in 0 .. 15
      BY <2>2
    <3> HIDE DEF g
    <3>2. y[g] = 164 + 16 * (g - 5) /\ ln[g] = 0 .. 15
      BY <1>1, <3>1
    <3> QED BY <1>2, <1>3, <3>1, <3>2
  <2>3. CASE ~(k < 240)
    <3> DEFINE g == 10 + (k - 240) \div 4
    <3>1. g \in 0 .. 13 /\ ~(g < 10) /\ 4 + k - (244 + 4 * (g - 10)) \in 0 .. 3
      BY <2>3
    <3> HIDE DEF g
    <3>2. y[g] = 244 + 4 * (g - 10) /\ ln[g] = 0 .. 3
      BY <1>1, <3>1
    <3> QED BY <1>2, <1>3, <3>1, <3>2
  <2> QED BY <2>1, <2>2, <2>3
<1>6. ASSUME NEW g \in 0 .. 13, NEW h \in 0 .. 13, NEW p \in Int,
             p - y[g] \in ln[g], p - y[h] \in ln[h]
      PROVE  g = h
  <2>1. /\ g < 5 => p - (4 + 32 * g) \in 0 .. 31
        /\ ~(g < 5) /\ g < 10 => p - (164 + 16 * (g - 5)) \in 0 .. 15
        /\ ~(g < 10) => p - (244 + 4 * (g - 10)) \in 0 .. 3
    BY <1>1, <1>6
  <2>2. /\ h < 5 => p - (4 + 32 * h) \in 0 .. 31
        /\ ~(h < 5) /\ h < 10 => p - (164 + 16 * (h - 5)) \in 0 .. 15
        /\ ~(h < 10) => p - (244 + 4 * (h - 10)) \in 0 .. 3
    BY <1>1, <1>6
  <2> QED BY ONLY <2>1, <2>2, g \in 0 .. 13, h \in 0 .. 13, p \in Int
<1>7. ASSUME NEW g \in 0 .. 13, NEW m \in ln[g]
      PROVE  \E k \in 0 .. 255 : y[g] + m = QuantAt(a, 0, k)
  <2>1. CASE g < 5
    <3>1. m \in 0 .. 31 /\ y[g] = 4 + 32 * g
      BY <1>1, <1>7, <2>1
    <3>2. 32 * g + m \in 0 .. 255 /\ 4 + 32 * g + m = 4 + (32 * g + m)
      BY <2>1, <3>1
    <3> QED BY <1>2, <3>1, <3>2
  <2>2. CASE ~(g < 5) /\ g < 10
    <3>1. m \in 0 .. 15 /\ y[g] = 164 + 16 * (g - 5)
      BY <1>1, <1>7, <2>2
    <3>2. 160 + 16 * (g - 5) + m \in 0 .. 255
          /\ 164 + 16 * (g - 5) + m = 4 + (160 + 16 * (g - 5) + m)
      BY <2>2, <3>1
    <3> QED BY <1>2, <3>1, <3>2
  <2>3. CASE ~(g < 10)
    <3>1. m \in 0 .. 3 /\ y[g] = 244 + 4 * (g - 10)
      BY <1>1, <1>7, <2>3
    <3>2. 240 + 4 * (g - 10) + m \in 0 .. 255
          /\ 244 + 4 * (g - 10) + m = 4 + (240 + 4 * (g - 10) + m)
      BY <2>3, <3>1
    <3> QED BY <1>2, <3>1, <3>2
  <2> QED BY <2>1, <2>2, <2>3
<1>8. \A k \in 0 .. 255 : QuantAt(a, 0, k) \in Int
  BY <1>2
<1> QED BY <1>4, <1>5, <1>6, <1>7, <1>8, Zenon DEF Seats, a, y, ln

LEMMA a64TQ1_Layout ==
    ASSUME NEW b
    PROVE  /\ Covers(A64!a64VecDotTQ1_0Kernel(b).dots, 0 .. 18, a64TQ1_y,
                     Constant(0, 0 .. 18), a64TQ1_ln)
           /\ Within(A64!a64VecDotTQ1_0Kernel(b), 54, 292)
<1> DEFINE A == a64TQ1_A(b)
           B == a64TQ1_B(b)
           C == a64TQ1_C(b)
           E == a64TQ1_E(b)
<1>1. A64!a64VecDotTQ1_0Kernel(b).dots
      = {A[l][h] : l \in 0 .. 4, h \in 0 .. 1} \cup {B[l] : l \in 0 .. 4} \cup {C[l] : l \in 0 .. 3}
  <2> DEFINE SA == {A64!Dot(4 + 32 * l + 16 * h, [m \in 0 .. 16 - 1 |-> A64!Digit(b[16 * h + m], l)], 1)
                      : l \in 0 .. 4, h \in 0 .. 1}
             SB == {A64!Dot(4 + 160 + 16 * l, [m \in 0 .. 16 - 1 |-> A64!Digit(b[32 + m], l)], 1)
                      : l \in 0 .. 4}
             SC == {A64!Dot(244 + 4 * l, [m \in 0 .. 4 - 1 |-> A64!Digit(b[48 + m], l)], 1)
                      : l \in 0 .. 3}
  <2>1. /\ 16 - 1 = 15 /\ 4 - 1 = 3 /\ 4 + 160 = 164
    OBVIOUS
  <2>2. {A[l][h] : l \in 0 .. 4, h \in 0 .. 1} = SA
    BY <2>1 DEF a64TQ1_A, a64TQ1_w
  <2>3. {B[l] : l \in 0 .. 4} = SB
    BY <2>1 DEF a64TQ1_B, a64TQ1_w
  <2>4. {C[l] : l \in 0 .. 3} = SC
    BY <2>1 DEF a64TQ1_C, a64TQ1_w
  <2>5. A64!a64VecDotTQ1_0Kernel(b).dots = SA \cup SB \cup SC
    BY DEF A64!a64VecDotTQ1_0Kernel, A64!Form, A64!L4
  <2> HIDE DEF A, B, C, SA, SB, SC
  <2> QED BY <2>2, <2>3, <2>4, <2>5
<1>2. \A l \in 0 .. 4, h \in 0 .. 1 :
          A[l][h] = A64!Dot(4 + 32 * l + 16 * h, a64TQ1_w(b, 16 * h, 15, l), 1)
  BY DEF a64TQ1_A
<1>3. \A l \in 0 .. 4 : B[l] = A64!Dot(164 + 16 * l, a64TQ1_w(b, 32, 15, l), 1)
  BY DEF a64TQ1_B
<1>4. \A l \in 0 .. 3 : C[l] = A64!Dot(244 + 4 * l, a64TQ1_w(b, 48, 3, l), 1)
  BY DEF a64TQ1_C
<1>5. \A p, l : DOMAIN a64TQ1_w(b, p, 15, l) = 0 .. 15 /\ DOMAIN a64TQ1_w(b, p, 3, l) = 0 .. 3
  BY DEF a64TQ1_w
<1>6. \A g \in 0 .. 18 : /\ g < 10 => E[g] = A[g \div 2][g % 2]
                         /\ ~(g < 10) /\ g < 15 => E[g] = B[g - 10]
                         /\ ~(g < 15) => E[g] = C[g - 15]
  BY DEF a64TQ1_E
<1> HIDE DEF A, B, C, E
<1>7. A64!a64VecDotTQ1_0Kernel(b).dots = Each(E, 0 .. 18)
  <2>1. ASSUME NEW l \in 0 .. 4, NEW h \in 0 .. 1
        PROVE  A[l][h] \in Each(E, 0 .. 18)
    <3>1. (2 * l + h) \in 0 .. 18 /\ 2 * l + h < 10 /\ (2 * l + h) \div 2 = l /\ (2 * l + h) % 2 = h
      OBVIOUS
    <3>2. E[2 * l + h] = A[l][h]
      BY <1>6, <3>1
    <3> QED BY <3>1, <3>2 DEF Each
  <2>2. ASSUME NEW l \in 0 .. 4
        PROVE  B[l] \in Each(E, 0 .. 18)
    <3>1. (10 + l) \in 0 .. 18 /\ ~(10 + l < 10) /\ 10 + l < 15 /\ (10 + l) - 10 = l
      OBVIOUS
    <3>2. E[10 + l] = B[l]
      BY <1>6, <3>1
    <3> QED BY <3>1, <3>2 DEF Each
  <2>3. ASSUME NEW l \in 0 .. 3
        PROVE  C[l] \in Each(E, 0 .. 18)
    <3>1. (15 + l) \in 0 .. 18 /\ ~(15 + l < 15) /\ (15 + l) - 15 = l
      OBVIOUS
    <3>2. E[15 + l] = C[l]
      BY <1>6, <3>1
    <3> QED BY <3>1, <3>2 DEF Each
  <2>4. ASSUME NEW g \in 0 .. 18
        PROVE  E[g] \in A64!a64VecDotTQ1_0Kernel(b).dots
    <3>1. CASE g < 10
      <4>1. g \div 2 \in 0 .. 4 /\ g % 2 \in 0 .. 1
        BY <3>1
      <4> QED BY <1>1, <1>6, <3>1, <4>1
    <3>2. CASE ~(g < 10) /\ g < 15
      <4>1. g - 10 \in 0 .. 4
        BY <3>2
      <4> QED BY <1>1, <1>6, <3>2, <4>1
    <3>3. CASE ~(g < 15)
      <4>1. g - 15 \in 0 .. 3
        BY <3>3
      <4> QED BY <1>1, <1>6, <3>3, <4>1
    <3> QED BY <3>1, <3>2, <3>3
  <2>5. A64!a64VecDotTQ1_0Kernel(b).dots \subseteq Each(E, 0 .. 18)
    BY <1>1, <2>1, <2>2, <2>3
  <2>6. Each(E, 0 .. 18) \subseteq A64!a64VecDotTQ1_0Kernel(b).dots
    BY <2>4 DEF Each
  <2> QED BY <2>5, <2>6
<1>8. \A g \in 0 .. 18 : /\ E[g].y = a64TQ1_y[g] /\ E[g].yd = Constant(0, 0 .. 18)[g]
                         /\ DOMAIN E[g].w = a64TQ1_ln[g]
  <2> TAKE g \in 0 .. 18
  <2>1. CASE g < 10
    <3>1. g \div 2 \in 0 .. 4 /\ g % 2 \in 0 .. 1 /\ 4 + 32 * (g \div 2) + 16 * (g % 2) = 4 + 16 * g
      BY <2>1
    <3>2. E[g] = A64!Dot(4 + 32 * (g \div 2) + 16 * (g % 2),
                         a64TQ1_w(b, 16 * (g % 2), 15, g \div 2), 1)
      BY <1>2, <1>6, <2>1, <3>1
    <3> QED BY <1>5, <2>1, <3>1, <3>2 DEF A64!Dot, A64!DotOn, a64TQ1_y, a64TQ1_ln, Constant
  <2>2. CASE ~(g < 10) /\ g < 15
    <3>1. g - 10 \in 0 .. 4 /\ 164 + 16 * (g - 10) = 4 + 16 * g
      BY <2>2
    <3>2. E[g] = A64!Dot(164 + 16 * (g - 10), a64TQ1_w(b, 32, 15, g - 10), 1)
      BY <1>3, <1>6, <2>2, <3>1
    <3> QED BY <1>5, <2>2, <3>1, <3>2 DEF A64!Dot, A64!DotOn, a64TQ1_y, a64TQ1_ln, Constant
  <2>3. CASE ~(g < 15)
    <3>1. g - 15 \in 0 .. 3
      BY <2>3
    <3>2. E[g] = A64!Dot(244 + 4 * (g - 15), a64TQ1_w(b, 48, 3, g - 15), 1)
      BY <1>4, <1>6, <2>3, <3>1
    <3> QED BY <1>5, <2>3, <3>1, <3>2 DEF A64!Dot, A64!DotOn, a64TQ1_y, a64TQ1_ln, Constant
  <2> QED BY <2>1, <2>2, <2>3
<1>9. \A g, h \in 0 .. 18 : a64TQ1_y[g] = a64TQ1_y[h] => g = h
  BY DEF a64TQ1_y
<1>10. Covers(Each(E, 0 .. 18), 0 .. 18, a64TQ1_y, Constant(0, 0 .. 18), a64TQ1_ln)
  BY <1>8, <1>9, EachCovers
<1>11. Within(A64!a64VecDotTQ1_0Kernel(b), 54, 292)
  BY DEF Within, A64!a64VecDotTQ1_0Kernel, A64!Form, A64!Ld
<1> QED BY <1>7, <1>10, <1>11

LEMMA x64TQ1_Are ==
    ASSUME NEW b
    PROVE  X64!x64VecDotTQ1_0Kernel(b).dots = Each(x64TQ1_E(b), 0 .. 13)
<1> DEFINE A == x64TQ1_A(b)
           B == x64TQ1_B(b)
           C == x64TQ1_C(b)
           E == x64TQ1_E(b)
<1>1. X64!x64VecDotTQ1_0Kernel(b).dots
      = {A[l] : l \in 0 .. 4} \cup {B[l] : l \in 0 .. 4} \cup {C[l] : l \in 0 .. 3}
  <2> DEFINE w(first, n, l) == [m \in 0 .. n - 1 |-> X64!x64Digit(X64!x64Thrice(b)[l][first + m])]
             SA == {X64!Dot(4 + 32 * l, w(0, 32, l), 1) : l \in 0 .. 4}
             SB == {X64!Dot(4 + 160 + 16 * l, w(32, 16, l), 1) : l \in 0 .. 4}
             SC == {X64!Dot(4 + 240 + 4 * l, w(48, 4, l), 1) : l \in 0 .. 3}
  <2>1. /\ 32 - 1 = 31 /\ 16 - 1 = 15 /\ 4 - 1 = 3 /\ 4 + 160 = 164 /\ 4 + 240 = 244
    OBVIOUS
  <2>2. {A[l] : l \in 0 .. 4} = SA
    BY <2>1 DEF x64TQ1_A, x64TQ1_w
  <2>3. {B[l] : l \in 0 .. 4} = SB
    BY <2>1 DEF x64TQ1_B, x64TQ1_w
  <2>4. {C[l] : l \in 0 .. 3} = SC
    BY <2>1 DEF x64TQ1_C, x64TQ1_w
  <2>5. X64!x64VecDotTQ1_0Kernel(b).dots = SA \cup SB \cup SC
    BY DEF X64!x64VecDotTQ1_0Kernel, X64!SignedPairs, X64!Form, X64!L4
  <2> HIDE DEF A, B, C, SA, SB, SC
  <2> QED BY <2>2, <2>3, <2>4, <2>5
<1>2. \A g \in 0 .. 13 : /\ g < 5 => E[g] = A[g]
                         /\ ~(g < 5) /\ g < 10 => E[g] = B[g - 5]
                         /\ ~(g < 10) => E[g] = C[g - 10]
  BY DEF x64TQ1_E
<1> HIDE DEF A, B, C, E
<1>3. X64!x64VecDotTQ1_0Kernel(b).dots = Each(E, 0 .. 13)
  <2>1. ASSUME NEW l \in 0 .. 4
        PROVE  A[l] \in Each(E, 0 .. 13)
    <3>1. l \in 0 .. 13 /\ E[l] = A[l]
      BY <1>2
    <3> QED BY <3>1 DEF Each
  <2>2. ASSUME NEW l \in 0 .. 4
        PROVE  B[l] \in Each(E, 0 .. 13)
    <3>1. (5 + l) \in 0 .. 13 /\ ~(5 + l < 5) /\ 5 + l < 10 /\ (5 + l) - 5 = l
      OBVIOUS
    <3>2. E[5 + l] = B[l]
      BY <1>2, <3>1
    <3> QED BY <3>1, <3>2 DEF Each
  <2>3. ASSUME NEW l \in 0 .. 3
        PROVE  C[l] \in Each(E, 0 .. 13)
    <3>1. (10 + l) \in 0 .. 13 /\ ~(10 + l < 10) /\ (10 + l) - 10 = l
      OBVIOUS
    <3>2. E[10 + l] = C[l]
      BY <1>2, <3>1
    <3> QED BY <3>1, <3>2 DEF Each
  <2>4. ASSUME NEW g \in 0 .. 13
        PROVE  E[g] \in X64!x64VecDotTQ1_0Kernel(b).dots
    <3>1. CASE g < 5
      <4>1. g \in 0 .. 4
        BY <3>1
      <4> QED BY <1>1, <1>2, <3>1, <4>1
    <3>2. CASE ~(g < 5) /\ g < 10
      <4>1. g - 5 \in 0 .. 4
        BY <3>2
      <4> QED BY <1>1, <1>2, <3>2, <4>1
    <3>3. CASE ~(g < 10)
      <4>1. g - 10 \in 0 .. 3
        BY <3>3
      <4> QED BY <1>1, <1>2, <3>3, <4>1
    <3> QED BY <3>1, <3>2, <3>3
  <2>5. X64!x64VecDotTQ1_0Kernel(b).dots \subseteq Each(E, 0 .. 13)
    BY <1>1, <2>1, <2>2, <2>3
  <2>6. Each(E, 0 .. 13) \subseteq X64!x64VecDotTQ1_0Kernel(b).dots
    BY <2>4 DEF Each
  <2> QED BY <2>5, <2>6
<1> QED BY <1>3 DEF E

LEMMA x64TQ1_Layout ==
    ASSUME NEW b
    PROVE  /\ Covers(X64!x64VecDotTQ1_0Kernel(b).dots, 0 .. 13, x64TQ1_y,
                     Constant(0, 0 .. 13), x64TQ1_ln)
           /\ Within(X64!x64VecDotTQ1_0Kernel(b), 54, 292)
<1> DEFINE A == x64TQ1_A(b)
           B == x64TQ1_B(b)
           C == x64TQ1_C(b)
           E == x64TQ1_E(b)
<1>2. \A l \in 0 .. 4 : A[l] = X64!Dot(4 + 32 * l, x64TQ1_w(b, 0, 31, l), 1)
  BY DEF x64TQ1_A
<1>3. \A l \in 0 .. 4 : B[l] = X64!Dot(164 + 16 * l, x64TQ1_w(b, 32, 15, l), 1)
  BY DEF x64TQ1_B
<1>4. \A l \in 0 .. 3 : C[l] = X64!Dot(244 + 4 * l, x64TQ1_w(b, 48, 3, l), 1)
  BY DEF x64TQ1_C
<1>5. \A p, l : /\ DOMAIN x64TQ1_w(b, p, 31, l) = 0 .. 31
                /\ DOMAIN x64TQ1_w(b, p, 15, l) = 0 .. 15
                /\ DOMAIN x64TQ1_w(b, p, 3, l) = 0 .. 3
  BY DEF x64TQ1_w
<1>6. \A g \in 0 .. 13 : /\ g < 5 => E[g] = A[g]
                         /\ ~(g < 5) /\ g < 10 => E[g] = B[g - 5]
                         /\ ~(g < 10) => E[g] = C[g - 10]
  BY DEF x64TQ1_E
<1>7. X64!x64VecDotTQ1_0Kernel(b).dots = Each(E, 0 .. 13)
  BY x64TQ1_Are, Zenon
<1> HIDE DEF A, B, C, E
<1>8. \A g \in 0 .. 13 : /\ E[g].y = x64TQ1_y[g] /\ E[g].yd = Constant(0, 0 .. 13)[g]
                         /\ DOMAIN E[g].w = x64TQ1_ln[g]
  <2> TAKE g \in 0 .. 13
  <2>1. CASE g < 5
    <3>1. g \in 0 .. 4
      BY <2>1
    <3>2. E[g] = X64!Dot(4 + 32 * g, x64TQ1_w(b, 0, 31, g), 1)
      BY <1>2, <1>6, <2>1, <3>1
    <3> QED BY <1>5, <2>1, <3>1, <3>2 DEF X64!Dot, X64!DotOn, x64TQ1_y, x64TQ1_ln, Constant
  <2>2. CASE ~(g < 5) /\ g < 10
    <3>1. g - 5 \in 0 .. 4
      BY <2>2
    <3>2. E[g] = X64!Dot(164 + 16 * (g - 5), x64TQ1_w(b, 32, 15, g - 5), 1)
      BY <1>3, <1>6, <2>2, <3>1
    <3> QED BY <1>5, <2>2, <3>1, <3>2 DEF X64!Dot, X64!DotOn, x64TQ1_y, x64TQ1_ln, Constant
  <2>3. CASE ~(g < 10)
    <3>1. g - 10 \in 0 .. 3 /\ ~(g < 5)
      BY <2>3
    <3>2. E[g] = X64!Dot(244 + 4 * (g - 10), x64TQ1_w(b, 48, 3, g - 10), 1)
      BY <1>4, <1>6, <2>3, <3>1
    <3> QED BY <1>5, <2>3, <3>1, <3>2 DEF X64!Dot, X64!DotOn, x64TQ1_y, x64TQ1_ln, Constant
  <2> QED BY <2>1, <2>2, <2>3
<1>9. \A g, h \in 0 .. 13 : x64TQ1_y[g] = x64TQ1_y[h] => g = h
  BY DEF x64TQ1_y
<1>10. Covers(Each(E, 0 .. 13), 0 .. 13, x64TQ1_y, Constant(0, 0 .. 13), x64TQ1_ln)
  BY <1>8, <1>9, EachCovers
<1>11. Within(X64!x64VecDotTQ1_0Kernel(b), 54, 292)
  BY DEF Within, X64!x64VecDotTQ1_0Kernel, X64!SignedPairs, X64!Form, X64!Ld
<1> QED BY <1>7, <1>10, <1>11

-----------------------------------------------------------------------------
(* The row dots of amd64, for activations of 256 quants: 32-byte dots.     *)

LEMMA UnionDots82 ==
    ASSUME NEW D
    PROVE  UNION {{D[g][h] : h \in 0 .. 1} : g \in 0 .. 7} = Dots82(D)
<1> DEFINE S(g) == {D[g][h] : h \in 0 .. 1}
           U == UNION {S(g) : g \in 0 .. 7}
<1>1. \A g, h : h \in 0 .. 1 => D[g][h] \in S(g)
  OBVIOUS
<1>2. \A g, d : d \in S(g) => \E h \in 0 .. 1 : d = D[g][h]
  OBVIOUS
<1> HIDE DEF S
<1>3. \A d : d \in U <=> \E g \in 0 .. 7 : d \in S(g)
  OBVIOUS
<1> HIDE DEF U
<1>4. \A d : d \in U <=> d \in Dots82(D)
  BY ONLY <1>1, <1>2, <1>3 DEF Dots82
<1>5. U = Dots82(D)
  BY ONLY <1>4
<1> QED BY ONLY <1>5 DEF U, S

LEMMA x64Q4_K_Are ==
    ASSUME NEW b
    PROVE  X64!x64VecDotQ4_KKernel(b).dots = Dots422(x64Q4_K_Dots(b))
<1> DEFINE S(j, f) == {X64!DotOn(4 + 64 * j + 32 * f + 16 * h, 0, x64Q4_K_w(b, j, f, h), x64Q4_K_s(b, j, f, h)) : h \in 0 .. 1}
<1>1. X64!x64VecDotQ4_KKernel(b).dots = UNION {S(j, f) : j \in 0 .. 3, f \in 0 .. 1}
  BY DEF X64!x64VecDotQ4_KKernel, X64!x64KBlock, X64!UnsignedPairs,
         X64!Form, X64!Dots32, X64!DotOn, X64!L16, X64!L4, X64!L8,
         x64Q4_K_w, x64Q4_K_s
<1>2. \A j \in 0 .. 3, f \in 0 .. 1 : \A d : d \in S(j, f) <=> \E h \in 0 .. 1 : d = x64Q4_K_Dots(b)[j][f][h]
  BY DEF x64Q4_K_Dots
<1> HIDE DEF S
<1>3. \A d : d \in X64!x64VecDotQ4_KKernel(b).dots <=> \E j \in 0 .. 3, f \in 0 .. 1 : d \in S(j, f)
  BY ONLY <1>1
<1>4. \A d : d \in X64!x64VecDotQ4_KKernel(b).dots <=> d \in Dots422(x64Q4_K_Dots(b))
  BY ONLY <1>2, <1>3 DEF Dots422
<1> QED BY ONLY <1>4

LEMMA x64Q4_K_Layout ==
    ASSUME NEW b
    PROVE  KRuns(X64!x64VecDotQ4_KKernel(b).dots) /\ Within(X64!x64VecDotQ4_KKernel(b), 144, 292)
<1>1. \A j \in 0 .. 3, f \in 0 .. 1, h \in 0 .. 1 :
         /\ x64Q4_K_Dots(b)[j][f][h].y = 4 + 64 * j + 32 * f + 16 * h
         /\ x64Q4_K_Dots(b)[j][f][h].yd = 0 /\ DOMAIN x64Q4_K_Dots(b)[j][f][h].w = 0 .. 15
  BY DEF x64Q4_K_Dots, x64Q4_K_w, X64!DotOn
<1>2. KRuns(Dots422(x64Q4_K_Dots(b)))
  BY <1>1, KRuns422
<1>3. Within(X64!x64VecDotQ4_KKernel(b), 144, 292)
  BY DEF Within, X64!x64VecDotQ4_KKernel, X64!x64KBlock, X64!UnsignedPairs,
         X64!Form, X64!Dots32, X64!DotOn, X64!L16, X64!L4, X64!L8, X64!Ld, X64!BSums
<1> QED BY ONLY <1>2, <1>3, x64Q4_K_Are, Zenon

LEMMA x64Q5_K_Are ==
    ASSUME NEW b
    PROVE  X64!x64VecDotQ5_KKernel(b).dots = Dots422(x64Q5_K_Dots(b))
<1> DEFINE S(j, f) == {X64!DotOn(4 + 64 * j + 32 * f + 16 * h, 0, x64Q5_K_w(b, j, f, h), x64Q5_K_s(b, j, f, h)) : h \in 0 .. 1}
<1>1. X64!x64VecDotQ5_KKernel(b).dots = UNION {S(j, f) : j \in 0 .. 3, f \in 0 .. 1}
  BY DEF X64!x64VecDotQ5_KKernel, X64!x64KBlock, X64!UnsignedPairs,
         X64!Form, X64!Dots32, X64!DotOn, X64!L16, X64!L4, X64!L8,
         x64Q5_K_w, x64Q5_K_s
<1>2. \A j \in 0 .. 3, f \in 0 .. 1 : \A d : d \in S(j, f) <=> \E h \in 0 .. 1 : d = x64Q5_K_Dots(b)[j][f][h]
  BY DEF x64Q5_K_Dots
<1> HIDE DEF S
<1>3. \A d : d \in X64!x64VecDotQ5_KKernel(b).dots <=> \E j \in 0 .. 3, f \in 0 .. 1 : d \in S(j, f)
  BY ONLY <1>1
<1>4. \A d : d \in X64!x64VecDotQ5_KKernel(b).dots <=> d \in Dots422(x64Q5_K_Dots(b))
  BY ONLY <1>2, <1>3 DEF Dots422
<1> QED BY ONLY <1>4

LEMMA x64Q5_K_Layout ==
    ASSUME NEW b
    PROVE  KRuns(X64!x64VecDotQ5_KKernel(b).dots) /\ Within(X64!x64VecDotQ5_KKernel(b), 176, 292)
<1>1. \A j \in 0 .. 3, f \in 0 .. 1, h \in 0 .. 1 :
         /\ x64Q5_K_Dots(b)[j][f][h].y = 4 + 64 * j + 32 * f + 16 * h
         /\ x64Q5_K_Dots(b)[j][f][h].yd = 0 /\ DOMAIN x64Q5_K_Dots(b)[j][f][h].w = 0 .. 15
  <2>1. \A j \in 0 .. 3, f \in 0 .. 1, h \in 0 .. 1 : DOMAIN x64Q5_K_w(b, j, f, h) = 0 .. 15
    BY DEF x64Q5_K_w
  <2> QED BY <2>1 DEF x64Q5_K_Dots, X64!DotOn
<1>2. KRuns(Dots422(x64Q5_K_Dots(b)))
  BY <1>1, KRuns422
<1>3. Within(X64!x64VecDotQ5_KKernel(b), 176, 292)
  BY DEF Within, X64!x64VecDotQ5_KKernel, X64!x64KBlock, X64!UnsignedPairs,
         X64!Form, X64!Dots32, X64!DotOn, X64!L16, X64!L4, X64!L8, X64!Ld, X64!BSums
<1> QED BY ONLY <1>2, <1>3, x64Q5_K_Are, Zenon

LEMMA x64Q6_K_Are ==
    ASSUME NEW b
    PROVE  X64!x64VecDotQ6_KKernel(b).dots = Dots242(x64Q6_K_Dots(b))
<1> DEFINE S(j, t) == {X64!DotOn(4 + 128 * j + 32 * t + 16 * h, 0, x64Q6_K_w(b, j, t, h), x64Q6_K_s(b, j, t, h)) : h \in 0 .. 1}
<1>1. X64!x64VecDotQ6_KKernel(b).dots = UNION {S(j, t) : j \in 0 .. 1, t \in 0 .. 3}
  BY DEF X64!x64VecDotQ6_KKernel, X64!UnsignedPairs,
         X64!Form, X64!Dots32, X64!DotOn, X64!L16, X64!L4, X64!L8,
         x64Q6_K_w, x64Q6_K_s
<1>2. \A j \in 0 .. 1, t \in 0 .. 3 : \A d : d \in S(j, t) <=> \E h \in 0 .. 1 : d = x64Q6_K_Dots(b)[j][t][h]
  BY DEF x64Q6_K_Dots
<1> HIDE DEF S
<1>3. \A d : d \in X64!x64VecDotQ6_KKernel(b).dots <=> \E j \in 0 .. 1, t \in 0 .. 3 : d \in S(j, t)
  BY ONLY <1>1
<1>4. \A d : d \in X64!x64VecDotQ6_KKernel(b).dots <=> d \in Dots242(x64Q6_K_Dots(b))
  BY ONLY <1>2, <1>3 DEF Dots242
<1> QED BY ONLY <1>4

LEMMA x64Q6_K_Layout ==
    ASSUME NEW b
    PROVE  KRuns(X64!x64VecDotQ6_KKernel(b).dots) /\ Within(X64!x64VecDotQ6_KKernel(b), 210, 292)
<1>1. \A j \in 0 .. 1, t \in 0 .. 3, h \in 0 .. 1 :
         /\ x64Q6_K_Dots(b)[j][t][h].y = 4 + 128 * j + 32 * t + 16 * h
         /\ x64Q6_K_Dots(b)[j][t][h].yd = 0 /\ DOMAIN x64Q6_K_Dots(b)[j][t][h].w = 0 .. 15
  <2>1. \A j \in 0 .. 1, t \in 0 .. 3, h \in 0 .. 1 : DOMAIN x64Q6_K_w(b, j, t, h) = 0 .. 15
    BY DEF x64Q6_K_w
  <2> QED BY <2>1 DEF x64Q6_K_Dots, X64!DotOn
<1>2. KRuns(Dots242(x64Q6_K_Dots(b)))
  BY <1>1, KRuns242
<1>3. Within(X64!x64VecDotQ6_KKernel(b), 210, 292)
  BY DEF Within, X64!x64VecDotQ6_KKernel, X64!UnsignedPairs,
         X64!Form, X64!Dots32, X64!DotOn, X64!L16, X64!L4, X64!L8, X64!Ld, X64!BSums
<1> QED BY ONLY <1>2, <1>3, x64Q6_K_Are, Zenon

LEMMA x64Q2_K_Are ==
    ASSUME NEW b
    PROVE  X64!x64VecDotQ2_KKernel(b).dots = Dots242(x64Q2_K_Dots(b))
<1> DEFINE S(j, t) == {X64!DotOn(4 + 128 * j + 32 * t + 16 * h, 0, x64Q2_K_w(b, j, t, h), x64Q2_K_s(b, j, t, h)) : h \in 0 .. 1}
<1>1. X64!x64VecDotQ2_KKernel(b).dots = UNION {S(j, t) : j \in 0 .. 1, t \in 0 .. 3}
  BY DEF X64!x64VecDotQ2_KKernel, X64!UnsignedPairs, X64!Planes,
         X64!Form, X64!Dots32, X64!DotOn, X64!L16, X64!L4, X64!L8,
         x64Q2_K_w, x64Q2_K_s
<1>2. \A j \in 0 .. 1, t \in 0 .. 3 : \A d : d \in S(j, t) <=> \E h \in 0 .. 1 : d = x64Q2_K_Dots(b)[j][t][h]
  BY DEF x64Q2_K_Dots
<1> HIDE DEF S
<1>3. \A d : d \in X64!x64VecDotQ2_KKernel(b).dots <=> \E j \in 0 .. 1, t \in 0 .. 3 : d \in S(j, t)
  BY ONLY <1>1
<1>4. \A d : d \in X64!x64VecDotQ2_KKernel(b).dots <=> d \in Dots242(x64Q2_K_Dots(b))
  BY ONLY <1>2, <1>3 DEF Dots242
<1> QED BY ONLY <1>4

LEMMA x64Q2_K_Layout ==
    ASSUME NEW b
    PROVE  KRuns(X64!x64VecDotQ2_KKernel(b).dots) /\ Within(X64!x64VecDotQ2_KKernel(b), 84, 292)
<1>1. \A j \in 0 .. 1, t \in 0 .. 3, h \in 0 .. 1 :
         /\ x64Q2_K_Dots(b)[j][t][h].y = 4 + 128 * j + 32 * t + 16 * h
         /\ x64Q2_K_Dots(b)[j][t][h].yd = 0 /\ DOMAIN x64Q2_K_Dots(b)[j][t][h].w = 0 .. 15
  BY DEF x64Q2_K_Dots, x64Q2_K_w, X64!DotOn
<1>2. KRuns(Dots242(x64Q2_K_Dots(b)))
  BY <1>1, KRuns242
<1>3. Within(X64!x64VecDotQ2_KKernel(b), 84, 292)
  BY DEF Within, X64!x64VecDotQ2_KKernel, X64!UnsignedPairs, X64!Planes,
         X64!Form, X64!Dots32, X64!DotOn, X64!L16, X64!L4, X64!L8, X64!Ld, X64!BSums
<1> QED BY ONLY <1>2, <1>3, x64Q2_K_Are, Zenon

LEMMA x64Q3_K_Are ==
    ASSUME NEW b
    PROVE  X64!x64VecDotQ3_KKernel(b).dots = Dots242(x64Q3_K_Dots(b))
<1> DEFINE S(j, t) == {X64!DotOn(4 + 128 * j + 32 * t + 16 * h, 0, x64Q3_K_w(b, j, t, h), x64Q3_K_s(b, j, t, h)) : h \in 0 .. 1}
<1>1. X64!x64VecDotQ3_KKernel(b).dots = UNION {S(j, t) : j \in 0 .. 1, t \in 0 .. 3}
  BY DEF X64!x64VecDotQ3_KKernel, X64!UnsignedPairs, X64!Planes,
         X64!Form, X64!Dots32, X64!DotOn, X64!L16, X64!L4, X64!L8,
         x64Q3_K_w, x64Q3_K_s
<1>2. \A j \in 0 .. 1, t \in 0 .. 3 : \A d : d \in S(j, t) <=> \E h \in 0 .. 1 : d = x64Q3_K_Dots(b)[j][t][h]
  BY DEF x64Q3_K_Dots
<1> HIDE DEF S
<1>3. \A d : d \in X64!x64VecDotQ3_KKernel(b).dots <=> \E j \in 0 .. 1, t \in 0 .. 3 : d \in S(j, t)
  BY ONLY <1>1
<1>4. \A d : d \in X64!x64VecDotQ3_KKernel(b).dots <=> d \in Dots242(x64Q3_K_Dots(b))
  BY ONLY <1>2, <1>3 DEF Dots242
<1> QED BY ONLY <1>4

LEMMA x64Q3_K_Layout ==
    ASSUME NEW b
    PROVE  KRuns(X64!x64VecDotQ3_KKernel(b).dots) /\ Within(X64!x64VecDotQ3_KKernel(b), 110, 292)
<1>1. \A j \in 0 .. 1, t \in 0 .. 3, h \in 0 .. 1 :
         /\ x64Q3_K_Dots(b)[j][t][h].y = 4 + 128 * j + 32 * t + 16 * h
         /\ x64Q3_K_Dots(b)[j][t][h].yd = 0 /\ DOMAIN x64Q3_K_Dots(b)[j][t][h].w = 0 .. 15
  <2>1. \A j \in 0 .. 1, t \in 0 .. 3, h \in 0 .. 1 : DOMAIN x64Q3_K_w(b, j, t, h) = 0 .. 15
    BY DEF x64Q3_K_w
  <2> QED BY <2>1 DEF x64Q3_K_Dots, X64!DotOn
<1>2. KRuns(Dots242(x64Q3_K_Dots(b)))
  BY <1>1, KRuns242
<1>3. Within(X64!x64VecDotQ3_KKernel(b), 110, 292)
  BY DEF Within, X64!x64VecDotQ3_KKernel, X64!UnsignedPairs, X64!Planes,
         X64!Form, X64!Dots32, X64!DotOn, X64!L16, X64!L4, X64!L8, X64!Ld, X64!BSums
<1> QED BY ONLY <1>2, <1>3, x64Q3_K_Are, Zenon

LEMMA x64TQ2_0_Are ==
    ASSUME NEW b
    PROVE  X64!x64VecDotTQ2_0Kernel(b).dots = Dots242(x64TQ2_0_Dots(b))
<1> DEFINE S(j, t) == {X64!DotOn(4 + 128 * j + 32 * t + 16 * h, 0, x64TQ2_0_w(b, j, t, h), x64TQ2_0_s(b, j, t, h)) : h \in 0 .. 1}
<1>1. X64!x64VecDotTQ2_0Kernel(b).dots = UNION {S(j, t) : j \in 0 .. 1, t \in 0 .. 3}
  BY DEF X64!x64VecDotTQ2_0Kernel, X64!SignedPairs,
         X64!Form, X64!Dots32, X64!DotOn, X64!L16, X64!L4, X64!L8,
         x64TQ2_0_w, x64TQ2_0_s
<1>2. \A j \in 0 .. 1, t \in 0 .. 3 : \A d : d \in S(j, t) <=> \E h \in 0 .. 1 : d = x64TQ2_0_Dots(b)[j][t][h]
  BY DEF x64TQ2_0_Dots
<1> HIDE DEF S
<1>3. \A d : d \in X64!x64VecDotTQ2_0Kernel(b).dots <=> \E j \in 0 .. 1, t \in 0 .. 3 : d \in S(j, t)
  BY ONLY <1>1
<1>4. \A d : d \in X64!x64VecDotTQ2_0Kernel(b).dots <=> d \in Dots242(x64TQ2_0_Dots(b))
  BY ONLY <1>2, <1>3 DEF Dots242
<1> QED BY ONLY <1>4

LEMMA x64TQ2_0_Layout ==
    ASSUME NEW b
    PROVE  KRuns(X64!x64VecDotTQ2_0Kernel(b).dots) /\ Within(X64!x64VecDotTQ2_0Kernel(b), 66, 292)
<1>1. \A j \in 0 .. 1, t \in 0 .. 3, h \in 0 .. 1 :
         /\ x64TQ2_0_Dots(b)[j][t][h].y = 4 + 128 * j + 32 * t + 16 * h
         /\ x64TQ2_0_Dots(b)[j][t][h].yd = 0 /\ DOMAIN x64TQ2_0_Dots(b)[j][t][h].w = 0 .. 15
  BY DEF x64TQ2_0_Dots, x64TQ2_0_w, X64!DotOn
<1>2. KRuns(Dots242(x64TQ2_0_Dots(b)))
  BY <1>1, KRuns242
<1>3. Within(X64!x64VecDotTQ2_0Kernel(b), 66, 292)
  BY DEF Within, X64!x64VecDotTQ2_0Kernel, X64!SignedPairs,
         X64!Form, X64!Dots32, X64!DotOn, X64!L16, X64!L4, X64!L8, X64!Ld, X64!BSums
<1> QED BY ONLY <1>2, <1>3, x64TQ2_0_Are, Zenon

LEMMA x64IQ4XS_Are ==
    ASSUME NEW b
    PROVE  X64!x64VecDotIQ4XSKernel(b).dots = Dots82(x64IQ4XS_Dots(b))
<1> DEFINE S(g) == {X64!DotOn(4 + 32 * g + 16 * h, 0, x64IQ4XS_w(b, g, h), x64IQ4XS_s(b, g, h)) : h \in 0 .. 1}
           T(g) == {x64IQ4XS_Dots(b)[g][h] : h \in 0 .. 1}
<1>1. X64!x64VecDotIQ4XSKernel(b).dots = UNION {S(g) : g \in 0 .. 7}
  BY DEF X64!x64VecDotIQ4XSKernel, X64!SignedPairs,
         X64!Form, X64!Dots32, X64!DotOn, X64!L16, X64!L4, X64!L8,
         x64IQ4XS_w, x64IQ4XS_s
<1>2. \A g \in 0 .. 7 : S(g) = T(g)
  BY DEF x64IQ4XS_Dots
<1> HIDE DEF S, T
<1>3. X64!x64VecDotIQ4XSKernel(b).dots = UNION {T(g) : g \in 0 .. 7}
  BY ONLY <1>1, <1>2
<1> QED BY ONLY <1>3, UnionDots82 DEF T

LEMMA x64IQ4XS_Layout ==
    ASSUME NEW b
    PROVE  KRuns(X64!x64VecDotIQ4XSKernel(b).dots) /\ Within(X64!x64VecDotIQ4XSKernel(b), 136, 292)
<1>1. \A g \in 0 .. 7, h \in 0 .. 1 :
         /\ x64IQ4XS_Dots(b)[g][h].y = 4 + 32 * g + 16 * h
         /\ x64IQ4XS_Dots(b)[g][h].yd = 0 /\ DOMAIN x64IQ4XS_Dots(b)[g][h].w = 0 .. 15
  BY DEF x64IQ4XS_Dots, x64IQ4XS_w, X64!DotOn
<1>2. KRuns(Dots82(x64IQ4XS_Dots(b)))
  BY <1>1, KRuns82
<1>3. Within(X64!x64VecDotIQ4XSKernel(b), 136, 292)
  BY DEF Within, X64!x64VecDotIQ4XSKernel, X64!SignedPairs,
         X64!Form, X64!Dots32, X64!DotOn, X64!L16, X64!L4, X64!L8, X64!Ld, X64!BSums
<1> QED BY ONLY <1>2, <1>3, x64IQ4XS_Are, Zenon

LEMMA x64IQ3XXS_Are ==
    ASSUME NEW b
    PROVE  X64!x64VecDotIQ3(FALSE, b).dots = Dots82(x64IQ3XXS_Dots(b))
<1> DEFINE S(g) == {X64!DotOn(4 + 32 * g + 16 * h, 0, x64IQ3XXS_w(b, g, h), x64IQ3XXS_s(b, g, h)) : h \in 0 .. 1}
           T(g) == {x64IQ3XXS_Dots(b)[g][h] : h \in 0 .. 1}
<1>1. X64!x64VecDotIQ3(FALSE, b).dots = UNION {S(g) : g \in 0 .. 7}
  BY DEF X64!x64VecDotIQ3, X64!GridDots32, X64!SignedPairs,
         X64!Form, X64!Dots32, X64!DotOn, X64!L16, X64!L4, X64!L8,
         x64IQ3XXS_w, x64IQ3XXS_s
<1>2. \A g \in 0 .. 7 : S(g) = T(g)
  BY DEF x64IQ3XXS_Dots
<1> HIDE DEF S, T
<1>3. X64!x64VecDotIQ3(FALSE, b).dots = UNION {T(g) : g \in 0 .. 7}
  BY ONLY <1>1, <1>2
<1> QED BY ONLY <1>3, UnionDots82 DEF T

LEMMA x64IQ3XXS_Layout ==
    ASSUME NEW b
    PROVE  KRuns(X64!x64VecDotIQ3(FALSE, b).dots) /\ Within(X64!x64VecDotIQ3(FALSE, b), 98, 292)
<1>1. \A g \in 0 .. 7, h \in 0 .. 1 :
         /\ x64IQ3XXS_Dots(b)[g][h].y = 4 + 32 * g + 16 * h
         /\ x64IQ3XXS_Dots(b)[g][h].yd = 0 /\ DOMAIN x64IQ3XXS_Dots(b)[g][h].w = 0 .. 15
  BY Zenon DEF x64IQ3XXS_Dots, x64IQ3XXS_w, X64!DotOn
<1>2. KRuns(Dots82(x64IQ3XXS_Dots(b)))
  BY <1>1, KRuns82
<1>3. Within(X64!x64VecDotIQ3(FALSE, b), 98, 292)
  BY DEF Within, X64!x64VecDotIQ3, X64!GridDots32, X64!SignedPairs,
         X64!Form, X64!Dots32, X64!DotOn, X64!L16, X64!L4, X64!L8, X64!Ld, X64!BSums
<1> QED BY ONLY <1>2, <1>3, x64IQ3XXS_Are, Zenon

LEMMA x64IQ3S_Are ==
    ASSUME NEW b
    PROVE  X64!x64VecDotIQ3(TRUE, b).dots = Dots82(x64IQ3S_Dots(b))
<1> DEFINE S(g) == {X64!DotOn(4 + 32 * g + 16 * h, 0, x64IQ3S_w(b, g, h), x64IQ3S_s(b, g, h)) : h \in 0 .. 1}
           T(g) == {x64IQ3S_Dots(b)[g][h] : h \in 0 .. 1}
<1>1. X64!x64VecDotIQ3(TRUE, b).dots = UNION {S(g) : g \in 0 .. 7}
  BY DEF X64!x64VecDotIQ3, X64!GridDots32, X64!SignedPairs,
         X64!Form, X64!Dots32, X64!DotOn, X64!L16, X64!L4, X64!L8,
         x64IQ3S_w, x64IQ3S_s
<1>2. \A g \in 0 .. 7 : S(g) = T(g)
  BY DEF x64IQ3S_Dots
<1> HIDE DEF S, T
<1>3. X64!x64VecDotIQ3(TRUE, b).dots = UNION {T(g) : g \in 0 .. 7}
  BY ONLY <1>1, <1>2
<1> QED BY ONLY <1>3, UnionDots82 DEF T

LEMMA x64IQ3S_Layout ==
    ASSUME NEW b
    PROVE  KRuns(X64!x64VecDotIQ3(TRUE, b).dots) /\ Within(X64!x64VecDotIQ3(TRUE, b), 110, 292)
<1>1. \A g \in 0 .. 7, h \in 0 .. 1 :
         /\ x64IQ3S_Dots(b)[g][h].y = 4 + 32 * g + 16 * h
         /\ x64IQ3S_Dots(b)[g][h].yd = 0 /\ DOMAIN x64IQ3S_Dots(b)[g][h].w = 0 .. 15
  BY Zenon DEF x64IQ3S_Dots, x64IQ3S_w, X64!DotOn
<1>2. KRuns(Dots82(x64IQ3S_Dots(b)))
  BY <1>1, KRuns82
<1>3. Within(X64!x64VecDotIQ3(TRUE, b), 110, 292)
  BY DEF Within, X64!x64VecDotIQ3, X64!GridDots32, X64!SignedPairs,
         X64!Form, X64!Dots32, X64!DotOn, X64!L16, X64!L4, X64!L8, X64!Ld, X64!BSums
<1> QED BY ONLY <1>2, <1>3, x64IQ3S_Are, Zenon

LEMMA x64IQ2XXS_Are ==
    ASSUME NEW b
    PROVE  X64!x64VecDotIQ2("iq2_xxs", b).dots = Dots82(x64IQ2XXS_Dots(b))
<1> DEFINE S(g) == {X64!DotOn(4 + 32 * g + 16 * h, 0, x64IQ2XXS_w(b, g, h), x64IQ2XXS_s(b, g, h)) : h \in 0 .. 1}
           T(g) == {x64IQ2XXS_Dots(b)[g][h] : h \in 0 .. 1}
<1>1. X64!x64VecDotIQ2("iq2_xxs", b).dots = UNION {S(g) : g \in 0 .. 7}
  BY DEF X64!x64VecDotIQ2, X64!GridDots32, X64!SignedPairs,
         X64!Form, X64!Dots32, X64!DotOn, X64!L16, X64!L4, X64!L8,
         x64IQ2XXS_w, x64IQ2XXS_s
<1>2. \A g \in 0 .. 7 : S(g) = T(g)
  BY DEF x64IQ2XXS_Dots
<1> HIDE DEF S, T
<1>3. X64!x64VecDotIQ2("iq2_xxs", b).dots = UNION {T(g) : g \in 0 .. 7}
  BY ONLY <1>1, <1>2
<1> QED BY ONLY <1>3, UnionDots82 DEF T

LEMMA x64IQ2XXS_Layout ==
    ASSUME NEW b
    PROVE  KRuns(X64!x64VecDotIQ2("iq2_xxs", b).dots) /\ Within(X64!x64VecDotIQ2("iq2_xxs", b), 66, 292)
<1>1. \A g \in 0 .. 7, h \in 0 .. 1 :
         /\ x64IQ2XXS_Dots(b)[g][h].y = 4 + 32 * g + 16 * h
         /\ x64IQ2XXS_Dots(b)[g][h].yd = 0 /\ DOMAIN x64IQ2XXS_Dots(b)[g][h].w = 0 .. 15
  BY Zenon DEF x64IQ2XXS_Dots, x64IQ2XXS_w, X64!DotOn
<1>2. KRuns(Dots82(x64IQ2XXS_Dots(b)))
  BY <1>1, KRuns82
<1>3. Within(X64!x64VecDotIQ2("iq2_xxs", b), 66, 292)
  BY DEF Within, X64!x64VecDotIQ2, X64!GridDots32, X64!SignedPairs,
         X64!Form, X64!Dots32, X64!DotOn, X64!L16, X64!L4, X64!L8, X64!Ld, X64!BSums
<1> QED BY ONLY <1>2, <1>3, x64IQ2XXS_Are, Zenon

LEMMA x64IQ2XS_Are ==
    ASSUME NEW b
    PROVE  X64!x64VecDotIQ2("iq2_xs", b).dots = Dots82(x64IQ2XS_Dots(b))
<1> DEFINE S(g) == {X64!DotOn(4 + 32 * g + 16 * h, 0, x64IQ2XS_w(b, g, h), x64IQ2XS_s(b, g, h)) : h \in 0 .. 1}
           T(g) == {x64IQ2XS_Dots(b)[g][h] : h \in 0 .. 1}
<1>1. X64!x64VecDotIQ2("iq2_xs", b).dots = UNION {S(g) : g \in 0 .. 7}
  BY DEF X64!x64VecDotIQ2, X64!GridDots32, X64!SignedPairs,
         X64!Form, X64!Dots32, X64!DotOn, X64!L16, X64!L4, X64!L8,
         x64IQ2XS_w, x64IQ2XS_s
<1>2. \A g \in 0 .. 7 : S(g) = T(g)
  BY DEF x64IQ2XS_Dots
<1> HIDE DEF S, T
<1>3. X64!x64VecDotIQ2("iq2_xs", b).dots = UNION {T(g) : g \in 0 .. 7}
  BY ONLY <1>1, <1>2
<1> QED BY ONLY <1>3, UnionDots82 DEF T

LEMMA x64IQ2XS_Layout ==
    ASSUME NEW b
    PROVE  KRuns(X64!x64VecDotIQ2("iq2_xs", b).dots) /\ Within(X64!x64VecDotIQ2("iq2_xs", b), 74, 292)
<1>1. \A g \in 0 .. 7, h \in 0 .. 1 :
         /\ x64IQ2XS_Dots(b)[g][h].y = 4 + 32 * g + 16 * h
         /\ x64IQ2XS_Dots(b)[g][h].yd = 0 /\ DOMAIN x64IQ2XS_Dots(b)[g][h].w = 0 .. 15
  BY Zenon DEF x64IQ2XS_Dots, x64IQ2XS_w, X64!DotOn
<1>2. KRuns(Dots82(x64IQ2XS_Dots(b)))
  BY <1>1, KRuns82
<1>3. Within(X64!x64VecDotIQ2("iq2_xs", b), 74, 292)
  BY DEF Within, X64!x64VecDotIQ2, X64!GridDots32, X64!SignedPairs,
         X64!Form, X64!Dots32, X64!DotOn, X64!L16, X64!L4, X64!L8, X64!Ld, X64!BSums
<1> QED BY ONLY <1>2, <1>3, x64IQ2XS_Are, Zenon

LEMMA x64IQ2S_Are ==
    ASSUME NEW b
    PROVE  X64!x64VecDotIQ2("iq2_s", b).dots = Dots82(x64IQ2S_Dots(b))
<1> DEFINE S(g) == {X64!DotOn(4 + 32 * g + 16 * h, 0, x64IQ2S_w(b, g, h), x64IQ2S_s(b, g, h)) : h \in 0 .. 1}
           T(g) == {x64IQ2S_Dots(b)[g][h] : h \in 0 .. 1}
<1>1. X64!x64VecDotIQ2("iq2_s", b).dots = UNION {S(g) : g \in 0 .. 7}
  BY DEF X64!x64VecDotIQ2, X64!GridDots32, X64!SignedPairs,
         X64!Form, X64!Dots32, X64!DotOn, X64!L16, X64!L4, X64!L8,
         x64IQ2S_w, x64IQ2S_s
<1>2. \A g \in 0 .. 7 : S(g) = T(g)
  BY DEF x64IQ2S_Dots
<1> HIDE DEF S, T
<1>3. X64!x64VecDotIQ2("iq2_s", b).dots = UNION {T(g) : g \in 0 .. 7}
  BY ONLY <1>1, <1>2
<1> QED BY ONLY <1>3, UnionDots82 DEF T

LEMMA x64IQ2S_Layout ==
    ASSUME NEW b
    PROVE  KRuns(X64!x64VecDotIQ2("iq2_s", b).dots) /\ Within(X64!x64VecDotIQ2("iq2_s", b), 82, 292)
<1>1. \A g \in 0 .. 7, h \in 0 .. 1 :
         /\ x64IQ2S_Dots(b)[g][h].y = 4 + 32 * g + 16 * h
         /\ x64IQ2S_Dots(b)[g][h].yd = 0 /\ DOMAIN x64IQ2S_Dots(b)[g][h].w = 0 .. 15
  BY Zenon DEF x64IQ2S_Dots, x64IQ2S_w, X64!DotOn
<1>2. KRuns(Dots82(x64IQ2S_Dots(b)))
  BY <1>1, KRuns82
<1>3. Within(X64!x64VecDotIQ2("iq2_s", b), 82, 292)
  BY DEF Within, X64!x64VecDotIQ2, X64!GridDots32, X64!SignedPairs,
         X64!Form, X64!Dots32, X64!DotOn, X64!L16, X64!L4, X64!L8, X64!Ld, X64!BSums
<1> QED BY ONLY <1>2, <1>3, x64IQ2S_Are, Zenon

LEMMA x64IQ1S_Are ==
    ASSUME NEW b
    PROVE  X64!x64VecDotIQ1(FALSE, b).dots = Dots82(x64IQ1S_Dots(b))
<1> DEFINE S(g) == {X64!DotOn(4 + 32 * g + 16 * h, 0, x64IQ1S_w(b, g, h), x64IQ1S_s(b, g, h)) : h \in 0 .. 1}
           T(g) == {x64IQ1S_Dots(b)[g][h] : h \in 0 .. 1}
<1>1. X64!x64VecDotIQ1(FALSE, b).dots = UNION {S(g) : g \in 0 .. 7}
  BY DEF X64!x64VecDotIQ1, X64!GridDots32, X64!SignedPairs,
         X64!Form, X64!Dots32, X64!DotOn, X64!L16, X64!L4, X64!L8,
         x64IQ1S_w, x64IQ1S_s
<1>2. \A g \in 0 .. 7 : S(g) = T(g)
  BY DEF x64IQ1S_Dots
<1> HIDE DEF S, T
<1>3. X64!x64VecDotIQ1(FALSE, b).dots = UNION {T(g) : g \in 0 .. 7}
  BY ONLY <1>1, <1>2
<1> QED BY ONLY <1>3, UnionDots82 DEF T

LEMMA x64IQ1S_Layout ==
    ASSUME NEW b
    PROVE  KRuns(X64!x64VecDotIQ1(FALSE, b).dots) /\ Within(X64!x64VecDotIQ1(FALSE, b), 50, 292)
<1>1. \A g \in 0 .. 7, h \in 0 .. 1 :
         /\ x64IQ1S_Dots(b)[g][h].y = 4 + 32 * g + 16 * h
         /\ x64IQ1S_Dots(b)[g][h].yd = 0 /\ DOMAIN x64IQ1S_Dots(b)[g][h].w = 0 .. 15
  BY Zenon DEF x64IQ1S_Dots, x64IQ1S_w, X64!DotOn
<1>2. KRuns(Dots82(x64IQ1S_Dots(b)))
  BY <1>1, KRuns82
<1>3. Within(X64!x64VecDotIQ1(FALSE, b), 50, 292)
  BY DEF Within, X64!x64VecDotIQ1, X64!GridDots32, X64!SignedPairs,
         X64!Form, X64!Dots32, X64!DotOn, X64!L16, X64!L4, X64!L8, X64!Ld, X64!BSums
<1> QED BY ONLY <1>2, <1>3, x64IQ1S_Are, Zenon

LEMMA x64IQ1M_Are ==
    ASSUME NEW b
    PROVE  X64!x64VecDotIQ1(TRUE, b).dots = Dots82(x64IQ1M_Dots(b))
<1> DEFINE S(g) == {X64!DotOn(4 + 32 * g + 16 * h, 0, x64IQ1M_w(b, g, h), x64IQ1M_s(b, g, h)) : h \in 0 .. 1}
           T(g) == {x64IQ1M_Dots(b)[g][h] : h \in 0 .. 1}
<1>1. X64!x64VecDotIQ1(TRUE, b).dots = UNION {S(g) : g \in 0 .. 7}
  BY DEF X64!x64VecDotIQ1, X64!GridDots32, X64!SignedPairs,
         X64!Form, X64!Dots32, X64!DotOn, X64!L16, X64!L4, X64!L8,
         x64IQ1M_w, x64IQ1M_s
<1>2. \A g \in 0 .. 7 : S(g) = T(g)
  BY DEF x64IQ1M_Dots
<1> HIDE DEF S, T
<1>3. X64!x64VecDotIQ1(TRUE, b).dots = UNION {T(g) : g \in 0 .. 7}
  BY ONLY <1>1, <1>2
<1> QED BY ONLY <1>3, UnionDots82 DEF T

LEMMA x64IQ1M_Layout ==
    ASSUME NEW b
    PROVE  KRuns(X64!x64VecDotIQ1(TRUE, b).dots) /\ Within(X64!x64VecDotIQ1(TRUE, b), 56, 292)
<1>1. \A g \in 0 .. 7, h \in 0 .. 1 :
         /\ x64IQ1M_Dots(b)[g][h].y = 4 + 32 * g + 16 * h
         /\ x64IQ1M_Dots(b)[g][h].yd = 0 /\ DOMAIN x64IQ1M_Dots(b)[g][h].w = 0 .. 15
  BY Zenon DEF x64IQ1M_Dots, x64IQ1M_w, X64!DotOn
<1>2. KRuns(Dots82(x64IQ1M_Dots(b)))
  BY <1>1, KRuns82
<1>3. Within(X64!x64VecDotIQ1(TRUE, b), 56, 292)
  BY DEF Within, X64!x64VecDotIQ1, X64!GridDots32, X64!SignedPairs,
         X64!Form, X64!Dots32, X64!DotOn, X64!L16, X64!L4, X64!L8, X64!Ld, X64!BSums
<1> QED BY ONLY <1>2, <1>3, x64IQ1M_Are, Zenon

-----------------------------------------------------------------------------
(* The row dots of amd64 over one q8_0 or q8_1 block: one 32-byte dot.     *)

LEMMA HalvesRuns ==
    ASSUME NEW E, NEW first \in {2, 4},
           \A h \in 0 .. 1 : E[h].y = first + 16 * h /\ E[h].yd = 0 /\ DOMAIN E[h].w = 0 .. 15
    PROVE  Runs(Each(E, 0 .. 1), first, 16, 1, 15, 0)
<1>1. ASSUME NEW d \in Each(E, 0 .. 1)
      PROVE  \E h \in 0 .. 1 : /\ d = E[h] /\ d.y = first + 16 * h /\ d.yd = 0
                               /\ DOMAIN d.w = 0 .. 15
  <2>1. PICK h \in 0 .. 1 : d = E[h]
    BY DEF Each
  <2> QED BY <2>1
<1>2. ASSUME NEW h \in 0 .. 1
      PROVE  \E d \in Each(E, 0 .. 1) : d.y = first + 16 * h
  <2>1. E[h] \in Each(E, 0 .. 1)
    BY <1>2 DEF Each
  <2> QED BY <2>1
<1>3. ASSUME NEW d \in Each(E, 0 .. 1), NEW e \in Each(E, 0 .. 1), d.y = e.y
      PROVE  d = e
  <2>1. PICK h \in 0 .. 1 : d = E[h] /\ d.y = first + 16 * h
    BY <1>1
  <2>2. PICK j \in 0 .. 1 : e = E[j] /\ e.y = first + 16 * j
    BY <1>1
  <2>3. h = j
    BY <1>3, <2>1, <2>2
  <2> QED BY <2>1, <2>2, <2>3
<1> QED BY <1>1, <1>2, <1>3 DEF Runs

LEMMA x64Q4_0_Are ==
    ASSUME NEW b
    PROVE  X64!x64VecDotLegacy("q4_0", b).dots = Each(x64Q4_0_Dots(b), 0 .. 1)
BY DEF X64!x64VecDotLegacy, X64!SignedPairs, X64!Form, X64!Dots32, X64!DotOn, X64!L16, X64!Unscaled,
       Each, x64Q4_0_Dots, x64Q4_0_w

LEMMA x64Q4_0_Layout ==
    ASSUME NEW b
    PROVE  Runs(X64!x64VecDotLegacy("q4_0", b).dots, 2, 16, 1, 15, 0) /\ Within(X64!x64VecDotLegacy("q4_0", b), 18, 34)
<1>1. \A h \in 0 .. 1 : /\ x64Q4_0_Dots(b)[h].y = 2 + 16 * h /\ x64Q4_0_Dots(b)[h].yd = 0
                        /\ DOMAIN x64Q4_0_Dots(b)[h].w = 0 .. 15
  BY DEF x64Q4_0_Dots, x64Q4_0_w, X64!DotOn
<1>2. Runs(Each(x64Q4_0_Dots(b), 0 .. 1), 2, 16, 1, 15, 0)
  BY <1>1, HalvesRuns
<1>3. Within(X64!x64VecDotLegacy("q4_0", b), 18, 34)
  BY DEF Within, X64!x64VecDotLegacy, X64!SignedPairs, X64!Form, X64!Dots32, X64!DotOn, X64!L16, X64!Unscaled
<1> QED BY ONLY <1>2, <1>3, x64Q4_0_Are, Zenon

LEMMA x64Q8_0_Are ==
    ASSUME NEW b
    PROVE  X64!x64VecDotLegacy("q8_0", b).dots = Each(x64Q8_0_Dots(b), 0 .. 1)
BY DEF X64!x64VecDotLegacy, X64!SignedPairs, X64!Form, X64!Dots32, X64!DotOn, X64!L16, X64!Unscaled,
       Each, x64Q8_0_Dots, x64Q8_0_w

LEMMA x64Q8_0_Layout ==
    ASSUME NEW b
    PROVE  Runs(X64!x64VecDotLegacy("q8_0", b).dots, 2, 16, 1, 15, 0) /\ Within(X64!x64VecDotLegacy("q8_0", b), 34, 34)
<1>1. \A h \in 0 .. 1 : /\ x64Q8_0_Dots(b)[h].y = 2 + 16 * h /\ x64Q8_0_Dots(b)[h].yd = 0
                        /\ DOMAIN x64Q8_0_Dots(b)[h].w = 0 .. 15
  BY DEF x64Q8_0_Dots, x64Q8_0_w, X64!DotOn
<1>2. Runs(Each(x64Q8_0_Dots(b), 0 .. 1), 2, 16, 1, 15, 0)
  BY <1>1, HalvesRuns
<1>3. Within(X64!x64VecDotLegacy("q8_0", b), 34, 34)
  BY DEF Within, X64!x64VecDotLegacy, X64!SignedPairs, X64!Form, X64!Dots32, X64!DotOn, X64!L16, X64!Unscaled
<1> QED BY ONLY <1>2, <1>3, x64Q8_0_Are, Zenon

LEMMA x64Q5_0_Are ==
    ASSUME NEW b
    PROVE  X64!x64VecDotQ5_0Kernel(b).dots = Each(x64Q5_0_Dots(b), 0 .. 1)
BY DEF X64!x64VecDotQ5_0Kernel, X64!SignedPairs, X64!Form, X64!Dots32, X64!DotOn, X64!L16, X64!Unscaled,
       Each, x64Q5_0_Dots, x64Q5_0_w

LEMMA x64Q5_0_Layout ==
    ASSUME NEW b
    PROVE  Runs(X64!x64VecDotQ5_0Kernel(b).dots, 2, 16, 1, 15, 0) /\ Within(X64!x64VecDotQ5_0Kernel(b), 22, 34)
<1>1. \A h \in 0 .. 1 : /\ x64Q5_0_Dots(b)[h].y = 2 + 16 * h /\ x64Q5_0_Dots(b)[h].yd = 0
                        /\ DOMAIN x64Q5_0_Dots(b)[h].w = 0 .. 15
  BY DEF x64Q5_0_Dots, x64Q5_0_w, X64!DotOn
<1>2. Runs(Each(x64Q5_0_Dots(b), 0 .. 1), 2, 16, 1, 15, 0)
  BY <1>1, HalvesRuns
<1>3. Within(X64!x64VecDotQ5_0Kernel(b), 22, 34)
  BY DEF Within, X64!x64VecDotQ5_0Kernel, X64!SignedPairs, X64!Form, X64!Dots32, X64!DotOn, X64!L16, X64!Unscaled
<1> QED BY ONLY <1>2, <1>3, x64Q5_0_Are, Zenon

LEMMA x64Q4_1_Are ==
    ASSUME NEW b
    PROVE  X64!x64VecDotQx1Kernel(FALSE, b).dots = Each(x64Q4_1_Dots(b), 0 .. 1)
BY DEF X64!x64VecDotQx1Kernel, X64!UnsignedPairs, X64!Form, X64!Dots32, X64!DotOn, X64!L16, X64!Unscaled,
       Each, x64Q4_1_Dots, x64Q4_1_w

LEMMA x64Q4_1_Layout ==
    ASSUME NEW b
    PROVE  Runs(X64!x64VecDotQx1Kernel(FALSE, b).dots, 4, 16, 1, 15, 0) /\ Within(X64!x64VecDotQx1Kernel(FALSE, b), 20, 36)
<1>1. \A h \in 0 .. 1 : /\ x64Q4_1_Dots(b)[h].y = 4 + 16 * h /\ x64Q4_1_Dots(b)[h].yd = 0
                        /\ DOMAIN x64Q4_1_Dots(b)[h].w = 0 .. 15
  BY DEF x64Q4_1_Dots, x64Q4_1_w, X64!DotOn
<1>2. Runs(Each(x64Q4_1_Dots(b), 0 .. 1), 4, 16, 1, 15, 0)
  BY <1>1, HalvesRuns
<1>3. Within(X64!x64VecDotQx1Kernel(FALSE, b), 20, 36)
  BY DEF Within, X64!x64VecDotQx1Kernel, X64!UnsignedPairs, X64!Form, X64!Dots32, X64!DotOn, X64!L16, X64!Unscaled
<1> QED BY ONLY <1>2, <1>3, x64Q4_1_Are, Zenon

LEMMA x64Q5_1_Are ==
    ASSUME NEW b
    PROVE  X64!x64VecDotQx1Kernel(TRUE, b).dots = Each(x64Q5_1_Dots(b), 0 .. 1)
BY DEF X64!x64VecDotQx1Kernel, X64!UnsignedPairs, X64!Form, X64!Dots32, X64!DotOn, X64!L16, X64!Unscaled,
       Each, x64Q5_1_Dots, x64Q5_1_w

LEMMA x64Q5_1_Layout ==
    ASSUME NEW b
    PROVE  Runs(X64!x64VecDotQx1Kernel(TRUE, b).dots, 4, 16, 1, 15, 0) /\ Within(X64!x64VecDotQx1Kernel(TRUE, b), 24, 36)
<1>1. \A h \in 0 .. 1 : /\ x64Q5_1_Dots(b)[h].y = 4 + 16 * h /\ x64Q5_1_Dots(b)[h].yd = 0
                        /\ DOMAIN x64Q5_1_Dots(b)[h].w = 0 .. 15
  BY DEF x64Q5_1_Dots, x64Q5_1_w, X64!DotOn
<1>2. Runs(Each(x64Q5_1_Dots(b), 0 .. 1), 4, 16, 1, 15, 0)
  BY <1>1, HalvesRuns
<1>3. Within(X64!x64VecDotQx1Kernel(TRUE, b), 24, 36)
  BY DEF Within, X64!x64VecDotQx1Kernel, X64!UnsignedPairs, X64!Form, X64!Dots32, X64!DotOn, X64!L16, X64!Unscaled
<1> QED BY ONLY <1>2, <1>3, x64Q5_1_Are, Zenon

LEMMA x64MXFP4_Are ==
    ASSUME NEW b
    PROVE  X64!x64VecDotLUT32("mxfp4", b).dots = Each(x64MXFP4_Dots(b), 0 .. 1)
BY DEF X64!x64VecDotLUT32, X64!SignedPairs, X64!Form, X64!Dots32, X64!DotOn, X64!L16, X64!Unscaled,
       Each, x64MXFP4_Dots, x64MXFP4_w

LEMMA x64MXFP4_Layout ==
    ASSUME NEW b
    PROVE  Runs(X64!x64VecDotLUT32("mxfp4", b).dots, 2, 16, 1, 15, 0) /\ Within(X64!x64VecDotLUT32("mxfp4", b), 17, 34)
<1>1. \A h \in 0 .. 1 : /\ x64MXFP4_Dots(b)[h].y = 2 + 16 * h /\ x64MXFP4_Dots(b)[h].yd = 0
                        /\ DOMAIN x64MXFP4_Dots(b)[h].w = 0 .. 15
  BY DEF x64MXFP4_Dots, x64MXFP4_w, X64!DotOn
<1>2. Runs(Each(x64MXFP4_Dots(b), 0 .. 1), 2, 16, 1, 15, 0)
  BY <1>1, HalvesRuns
<1>3. Within(X64!x64VecDotLUT32("mxfp4", b), 17, 34)
  BY DEF Within, X64!x64VecDotLUT32, X64!SignedPairs, X64!Form, X64!Dots32, X64!DotOn, X64!L16, X64!Unscaled
<1> QED BY ONLY <1>2, <1>3, x64MXFP4_Are, Zenon

LEMMA x64IQ4NL_Are ==
    ASSUME NEW b
    PROVE  X64!x64VecDotLUT32("iq4_nl", b).dots = Each(x64IQ4NL_Dots(b), 0 .. 1)
BY DEF X64!x64VecDotLUT32, X64!SignedPairs, X64!Form, X64!Dots32, X64!DotOn, X64!L16, X64!Unscaled,
       Each, x64IQ4NL_Dots, x64IQ4NL_w

LEMMA x64IQ4NL_Layout ==
    ASSUME NEW b
    PROVE  Runs(X64!x64VecDotLUT32("iq4_nl", b).dots, 2, 16, 1, 15, 0) /\ Within(X64!x64VecDotLUT32("iq4_nl", b), 18, 34)
<1>1. \A h \in 0 .. 1 : /\ x64IQ4NL_Dots(b)[h].y = 2 + 16 * h /\ x64IQ4NL_Dots(b)[h].yd = 0
                        /\ DOMAIN x64IQ4NL_Dots(b)[h].w = 0 .. 15
  BY DEF x64IQ4NL_Dots, x64IQ4NL_w, X64!DotOn
<1>2. Runs(Each(x64IQ4NL_Dots(b), 0 .. 1), 2, 16, 1, 15, 0)
  BY <1>1, HalvesRuns
<1>3. Within(X64!x64VecDotLUT32("iq4_nl", b), 18, 34)
  BY DEF Within, X64!x64VecDotLUT32, X64!SignedPairs, X64!Form, X64!Dots32, X64!DotOn, X64!L16, X64!Unscaled
<1> QED BY ONLY <1>2, <1>3, x64IQ4NL_Are, Zenon

-----------------------------------------------------------------------------
(* The cells of the repacked products: run g of a cell starts at y[g].     *)
Place(y, g) == y[g]

Cell3(D, j, k, l) == D[j][k][l]
Cell4(D, j, n, k, l) == D[j][n][k][l]

Lies(d, place, c, last) == d.y = place /\ d.yd = c /\ DOMAIN d.w = 0 .. last

Placed(dots, y, top, last, c) ==
    /\ \A d \in dots : \E g \in 0 .. top : Lies(d, Place(y, g), c, last)
    /\ \A g \in 0 .. top : \E d \in dots : d.y = Place(y, g)
    /\ \A d, e \in dots : d.y = e.y => d = e

Apart(y, top) == \A g, h \in 0 .. top : Place(y, g) = Place(y, h) => g = h

LEMMA PlacedRuns ==
    ASSUME NEW dots, NEW y, NEW top, NEW last, NEW c, NEW base, NEW step,
           Placed(dots, y, top, last, c), \A g \in 0 .. top : Place(y, g) = base + step * g
    PROVE  Runs(dots, base, step, top, last, c)
<1>1. ASSUME NEW d \in dots
      PROVE  \E g \in 0 .. top : d.y = base + step * g /\ d.yd = c /\ DOMAIN d.w = 0 .. last
  <2>1. PICK g \in 0 .. top : Lies(d, Place(y, g), c, last)
    BY DEF Placed
  <2> QED BY <2>1 DEF Lies
<1>2. ASSUME NEW g \in 0 .. top
      PROVE  \E d \in dots : d.y = base + step * g
  <2>1. PICK d \in dots : d.y = Place(y, g)
    BY <1>2 DEF Placed
  <2> QED BY <1>2, <2>1
<1> QED BY <1>1, <1>2 DEF Runs, Placed

(* Eight sub-blocks in runs of eight: chunk j, nibble k, quad l.           *)
Dots424(D) == {Cell3(D, j, k, l) : j \in 0 .. 3, k \in 0 .. 1, l \in 0 .. 3}

At424(j, k, l) == 8 * j + 4 * k + l

LEMMA At424Facts ==
    /\ \A j \in 0 .. 3, k \in 0 .. 1, l \in 0 .. 3 : At424(j, k, l) \in 0 .. 31
    /\ \A j \in 0 .. 3, k \in 0 .. 1, l \in 0 .. 3, jj \in 0 .. 3, kk \in 0 .. 1, ll \in 0 .. 3 :
           At424(j, k, l) = At424(jj, kk, ll) => j = jj /\ k = kk /\ l = ll
    /\ \A g \in 0 .. 31 : \E j \in 0 .. 3, k \in 0 .. 1, l \in 0 .. 3 : At424(j, k, l) = g
<1>1. ASSUME NEW j \in 0 .. 3, NEW k \in 0 .. 1, NEW l \in 0 .. 3
      PROVE  At424(j, k, l) \in 0 .. 31
  BY DEF At424
<1>2. ASSUME NEW j \in 0 .. 3, NEW k \in 0 .. 1, NEW l \in 0 .. 3,
             NEW jj \in 0 .. 3, NEW kk \in 0 .. 1, NEW ll \in 0 .. 3, At424(j, k, l) = At424(jj, kk, ll)
      PROVE  j = jj /\ k = kk /\ l = ll
  BY <1>2 DEF At424
<1>3. ASSUME NEW g \in 0 .. 31
      PROVE  \E j \in 0 .. 3, k \in 0 .. 1, l \in 0 .. 3 : At424(j, k, l) = g
  <2>1. g \div 8 \in 0 .. 3 /\ (g \div 4) % 2 \in 0 .. 1 /\ g % 4 \in 0 .. 3
    OBVIOUS
  <2>2. At424(g \div 8, (g \div 4) % 2, g % 4) = g
    BY DEF At424
  <2> QED BY ONLY <2>1, <2>2
<1> QED BY <1>1, <1>2, <1>3

LEMMA InDots424 ==
    ASSUME NEW D
    PROVE  /\ \A d \in Dots424(D) : \E j \in 0 .. 3, k \in 0 .. 1, l \in 0 .. 3 : d = Cell3(D, j, k, l)
           /\ \A j \in 0 .. 3, k \in 0 .. 1, l \in 0 .. 3 : Cell3(D, j, k, l) \in Dots424(D)
BY DEF Dots424

LEMMA Placed424 ==
    ASSUME NEW D, NEW y, NEW c, Apart(y, 31),
           \A j \in 0 .. 3, k \in 0 .. 1, l \in 0 .. 3 :
               Lies(Cell3(D, j, k, l), Place(y, At424(j, k, l)), c, 7)
    PROVE  Placed(Dots424(D), y, 31, 7, c)
<1>1. ASSUME NEW d \in Dots424(D)
      PROVE  \E j \in 0 .. 3, k \in 0 .. 1, l \in 0 .. 3 :
                 /\ d = Cell3(D, j, k, l) /\ At424(j, k, l) \in 0 .. 31
                 /\ Lies(d, Place(y, At424(j, k, l)), c, 7)
  <2>1. PICK j \in 0 .. 3, k \in 0 .. 1, l \in 0 .. 3 : d = Cell3(D, j, k, l)
    BY InDots424
  <2> QED BY <2>1, At424Facts
<1>2. ASSUME NEW g \in 0 .. 31
      PROVE  \E d \in Dots424(D) : d.y = Place(y, g)
  <2>1. PICK j \in 0 .. 3, k \in 0 .. 1, l \in 0 .. 3 : At424(j, k, l) = g
    BY At424Facts
  <2>2. Cell3(D, j, k, l) \in Dots424(D)
    BY <2>1, InDots424
  <2>3. Lies(Cell3(D, j, k, l), Place(y, g), c, 7)
    BY <2>1
  <2> QED BY ONLY <2>2, <2>3 DEF Lies
<1>3. ASSUME NEW d \in Dots424(D), NEW e \in Dots424(D), d.y = e.y
      PROVE  d = e
  <2>1. PICK j \in 0 .. 3, k \in 0 .. 1, l \in 0 .. 3 :
            d = Cell3(D, j, k, l) /\ At424(j, k, l) \in 0 .. 31 /\ Lies(d, Place(y, At424(j, k, l)), c, 7)
    BY <1>1
  <2>2. PICK jj \in 0 .. 3, kk \in 0 .. 1, ll \in 0 .. 3 :
            e = Cell3(D, jj, kk, ll) /\ At424(jj, kk, ll) \in 0 .. 31 /\ Lies(e, Place(y, At424(jj, kk, ll)), c, 7)
    BY <1>1
  <2>3. Place(y, At424(j, k, l)) = Place(y, At424(jj, kk, ll))
    BY ONLY <1>3, <2>1, <2>2 DEF Lies
  <2>4. At424(j, k, l) = At424(jj, kk, ll)
    BY <2>1, <2>2, <2>3 DEF Apart
  <2>5. j = jj /\ k = kk /\ l = ll
    BY <2>1, <2>2, <2>4, At424Facts
  <2> QED BY <2>1, <2>2, <2>5
<1>4. ASSUME NEW d \in Dots424(D)
      PROVE  \E g \in 0 .. 31 : Lies(d, Place(y, g), c, 7)
  BY <1>1
<1> QED BY <1>2, <1>3, <1>4 DEF Placed

(* q6_K: half of the block, pair of sub-blocks, nibble, quad.              *)
Dots2422(D) == {Cell4(D, j, n, k, l) : j \in 0 .. 1, n \in 0 .. 3, k \in 0 .. 1, l \in 0 .. 1}

At2422(j, n, k, l) == 16 * j + 2 * n + 8 * k + l

LEMMA At2422Facts ==
    /\ \A j \in 0 .. 1, n \in 0 .. 3, k \in 0 .. 1, l \in 0 .. 1 : At2422(j, n, k, l) \in 0 .. 31
    /\ \A j \in 0 .. 1, n \in 0 .. 3, k \in 0 .. 1, l \in 0 .. 1, jj \in 0 .. 1, nn \in 0 .. 3, kk \in 0 .. 1, ll \in 0 .. 1 :
           At2422(j, n, k, l) = At2422(jj, nn, kk, ll) => j = jj /\ n = nn /\ k = kk /\ l = ll
    /\ \A g \in 0 .. 31 : \E j \in 0 .. 1, n \in 0 .. 3, k \in 0 .. 1, l \in 0 .. 1 : At2422(j, n, k, l) = g
<1>1. ASSUME NEW j \in 0 .. 1, NEW n \in 0 .. 3, NEW k \in 0 .. 1, NEW l \in 0 .. 1
      PROVE  At2422(j, n, k, l) \in 0 .. 31
  BY DEF At2422
<1>2. ASSUME NEW j \in 0 .. 1, NEW n \in 0 .. 3, NEW k \in 0 .. 1, NEW l \in 0 .. 1,
             NEW jj \in 0 .. 1, NEW nn \in 0 .. 3, NEW kk \in 0 .. 1, NEW ll \in 0 .. 1, At2422(j, n, k, l) = At2422(jj, nn, kk, ll)
      PROVE  j = jj /\ n = nn /\ k = kk /\ l = ll
  BY <1>2 DEF At2422
<1>3. ASSUME NEW g \in 0 .. 31
      PROVE  \E j \in 0 .. 1, n \in 0 .. 3, k \in 0 .. 1, l \in 0 .. 1 : At2422(j, n, k, l) = g
  <2>1. g \div 16 \in 0 .. 1 /\ (g \div 2) % 4 \in 0 .. 3 /\ (g \div 8) % 2 \in 0 .. 1 /\ g % 2 \in 0 .. 1
    OBVIOUS
  <2>2. At2422(g \div 16, (g \div 2) % 4, (g \div 8) % 2, g % 2) = g
    BY DEF At2422
  <2> QED BY ONLY <2>1, <2>2
<1> QED BY <1>1, <1>2, <1>3

LEMMA InDots2422 ==
    ASSUME NEW D
    PROVE  /\ \A d \in Dots2422(D) : \E j \in 0 .. 1, n \in 0 .. 3, k \in 0 .. 1, l \in 0 .. 1 : d = Cell4(D, j, n, k, l)
           /\ \A j \in 0 .. 1, n \in 0 .. 3, k \in 0 .. 1, l \in 0 .. 1 : Cell4(D, j, n, k, l) \in Dots2422(D)
BY DEF Dots2422

LEMMA Placed2422 ==
    ASSUME NEW D, NEW y, NEW c, Apart(y, 31),
           \A j \in 0 .. 1, n \in 0 .. 3, k \in 0 .. 1, l \in 0 .. 1 :
               Lies(Cell4(D, j, n, k, l), Place(y, At2422(j, n, k, l)), c, 7)
    PROVE  Placed(Dots2422(D), y, 31, 7, c)
<1>1. ASSUME NEW d \in Dots2422(D)
      PROVE  \E j \in 0 .. 1, n \in 0 .. 3, k \in 0 .. 1, l \in 0 .. 1 :
                 /\ d = Cell4(D, j, n, k, l) /\ At2422(j, n, k, l) \in 0 .. 31
                 /\ Lies(d, Place(y, At2422(j, n, k, l)), c, 7)
  <2>1. PICK j \in 0 .. 1, n \in 0 .. 3, k \in 0 .. 1, l \in 0 .. 1 : d = Cell4(D, j, n, k, l)
    BY InDots2422
  <2> QED BY <2>1, At2422Facts
<1>2. ASSUME NEW g \in 0 .. 31
      PROVE  \E d \in Dots2422(D) : d.y = Place(y, g)
  <2>1. PICK j \in 0 .. 1, n \in 0 .. 3, k \in 0 .. 1, l \in 0 .. 1 : At2422(j, n, k, l) = g
    BY At2422Facts
  <2>2. Cell4(D, j, n, k, l) \in Dots2422(D)
    BY <2>1, InDots2422
  <2>3. Lies(Cell4(D, j, n, k, l), Place(y, g), c, 7)
    BY <2>1
  <2> QED BY ONLY <2>2, <2>3 DEF Lies
<1>3. ASSUME NEW d \in Dots2422(D), NEW e \in Dots2422(D), d.y = e.y
      PROVE  d = e
  <2>1. PICK j \in 0 .. 1, n \in 0 .. 3, k \in 0 .. 1, l \in 0 .. 1 :
            d = Cell4(D, j, n, k, l) /\ At2422(j, n, k, l) \in 0 .. 31 /\ Lies(d, Place(y, At2422(j, n, k, l)), c, 7)
    BY <1>1
  <2>2. PICK jj \in 0 .. 1, nn \in 0 .. 3, kk \in 0 .. 1, ll \in 0 .. 1 :
            e = Cell4(D, jj, nn, kk, ll) /\ At2422(jj, nn, kk, ll) \in 0 .. 31 /\ Lies(e, Place(y, At2422(jj, nn, kk, ll)), c, 7)
    BY <1>1
  <2>3. Place(y, At2422(j, n, k, l)) = Place(y, At2422(jj, nn, kk, ll))
    BY ONLY <1>3, <2>1, <2>2 DEF Lies
  <2>4. At2422(j, n, k, l) = At2422(jj, nn, kk, ll)
    BY <2>1, <2>2, <2>3 DEF Apart
  <2>5. j = jj /\ n = nn /\ k = kk /\ l = ll
    BY <2>1, <2>2, <2>4, At2422Facts
  <2> QED BY <2>1, <2>2, <2>5
<1>4. ASSUME NEW d \in Dots2422(D)
      PROVE  \E g \in 0 .. 31 : Lies(d, Place(y, g), c, 7)
  BY <1>1
<1> QED BY <1>2, <1>3, <1>4 DEF Placed

(* The 32-quant formats: of the loads n the column's two, and the nibbles. *)
(* half is the load's share of the columns: 4 pairs, or 2 fours.           *)
Cell2(D, n, h) == D[n][h]

AtX8(half, n, h) == n \div half + 2 * h

LEMMA AtX8Facts ==
    ASSUME NEW half \in {2, 4}, NEW p \in 0 .. half - 1
    PROVE  LET N == {n \in 0 .. 2 * half - 1 : n % half = p}
           IN  /\ \A n \in N, h \in 0 .. 1 : AtX8(half, n, h) \in 0 .. 3
               /\ \A n \in N, h \in 0 .. 1, q \in N, j \in 0 .. 1 :
                      AtX8(half, n, h) = AtX8(half, q, j) => n = q /\ h = j
               /\ \A g \in 0 .. 3 : \E n \in N, h \in 0 .. 1 : AtX8(half, n, h) = g
<1> DEFINE N == {n \in 0 .. 2 * half - 1 : n % half = p}
<1>0. ASSUME NEW n \in N
      PROVE  n \in 0 .. 2 * half - 1 /\ n % half = p /\ n \div half \in 0 .. 1
             /\ n = half * (n \div half) + p
  <2>1. CASE half = 2
    BY <1>0, <2>1
  <2>2. CASE half = 4
    BY <1>0, <2>2
  <2> QED BY <2>1, <2>2
<1>1. ASSUME NEW n \in N, NEW h \in 0 .. 1
      PROVE  AtX8(half, n, h) \in 0 .. 3
  BY <1>0 DEF AtX8
<1>2. ASSUME NEW n \in N, NEW h \in 0 .. 1, NEW q \in N, NEW j \in 0 .. 1,
             AtX8(half, n, h) = AtX8(half, q, j)
      PROVE  n = q /\ h = j
  <2>1. n \div half \in 0 .. 1 /\ q \div half \in 0 .. 1
    BY <1>0
  <2>2. n \div half = q \div half /\ h = j
    BY <1>2, <2>1 DEF AtX8
  <2> QED BY <1>0, <2>2
<1>3. ASSUME NEW g \in 0 .. 3
      PROVE  \E n \in N, h \in 0 .. 1 : AtX8(half, n, h) = g
  <2>1. half * (g % 2) + p \in N /\ g \div 2 \in 0 .. 1
        /\ AtX8(half, half * (g % 2) + p, g \div 2) = g
    <3>1. CASE half = 2
      BY <3>1 DEF AtX8
    <3>2. CASE half = 4
      BY <3>2 DEF AtX8
    <3> QED BY <3>1, <3>2
  <2> QED BY ONLY <2>1
<1> QED BY <1>1, <1>2, <1>3

LEMMA InGrid2Cells ==
    ASSUME NEW D, NEW N
    PROVE  /\ \A d \in Grid2(D, N, 0 .. 1) : \E n \in N, h \in 0 .. 1 : d = Cell2(D, n, h)
           /\ \A n \in N, h \in 0 .. 1 : Cell2(D, n, h) \in Grid2(D, N, 0 .. 1)
BY DEF Grid2, Cell2

LEMMA PlacedX8 ==
    ASSUME NEW D, NEW y, NEW c, Apart(y, 3),
           NEW half \in {2, 4}, NEW p \in 0 .. half - 1, NEW N,
           N = {n \in 0 .. 2 * half - 1 : n % half = p},
           \A n \in N, h \in 0 .. 1 : Lies(Cell2(D, n, h), Place(y, AtX8(half, n, h)), c, 7)
    PROVE  Placed(Grid2(D, N, 0 .. 1), y, 3, 7, c)
<1>0. /\ \A n \in N, h \in 0 .. 1 : AtX8(half, n, h) \in 0 .. 3
      /\ \A n \in N, h \in 0 .. 1, q \in N, j \in 0 .. 1 :
             AtX8(half, n, h) = AtX8(half, q, j) => n = q /\ h = j
      /\ \A g \in 0 .. 3 : \E n \in N, h \in 0 .. 1 : AtX8(half, n, h) = g
  BY AtX8Facts, SMTT(30)
<1>1. ASSUME NEW d \in Grid2(D, N, 0 .. 1)
      PROVE  \E n \in N, h \in 0 .. 1 :
                 /\ d = Cell2(D, n, h) /\ AtX8(half, n, h) \in 0 .. 3
                 /\ Lies(d, Place(y, AtX8(half, n, h)), c, 7)
  <2>1. PICK n \in N, h \in 0 .. 1 : d = Cell2(D, n, h)
    BY InGrid2Cells
  <2> QED BY <1>0, <2>1
<1>2. ASSUME NEW g \in 0 .. 3
      PROVE  \E d \in Grid2(D, N, 0 .. 1) : d.y = Place(y, g)
  <2>1. PICK n \in N, h \in 0 .. 1 : AtX8(half, n, h) = g
    BY <1>0
  <2>2. Cell2(D, n, h) \in Grid2(D, N, 0 .. 1)
    BY <2>1, InGrid2Cells
  <2>3. Lies(Cell2(D, n, h), Place(y, g), c, 7)
    BY <2>1
  <2> QED BY ONLY <2>2, <2>3 DEF Lies
<1>3. ASSUME NEW d \in Grid2(D, N, 0 .. 1), NEW e \in Grid2(D, N, 0 .. 1), d.y = e.y
      PROVE  d = e
  <2>1. PICK n \in N, h \in 0 .. 1 :
            /\ d = Cell2(D, n, h) /\ AtX8(half, n, h) \in 0 .. 3
            /\ Lies(d, Place(y, AtX8(half, n, h)), c, 7)
    BY <1>1
  <2>2. PICK q \in N, j \in 0 .. 1 :
            /\ e = Cell2(D, q, j) /\ AtX8(half, q, j) \in 0 .. 3
            /\ Lies(e, Place(y, AtX8(half, q, j)), c, 7)
    BY <1>1
  <2>3. Place(y, AtX8(half, n, h)) = Place(y, AtX8(half, q, j))
    BY ONLY <1>3, <2>1, <2>2 DEF Lies
  <2>4. AtX8(half, n, h) = AtX8(half, q, j)
    BY <2>1, <2>2, <2>3 DEF Apart
  <2> QED BY <1>0, <2>1, <2>2, <2>4
<1>4. ASSUME NEW d \in Grid2(D, N, 0 .. 1)
      PROVE  \E g \in 0 .. 3 : Lies(d, Place(y, g), c, 7)
  BY <1>1
<1> QED BY <1>2, <1>3, <1>4 DEF Placed
(* q8_0, in runs of four: one after the other, or two to a load.           *)
LEMMA RunsQuads ==
    ASSUME NEW E, NEW base \in Int, NEW step \in {4, 16}, NEW c,
           \A g \in 0 .. 7 : /\ E[g].y = base + step * g
                             /\ E[g].yd = c /\ DOMAIN E[g].w = 0 .. 3
    PROVE  Runs(Each(E, 0 .. 7), base, step, 7, 3, c)
<1>1. ASSUME NEW d \in Each(E, 0 .. 7)
      PROVE  \E g \in 0 .. 7 : /\ d = E[g] /\ d.y = base + step * g
                               /\ d.yd = c /\ DOMAIN d.w = 0 .. 3
  <2>1. PICK g \in 0 .. 7 : d = E[g]
    BY DEF Each
  <2> QED BY <2>1
<1>2. ASSUME NEW g \in 0 .. 7
      PROVE  \E d \in Each(E, 0 .. 7) : d.y = base + step * g
  <2>1. E[g] \in Each(E, 0 .. 7)
    BY <1>2 DEF Each
  <2> QED BY <2>1
<1>3. ASSUME NEW d \in Each(E, 0 .. 7), NEW e \in Each(E, 0 .. 7), d.y = e.y
      PROVE  d = e
  <2>1. PICK g \in 0 .. 7 : d = E[g] /\ d.y = base + step * g
    BY <1>1
  <2>2. PICK h \in 0 .. 7 : e = E[h] /\ e.y = base + step * h
    BY <1>1
  <2>3. base + step * g = base + step * h
    BY <1>3, <2>1, <2>2
  <2>4. g = h
    <3>1. CASE step = 4
      BY <2>3, <3>1
    <3>2. CASE step = 16
      BY <2>3, <3>2
    <3> QED BY <3>1, <3>2
  <2> QED BY <2>1, <2>2, <2>4
<1> QED BY <1>1, <1>2, <1>3 DEF Runs

LEMMA RunsQuadPairs ==
    ASSUME NEW D, NEW base \in Int, NEW step \in {4, 16}, NEW c,
           \A p \in 0 .. 3, h \in 0 .. 1 :
               /\ D[p][h].y = base + step * (2 * p + h)
               /\ D[p][h].yd = c /\ DOMAIN D[p][h].w = 0 .. 3
    PROVE  Runs(Grid2(D, 0 .. 3, 0 .. 1), base, step, 7, 3, c)
<1>1. ASSUME NEW d \in Grid2(D, 0 .. 3, 0 .. 1)
      PROVE  \E p \in 0 .. 3, h \in 0 .. 1 :
                 /\ d = D[p][h] /\ 2 * p + h \in 0 .. 7 /\ d.y = base + step * (2 * p + h)
                 /\ d.yd = c /\ DOMAIN d.w = 0 .. 3
  <2>1. PICK p \in 0 .. 3, h \in 0 .. 1 : d = D[p][h]
    BY DEF Grid2
  <2>2. 2 * p + h \in 0 .. 7
    OBVIOUS
  <2> QED BY <2>1, <2>2
<1>2. ASSUME NEW g \in 0 .. 7
      PROVE  \E d \in Grid2(D, 0 .. 3, 0 .. 1) : d.y = base + step * g
  <2> DEFINE p == g \div 2
             h == g % 2
  <2>1. p \in 0 .. 3 /\ h \in 0 .. 1 /\ 2 * p + h = g
    OBVIOUS
  <2> HIDE DEF p, h
  <2>2. D[p][h] \in Grid2(D, 0 .. 3, 0 .. 1)
    BY <2>1, InGrid2
  <2>3. D[p][h].y = base + step * (2 * p + h)
    BY <2>1
  <2> QED BY <2>1, <2>2, <2>3
<1>3. ASSUME NEW d \in Grid2(D, 0 .. 3, 0 .. 1), NEW e \in Grid2(D, 0 .. 3, 0 .. 1), d.y = e.y
      PROVE  d = e
  <2>1. PICK p \in 0 .. 3, h \in 0 .. 1 : d = D[p][h] /\ d.y = base + step * (2 * p + h)
    BY <1>1
  <2>2. PICK q \in 0 .. 3, j \in 0 .. 1 : e = D[q][j] /\ e.y = base + step * (2 * q + j)
    BY <1>1
  <2>3. base + step * (2 * p + h) = base + step * (2 * q + j)
    BY <1>3, <2>1, <2>2
  <2>4. p = q /\ h = j
    <3>1. CASE step = 4
      BY <2>3, <3>1
    <3>2. CASE step = 16
      BY <2>3, <3>2
    <3> QED BY <3>1, <3>2
  <2> QED BY <2>1, <2>2, <2>4
<1>4. ASSUME NEW d \in Grid2(D, 0 .. 3, 0 .. 1)
      PROVE  \E g \in 0 .. 7 : d.y = base + step * g /\ d.yd = c /\ DOMAIN d.w = 0 .. 3
  BY <1>1
<1> QED BY <1>2, <1>3, <1>4 DEF Runs

-----------------------------------------------------------------------------
(* The nests of arm64.                                                     *)

LEMMA a64Kx8_Placed ==
    ASSUME NEW L, NEW b, NEW c, NEW y, NEW yd, NEW mins, NEW ldy, Apart(y, 31)
    PROVE  Placed(PA64!a64Kx8Form(L, b, c, y, yd, mins, ldy).dots, y, 31, 7, yd)
<1>1. PA64!a64Kx8Form(L, b, c, y, yd, mins, ldy).dots = Dots424(a64Kx8_Dots(L, b, c, y, yd))
  BY DEF PA64!a64Kx8Form, PA64!Form, PA64!DotOn, PA64!L4,
         Dots424, Cell3, a64Kx8_Dots, a64Kx8_w, a64Kx8_s
<1>2. \A j \in 0 .. 3, n \in 0 .. 1, k \in 0 .. 3 :
          Lies(Cell3(a64Kx8_Dots(L, b, c, y, yd), j, n, k), Place(y, At424(j, n, k)), yd, 7)
  <2>1. \A j \in 0 .. 3, n \in 0 .. 1, k \in 0 .. 3 : DOMAIN a64Kx8_w(L, b, c, j, n, k) = 0 .. 7
    BY DEF a64Kx8_w, PA64!L8
  <2>2. \A j \in 0 .. 3, n \in 0 .. 1, k \in 0 .. 3 :
           Cell3(a64Kx8_Dots(L, b, c, y, yd), j, n, k)
           = PA64!DotOn(Place(y, At424(j, n, k)), yd, a64Kx8_w(L, b, c, j, n, k), a64Kx8_s(L, b, c, j, n, k))
    BY DEF Cell3, a64Kx8_Dots, Place, At424
  <2> QED BY ONLY <2>1, <2>2 DEF PA64!DotOn, Lies
<1>3. Placed(Dots424(a64Kx8_Dots(L, b, c, y, yd)), y, 31, 7, yd)
  BY <1>2, Placed424
<1> QED BY <1>1, <1>3

LEMMA a64Q6_Placed ==
    ASSUME NEW b, NEW c, NEW centre, NEW y, NEW yd, Apart(y, 31)
    PROVE  Placed(PA64!a64Q6Form(b, c, y, yd, centre).dots, y, 31, 7, yd)
<1>1. PA64!a64Q6Form(b, c, y, yd, centre).dots = Dots2422(a64Q6_Dots(b, c, centre, y, yd))
  BY DEF PA64!a64Q6Form, PA64!Form, PA64!DotOn, PA64!L4,
         Dots2422, Cell4, a64Q6_Dots, a64Q6_w, a64Q6_s
<1>2. \A j \in 0 .. 1, n \in 0 .. 3, h \in 0 .. 1, k \in 0 .. 1 :
          Lies(Cell4(a64Q6_Dots(b, c, centre, y, yd), j, n, h, k), Place(y, At2422(j, n, h, k)), yd, 7)
  <2>1. \A j \in 0 .. 1, n \in 0 .. 3, h \in 0 .. 1, k \in 0 .. 1 : DOMAIN a64Q6_w(b, c, centre, j, n, h, k) = 0 .. 7
    BY DEF a64Q6_w, PA64!L8
  <2>2. \A j \in 0 .. 1, n \in 0 .. 3, h \in 0 .. 1, k \in 0 .. 1 :
           Cell4(a64Q6_Dots(b, c, centre, y, yd), j, n, h, k)
           = PA64!DotOn(Place(y, At2422(j, n, h, k)), yd, a64Q6_w(b, c, centre, j, n, h, k), a64Q6_s(b, c, centre, j, n, h, k))
    BY DEF Cell4, a64Q6_Dots, Place, At2422
  <2> QED BY ONLY <2>1, <2>2 DEF PA64!DotOn, Lies
<1>3. Placed(Dots2422(a64Q6_Dots(b, c, centre, y, yd)), y, 31, 7, yd)
  BY <1>2, Placed2422
<1> QED BY <1>1, <1>3

LEMMA a64X8_Placed ==
    ASSUME NEW L, NEW b, NEW c \in 0 .. 7, NEW y, NEW yd, Apart(y, 3)
    PROVE  Placed(PA64!a64X8Form(L, b, c, y, yd).dots, y, 3, 7, yd)
<1> DEFINE D == a64X8_Dots(L, b, c, y, yd)
           N == a64X8_N(c)
<1>1. PA64!a64X8Form(L, b, c, y, yd).dots = Grid2(D, N, 0 .. 1)
  <2> DEFINE E(n, h) == PA64!DotOn(y[n \div 4 + 2 * h], yd, a64X8_w(L, b, c, n, h), 1)
  <2>1. PA64!a64X8Form(L, b, c, y, yd).dots = {E(n, h) : n \in N, h \in 0 .. 1}
    BY DEF PA64!a64X8Form, PA64!Form, PA64!L8, a64X8_N, a64X8_w
  <2>2. \A n \in N, h \in 0 .. 1 : D[n][h] = E(n, h)
    BY DEF a64X8_Dots
  <2> HIDE DEF D, N, E
  <2> DEFINE S == {E(n, h) : n \in N, h \in 0 .. 1}
  <2>3. S = Grid2(D, N, 0 .. 1)
    BY ONLY <2>2 DEF Grid2
  <2>4. PA64!a64X8Form(L, b, c, y, yd).dots = S
    BY ONLY <2>1
  <2> HIDE DEF S
  <2> QED BY <2>3, <2>4
<1>2. \A n \in N, h \in 0 .. 1 : Lies(Cell2(D, n, h), Place(y, AtX8(4, n, h)), yd, 7)
  <2>1. \A n \in N, h \in 0 .. 1 : DOMAIN a64X8_w(L, b, c, n, h) = 0 .. 7
    BY DEF a64X8_w, PA64!L8
  <2>2. \A n \in N, h \in 0 .. 1 :
           Cell2(D, n, h) = PA64!DotOn(Place(y, AtX8(4, n, h)), yd, a64X8_w(L, b, c, n, h), 1)
    BY DEF Cell2, a64X8_Dots, Place, AtX8
  <2> QED BY ONLY <2>1, <2>2 DEF PA64!DotOn, Lies
<1>3. N = {n \in 0 .. 2 * 4 - 1 : n % 4 = c \div 2} /\ c \div 2 \in 0 .. 4 - 1
  BY DEF a64X8_N
<1> HIDE DEF D, N
<1>4. Placed(Grid2(D, N, 0 .. 1), y, 3, 7, yd)
  BY <1>2, <1>3, PlacedX8
<1> QED BY <1>1, <1>4

LEMMA a64RepackGemv_Layout ==
    ASSUME NEW b, NEW c
    PROVE  /\ Runs(PA64!a64RepackGemvKernel(b, c).dots, 2, 4, 7, 3, 0)
           /\ Within(PA64!a64RepackGemvKernel(b, c), 136, 34)
<1> DEFINE D == a64RepackGemv_Dots(b, c)
<1>1. PA64!a64RepackGemvKernel(b, c).dots = Each(D, 0 .. 7)
  BY DEF PA64!a64RepackGemvKernel, PA64!Form, PA64!Dot, PA64!DotOn, PA64!L8, Each, a64RepackGemv_Dots
<1>2. \A g \in 0 .. 7 : D[g].y = 2 + 4 * g /\ D[g].yd = 0 /\ DOMAIN D[g].w = 0 .. 3
  <2>1. \A g \in 0 .. 7 : DOMAIN PA64!QuadOf(b, g, c) = 0 .. 3
    BY DEF PA64!QuadOf, PA64!L4
  <2>2. \A g \in 0 .. 7 : D[g] = PA64!Dot(2 + 16 * (g \div 4) + 4 * (g % 4), PA64!QuadOf(b, g, c), 1)
    BY DEF a64RepackGemv_Dots
  <2>3. \A g \in 0 .. 7 : 2 + 16 * (g \div 4) + 4 * (g % 4) = 2 + 4 * g
    OBVIOUS
  <2> QED BY ONLY <2>1, <2>2, <2>3 DEF PA64!Dot, PA64!DotOn
<1> HIDE DEF D
<1>3. Runs(Each(D, 0 .. 7), 2, 4, 7, 3, 0)
  BY <1>2, RunsQuads
<1>4. Within(PA64!a64RepackGemvKernel(b, c), 136, 34)
  BY DEF Within, PA64!a64RepackGemvKernel, PA64!Form, PA64!a64RepackLoads, PA64!Ld, PA64!L8
<1> QED BY <1>1, <1>3, <1>4

LEMMA a64RepackGemm_Layout ==
    ASSUME NEW feature, NEW b, NEW c, NEW r \in 0 .. 3
    PROVE  /\ Runs(PA64!a64RepackGemmKernel(feature, b, c, r).dots, 8 + 4 * r, 16, 7, 3, 2 * r)
           /\ Within(PA64!a64RepackGemmKernel(feature, b, c, r), 136, 136)
<1>1. ASSUME feature = "i8mm"
      PROVE  Runs(PA64!a64RepackGemmKernel(feature, b, c, r).dots, 8 + 4 * r, 16, 7, 3, 2 * r)
  <2> DEFINE D == a64RepackGemm_Zipped(b, c, r)
  <2>1. PA64!a64RepackGemmKernel(feature, b, c, r).dots = Grid2(D, 0 .. 3, 0 .. 1)
    BY <1>1 DEF PA64!a64RepackGemmKernel, PA64!Form, PA64!DotOn, PA64!L4, Grid2, a64RepackGemm_Zipped
  <2>2. \A p \in 0 .. 3, h \in 0 .. 1 :
           D[p][h].y = (8 + 4 * r) + 16 * (2 * p + h) /\ D[p][h].yd = 2 * r /\ DOMAIN D[p][h].w = 0 .. 3
    <3>1. \A p \in 0 .. 3, h \in 0 .. 1 : DOMAIN PA64!QuadOf(b, 2 * p + h, c) = 0 .. 3
      BY DEF PA64!QuadOf, PA64!L4
    <3>2. \A p \in 0 .. 3, h \in 0 .. 1 :
             D[p][h] = PA64!DotOn(8 + 32 * p + 16 * h + 4 * r, 2 * r, PA64!QuadOf(b, 2 * p + h, c), 1)
      BY DEF a64RepackGemm_Zipped
    <3>3. \A p \in 0 .. 3, h \in 0 .. 1 : 8 + 32 * p + 16 * h + 4 * r = (8 + 4 * r) + 16 * (2 * p + h)
      OBVIOUS
    <3> QED BY ONLY <3>1, <3>2, <3>3 DEF PA64!DotOn
  <2> HIDE DEF D
  <2>3. Runs(Grid2(D, 0 .. 3, 0 .. 1), 8 + 4 * r, 16, 7, 3, 2 * r)
    BY <2>2, RunsQuadPairs
  <2> QED BY <2>1, <2>3
<1>2. ASSUME feature # "i8mm"
      PROVE  Runs(PA64!a64RepackGemmKernel(feature, b, c, r).dots, 8 + 4 * r, 16, 7, 3, 2 * r)
  <2> DEFINE D == a64RepackGemm_Dots(b, c, r)
  <2>1. PA64!a64RepackGemmKernel(feature, b, c, r).dots = Each(D, 0 .. 7)
    BY <1>2 DEF PA64!a64RepackGemmKernel, PA64!Form, PA64!DotOn, PA64!L8, Each, a64RepackGemm_Dots
  <2>2. \A g \in 0 .. 7 : D[g].y = (8 + 4 * r) + 16 * g /\ D[g].yd = 2 * r /\ DOMAIN D[g].w = 0 .. 3
    <3>1. \A g \in 0 .. 7 : DOMAIN PA64!QuadOf(b, g, c) = 0 .. 3
      BY DEF PA64!QuadOf, PA64!L4
    <3>2. \A g \in 0 .. 7 : D[g] = PA64!DotOn(8 + 16 * g + 4 * r, 2 * r, PA64!QuadOf(b, g, c), 1)
      BY DEF a64RepackGemm_Dots
    <3>3. \A g \in 0 .. 7 : 8 + 16 * g + 4 * r = (8 + 4 * r) + 16 * g
      OBVIOUS
    <3> QED BY ONLY <3>1, <3>2, <3>3 DEF PA64!DotOn
  <2> HIDE DEF D
  <2>3. Runs(Each(D, 0 .. 7), 8 + 4 * r, 16, 7, 3, 2 * r)
    BY <2>2, RunsQuads
  <2> QED BY <2>1, <2>3
<1>3. Within(PA64!a64RepackGemmKernel(feature, b, c, r), 136, 136)
  BY DEF Within, PA64!a64RepackGemmKernel, PA64!Form, PA64!a64RepackLoads, PA64!Ld, PA64!L8
<1> QED BY <1>1, <1>2, <1>3

-----------------------------------------------------------------------------
(* The nests of amd64.                                                     *)
Sums424(D) == {{Cell3(D, j, k, l) : l \in 0 .. 3} : j \in 0 .. 3, k \in 0 .. 1}

LEMMA UnionDots424 ==
    ASSUME NEW D
    PROVE  UNION Sums424(D) = Dots424(D)
<1> DEFINE S(j, k) == {Cell3(D, j, k, l) : l \in 0 .. 3}
           U == UNION {S(j, k) : j \in 0 .. 3, k \in 0 .. 1}
<1>0. UNION Sums424(D) = U
  BY DEF Sums424
<1>1. \A j, k, l : l \in 0 .. 3 => Cell3(D, j, k, l) \in S(j, k)
  OBVIOUS
<1>2. \A j, k, d : d \in S(j, k) => \E l \in 0 .. 3 : d = Cell3(D, j, k, l)
  OBVIOUS
<1> HIDE DEF S
<1>3. \A d : d \in U <=> \E j \in 0 .. 3, k \in 0 .. 1 : d \in S(j, k)
  OBVIOUS
<1> HIDE DEF U
<1>4. \A d : d \in U <=> d \in Dots424(D)
  BY ONLY <1>1, <1>2, <1>3, InDots424
<1>5. U = Dots424(D)
  BY ONLY <1>4
<1> QED BY ONLY <1>0, <1>5, Zenon

Sums2422(D) ==
    {{Cell4(D, j, n, k, l) : l \in 0 .. 1} : j \in 0 .. 1, k \in 0 .. 1, n \in 0 .. 3}

LEMMA UnionDots2422 ==
    ASSUME NEW D
    PROVE  UNION Sums2422(D) = Dots2422(D)
<1> DEFINE S(j, k, n) == {Cell4(D, j, n, k, l) : l \in 0 .. 1}
           U == UNION {S(j, k, n) : j \in 0 .. 1, k \in 0 .. 1, n \in 0 .. 3}
<1>0. UNION Sums2422(D) = U
  BY DEF Sums2422
<1>1. \A j, k, n, l : l \in 0 .. 1 => Cell4(D, j, n, k, l) \in S(j, k, n)
  OBVIOUS
<1>2. \A j, k, n, d : d \in S(j, k, n) => \E l \in 0 .. 1 : d = Cell4(D, j, n, k, l)
  OBVIOUS
<1> HIDE DEF S
<1>3. \A d : d \in U <=> \E j \in 0 .. 1, k \in 0 .. 1, n \in 0 .. 3 : d \in S(j, k, n)
  OBVIOUS
<1> HIDE DEF U
<1>4. \A d : d \in U <=> d \in Dots2422(D)
  BY ONLY <1>1, <1>2, <1>3, InDots2422
<1>5. U = Dots2422(D)
  BY ONLY <1>4
<1> QED BY ONLY <1>0, <1>5, Zenon

LEMMA x64Kx8_Are ==
    ASSUME NEW L, NEW b, NEW c, NEW y, NEW yd
    PROVE  PX64!x64Kx8Dots(L, b, c, y, yd) = Sums424(x64Kx8_Dots(L, b, c, y, yd))
BY DEF PX64!x64Kx8Dots, PX64!L4, Sums424, Cell3, x64Kx8_Dots

LEMMA x64Kx8_Placed ==
    ASSUME NEW L, NEW b, NEW c, NEW y, NEW yd, Apart(y, 31)
    PROVE  Placed(UNION PX64!x64Kx8Dots(L, b, c, y, yd), y, 31, 7, yd)
<1> DEFINE D == x64Kx8_Dots(L, b, c, y, yd)
<1>1. PX64!x64Kx8Dots(L, b, c, y, yd) = Sums424(D)
  BY x64Kx8_Are, Zenon
<1>2. \A j \in 0 .. 3, n \in 0 .. 1, k \in 0 .. 3 :
          Lies(Cell3(D, j, n, k), Place(y, At424(j, n, k)), yd, 7)
  <2>1. \A j \in 0 .. 3, n \in 0 .. 1, k \in 0 .. 3 :
           Cell3(D, j, n, k) = PX64!x64Kx8Dot(L, b, c, y, yd, j, n, k)
    BY DEF Cell3, x64Kx8_Dots
  <2>2. ASSUME NEW j \in 0 .. 3, NEW n \in 0 .. 1, NEW k \in 0 .. 3
        PROVE  Lies(PX64!x64Kx8Dot(L, b, c, y, yd, j, n, k), Place(y, At424(j, n, k)), yd, 7)
    BY DEF Lies, PX64!x64Kx8Dot, PX64!DotOn, PX64!L8, Place, At424
  <2> QED BY ONLY <2>1, <2>2
<1> HIDE DEF D
<1>3. Placed(Dots424(D), y, 31, 7, yd)
  BY <1>2, Placed424
<1> QED BY <1>1, <1>3, UnionDots424

LEMMA x64Q6_Are ==
    ASSUME NEW b, NEW c, NEW y, NEW yd
    PROVE  PX64!x64Q6Dots(b, c, y, yd) = Sums2422(x64Q6_Dots(b, c, y, yd))
BY DEF PX64!x64Q6Dots, PX64!L4, Sums2422, Cell4, x64Q6_Dots, x64Q6_w, x64Q6_s, x64Q6_quant

LEMMA x64Q6_Placed ==
    ASSUME NEW b, NEW c, NEW y, NEW yd, Apart(y, 31)
    PROVE  Placed(UNION PX64!x64Q6Dots(b, c, y, yd), y, 31, 7, yd)
<1> DEFINE D == x64Q6_Dots(b, c, y, yd)
<1>1. PX64!x64Q6Dots(b, c, y, yd) = Sums2422(D)
  BY x64Q6_Are, Zenon
<1>2. \A j \in 0 .. 1, n \in 0 .. 3, h \in 0 .. 1, k \in 0 .. 1 :
          Lies(Cell4(D, j, n, h, k), Place(y, At2422(j, n, h, k)), yd, 7)
  <2>1. \A j \in 0 .. 1, n \in 0 .. 3, h \in 0 .. 1, k \in 0 .. 1 : DOMAIN x64Q6_w(b, c, j, n, h, k) = 0 .. 7
    BY DEF x64Q6_w, PX64!L8
  <2>2. \A j \in 0 .. 1, n \in 0 .. 3, h \in 0 .. 1, k \in 0 .. 1 :
           Cell4(D, j, n, h, k)
           = PX64!DotOn(Place(y, At2422(j, n, h, k)), yd, x64Q6_w(b, c, j, n, h, k), x64Q6_s(b, c, j, n, h))
    BY DEF Cell4, x64Q6_Dots, Place, At2422
  <2> QED BY ONLY <2>1, <2>2 DEF PX64!DotOn, Lies
<1> HIDE DEF D
<1>3. Placed(Dots2422(D), y, 31, 7, yd)
  BY <1>2, Placed2422
<1> QED BY <1>1, <1>3, UnionDots2422

LEMMA x64X8_Are ==
    ASSUME NEW L, NEW b, NEW c, NEW y, NEW yd
    PROVE  PX64!x64X8Form(L, b, c, y, yd).dots = Grid2(x64X8_Dots(L, b, c, y, yd), x64X8_N(c), 0 .. 1)
<1> DEFINE D == x64X8_Dots(L, b, c, y, yd)
           N == x64X8_N(c)
<1>1. PX64!x64X8Form(L, b, c, y, yd).dots = Grid2(D, N, 0 .. 1)
  <2> DEFINE E(n, h) == PX64!DotOn(y[n \div 2 + 2 * h], yd, x64X8_w(L, b, c, n, h), 1)
  <2>1. PX64!x64X8Form(L, b, c, y, yd).dots = {E(n, h) : n \in N, h \in 0 .. 1}
    BY DEF PX64!x64X8Form, PX64!Form, PX64!SignedPairs, PX64!UnsignedPairs, x64X8_N, x64X8_w
  <2>2. \A n \in N, h \in 0 .. 1 : D[n][h] = E(n, h)
    BY DEF x64X8_Dots
  <2> HIDE DEF D, N, E
  <2> DEFINE S == {E(n, h) : n \in N, h \in 0 .. 1}
  <2>3. S = Grid2(D, N, 0 .. 1)
    BY ONLY <2>2 DEF Grid2
  <2>4. PX64!x64X8Form(L, b, c, y, yd).dots = S
    BY ONLY <2>1
  <2> HIDE DEF S
  <2> QED BY <2>3, <2>4
<1> QED BY <1>1

LEMMA x64X8_Placed ==
    ASSUME NEW L, NEW b, NEW c \in 0 .. 7, NEW y, NEW yd, Apart(y, 3)
    PROVE  Placed(PX64!x64X8Form(L, b, c, y, yd).dots, y, 3, 7, yd)
<1> DEFINE D == x64X8_Dots(L, b, c, y, yd)
           N == x64X8_N(c)
<1>1. PX64!x64X8Form(L, b, c, y, yd).dots = Grid2(D, N, 0 .. 1)
  BY x64X8_Are, Zenon
<1>2. \A n \in N, h \in 0 .. 1 : Lies(Cell2(D, n, h), Place(y, AtX8(2, n, h)), yd, 7)
  <2>1. \A n \in N, h \in 0 .. 1 : DOMAIN x64X8_w(L, b, c, n, h) = 0 .. 7
    BY DEF x64X8_w, PX64!L8
  <2>2. \A n \in N, h \in 0 .. 1 :
           Cell2(D, n, h) = PX64!DotOn(Place(y, AtX8(2, n, h)), yd, x64X8_w(L, b, c, n, h), 1)
    BY DEF Cell2, x64X8_Dots, Place, AtX8
  <2> QED BY ONLY <2>1, <2>2 DEF PX64!DotOn, Lies
<1>3. N = {n \in 0 .. 2 * 2 - 1 : n % 2 = PX64!HaddAt(PX64!LaneOf(c)) \div 32}
  BY DEF x64X8_N, PX64!L4
<1>4. PX64!HaddAt(PX64!LaneOf(c)) \div 32 \in 0 .. 2 - 1
  <2>1. PX64!LaneOf(c) \in 0 .. 7
    BY DEF PX64!LaneOf, PX64!order
  <2> QED BY <2>1 DEF PX64!HaddAt
<1> HIDE DEF D, N
<1>5. Placed(Grid2(D, N, 0 .. 1), y, 3, 7, yd)
  BY <1>2, <1>3, <1>4, PlacedX8
<1> QED BY <1>1, <1>5

LEMMA x64RepackGemv_Layout ==
    ASSUME NEW feature, NEW b, NEW c
    PROVE  /\ Runs(PX64!x64RepackGemvKernel(feature, b, c).dots, 2, 4, 7, 3, 0)
           /\ Within(PX64!x64RepackGemvKernel(feature, b, c), 136, 34)
<1>1. ASSUME feature = "avx2"
      PROVE  Runs(PX64!x64RepackGemvKernel(feature, b, c).dots, 2, 4, 7, 3, 0)
  <2> DEFINE D == x64RepackGemv_Dots(b, c)
  <2>1. PX64!x64RepackGemvKernel(feature, b, c).dots = Each(D, 0 .. 7)
    BY <1>1 DEF PX64!x64RepackGemvKernel, PX64!Form, PX64!Dot, PX64!DotOn, PX64!L8, Each, x64RepackGemv_Dots
  <2>2. \A g \in 0 .. 7 : D[g].y = 2 + 4 * g /\ D[g].yd = 0 /\ DOMAIN D[g].w = 0 .. 3
    <3>1. \A g \in 0 .. 7 : DOMAIN PX64!QuadOf(b, g, c) = 0 .. 3
      BY DEF PX64!QuadOf, PX64!L4
    <3>2. \A g \in 0 .. 7 : D[g] = PX64!Dot(2 + 4 * g, PX64!QuadOf(b, g, c), 1)
      BY DEF x64RepackGemv_Dots
    <3> QED BY ONLY <3>1, <3>2 DEF PX64!Dot, PX64!DotOn
  <2> HIDE DEF D
  <2>3. Runs(Each(D, 0 .. 7), 2, 4, 7, 3, 0)
    BY <2>2, RunsQuads
  <2> QED BY <2>1, <2>3
<1>2. ASSUME feature # "avx2"
      PROVE  Runs(PX64!x64RepackGemvKernel(feature, b, c).dots, 2, 4, 7, 3, 0)
  <2> DEFINE D == x64RepackGemv_Biased(b, c)
  <2>1. PX64!x64RepackGemvKernel(feature, b, c).dots = Grid2(D, 0 .. 3, 0 .. 1)
    BY <1>2 DEF PX64!x64RepackGemvKernel, PX64!Form, PX64!Dot, PX64!DotOn, PX64!L4, Grid2,
                x64RepackGemv_Biased, x64RepackGemv_w
  <2>2. \A p \in 0 .. 3, h \in 0 .. 1 :
           D[p][h].y = 2 + 4 * (2 * p + h) /\ D[p][h].yd = 0 /\ DOMAIN D[p][h].w = 0 .. 3
    <3>1. \A p \in 0 .. 3, h \in 0 .. 1 : DOMAIN x64RepackGemv_w(b, c, p, h) = 0 .. 3
      BY DEF x64RepackGemv_w, PX64!L4
    <3>2. \A p \in 0 .. 3, h \in 0 .. 1 :
             D[p][h] = PX64!Dot(2 + 4 * (4 * (p \div 2) + 2 * (p % 2) + h), x64RepackGemv_w(b, c, p, h), 1)
      BY DEF x64RepackGemv_Biased
    <3>3. \A p \in 0 .. 3, h \in 0 .. 1 :
             2 + 4 * (4 * (p \div 2) + 2 * (p % 2) + h) = 2 + 4 * (2 * p + h)
      OBVIOUS
    <3> QED BY ONLY <3>1, <3>2, <3>3 DEF PX64!Dot, PX64!DotOn
  <2> HIDE DEF D
  <2>3. Runs(Grid2(D, 0 .. 3, 0 .. 1), 2, 4, 7, 3, 0)
    BY <2>2, RunsQuadPairs
  <2> QED BY <2>1, <2>3
<1>3. Within(PX64!x64RepackGemvKernel(feature, b, c), 136, 34)
  BY DEF Within, PX64!x64RepackGemvKernel, PX64!Form, PX64!Ld, PX64!L8, PX64!L4
<1> QED BY <1>1, <1>2, <1>3

LEMMA x64RepackGemm_Layout ==
    ASSUME NEW feature, NEW b, NEW c, NEW r \in 0 .. 3
    PROVE  /\ Runs(PX64!x64RepackGemmKernel(feature, b, c, r).dots, 8 + 4 * r, 16, 7, 3, 2 * r)
           /\ Within(PX64!x64RepackGemmKernel(feature, b, c, r), 136, 136)
<1>1. ASSUME feature # "avx2"
      PROVE  Runs(PX64!x64RepackGemmKernel(feature, b, c, r).dots, 8 + 4 * r, 16, 7, 3, 2 * r)
  <2> DEFINE D == x64RepackGemm_Pairs(b, c, r)
  <2>1. PX64!x64RepackGemmKernel(feature, b, c, r).dots = Grid2(D, 0 .. 3, 0 .. 1)
    BY <1>1 DEF PX64!x64RepackGemmKernel, PX64!Form, PX64!DotOn, PX64!L4, Grid2, x64RepackGemm_Pairs
  <2>2. \A p \in 0 .. 3, h \in 0 .. 1 :
           D[p][h].y = (8 + 4 * r) + 16 * (2 * p + h) /\ D[p][h].yd = 2 * r /\ DOMAIN D[p][h].w = 0 .. 3
    <3>1. \A p \in 0 .. 3, h \in 0 .. 1 : DOMAIN PX64!QuadOf(b, 2 * p + h, c) = 0 .. 3
      BY DEF PX64!QuadOf, PX64!L4
    <3>2. \A p \in 0 .. 3, h \in 0 .. 1 :
             D[p][h] = PX64!DotOn(8 + 16 * (2 * p + h) + 4 * r, 2 * r, PX64!QuadOf(b, 2 * p + h, c), 1)
      BY DEF x64RepackGemm_Pairs
    <3>3. \A p \in 0 .. 3, h \in 0 .. 1 : 8 + 16 * (2 * p + h) + 4 * r = (8 + 4 * r) + 16 * (2 * p + h)
      OBVIOUS
    <3> QED BY ONLY <3>1, <3>2, <3>3 DEF PX64!DotOn
  <2> HIDE DEF D
  <2>3. Runs(Grid2(D, 0 .. 3, 0 .. 1), 8 + 4 * r, 16, 7, 3, 2 * r)
    BY <2>2, RunsQuadPairs
  <2> QED BY <2>1, <2>3
<1>2. ASSUME feature = "avx2"
      PROVE  Runs(PX64!x64RepackGemmKernel(feature, b, c, r).dots, 8 + 4 * r, 16, 7, 3, 2 * r)
  <2> DEFINE D == x64RepackGemm_Dots(b, c, r)
  <2>1. PX64!x64RepackGemmKernel(feature, b, c, r).dots = Each(D, 0 .. 7)
    BY <1>2 DEF PX64!x64RepackGemmKernel, PX64!Form, PX64!DotOn, PX64!L8, Each, x64RepackGemm_Dots
  <2>2. \A g \in 0 .. 7 : D[g].y = (8 + 4 * r) + 16 * g /\ D[g].yd = 2 * r /\ DOMAIN D[g].w = 0 .. 3
    <3>1. \A g \in 0 .. 7 : DOMAIN PX64!QuadOf(b, g, c) = 0 .. 3
      BY DEF PX64!QuadOf, PX64!L4
    <3>2. \A g \in 0 .. 7 : D[g] = PX64!DotOn(8 + 16 * g + 4 * r, 2 * r, PX64!QuadOf(b, g, c), 1)
      BY DEF x64RepackGemm_Dots
    <3>3. \A g \in 0 .. 7 : 8 + 16 * g + 4 * r = (8 + 4 * r) + 16 * g
      OBVIOUS
    <3> QED BY ONLY <3>1, <3>2, <3>3 DEF PX64!DotOn
  <2> HIDE DEF D
  <2>3. Runs(Each(D, 0 .. 7), 8 + 4 * r, 16, 7, 3, 2 * r)
    BY <2>2, RunsQuads
  <2> QED BY <2>1, <2>3
<1>3. Within(PX64!x64RepackGemmKernel(feature, b, c, r), 136, 136)
  BY DEF Within, PX64!x64RepackGemmKernel, PX64!Form, PX64!Ld, PX64!L8, PX64!L4
<1> QED BY <1>1, <1>2, <1>3

-----------------------------------------------------------------------------
(* The exports of the nests: the forms on the rows they are called with.   *)

LEMMA a64GemvKPlaces ==
    /\ Apart(PA64!GemvY(PA64!Activations.q8_K), 31)
    /\ \A g \in 0 .. 31 :
          Place(PA64!GemvY(PA64!Activations.q8_K), g) = 4 + 8 * g
BY DEF Apart, Place, PA64!GemvY, PA64!L32, PA64!Activations

LEMMA a64GemmKPlaces ==
    ASSUME NEW r \in 0 .. 3
    PROVE  /\ Apart(PA64!GemmY(PA64!Activations.q8_Kx4, r), 31)
           /\ \A g \in 0 .. 31 :
                 Place(PA64!GemmY(PA64!Activations.q8_Kx4, r), g) = (16 + 8 * r) + 32 * g
BY DEF Apart, Place, PA64!GemmY, PA64!L32, PA64!Activations

LEMMA a64GemvXPlaces ==
    /\ Apart(PA64!GemvY(PA64!Activations.q8_0), 3)
    /\ \A g \in 0 .. 3 :
          Place(PA64!GemvY(PA64!Activations.q8_0), g) = 2 + 8 * g
BY DEF Apart, Place, PA64!GemvY, PA64!L32, PA64!Activations

LEMMA a64GemmXPlaces ==
    ASSUME NEW r \in 0 .. 3
    PROVE  /\ Apart(PA64!GemmY(PA64!Activations.q8_0x4by8, r), 3)
           /\ \A g \in 0 .. 3 :
                 Place(PA64!GemmY(PA64!Activations.q8_0x4by8, r), g) = (8 + 8 * r) + 32 * g
BY DEF Apart, Place, PA64!GemmY, PA64!L32, PA64!Activations

LEMMA x64GemvKPlaces ==
    /\ Apart(PX64!GemvY(PX64!Activations.q8_K), 31)
    /\ \A g \in 0 .. 31 :
          Place(PX64!GemvY(PX64!Activations.q8_K), g) = 4 + 8 * g
BY DEF Apart, Place, PX64!GemvY, PX64!L32, PX64!Activations

LEMMA x64GemmKPlaces ==
    ASSUME NEW r \in 0 .. 3
    PROVE  /\ Apart(PX64!GemmY(PX64!Activations.q8_Kx4, r), 31)
           /\ \A g \in 0 .. 31 :
                 Place(PX64!GemmY(PX64!Activations.q8_Kx4, r), g) = (16 + 8 * r) + 32 * g
BY DEF Apart, Place, PX64!GemmY, PX64!L32, PX64!Activations

LEMMA x64GemvXPlaces ==
    /\ Apart(PX64!GemvY(PX64!Activations.q8_0), 3)
    /\ \A g \in 0 .. 3 :
          Place(PX64!GemvY(PX64!Activations.q8_0), g) = 2 + 8 * g
BY DEF Apart, Place, PX64!GemvY, PX64!L32, PX64!Activations

LEMMA x64GemmXPlaces ==
    ASSUME NEW r \in 0 .. 3
    PROVE  /\ Apart(PX64!GemmY(PX64!Activations.q8_0x4by8, r), 3)
           /\ \A g \in 0 .. 3 :
                 Place(PX64!GemmY(PX64!Activations.q8_0x4by8, r), g) = (8 + 8 * r) + 32 * g
BY DEF Apart, Place, PX64!GemmY, PX64!L32, PX64!Activations

LEMMA a64GemvKx8_Layout ==
    ASSUME NEW f \in {"q4_K", "q5_K"}, NEW b, NEW c \in 0 .. 7
    PROVE  /\ Runs(PA64!a64GemvKx8Kernel(PA64!kx8Layout(f), b, c).dots, 4, 8, 31, 7, 0)
           /\ Within(PA64!a64GemvKx8Kernel(PA64!kx8Layout(f), b, c), PackedBytes[f], 292)
<1>1. Placed(PA64!a64GemvKx8Kernel(PA64!kx8Layout(f), b, c).dots, PA64!GemvY(PA64!Activations.q8_K), 31, 7, 0)
  BY a64GemvKPlaces, a64Kx8_Placed DEF PA64!a64GemvKx8Kernel
<1>2. Runs(PA64!a64GemvKx8Kernel(PA64!kx8Layout(f), b, c).dots, 4, 8, 31, 7, 0)
  BY <1>1, a64GemvKPlaces, PlacedRuns
<1>3. Within(PA64!a64GemvKx8Kernel(PA64!kx8Layout(f), b, c), PackedBytes[f], 292)
  <2>1. CASE f = "q4_K"
    <3>1. PA64!kx8Layout(f) = PA64!q4Kx8Layout /\ PackedBytes[f] = 1152
      BY <2>1 DEF PA64!kx8Layout, PackedBytes
    <3> QED BY ONLY <3>1, c \in 0 .. 7 DEF Within, PA64!q4Kx8Layout, PA64!a64GemvKx8Kernel, PA64!a64Kx8Form, PA64!Form, PA64!Ld, PA64!PairLoads, PA64!BSums, PA64!L16, PA64!L4, PA64!L8
  <2>2. CASE f = "q5_K"
    <3>1. PA64!kx8Layout(f) = PA64!q5Kx8Layout /\ PackedBytes[f] = 1408
      BY <2>2 DEF PA64!kx8Layout, PackedBytes
    <3> QED BY ONLY <3>1, c \in 0 .. 7 DEF Within, PA64!q5Kx8Layout, PA64!a64GemvKx8Kernel, PA64!a64Kx8Form, PA64!Form, PA64!Ld, PA64!PairLoads, PA64!BSums, PA64!L16, PA64!L4, PA64!L8
  <2> QED BY <2>1, <2>2
<1> QED BY <1>2, <1>3

LEMMA a64GemmKx8_Layout ==
    ASSUME NEW f \in {"q4_K", "q5_K"}, NEW b, NEW c \in 0 .. 7, NEW r \in 0 .. 3
    PROVE  /\ Runs(PA64!a64GemmKx8Kernel(PA64!kx8Layout(f), b, c, r).dots, 16 + 8 * r, 32, 31, 7, 4 * r)
           /\ Within(PA64!a64GemmKx8Kernel(PA64!kx8Layout(f), b, c, r), PackedBytes[f], 1168)
<1>1. Placed(PA64!a64GemmKx8Kernel(PA64!kx8Layout(f), b, c, r).dots, PA64!GemmY(PA64!Activations.q8_Kx4, r), 31, 7, 4 * r)
  BY a64GemmKPlaces, a64Kx8_Placed DEF PA64!a64GemmKx8Kernel
<1>2. Runs(PA64!a64GemmKx8Kernel(PA64!kx8Layout(f), b, c, r).dots, 16 + 8 * r, 32, 31, 7, 4 * r)
  BY <1>1, a64GemmKPlaces, PlacedRuns
<1>3. Within(PA64!a64GemmKx8Kernel(PA64!kx8Layout(f), b, c, r), PackedBytes[f], 1168)
  <2>1. CASE f = "q4_K"
    <3>1. PA64!kx8Layout(f) = PA64!q4Kx8Layout /\ PackedBytes[f] = 1152
      BY <2>1 DEF PA64!kx8Layout, PackedBytes
    <3> QED BY ONLY <3>1, c \in 0 .. 7, r \in 0 .. 3 DEF Within, PA64!q4Kx8Layout, PA64!a64GemmKx8Kernel, PA64!a64Kx8Form, PA64!Form, PA64!Ld, PA64!PairLoads, PA64!BSums, PA64!L16, PA64!L4, PA64!L8
  <2>2. CASE f = "q5_K"
    <3>1. PA64!kx8Layout(f) = PA64!q5Kx8Layout /\ PackedBytes[f] = 1408
      BY <2>2 DEF PA64!kx8Layout, PackedBytes
    <3> QED BY ONLY <3>1, c \in 0 .. 7, r \in 0 .. 3 DEF Within, PA64!q5Kx8Layout, PA64!a64GemmKx8Kernel, PA64!a64Kx8Form, PA64!Form, PA64!Ld, PA64!PairLoads, PA64!BSums, PA64!L16, PA64!L4, PA64!L8
  <2> QED BY <2>1, <2>2
<1> QED BY <1>2, <1>3

LEMMA a64GemvQ6_Layout ==
    ASSUME NEW b, NEW c \in 0 .. 7
    PROVE  /\ Runs(PA64!a64GemvQ6K8x8Kernel(b, c).dots, 4, 8, 31, 7, 0)
           /\ Within(PA64!a64GemvQ6K8x8Kernel(b, c), PackedBytes["q6_K"], 292)
<1>1. Placed(PA64!a64GemvQ6K8x8Kernel(b, c).dots, PA64!GemvY(PA64!Activations.q8_K), 31, 7, 0)
  BY a64GemvKPlaces, a64Q6_Placed DEF PA64!a64GemvQ6K8x8Kernel
<1>2. Runs(PA64!a64GemvQ6K8x8Kernel(b, c).dots, 4, 8, 31, 7, 0)
  BY <1>1, a64GemvKPlaces, PlacedRuns
<1>3. Within(PA64!a64GemvQ6K8x8Kernel(b, c), PackedBytes["q6_K"], 292)
  BY DEF Within, PackedBytes, PA64!a64GemvQ6K8x8Kernel, PA64!a64Q6Form, PA64!q6Kx8, PA64!Form, PA64!Ld, PA64!PairLoads, PA64!BSums, PA64!L16, PA64!L4, PA64!L8
<1> QED BY <1>2, <1>3

LEMMA a64GemmQ6_Layout ==
    ASSUME NEW b, NEW c \in 0 .. 7, NEW r \in 0 .. 3
    PROVE  /\ Runs(PA64!a64GemmQ6K8x8Kernel(b, c, r).dots, 16 + 8 * r, 32, 31, 7, 4 * r)
           /\ Within(PA64!a64GemmQ6K8x8Kernel(b, c, r), PackedBytes["q6_K"], 1168)
<1>1. Placed(PA64!a64GemmQ6K8x8Kernel(b, c, r).dots, PA64!GemmY(PA64!Activations.q8_Kx4, r), 31, 7, 4 * r)
  BY a64GemmKPlaces, a64Q6_Placed DEF PA64!a64GemmQ6K8x8Kernel
<1>2. Runs(PA64!a64GemmQ6K8x8Kernel(b, c, r).dots, 16 + 8 * r, 32, 31, 7, 4 * r)
  BY <1>1, a64GemmKPlaces, PlacedRuns
<1>3. Within(PA64!a64GemmQ6K8x8Kernel(b, c, r), PackedBytes["q6_K"], 1168)
  BY DEF Within, PackedBytes, PA64!a64GemmQ6K8x8Kernel, PA64!a64Q6Form, PA64!q6Kx8, PA64!Form, PA64!Ld, PA64!PairLoads, PA64!BSums, PA64!L16, PA64!L4, PA64!L8
<1> QED BY <1>2, <1>3

LEMMA a64X8Sizes ==
    \A f \in {"q5_0", "q4_0", "iq4_nl", "mxfp4"} :
        LET L == PA64!x8Layout(f)
        IN  \/ L.qsOff = 48 /\ L.qhOff = 16 /\ L.fifth = TRUE /\ L.e8m0 = FALSE /\ PackedBytes[f] = 176
            \/ L.qsOff = 16 /\ L.fifth = FALSE /\ L.e8m0 = FALSE /\ PackedBytes[f] = 144
            \/ L.qsOff = 8 /\ L.fifth = FALSE /\ L.e8m0 = TRUE /\ PackedBytes[f] = 136
BY DEF PA64!x8Layout, PackedBytes

LEMMA x64X8Sizes ==
    \A f \in {"q5_0", "q4_0", "iq4_nl", "mxfp4"} :
        LET L == PX64!x8Layout(f)
        IN  \/ L.qsOff = 48 /\ L.qhOff = 16 /\ L.fifth = TRUE /\ L.e8m0 = FALSE /\ PackedBytes[f] = 176
            \/ L.qsOff = 16 /\ L.fifth = FALSE /\ L.e8m0 = FALSE /\ PackedBytes[f] = 144
            \/ L.qsOff = 8 /\ L.fifth = FALSE /\ L.e8m0 = TRUE /\ PackedBytes[f] = 136
BY DEF PX64!x8Layout, PackedBytes

LEMMA a64GemvX8_Layout ==
    ASSUME NEW f \in {"q5_0", "q4_0", "iq4_nl", "mxfp4"}, NEW b, NEW c \in 0 .. 7
    PROVE  /\ Runs(PA64!a64GemvX8Kernel(PA64!x8Layout(f), b, c).dots, 2, 8, 3, 7, 0)
           /\ Within(PA64!a64GemvX8Kernel(PA64!x8Layout(f), b, c), PackedBytes[f], 34)
<1>1. Placed(PA64!a64GemvX8Kernel(PA64!x8Layout(f), b, c).dots, PA64!GemvY(PA64!Activations.q8_0), 3, 7, 0)
  BY a64GemvXPlaces, a64X8_Placed DEF PA64!a64GemvX8Kernel
<1>2. Runs(PA64!a64GemvX8Kernel(PA64!x8Layout(f), b, c).dots, 2, 8, 3, 7, 0)
  BY <1>1, a64GemvXPlaces, PlacedRuns
<1>3. Within(PA64!a64GemvX8Kernel(PA64!x8Layout(f), b, c), PackedBytes[f], 34)
  <2> DEFINE L == PA64!x8Layout(f)
  <2>1. \/ L.qsOff = 48 /\ L.qhOff = 16 /\ L.fifth = TRUE /\ L.e8m0 = FALSE /\ PackedBytes[f] = 176
        \/ L.qsOff = 16 /\ L.fifth = FALSE /\ L.e8m0 = FALSE /\ PackedBytes[f] = 144
        \/ L.qsOff = 8 /\ L.fifth = FALSE /\ L.e8m0 = TRUE /\ PackedBytes[f] = 136
    BY ONLY a64X8Sizes, f \in {"q5_0", "q4_0", "iq4_nl", "mxfp4"}
  <2> HIDE DEF L
  <2>2. Within(PA64!a64GemvX8Kernel(L, b, c), PackedBytes[f], 34)
    BY ONLY <2>1, c \in 0 .. 7, SMTT(30)
       DEF Within, PA64!a64GemvX8Kernel, PA64!a64X8Form, PA64!Form, PA64!Ld, PA64!L16, PA64!L4, PA64!L8
  <2> QED BY <2>2 DEF L
<1> QED BY <1>2, <1>3

LEMMA a64GemmX8_Layout ==
    ASSUME NEW f \in {"q5_0", "q4_0", "iq4_nl", "mxfp4"}, NEW b, NEW c \in 0 .. 7, NEW r \in 0 .. 3
    PROVE  /\ Runs(PA64!a64GemmX8Kernel(PA64!x8Layout(f), b, c, r).dots, 8 + 8 * r, 32, 3, 7, 2 * r)
           /\ Within(PA64!a64GemmX8Kernel(PA64!x8Layout(f), b, c, r), PackedBytes[f], 136)
<1>1. Placed(PA64!a64GemmX8Kernel(PA64!x8Layout(f), b, c, r).dots, PA64!GemmY(PA64!Activations.q8_0x4by8, r), 3, 7, 2 * r)
  BY a64GemmXPlaces, a64X8_Placed DEF PA64!a64GemmX8Kernel
<1>2. Runs(PA64!a64GemmX8Kernel(PA64!x8Layout(f), b, c, r).dots, 8 + 8 * r, 32, 3, 7, 2 * r)
  BY <1>1, a64GemmXPlaces, PlacedRuns
<1>3. Within(PA64!a64GemmX8Kernel(PA64!x8Layout(f), b, c, r), PackedBytes[f], 136)
  <2> DEFINE L == PA64!x8Layout(f)
  <2>1. \/ L.qsOff = 48 /\ L.qhOff = 16 /\ L.fifth = TRUE /\ L.e8m0 = FALSE /\ PackedBytes[f] = 176
        \/ L.qsOff = 16 /\ L.fifth = FALSE /\ L.e8m0 = FALSE /\ PackedBytes[f] = 144
        \/ L.qsOff = 8 /\ L.fifth = FALSE /\ L.e8m0 = TRUE /\ PackedBytes[f] = 136
    BY ONLY a64X8Sizes, f \in {"q5_0", "q4_0", "iq4_nl", "mxfp4"}
  <2> HIDE DEF L
  <2>2. Within(PA64!a64GemmX8Kernel(L, b, c, r), PackedBytes[f], 136)
    BY ONLY <2>1, c \in 0 .. 7, r \in 0 .. 3, SMTT(30)
       DEF Within, PA64!a64GemmX8Kernel, PA64!a64X8Form, PA64!Form, PA64!Ld, PA64!L16, PA64!L4, PA64!L8
  <2> QED BY <2>2 DEF L
<1> QED BY <1>2, <1>3

LEMMA x64GemvKx8_Layout ==
    ASSUME NEW f \in {"q4_K", "q5_K"}, NEW b, NEW c \in 0 .. 7
    PROVE  /\ Runs(PX64!x64Kx8Body(PX64!kx8Layout(f), b, c).dots, 4, 8, 31, 7, 0)
           /\ Within(PX64!x64Kx8Body(PX64!kx8Layout(f), b, c), PackedBytes[f], 292)
<1>1. Placed(PX64!x64Kx8Body(PX64!kx8Layout(f), b, c).dots, PX64!GemvY(PX64!Activations.q8_K), 31, 7, 0)
  BY x64GemvKPlaces, x64Kx8_Placed DEF PX64!x64Kx8Body, PX64!x64Kx8Form, PX64!UnsignedPairs, PX64!Form
<1>2. Runs(PX64!x64Kx8Body(PX64!kx8Layout(f), b, c).dots, 4, 8, 31, 7, 0)
  BY <1>1, x64GemvKPlaces, PlacedRuns
<1>3. Within(PX64!x64Kx8Body(PX64!kx8Layout(f), b, c), PackedBytes[f], 292)
  <2>1. CASE f = "q4_K"
    <3>1. PX64!kx8Layout(f) = PX64!q4Kx8Layout /\ PackedBytes[f] = 1152
      BY <2>1 DEF PX64!kx8Layout, PackedBytes
    <3> QED BY ONLY <3>1, c \in 0 .. 7 DEF Within, PX64!q4Kx8Layout, PX64!x64Kx8Body, PX64!x64Kx8Form, PX64!UnsignedPairs, PX64!Form, PX64!Ld, PX64!Loads64, PX64!BSums, PX64!L16, PX64!L4, PX64!L8
  <2>2. CASE f = "q5_K"
    <3>1. PX64!kx8Layout(f) = PX64!q5Kx8Layout /\ PackedBytes[f] = 1408
      BY <2>2 DEF PX64!kx8Layout, PackedBytes
    <3> QED BY ONLY <3>1, c \in 0 .. 7 DEF Within, PX64!q5Kx8Layout, PX64!x64Kx8Body, PX64!x64Kx8Form, PX64!UnsignedPairs, PX64!Form, PX64!Ld, PX64!Loads64, PX64!BSums, PX64!L16, PX64!L4, PX64!L8
  <2> QED BY <2>1, <2>2
<1> QED BY <1>2, <1>3

LEMMA x64GemmKx8_Layout ==
    ASSUME NEW f \in {"q4_K", "q5_K"}, NEW b, NEW c \in 0 .. 7, NEW r \in 0 .. 3
    PROVE  /\ Runs(PX64!x64Kx8GemmTile(PX64!kx8Layout(f), b, c, r).dots, 16 + 8 * r, 32, 31, 7, 4 * r)
           /\ Within(PX64!x64Kx8GemmTile(PX64!kx8Layout(f), b, c, r), PackedBytes[f], 1168)
<1>1. Placed(PX64!x64Kx8GemmTile(PX64!kx8Layout(f), b, c, r).dots, PX64!GemmY(PX64!Activations.q8_Kx4, r), 31, 7, 4 * r)
  BY x64GemmKPlaces, x64Kx8_Placed DEF PX64!x64Kx8GemmTile, PX64!x64Kx8Form, PX64!UnsignedPairs, PX64!Form
<1>2. Runs(PX64!x64Kx8GemmTile(PX64!kx8Layout(f), b, c, r).dots, 16 + 8 * r, 32, 31, 7, 4 * r)
  BY <1>1, x64GemmKPlaces, PlacedRuns
<1>3. Within(PX64!x64Kx8GemmTile(PX64!kx8Layout(f), b, c, r), PackedBytes[f], 1168)
  <2>1. CASE f = "q4_K"
    <3>1. PX64!kx8Layout(f) = PX64!q4Kx8Layout /\ PackedBytes[f] = 1152
      BY <2>1 DEF PX64!kx8Layout, PackedBytes
    <3> QED BY ONLY <3>1, c \in 0 .. 7, r \in 0 .. 3 DEF Within, PX64!q4Kx8Layout, PX64!x64Kx8GemmTile, PX64!x64Kx8Form, PX64!UnsignedPairs, PX64!Form, PX64!Ld, PX64!Loads64, PX64!BSums, PX64!L16, PX64!L4, PX64!L8
  <2>2. CASE f = "q5_K"
    <3>1. PX64!kx8Layout(f) = PX64!q5Kx8Layout /\ PackedBytes[f] = 1408
      BY <2>2 DEF PX64!kx8Layout, PackedBytes
    <3> QED BY ONLY <3>1, c \in 0 .. 7, r \in 0 .. 3 DEF Within, PX64!q5Kx8Layout, PX64!x64Kx8GemmTile, PX64!x64Kx8Form, PX64!UnsignedPairs, PX64!Form, PX64!Ld, PX64!Loads64, PX64!BSums, PX64!L16, PX64!L4, PX64!L8
  <2> QED BY <2>1, <2>2
<1> QED BY <1>2, <1>3

LEMMA x64GemvQ6_Layout ==
    ASSUME NEW b, NEW c \in 0 .. 7
    PROVE  /\ Runs(PX64!x64Q6K8x8Body(b, c).dots, 4, 8, 31, 7, 0)
           /\ Within(PX64!x64Q6K8x8Body(b, c), PackedBytes["q6_K"], 292)
<1>1. Placed(PX64!x64Q6K8x8Body(b, c).dots, PX64!GemvY(PX64!Activations.q8_K), 31, 7, 0)
  BY x64GemvKPlaces, x64Q6_Placed DEF PX64!x64Q6K8x8Body, PX64!x64Q6Form, PX64!UnsignedPairs, PX64!Form
<1>2. Runs(PX64!x64Q6K8x8Body(b, c).dots, 4, 8, 31, 7, 0)
  BY <1>1, x64GemvKPlaces, PlacedRuns
<1>3. Within(PX64!x64Q6K8x8Body(b, c), PackedBytes["q6_K"], 292)
  BY DEF Within, PackedBytes, PX64!x64Q6K8x8Body, PX64!x64Q6Form, PX64!q6Kx8, PX64!UnsignedPairs, PX64!Form, PX64!Ld, PX64!Loads64, PX64!BSums, PX64!L16, PX64!L4, PX64!L8
<1> QED BY <1>2, <1>3

LEMMA x64GemmQ6_Layout ==
    ASSUME NEW b, NEW c \in 0 .. 7, NEW r \in 0 .. 3
    PROVE  /\ Runs(PX64!x64Q6KGemmTile(b, c, r).dots, 16 + 8 * r, 32, 31, 7, 4 * r)
           /\ Within(PX64!x64Q6KGemmTile(b, c, r), PackedBytes["q6_K"], 1168)
<1>1. Placed(PX64!x64Q6KGemmTile(b, c, r).dots, PX64!GemmY(PX64!Activations.q8_Kx4, r), 31, 7, 4 * r)
  BY x64GemmKPlaces, x64Q6_Placed DEF PX64!x64Q6KGemmTile, PX64!x64Q6Form, PX64!UnsignedPairs, PX64!Form
<1>2. Runs(PX64!x64Q6KGemmTile(b, c, r).dots, 16 + 8 * r, 32, 31, 7, 4 * r)
  BY <1>1, x64GemmKPlaces, PlacedRuns
<1>3. Within(PX64!x64Q6KGemmTile(b, c, r), PackedBytes["q6_K"], 1168)
  BY DEF Within, PackedBytes, PX64!x64Q6KGemmTile, PX64!x64Q6Form, PX64!q6Kx8, PX64!UnsignedPairs, PX64!Form, PX64!Ld, PX64!Loads64, PX64!BSums, PX64!L16, PX64!L4, PX64!L8
<1> QED BY <1>2, <1>3

LEMMA x64GemvX8_Layout ==
    ASSUME NEW f \in {"q5_0", "q4_0", "iq4_nl", "mxfp4"}, NEW b, NEW c \in 0 .. 7
    PROVE  /\ Runs(PX64!x64GemvX8Kernel(PX64!x8Layout(f), b, c).dots, 2, 8, 3, 7, 0)
           /\ Within(PX64!x64GemvX8Kernel(PX64!x8Layout(f), b, c), PackedBytes[f], 34)
<1>1. Placed(PX64!x64GemvX8Kernel(PX64!x8Layout(f), b, c).dots, PX64!GemvY(PX64!Activations.q8_0), 3, 7, 0)
  BY x64GemvXPlaces, x64X8_Placed DEF PX64!x64GemvX8Kernel
<1>2. Runs(PX64!x64GemvX8Kernel(PX64!x8Layout(f), b, c).dots, 2, 8, 3, 7, 0)
  BY <1>1, x64GemvXPlaces, PlacedRuns
<1>3. Within(PX64!x64GemvX8Kernel(PX64!x8Layout(f), b, c), PackedBytes[f], 34)
  <2> DEFINE L == PX64!x8Layout(f)
  <2>1. \/ L.qsOff = 48 /\ L.qhOff = 16 /\ L.fifth = TRUE /\ L.e8m0 = FALSE /\ PackedBytes[f] = 176
        \/ L.qsOff = 16 /\ L.fifth = FALSE /\ L.e8m0 = FALSE /\ PackedBytes[f] = 144
        \/ L.qsOff = 8 /\ L.fifth = FALSE /\ L.e8m0 = TRUE /\ PackedBytes[f] = 136
    BY ONLY x64X8Sizes, f \in {"q5_0", "q4_0", "iq4_nl", "mxfp4"}
  <2> HIDE DEF L
  <2>2. Within(PX64!x64GemvX8Kernel(L, b, c), PackedBytes[f], 34)
    BY ONLY <2>1, c \in 0 .. 7, SMTT(30)
       DEF Within, PX64!x64GemvX8Kernel, PX64!x64X8Form, PX64!SignedPairs, PX64!UnsignedPairs, PX64!Form, PX64!Ld, PX64!L16, PX64!L4, PX64!L8
  <2> QED BY <2>2 DEF L
<1> QED BY <1>2, <1>3

LEMMA x64GemmX8_Layout ==
    ASSUME NEW f \in {"q5_0", "q4_0", "iq4_nl", "mxfp4"}, NEW b, NEW c \in 0 .. 7, NEW r \in 0 .. 3
    PROVE  /\ Runs(PX64!x64GemmX8Kernel(PX64!x8Layout(f), b, c, r).dots, 8 + 8 * r, 32, 3, 7, 2 * r)
           /\ Within(PX64!x64GemmX8Kernel(PX64!x8Layout(f), b, c, r), PackedBytes[f], 136)
<1>1. Placed(PX64!x64GemmX8Kernel(PX64!x8Layout(f), b, c, r).dots, PX64!GemmY(PX64!Activations.q8_0x4by8, r), 3, 7, 2 * r)
  BY x64GemmXPlaces, x64X8_Placed DEF PX64!x64GemmX8Kernel
<1>2. Runs(PX64!x64GemmX8Kernel(PX64!x8Layout(f), b, c, r).dots, 8 + 8 * r, 32, 3, 7, 2 * r)
  BY <1>1, x64GemmXPlaces, PlacedRuns
<1>3. Within(PX64!x64GemmX8Kernel(PX64!x8Layout(f), b, c, r), PackedBytes[f], 136)
  <2> DEFINE L == PX64!x8Layout(f)
  <2>1. \/ L.qsOff = 48 /\ L.qhOff = 16 /\ L.fifth = TRUE /\ L.e8m0 = FALSE /\ PackedBytes[f] = 176
        \/ L.qsOff = 16 /\ L.fifth = FALSE /\ L.e8m0 = FALSE /\ PackedBytes[f] = 144
        \/ L.qsOff = 8 /\ L.fifth = FALSE /\ L.e8m0 = TRUE /\ PackedBytes[f] = 136
    BY ONLY x64X8Sizes, f \in {"q5_0", "q4_0", "iq4_nl", "mxfp4"}
  <2> HIDE DEF L
  <2>2. Within(PX64!x64GemmX8Kernel(L, b, c, r), PackedBytes[f], 136)
    BY ONLY <2>1, c \in 0 .. 7, r \in 0 .. 3, SMTT(30)
       DEF Within, PX64!x64GemmX8Kernel, PX64!x64X8Form, PX64!SignedPairs, PX64!UnsignedPairs, PX64!Form, PX64!Ld, PX64!L16, PX64!L4, PX64!L8
  <2> QED BY <2>2 DEF L
<1> QED BY <1>2, <1>3

-----------------------------------------------------------------------------
(* The tiles of arm64: each lane is the row dot of its two rows.           *)
LEMMA Q4KTile ==
    ASSUME NEW x, NEW t \in 0 .. 3
    PROVE  /\ DOMAIN A64!a64VecDotQ4_KTile(x) = 0 .. 3
           /\ A64!a64VecDotQ4_KTile(x)[t].xrow = t % 2
           /\ A64!a64VecDotQ4_KTile(x)[t].yrow = t \div 2
           /\ A64!a64VecDotQ4_KTile(x)[t].form = A64!a64VecDotQ4_KKernel(x[t % 2])
BY DEF A64!a64VecDotQ4_KTile, A64!Tile, A64!L4, A64!a64VecDotQ4_KKernel

LEMMA Q5KFifths ==
    ASSUME NEW b, NEW j \in 0 .. 3, NEW m
    PROVE  /\ A64!a64Q5Fifth(b, j, m, 1, 4) = a64Q5_Low(b, j, m)
           /\ A64!a64Q5Fifth(b, j, m, 2, 3) = a64Q5_High(b, j, m)
<1>1. 2^(2 * j) = 4^j
  <2>1. 2^(2 * 0) = 4^0 /\ 2^(2 * 1) = 4^1 /\ 2^(2 * 2) = 4^2 /\ 2^(2 * 3) = 4^3
    OBVIOUS
  <2>2. j = 0 \/ j = 1 \/ j = 2 \/ j = 3
    OBVIOUS
  <2> QED BY <2>1, <2>2
<1>2. 2^4 = 16 /\ 2^3 = 8
  OBVIOUS
<1> DEFINE v == b[16 + m] \div 2^(2 * j)
<1>3. v = b[16 + m] \div 4^j
  BY <1>1
<1>4. A64!a64Q5Fifth(b, j, m, 1, 4) = (v % 2) * 2^4
  BY Zenon DEF A64!a64Q5Fifth
<1>5. A64!a64Q5Fifth(b, j, m, 2, 3) = A64!Bits(v, 1, 1) * 2 * 2^3
  BY 2 # 1 DEF A64!a64Q5Fifth
<1> HIDE DEF v
<1>6. A64!a64Q5Fifth(b, j, m, 1, 4) = (v % 2) * 16 /\ A64!a64Q5Fifth(b, j, m, 2, 3) = A64!Bits(v, 1, 1) * 2 * 8
  BY ONLY <1>2, <1>4, <1>5, Zenon
<1> QED BY ONLY <1>3, <1>6, Zenon DEF a64Q5_Low, a64Q5_High

LEMMA Q5KTile ==
    ASSUME NEW x, NEW t \in 0 .. 3
    PROVE  /\ DOMAIN A64!a64VecDotQ5_KTile(x) = 0 .. 3
           /\ A64!a64VecDotQ5_KTile(x)[t].xrow = t % 2
           /\ A64!a64VecDotQ5_KTile(x)[t].yrow = t \div 2
           /\ A64!a64VecDotQ5_KTile(x)[t].form = A64!a64VecDotQ5_KKernel(x[t % 2])
<1>1. /\ DOMAIN A64!a64VecDotQ5_KTile(x) = 0 .. 3
      /\ A64!a64VecDotQ5_KTile(x)[t].xrow = t % 2
      /\ A64!a64VecDotQ5_KTile(x)[t].yrow = t \div 2
  BY Zenon DEF A64!a64VecDotQ5_KTile, A64!Tile, A64!L4
<1> DEFINE b == x[t % 2]
           S == {a64Q5_TiledDot(b, j, k) : j \in A64!L4, k \in A64!L4}
           R == {a64Q5_Dot(b, j, k) : j \in A64!L4, k \in A64!L4}
<1>2. A64!a64VecDotQ5_KTile(x)[t].form = a64Q5_Form(b, S)
  BY DEF A64!a64VecDotQ5_KTile, A64!Tile, A64!L4, A64!KNibbles, a64Q5_Form, a64Q5_TiledDot
<1>3. A64!a64VecDotQ5_KKernel(b) = a64Q5_Form(b, R)
  BY DEF A64!a64VecDotQ5_KKernel, A64!KNibbles, a64Q5_Form, a64Q5_Dot, a64Q5_Low, a64Q5_High
<1> HIDE DEF b
<1>4. \A j \in 0 .. 3, k \in 0 .. 3 : a64Q5_TiledDot(b, j, k) = a64Q5_Dot(b, j, k)
  <2> TAKE j \in 0 .. 3, k \in 0 .. 3
  <2>1. \A m : /\ A64!a64Q5Fifth(b, j, m, 1, 4) = a64Q5_Low(b, j, m)
               /\ A64!a64Q5Fifth(b, j, m, 2, 3) = a64Q5_High(b, j, m)
    BY Q5KFifths
  <2> QED BY ONLY <2>1 DEF a64Q5_TiledDot, a64Q5_Dot
<1>5. S = R
  BY ONLY <1>4 DEF A64!L4
<1> HIDE DEF S, R
<1>7. A64!a64VecDotQ5_KTile(x)[t].form = A64!a64VecDotQ5_KKernel(b)
  BY ONLY <1>2, <1>3, <1>5
<1> QED BY <1>1, <1>7 DEF b

(* q6_K: the tile masks the high bits in place, of bytes.                  *)
LEMMA Q6KShifts ==
    ASSUME NEW q \in 0 .. 255, NEW p \in 0 .. 1, NEW k \in 0 .. 3
    PROVE  ((A64!a64Q6Shifted(q, p, k) % 256) \div 16) % 4 = A64!a64Q6Pair(q, p, k)
<1>1. ASSUME p = 0, k < 2
      PROVE  A64!a64Q6Shifted(q, p, k) = q * 16 /\ A64!a64Q6Pair(q, p, k) = q % 4
  BY <1>1 DEF A64!a64Q6Shifted, A64!a64Q6Pair
<1>2. ASSUME p = 0, ~(k < 2)
      PROVE  A64!a64Q6Shifted(q, p, k) = q * 4 /\ A64!a64Q6Pair(q, p, k) = (q \div 4) % 4
  BY <1>2 DEF A64!a64Q6Shifted, A64!a64Q6Pair
<1>3. ASSUME p = 1, k < 2
      PROVE  A64!a64Q6Shifted(q, p, k) = q /\ A64!a64Q6Pair(q, p, k) = (q \div 16) % 4
  BY <1>3 DEF A64!a64Q6Shifted, A64!a64Q6Pair
<1>4. ASSUME p = 1, ~(k < 2)
      PROVE  A64!a64Q6Shifted(q, p, k) = q \div 4 /\ A64!a64Q6Pair(q, p, k) = q \div 64
  BY <1>4 DEF A64!a64Q6Shifted, A64!a64Q6Pair
<1>5. /\ (((q * 16) % 256) \div 16) % 4 = q % 4
      /\ (((q * 4) % 256) \div 16) % 4 = (q \div 4) % 4
      /\ ((q % 256) \div 16) % 4 = (q \div 16) % 4
      /\ (((q \div 4) % 256) \div 16) % 4 = q \div 64
  OBVIOUS
<1>6. (p = 0 \/ p = 1) /\ (k < 2 \/ ~(k < 2))
  OBVIOUS
<1>7. CASE p = 0 /\ k < 2
  <2>1. A64!a64Q6Shifted(q, p, k) = q * 16 /\ A64!a64Q6Pair(q, p, k) = q % 4
    BY <1>1, <1>7
  <2> QED BY ONLY <2>1, <1>5, Zenon
<1>8. CASE p = 0 /\ ~(k < 2)
  <2>1. A64!a64Q6Shifted(q, p, k) = q * 4 /\ A64!a64Q6Pair(q, p, k) = (q \div 4) % 4
    BY <1>2, <1>8
  <2> QED BY ONLY <2>1, <1>5, Zenon
<1>9. CASE p = 1 /\ k < 2
  <2>1. A64!a64Q6Shifted(q, p, k) = q /\ A64!a64Q6Pair(q, p, k) = (q \div 16) % 4
    BY <1>3, <1>9
  <2> QED BY ONLY <2>1, <1>5, Zenon
<1>10. CASE p = 1 /\ ~(k < 2)
  <2>1. A64!a64Q6Shifted(q, p, k) = q \div 4 /\ A64!a64Q6Pair(q, p, k) = q \div 64
    BY <1>4, <1>10
  <2> QED BY ONLY <2>1, <1>5, Zenon
<1> QED BY <1>6, <1>7, <1>8, <1>9, <1>10, Zenon

LEMMA Q6KHighs ==
    ASSUME NEW l \in 0 .. 255, NEW q \in 0 .. 255, NEW p \in 0 .. 1, NEW k \in 0 .. 3
    PROVE  A64!a64Q6Masked(l, q, p, k) = A64!a64Q6Whole(l, q, p, k)
<1>1. 2^4 = 16 /\ 2^2 = 4 /\ 2^(4 * 0) = 1 /\ 2^(4 * 1) = 16
  OBVIOUS
<1> DEFINE low == IF p = 0 THEN l % 16 ELSE l \div 16
           high == A64!Bits(A64!a64Q6Shifted(q, p, k) % 256, 4, 2) * 16
<1>2. A64!Bits(l, 4 * p, 4) = low
  <2>1. CASE p = 0
    <3>1. A64!Bits(l, 4 * p, 4) = (l \div 1) % 16
      BY <1>1, <2>1 DEF A64!Bits
    <3> QED BY <2>1, <3>1
  <2>2. CASE p = 1
    <3>1. A64!Bits(l, 4 * p, 4) = (l \div 16) % 16
      BY <1>1, <2>2 DEF A64!Bits
    <3> QED BY <2>2, <3>1
  <2> QED BY <2>1, <2>2
<1>3. high = (((A64!a64Q6Shifted(q, p, k) % 256) \div 16) % 4) * 16
  BY <1>1 DEF A64!Bits
<1>4. high = A64!a64Q6Pair(q, p, k) * 16
  BY ONLY <1>3, Q6KShifts, q \in 0 .. 255, p \in 0 .. 1, k \in 0 .. 3
<1>5. A64!a64Q6Masked(l, q, p, k) = A64!Bits(l, 4 * p, 4) + high
  BY Zenon DEF A64!a64Q6Masked
<1>6. A64!a64Q6Whole(l, q, p, k) = low + A64!a64Q6Pair(q, p, k) * 16
  BY Zenon DEF A64!a64Q6Whole
<1> HIDE DEF low, high
<1> QED BY ONLY <1>2, <1>4, <1>5, <1>6, Zenon

OfBytes(b) == \A o \in 0 .. 209 : b[o] \in 0 .. 255

LEMMA Q6KDots ==
    ASSUME NEW b, OfBytes(b),
           NEW j \in 0 .. 1, NEW p \in 0 .. 1, NEW k \in 0 .. 3
    PROVE  A64!a64Q6TileDot(b, j, p, k) = A64!a64Q6Dot(b, j, p, k)
<1>1. \A m \in 0 .. 15 : 64 * j + 16 * k + m \in 0 .. 209
  BY ONLY j \in 0 .. 1, k \in 0 .. 3
<1>2. k % 2 \in 0 .. 1
  BY ONLY k \in 0 .. 3
<1>3. \A e \in 0 .. 1, m \in 0 .. 15 : 128 + 32 * j + 16 * e + m \in 0 .. 209
  BY ONLY j \in 0 .. 1
<1>4. ASSUME NEW m \in 0 .. 15
      PROVE  A64!a64Q6Masked(b[64 * j + 16 * k + m], b[128 + 32 * j + 16 * (k % 2) + m], p, k)
             = A64!a64Q6Whole(b[64 * j + 16 * k + m], b[128 + 32 * j + 16 * (k % 2) + m], p, k)
  <2> DEFINE at == 64 * j + 16 * k + m
             e == k % 2
             high == 128 + 32 * j + 16 * e + m
             l == b[at]
             q == b[high]
  <2>1. at \in 0 .. 209
    BY ONLY <1>1, <1>4
  <2>2. e \in 0 .. 1
    BY ONLY <1>2
  <2>3. high \in 0 .. 209
    <3> HIDE DEF e
    <3> QED BY ONLY <1>3, <1>4, <2>2, SMTT(30)
  <2>4. l \in 0 .. 255 /\ q \in 0 .. 255
    <3> HIDE DEF at, high
    <3> QED BY ONLY <2>1, <2>3, OfBytes(b), ZenonT(30) DEF OfBytes
  <2>5. A64!a64Q6Masked(l, q, p, k) = A64!a64Q6Whole(l, q, p, k)
    <3> HIDE DEF l, q
    <3> QED BY ONLY <2>4, Q6KHighs, p \in 0 .. 1, k \in 0 .. 3, Zenon
  <2> QED BY ONLY <2>5, Zenon
<1> QED BY ONLY <1>4, Zenon DEF A64!a64Q6TileDot, A64!a64Q6Dot, A64!L16

LEMMA Q6KTile ==
    ASSUME NEW x, NEW t \in 0 .. 3, OfBytes(x[t % 2])
    PROVE  /\ DOMAIN A64!a64VecDotQ6_KTile(x) = 0 .. 3
           /\ A64!a64VecDotQ6_KTile(x)[t].xrow = t % 2
           /\ A64!a64VecDotQ6_KTile(x)[t].yrow = t \div 2
           /\ A64!a64VecDotQ6_KTile(x)[t].form = A64!a64VecDotQ6_KKernel(x[t % 2])
<1> DEFINE b == x[t % 2]
           S == {A64!a64Q6TileDot(b, j, p, k) : j \in 0 .. 1, p \in 0 .. 1, k \in A64!L4}
           R == {A64!a64Q6Dot(b, j, p, k) : j \in 0 .. 1, p \in 0 .. 1, k \in A64!L4}
<1>1. /\ DOMAIN A64!a64VecDotQ6_KTile(x) = 0 .. 3
      /\ A64!a64VecDotQ6_KTile(x)[t].xrow = t % 2
      /\ A64!a64VecDotQ6_KTile(x)[t].yrow = t \div 2
      /\ A64!a64VecDotQ6_KTile(x)[t].form = A64!Q6KBlock(b, S)
  BY ONLY t \in 0 .. 3 DEF A64!a64VecDotQ6_KTile, A64!Tile, A64!L4
<1>2. A64!a64VecDotQ6_KKernel(b) = A64!Q6KBlock(b, R)
  BY ONLY TRUE DEF A64!a64VecDotQ6_KKernel
<1>3. OfBytes(b)
  OBVIOUS
<1> HIDE DEF b
<1>4. \A j \in 0 .. 1, p \in 0 .. 1, k \in 0 .. 3 :
         A64!a64Q6TileDot(b, j, p, k) = A64!a64Q6Dot(b, j, p, k)
  BY ONLY <1>3, Q6KDots
<1>5. S = R
  BY ONLY <1>4 DEF A64!L4
<1> HIDE DEF S, R
<1>6. A64!a64VecDotQ6_KTile(x)[t].form = A64!a64VecDotQ6_KKernel(b)
  BY ONLY <1>1, <1>2, <1>5
<1> QED BY <1>1, <1>6 DEF b

-----------------------------------------------------------------------------
(* A form is sound on an activation block when it reads every quant of its *)
(* row once and stays inside both blocks.                                  *)
Sound(f, a, r, top, xBytes, yBytes) ==
    /\ Once(f, a, r, 0 .. top)
    /\ Within(f, xBytes, yBytes)
    /\ \A d \in f.dots : \A m \in DOMAIN d.w : d.y + m < yBytes

(* What is read once is read inside the block, where the quants are.       *)
LEMMA OnceInside ==
    ASSUME NEW f, NEW a, NEW r, NEW top, NEW xBytes, NEW yBytes,
           Once(f, a, r, 0 .. top), Within(f, xBytes, yBytes),
           \A k \in 0 .. top : QuantAt(a, r, k) < yBytes
    PROVE  Sound(f, a, r, top, xBytes, yBytes)
<1>1. ASSUME NEW d \in f.dots, NEW m \in DOMAIN d.w
      PROVE  d.y + m < yBytes
  <2>1. PICK k \in 0 .. top : d.y + m = QuantAt(a, r, k)
    BY DEF Once
  <2> QED BY <2>1
<1> QED BY <1>1 DEF Sound

LEMMA SoundK ==
    ASSUME NEW f, NEW xBytes, Within(f, xBytes, 292),
           KRuns(f.dots) \/ Runs(f.dots, 4, 8, 31, 7, 0)
    PROVE  Sound(f, Activations.q8_K, 0, 255, xBytes, 292)
<1>1. \A k \in 0 .. 255 : QuantAt(Activations.q8_K, 0, k) < 292
  BY SeatK
<1>2. CASE KRuns(f.dots)
  <2>1. Runs(f.dots, 4, 16, 15, 15, 0)
    BY <1>2 DEF KRuns
  <2>2. InRuns(Activations.q8_K, 0, 0 .. 255, 4, 16, 15, 15, 0)
    BY PlainLayouts
  <2>3. Once(f, Activations.q8_K, 0, 0 .. 255)
    BY ONLY <2>1, <2>2, RunsOnce
  <2> QED BY ONLY <1>1, <2>3, OnceInside, Within(f, xBytes, 292)
<1>3. CASE Runs(f.dots, 4, 8, 31, 7, 0)
  <2>1. InRuns(Activations.q8_K, 0, 0 .. 255, 4, 8, 31, 7, 0)
    BY PlainLayouts
  <2>2. Once(f, Activations.q8_K, 0, 0 .. 255)
    BY ONLY <1>3, <2>1, RunsOnce
  <2> QED BY ONLY <1>1, <2>2, OnceInside, Within(f, xBytes, 292)
<1> QED BY <1>2, <1>3

LEMMA Sound0 ==
    ASSUME NEW f, NEW xBytes, Within(f, xBytes, 34),
           \/ Runs(f.dots, 2, 16, 1, 15, 0)
           \/ Runs(f.dots, 2, 8, 3, 7, 0)
           \/ Runs(f.dots, 2, 4, 7, 3, 0)
    PROVE  Sound(f, Activations.q8_0, 0, 31, xBytes, 34)
<1>1. Once(f, Activations.q8_0, 0, 0 .. 31)
  <2>1. CASE Runs(f.dots, 2, 16, 1, 15, 0)
    <3>1. InRuns(Activations.q8_0, 0, 0 .. 31, 2, 16, 1, 15, 0)
      BY PlainLayouts
    <3> QED BY ONLY <2>1, <3>1, RunsOnce
  <2>2. CASE Runs(f.dots, 2, 8, 3, 7, 0)
    <3>1. InRuns(Activations.q8_0, 0, 0 .. 31, 2, 8, 3, 7, 0)
      BY PlainLayouts
    <3> QED BY ONLY <2>2, <3>1, RunsOnce
  <2>3. CASE Runs(f.dots, 2, 4, 7, 3, 0)
    <3>1. InRuns(Activations.q8_0, 0, 0 .. 31, 2, 4, 7, 3, 0)
      BY PlainLayouts
    <3> QED BY ONLY <2>3, <3>1, RunsOnce
  <2> QED BY <2>1, <2>2, <2>3
<1>2. \A k \in 0 .. 31 : QuantAt(Activations.q8_0, 0, k) < 34
  BY Seat0
<1> QED BY ONLY <1>1, <1>2, OnceInside, Within(f, xBytes, 34)

LEMMA Sound1 ==
    ASSUME NEW f, NEW xBytes, Within(f, xBytes, 36), Runs(f.dots, 4, 16, 1, 15, 0)
    PROVE  Sound(f, Activations.q8_1, 0, 31, xBytes, 36)
<1>1. Once(f, Activations.q8_1, 0, 0 .. 31)
  <2>1. InRuns(Activations.q8_1, 0, 0 .. 31, 4, 16, 1, 15, 0)
    BY PlainLayouts
  <2> QED BY ONLY <2>1, Runs(f.dots, 4, 16, 1, 15, 0), RunsOnce
<1>2. \A k \in 0 .. 31 : QuantAt(Activations.q8_1, 0, k) < 36
  BY Seat1
<1> QED BY ONLY <1>1, <1>2, OnceInside, Within(f, xBytes, 36)

LEMMA SoundBlocks ==
    ASSUME NEW f, NEW xBytes, NEW blocks \in {1, 3}, Within(f, xBytes, 34 * blocks + 34),
           \/ BlockRuns(f.dots, blocks, 8, 3, 7)
           \/ BlockRuns(f.dots, blocks, 16, 1, 15)
           \/ BlockRuns(f.dots, blocks, 32, 0, 31)
    PROVE  Sound(f, Activations.q8_0, 0, 32 * blocks + 31, xBytes, 34 * blocks + 34)
<1>1. Once(f, Activations.q8_0, 0, 0 .. 32 * blocks + 31)
  <2>1. CASE BlockRuns(f.dots, blocks, 8, 3, 7)
    BY <2>1, BlocksOnce
  <2>2. CASE BlockRuns(f.dots, blocks, 16, 1, 15)
    BY <2>2, BlocksOnce
  <2>3. CASE BlockRuns(f.dots, blocks, 32, 0, 31)
    BY <2>3, BlocksOnce
  <2> QED BY <2>1, <2>2, <2>3
<1>2. ASSUME NEW k \in 0 .. 32 * blocks + 31
      PROVE  QuantAt(Activations.q8_0, 0, k) < 34 * blocks + 34
  <2>1. k \in Nat /\ k \div 32 \in 0 .. blocks /\ k % 32 \in 0 .. 31
    OBVIOUS
  <2>2. QuantAt(Activations.q8_0, 0, k) = 34 * (k \div 32) + 2 + (k % 32)
    BY <2>1, Seat0s
  <2> QED BY ONLY <2>1, <2>2, blocks \in {1, 3}
<1> QED BY ONLY <1>1, <1>2, OnceInside, Within(f, xBytes, 34 * blocks + 34)

LEMMA SoundTQ1 ==
    ASSUME NEW f, Within(f, 54, 292),
           \/ Covers(f.dots, 0 .. 18, a64TQ1_y, Constant(0, 0 .. 18), a64TQ1_ln)
           \/ Covers(f.dots, 0 .. 13, x64TQ1_y, Constant(0, 0 .. 13), x64TQ1_ln)
    PROVE  Sound(f, Activations.q8_K, 0, 255, 54, 292)
<1>1. Once(f, Activations.q8_K, 0, 0 .. 255)
  <2>1. CASE Covers(f.dots, 0 .. 18, a64TQ1_y, Constant(0, 0 .. 18), a64TQ1_ln)
    BY <2>1, a64TQ1Seats, CoversOnce
  <2>2. CASE Covers(f.dots, 0 .. 13, x64TQ1_y, Constant(0, 0 .. 13), x64TQ1_ln)
    BY <2>2, x64TQ1Seats, CoversOnce
  <2> QED BY <2>1, <2>2
<1>2. \A k \in 0 .. 255 : QuantAt(Activations.q8_K, 0, k) < 292
  BY SeatK
<1> QED BY ONLY <1>1, <1>2, OnceInside, Within(f, 54, 292)

LEMMA SoundKx4 ==
    ASSUME NEW f, NEW xBytes, NEW r \in 0 .. 3, Within(f, xBytes, 1168),
           Runs(f.dots, 16 + 8 * r, 32, 31, 7, 4 * r)
    PROVE  Sound(f, Activations.q8_Kx4, r, 255, xBytes, 1168)
<1>1. Once(f, Activations.q8_Kx4, r, 0 .. 255)
  <2>1. InRuns(Activations.q8_Kx4, r, 0 .. 255, 16 + 8 * r, 32, 31, 7, 4 * r)
    BY FourRowLayouts
  <2>2. 16 + 8 * r \in Int
    BY SMTT(30)
  <2> QED BY <2>1, <2>2, RunsOnce
<1>2. \A k \in 0 .. 255 : QuantAt(Activations.q8_Kx4, r, k) < 1168
  BY SeatKx4
<1>3. ASSUME NEW yBytes, yBytes = 1168
      PROVE  Sound(f, Activations.q8_Kx4, r, 255, xBytes, yBytes)
  <2>1. \A k \in 0 .. 255 : QuantAt(Activations.q8_Kx4, r, k) < yBytes
    BY <1>2, <1>3
  <2>2. Within(f, xBytes, yBytes)
    BY <1>3
  <2> QED BY ONLY <1>1, <2>1, <2>2, OnceInside, Zenon
<1> QED BY <1>3

LEMMA Sound0x4by8 ==
    ASSUME NEW f, NEW xBytes, NEW r \in 0 .. 3, Within(f, xBytes, 136),
           Runs(f.dots, 8 + 8 * r, 32, 3, 7, 2 * r)
    PROVE  Sound(f, Activations.q8_0x4by8, r, 31, xBytes, 136)
<1>1. Once(f, Activations.q8_0x4by8, r, 0 .. 31)
  <2>1. InRuns(Activations.q8_0x4by8, r, 0 .. 31, 8 + 8 * r, 32, 3, 7, 2 * r)
    BY FourRowLayouts
  <2>2. 8 + 8 * r \in Int
    OBVIOUS
  <2> QED BY <2>1, <2>2, RunsOnce
<1>2. \A k \in 0 .. 31 : QuantAt(Activations.q8_0x4by8, r, k) < 136
  BY Seat0x4by8
<1> QED BY ONLY <1>1, <1>2, OnceInside, Within(f, xBytes, 136), Zenon

LEMMA Sound0x4by4 ==
    ASSUME NEW f, NEW xBytes, NEW r \in 0 .. 3, Within(f, xBytes, 136),
           Runs(f.dots, 8 + 4 * r, 16, 7, 3, 2 * r)
    PROVE  Sound(f, Activations.q8_0x4by4, r, 31, xBytes, 136)
<1>1. Once(f, Activations.q8_0x4by4, r, 0 .. 31)
  <2>1. InRuns(Activations.q8_0x4by4, r, 0 .. 31, 8 + 4 * r, 16, 7, 3, 2 * r)
    BY FourRowLayouts
  <2>2. 8 + 4 * r \in Int
    OBVIOUS
  <2> QED BY <2>1, <2>2, RunsOnce
<1>2. \A k \in 0 .. 31 : QuantAt(Activations.q8_0x4by4, r, k) < 136
  BY Seat0x4by4
<1> QED BY ONLY <1>1, <1>2, OnceInside, Within(f, xBytes, 136), Zenon

-----------------------------------------------------------------------------
(* Act, and the extents LoadsInBlock compares with, of a nest and a format. *)
ActFor(n, fm) == CASE n # "gemm" -> ActivationsOf(fm)
                   [] n = "gemm" /\ fm \in KFormats -> Activations.q8_Kx4
                   [] n = "gemm" /\ fm = "q8_0" -> Activations.q8_0x4by4
                   [] OTHER -> Activations.q8_0x4by8
XBytesFor(n, fm) == IF n \in Nests THEN PackedBytes[fm] ELSE BlockBytes[fm]
YBytesFor(n, fm) == (QuantsOf(fm) \div ActFor(n, fm).n) * ActFor(n, fm).bytes

SoundFor(f, n, fm, r) ==
    Sound(f, ActFor(n, fm), r, QuantsOf(fm) - 1, XBytesFor(n, fm), YBytesFor(n, fm))

(* The formats by the activations of their row dots.                       *)

Rows256 == {"q2_K", "q3_K", "q4_K", "q5_K", "q6_K", "iq4_xs", "iq3_xxs", "iq3_s",
            "iq2_xxs", "iq2_xs", "iq2_s", "iq1_s", "iq1_m", "tq1_0", "tq2_0"}
Rows32 == {"q4_0", "q8_0", "q5_0", "iq4_nl", "mxfp4"}
Rows32Offset == {"q4_1", "q5_1"}
Rows64 == {"q2_0", "nvfp4"}
Rows128 == {"q1_0"}

LEMMA Rows256Shape ==
    ASSUME NEW fm \in Rows256, NEW n, n # "gemm"
    PROVE  /\ ActFor(n, fm) = Activations.q8_K
           /\ QuantsOf(fm) - 1 = 255
           /\ YBytesFor(n, fm) = 292
<1>1. QuantsOf(fm) = 256
  BY DEF Rows256, QuantsOf, Legacy
<1>2. ActivationsOf(fm) = Activations.q8_K
  BY DEF Rows256, ActivationsOf, Legacy, Packed
<1>3. ActFor(n, fm) = Activations.q8_K
  BY <1>2 DEF ActFor
<1>4. YBytesFor(n, fm) = 292
  BY <1>1, <1>3, Acts DEF YBytesFor
<1> QED BY <1>1, <1>3, <1>4

LEMMA Rows32Shape ==
    ASSUME NEW fm \in Rows32, NEW n, n # "gemm"
    PROVE  /\ ActFor(n, fm) = Activations.q8_0
           /\ QuantsOf(fm) - 1 = 31
           /\ YBytesFor(n, fm) = 34
<1>1. QuantsOf(fm) = 32
  BY DEF Rows32, QuantsOf, Legacy
<1>2. ActivationsOf(fm) = Activations.q8_0
  BY DEF Rows32, ActivationsOf, Legacy, Packed
<1>3. ActFor(n, fm) = Activations.q8_0
  BY <1>2 DEF ActFor
<1>4. YBytesFor(n, fm) = 34
  BY <1>1, <1>3, Acts DEF YBytesFor
<1> QED BY <1>1, <1>3, <1>4

LEMMA Rows32OffsetShape ==
    ASSUME NEW fm \in Rows32Offset, NEW n, n # "gemm"
    PROVE  /\ ActFor(n, fm) = Activations.q8_1
           /\ QuantsOf(fm) - 1 = 31
           /\ YBytesFor(n, fm) = 36
<1>1. QuantsOf(fm) = 32
  BY DEF Rows32Offset, QuantsOf, Legacy
<1>2. ActivationsOf(fm) = Activations.q8_1
  BY DEF Rows32Offset, ActivationsOf, Legacy, Packed
<1>3. ActFor(n, fm) = Activations.q8_1
  BY <1>2 DEF ActFor
<1>4. YBytesFor(n, fm) = 36
  BY <1>1, <1>3, Acts DEF YBytesFor
<1> QED BY <1>1, <1>3, <1>4

LEMMA Rows64Shape ==
    ASSUME NEW fm \in Rows64, NEW n, n # "gemm"
    PROVE  /\ ActFor(n, fm) = Activations.q8_0
           /\ QuantsOf(fm) - 1 = 63
           /\ YBytesFor(n, fm) = 68
<1>1. QuantsOf(fm) = 64
  BY DEF Rows64, QuantsOf, Legacy
<1>2. ActivationsOf(fm) = Activations.q8_0
  BY DEF Rows64, ActivationsOf, Legacy, Packed
<1>3. ActFor(n, fm) = Activations.q8_0
  BY <1>2 DEF ActFor
<1>4. YBytesFor(n, fm) = 68
  BY <1>1, <1>3, Acts DEF YBytesFor
<1> QED BY <1>1, <1>3, <1>4

LEMMA Rows128Shape ==
    ASSUME NEW n, n # "gemm"
    PROVE  /\ ActFor(n, "q1_0") = Activations.q8_0
           /\ QuantsOf("q1_0") - 1 = 127
           /\ YBytesFor(n, "q1_0") = 136
<1>1. QuantsOf("q1_0") = 128
  BY DEF QuantsOf, Legacy
<1>2. ActivationsOf("q1_0") = Activations.q8_0
  BY DEF ActivationsOf, Legacy, Packed
<1>3. ActFor(n, "q1_0") = Activations.q8_0
  BY <1>2 DEF ActFor
<1>4. YBytesFor(n, "q1_0") = 136
  BY <1>1, <1>3, Acts DEF YBytesFor
<1> QED BY <1>1, <1>3, <1>4

-----------------------------------------------------------------------------
(* The row dot of each format is sound.                                    *)

LEMMA SingleShapes ==
    ASSUME NEW f, NEW fm, NEW a, NEW top, NEW xBytes, NEW yBytes,
           Sound(f, a, 0, top, xBytes, yBytes),
           ActFor("row", fm) = a, QuantsOf(fm) - 1 = top, YBytesFor("row", fm) = yBytes,
           BlockBytes[fm] = xBytes
    PROVE  SoundFor(f, "row", fm, 0)
<1>1. XBytesFor("row", fm) = xBytes
  BY DEF XBytesFor, Nests
<1> QED BY <1>1 DEF SoundFor

LEMMA Rows256Sound ==
    ASSUME NEW f, NEW fm \in Rows256, NEW xBytes, BlockBytes[fm] = xBytes,
           Sound(f, Activations.q8_K, 0, 255, xBytes, 292)
    PROVE  SoundFor(f, "row", fm, 0)
BY Rows256Shape, SingleShapes

LEMMA Rows32Sound ==
    ASSUME NEW f, NEW fm \in Rows32, NEW xBytes, BlockBytes[fm] = xBytes,
           Sound(f, Activations.q8_0, 0, 31, xBytes, 34)
    PROVE  SoundFor(f, "row", fm, 0)
BY Rows32Shape, SingleShapes

LEMMA Rows32OffsetSound ==
    ASSUME NEW f, NEW fm \in Rows32Offset, NEW xBytes, BlockBytes[fm] = xBytes,
           Sound(f, Activations.q8_1, 0, 31, xBytes, 36)
    PROVE  SoundFor(f, "row", fm, 0)
BY Rows32OffsetShape, SingleShapes

LEMMA Rows64Sound ==
    ASSUME NEW f, NEW fm \in Rows64, NEW xBytes, BlockBytes[fm] = xBytes,
           Sound(f, Activations.q8_0, 0, 63, xBytes, 68)
    PROVE  SoundFor(f, "row", fm, 0)
BY Rows64Shape, SingleShapes

LEMMA Rows128Sound ==
    ASSUME NEW f, NEW fm \in Rows128, NEW xBytes, BlockBytes[fm] = xBytes,
           Sound(f, Activations.q8_0, 0, 127, xBytes, 136)
    PROVE  SoundFor(f, "row", fm, 0)
BY Rows128Shape, SingleShapes DEF Rows128

LEMMA a64Q4_0_Sound ==
    ASSUME NEW b
    PROVE  SoundFor(A64!a64VecDotLegacy("q4_0", b), "row", "q4_0", 0)
<1>1. Sound(A64!a64VecDotLegacy("q4_0", b), Activations.q8_0, 0, 31, 18, 34)
  BY a64Q4_0_Layout, Sound0
<1>2. BlockBytes["q4_0"] = 18 /\ "q4_0" \in Rows32
  BY DEF BlockBytes, Rows32
<1> QED BY ONLY <1>1, <1>2, Rows32Sound, Zenon

LEMMA a64Q8_0_Sound ==
    ASSUME NEW b
    PROVE  SoundFor(A64!a64VecDotLegacy("q8_0", b), "row", "q8_0", 0)
<1>1. Sound(A64!a64VecDotLegacy("q8_0", b), Activations.q8_0, 0, 31, 34, 34)
  BY a64Q8_0_Layout, Sound0
<1>2. BlockBytes["q8_0"] = 34 /\ "q8_0" \in Rows32
  BY DEF BlockBytes, Rows32
<1> QED BY ONLY <1>1, <1>2, Rows32Sound, Zenon

LEMMA a64Q5_0_Sound ==
    ASSUME NEW b
    PROVE  SoundFor(A64!a64VecDotQ5_0Kernel(b), "row", "q5_0", 0)
<1>1. Sound(A64!a64VecDotQ5_0Kernel(b), Activations.q8_0, 0, 31, 22, 34)
  BY a64Q5_0_Layout, Sound0
<1>2. BlockBytes["q5_0"] = 22 /\ "q5_0" \in Rows32
  BY DEF BlockBytes, Rows32
<1> QED BY ONLY <1>1, <1>2, Rows32Sound, Zenon

LEMMA a64Q4_1_Sound ==
    ASSUME NEW b
    PROVE  SoundFor(A64!a64VecDotQx1Kernel(FALSE, b), "row", "q4_1", 0)
<1>1. Sound(A64!a64VecDotQx1Kernel(FALSE, b), Activations.q8_1, 0, 31, 20, 36)
  BY a64Q4_1_Layout, Sound1
<1>2. BlockBytes["q4_1"] = 20 /\ "q4_1" \in Rows32Offset
  BY DEF BlockBytes, Rows32Offset
<1> QED BY ONLY <1>1, <1>2, Rows32OffsetSound, Zenon

LEMMA a64Q5_1_Sound ==
    ASSUME NEW b
    PROVE  SoundFor(A64!a64VecDotQx1Kernel(TRUE, b), "row", "q5_1", 0)
<1>1. Sound(A64!a64VecDotQx1Kernel(TRUE, b), Activations.q8_1, 0, 31, 24, 36)
  BY a64Q5_1_Layout, Sound1
<1>2. BlockBytes["q5_1"] = 24 /\ "q5_1" \in Rows32Offset
  BY DEF BlockBytes, Rows32Offset
<1> QED BY ONLY <1>1, <1>2, Rows32OffsetSound, Zenon

LEMMA a64IQ4NL_Sound ==
    ASSUME NEW b
    PROVE  SoundFor(A64!a64VecDotLUT32("iq4_nl", b), "row", "iq4_nl", 0)
<1>1. Sound(A64!a64VecDotLUT32("iq4_nl", b), Activations.q8_0, 0, 31, 18, 34)
  BY a64IQ4NL_Layout, Sound0
<1>2. BlockBytes["iq4_nl"] = 18 /\ "iq4_nl" \in Rows32
  BY DEF BlockBytes, Rows32
<1> QED BY ONLY <1>1, <1>2, Rows32Sound, Zenon

LEMMA a64MXFP4_Sound ==
    ASSUME NEW b
    PROVE  SoundFor(A64!a64VecDotLUT32("mxfp4", b), "row", "mxfp4", 0)
<1>1. Sound(A64!a64VecDotLUT32("mxfp4", b), Activations.q8_0, 0, 31, 17, 34)
  BY a64MXFP4_Layout, Sound0
<1>2. BlockBytes["mxfp4"] = 17 /\ "mxfp4" \in Rows32
  BY DEF BlockBytes, Rows32
<1> QED BY ONLY <1>1, <1>2, Rows32Sound, Zenon

LEMMA a64Q1_0_Sound ==
    ASSUME NEW b
    PROVE  SoundFor(A64!a64VecDotQ1_0Kernel(b), "row", "q1_0", 0)
<1>1. Sound(A64!a64VecDotQ1_0Kernel(b), Activations.q8_0, 0, 32 * 3 + 31, 18, 34 * 3 + 34)
  <2>1. Within(A64!a64VecDotQ1_0Kernel(b), 18, 34 * 3 + 34)
    BY a64Q1_0_Layout
  <2> QED BY <2>1, a64Q1_0_Layout, SoundBlocks
<1>2. Sound(A64!a64VecDotQ1_0Kernel(b), Activations.q8_0, 0, 127, 18, 136)
  BY <1>1
<1>3. BlockBytes["q1_0"] = 18 /\ "q1_0" \in Rows128
  BY DEF BlockBytes, Rows128
<1> QED BY ONLY <1>2, <1>3, Rows128Sound, Zenon

LEMMA a64Q2_0_Sound ==
    ASSUME NEW b
    PROVE  SoundFor(A64!a64VecDotQ2_0Kernel(b), "row", "q2_0", 0)
<1>1. Sound(A64!a64VecDotQ2_0Kernel(b), Activations.q8_0, 0, 32 * 1 + 31, 18, 34 * 1 + 34)
  <2>1. Within(A64!a64VecDotQ2_0Kernel(b), 18, 34 * 1 + 34)
    BY a64Q2_0_Layout
  <2> QED BY <2>1, a64Q2_0_Layout, SoundBlocks
<1>2. Sound(A64!a64VecDotQ2_0Kernel(b), Activations.q8_0, 0, 63, 18, 68)
  BY <1>1
<1>3. BlockBytes["q2_0"] = 18 /\ "q2_0" \in Rows64
  BY DEF BlockBytes, Rows64
<1> QED BY ONLY <1>2, <1>3, Rows64Sound, Zenon

LEMMA a64NVFP4_Sound ==
    ASSUME NEW b
    PROVE  SoundFor(A64!a64VecDotNVFP4Kernel(b), "row", "nvfp4", 0)
<1>1. Sound(A64!a64VecDotNVFP4Kernel(b), Activations.q8_0, 0, 32 * 1 + 31, 36, 34 * 1 + 34)
  <2>1. Within(A64!a64VecDotNVFP4Kernel(b), 36, 34 * 1 + 34)
    BY a64NVFP4_Layout
  <2> QED BY <2>1, a64NVFP4_Layout, SoundBlocks
<1>2. Sound(A64!a64VecDotNVFP4Kernel(b), Activations.q8_0, 0, 63, 36, 68)
  BY <1>1
<1>3. BlockBytes["nvfp4"] = 36 /\ "nvfp4" \in Rows64
  BY DEF BlockBytes, Rows64
<1> QED BY ONLY <1>2, <1>3, Rows64Sound, Zenon

LEMMA a64Q2_K_Sound ==
    ASSUME NEW b
    PROVE  SoundFor(A64!a64VecDotQ2_KKernel(b), "row", "q2_K", 0)
<1>1. Sound(A64!a64VecDotQ2_KKernel(b), Activations.q8_K, 0, 255, 84, 292)
  BY a64Q2_K_Layout, SoundK
<1>2. BlockBytes["q2_K"] = 84 /\ "q2_K" \in Rows256
  BY DEF BlockBytes, Rows256
<1> QED BY ONLY <1>1, <1>2, Rows256Sound, Zenon

LEMMA a64Q3_K_Sound ==
    ASSUME NEW b
    PROVE  SoundFor(A64!a64VecDotQ3_KKernel(b), "row", "q3_K", 0)
<1>1. Sound(A64!a64VecDotQ3_KKernel(b), Activations.q8_K, 0, 255, 110, 292)
  BY a64Q3_K_Layout, SoundK
<1>2. BlockBytes["q3_K"] = 110 /\ "q3_K" \in Rows256
  BY DEF BlockBytes, Rows256
<1> QED BY ONLY <1>1, <1>2, Rows256Sound, Zenon

LEMMA a64Q4_K_Sound ==
    ASSUME NEW b
    PROVE  SoundFor(A64!a64VecDotQ4_KKernel(b), "row", "q4_K", 0)
<1>1. Sound(A64!a64VecDotQ4_KKernel(b), Activations.q8_K, 0, 255, 144, 292)
  BY a64Q4_K_Layout, SoundK
<1>2. BlockBytes["q4_K"] = 144 /\ "q4_K" \in Rows256
  BY DEF BlockBytes, Rows256
<1> QED BY ONLY <1>1, <1>2, Rows256Sound, Zenon

LEMMA a64Q5_K_Sound ==
    ASSUME NEW b
    PROVE  SoundFor(A64!a64VecDotQ5_KKernel(b), "row", "q5_K", 0)
<1>1. Sound(A64!a64VecDotQ5_KKernel(b), Activations.q8_K, 0, 255, 176, 292)
  BY a64Q5_K_Layout, SoundK
<1>2. BlockBytes["q5_K"] = 176 /\ "q5_K" \in Rows256
  BY DEF BlockBytes, Rows256
<1> QED BY ONLY <1>1, <1>2, Rows256Sound, Zenon

LEMMA a64Q6_K_Sound ==
    ASSUME NEW b
    PROVE  SoundFor(A64!a64VecDotQ6_KKernel(b), "row", "q6_K", 0)
<1>1. Sound(A64!a64VecDotQ6_KKernel(b), Activations.q8_K, 0, 255, 210, 292)
  BY a64Q6_K_Layout, SoundK
<1>2. BlockBytes["q6_K"] = 210 /\ "q6_K" \in Rows256
  BY DEF BlockBytes, Rows256
<1> QED BY ONLY <1>1, <1>2, Rows256Sound, Zenon

LEMMA a64IQ4XS_Sound ==
    ASSUME NEW b
    PROVE  SoundFor(A64!a64VecDotIQ4XSKernel(b), "row", "iq4_xs", 0)
<1>1. Sound(A64!a64VecDotIQ4XSKernel(b), Activations.q8_K, 0, 255, 136, 292)
  BY a64IQ4XS_Layout, SoundK
<1>2. BlockBytes["iq4_xs"] = 136 /\ "iq4_xs" \in Rows256
  BY DEF BlockBytes, Rows256
<1> QED BY ONLY <1>1, <1>2, Rows256Sound, Zenon

LEMMA a64IQ3XXS_Sound ==
    ASSUME NEW b
    PROVE  SoundFor(A64!a64VecDotIQ3XXSKernel(b), "row", "iq3_xxs", 0)
<1>1. Sound(A64!a64VecDotIQ3XXSKernel(b), Activations.q8_K, 0, 255, 98, 292)
  BY a64IQ3XXS_Layout, SoundK
<1>2. BlockBytes["iq3_xxs"] = 98 /\ "iq3_xxs" \in Rows256
  BY DEF BlockBytes, Rows256
<1> QED BY ONLY <1>1, <1>2, Rows256Sound, Zenon

LEMMA a64IQ3S_Sound ==
    ASSUME NEW b
    PROVE  SoundFor(A64!a64VecDotIQ3SKernel(b), "row", "iq3_s", 0)
<1>1. Sound(A64!a64VecDotIQ3SKernel(b), Activations.q8_K, 0, 255, 110, 292)
  BY a64IQ3S_Layout, SoundK
<1>2. BlockBytes["iq3_s"] = 110 /\ "iq3_s" \in Rows256
  BY DEF BlockBytes, Rows256
<1> QED BY ONLY <1>1, <1>2, Rows256Sound, Zenon

LEMMA a64IQ2XXS_Sound ==
    ASSUME NEW b
    PROVE  SoundFor(A64!a64VecDotIQ2("iq2_xxs", b), "row", "iq2_xxs", 0)
<1>1. Sound(A64!a64VecDotIQ2("iq2_xxs", b), Activations.q8_K, 0, 255, 66, 292)
  BY a64IQ2XXS_Layout, SoundK
<1>2. BlockBytes["iq2_xxs"] = 66 /\ "iq2_xxs" \in Rows256
  BY DEF BlockBytes, Rows256
<1> QED BY ONLY <1>1, <1>2, Rows256Sound, Zenon

LEMMA a64IQ2XS_Sound ==
    ASSUME NEW b
    PROVE  SoundFor(A64!a64VecDotIQ2("iq2_xs", b), "row", "iq2_xs", 0)
<1>1. Sound(A64!a64VecDotIQ2("iq2_xs", b), Activations.q8_K, 0, 255, 74, 292)
  BY a64IQ2XS_Layout, SoundK
<1>2. BlockBytes["iq2_xs"] = 74 /\ "iq2_xs" \in Rows256
  BY DEF BlockBytes, Rows256
<1> QED BY ONLY <1>1, <1>2, Rows256Sound, Zenon

LEMMA a64IQ2S_Sound ==
    ASSUME NEW b
    PROVE  SoundFor(A64!a64VecDotIQ2("iq2_s", b), "row", "iq2_s", 0)
<1>1. Sound(A64!a64VecDotIQ2("iq2_s", b), Activations.q8_K, 0, 255, 82, 292)
  BY a64IQ2S_Layout, SoundK
<1>2. BlockBytes["iq2_s"] = 82 /\ "iq2_s" \in Rows256
  BY DEF BlockBytes, Rows256
<1> QED BY ONLY <1>1, <1>2, Rows256Sound, Zenon

LEMMA a64IQ1S_Sound ==
    ASSUME NEW b
    PROVE  SoundFor(A64!a64VecDotIQ1SKernel(b), "row", "iq1_s", 0)
<1>1. Sound(A64!a64VecDotIQ1SKernel(b), Activations.q8_K, 0, 255, 50, 292)
  BY a64IQ1S_Layout, SoundK
<1>2. BlockBytes["iq1_s"] = 50 /\ "iq1_s" \in Rows256
  BY DEF BlockBytes, Rows256
<1> QED BY ONLY <1>1, <1>2, Rows256Sound, Zenon

LEMMA a64IQ1M_Sound ==
    ASSUME NEW b
    PROVE  SoundFor(A64!a64VecDotIQ1MKernel(b), "row", "iq1_m", 0)
<1>1. Sound(A64!a64VecDotIQ1MKernel(b), Activations.q8_K, 0, 255, 56, 292)
  BY a64IQ1M_Layout, SoundK
<1>2. BlockBytes["iq1_m"] = 56 /\ "iq1_m" \in Rows256
  BY DEF BlockBytes, Rows256
<1> QED BY ONLY <1>1, <1>2, Rows256Sound, Zenon

LEMMA a64TQ1_Sound ==
    ASSUME NEW b
    PROVE  SoundFor(A64!a64VecDotTQ1_0Kernel(b), "row", "tq1_0", 0)
<1>1. Sound(A64!a64VecDotTQ1_0Kernel(b), Activations.q8_K, 0, 255, 54, 292)
  BY a64TQ1_Layout, SoundTQ1
<1>2. BlockBytes["tq1_0"] = 54 /\ "tq1_0" \in Rows256
  BY DEF BlockBytes, Rows256
<1> QED BY ONLY <1>1, <1>2, Rows256Sound, Zenon

LEMMA a64TQ2_0_Sound ==
    ASSUME NEW b
    PROVE  SoundFor(A64!a64VecDotTQ2_0Kernel(b), "row", "tq2_0", 0)
<1>1. Sound(A64!a64VecDotTQ2_0Kernel(b), Activations.q8_K, 0, 255, 66, 292)
  BY a64TQ2_0_Layout, SoundK
<1>2. BlockBytes["tq2_0"] = 66 /\ "tq2_0" \in Rows256
  BY DEF BlockBytes, Rows256
<1> QED BY ONLY <1>1, <1>2, Rows256Sound, Zenon

LEMMA x64Q4_0_Sound ==
    ASSUME NEW b
    PROVE  SoundFor(X64!x64VecDotLegacy("q4_0", b), "row", "q4_0", 0)
<1>1. Sound(X64!x64VecDotLegacy("q4_0", b), Activations.q8_0, 0, 31, 18, 34)
  BY x64Q4_0_Layout, Sound0
<1>2. BlockBytes["q4_0"] = 18 /\ "q4_0" \in Rows32
  BY DEF BlockBytes, Rows32
<1> QED BY ONLY <1>1, <1>2, Rows32Sound, Zenon

LEMMA x64Q8_0_Sound ==
    ASSUME NEW b
    PROVE  SoundFor(X64!x64VecDotLegacy("q8_0", b), "row", "q8_0", 0)
<1>1. Sound(X64!x64VecDotLegacy("q8_0", b), Activations.q8_0, 0, 31, 34, 34)
  BY x64Q8_0_Layout, Sound0
<1>2. BlockBytes["q8_0"] = 34 /\ "q8_0" \in Rows32
  BY DEF BlockBytes, Rows32
<1> QED BY ONLY <1>1, <1>2, Rows32Sound, Zenon

LEMMA x64Q5_0_Sound ==
    ASSUME NEW b
    PROVE  SoundFor(X64!x64VecDotQ5_0Kernel(b), "row", "q5_0", 0)
<1>1. Sound(X64!x64VecDotQ5_0Kernel(b), Activations.q8_0, 0, 31, 22, 34)
  BY x64Q5_0_Layout, Sound0
<1>2. BlockBytes["q5_0"] = 22 /\ "q5_0" \in Rows32
  BY DEF BlockBytes, Rows32
<1> QED BY ONLY <1>1, <1>2, Rows32Sound, Zenon

LEMMA x64Q4_1_Sound ==
    ASSUME NEW b
    PROVE  SoundFor(X64!x64VecDotQx1Kernel(FALSE, b), "row", "q4_1", 0)
<1>1. Sound(X64!x64VecDotQx1Kernel(FALSE, b), Activations.q8_1, 0, 31, 20, 36)
  BY x64Q4_1_Layout, Sound1
<1>2. BlockBytes["q4_1"] = 20 /\ "q4_1" \in Rows32Offset
  BY DEF BlockBytes, Rows32Offset
<1> QED BY ONLY <1>1, <1>2, Rows32OffsetSound, Zenon

LEMMA x64Q5_1_Sound ==
    ASSUME NEW b
    PROVE  SoundFor(X64!x64VecDotQx1Kernel(TRUE, b), "row", "q5_1", 0)
<1>1. Sound(X64!x64VecDotQx1Kernel(TRUE, b), Activations.q8_1, 0, 31, 24, 36)
  BY x64Q5_1_Layout, Sound1
<1>2. BlockBytes["q5_1"] = 24 /\ "q5_1" \in Rows32Offset
  BY DEF BlockBytes, Rows32Offset
<1> QED BY ONLY <1>1, <1>2, Rows32OffsetSound, Zenon

LEMMA x64IQ4NL_Sound ==
    ASSUME NEW b
    PROVE  SoundFor(X64!x64VecDotLUT32("iq4_nl", b), "row", "iq4_nl", 0)
<1>1. Sound(X64!x64VecDotLUT32("iq4_nl", b), Activations.q8_0, 0, 31, 18, 34)
  BY x64IQ4NL_Layout, Sound0
<1>2. BlockBytes["iq4_nl"] = 18 /\ "iq4_nl" \in Rows32
  BY DEF BlockBytes, Rows32
<1> QED BY ONLY <1>1, <1>2, Rows32Sound, Zenon

LEMMA x64MXFP4_Sound ==
    ASSUME NEW b
    PROVE  SoundFor(X64!x64VecDotLUT32("mxfp4", b), "row", "mxfp4", 0)
<1>1. Sound(X64!x64VecDotLUT32("mxfp4", b), Activations.q8_0, 0, 31, 17, 34)
  BY x64MXFP4_Layout, Sound0
<1>2. BlockBytes["mxfp4"] = 17 /\ "mxfp4" \in Rows32
  BY DEF BlockBytes, Rows32
<1> QED BY ONLY <1>1, <1>2, Rows32Sound, Zenon

LEMMA x64Q1_0_Sound ==
    ASSUME NEW b
    PROVE  SoundFor(X64!x64VecDotQ1_0Kernel(b), "row", "q1_0", 0)
<1>1. Sound(X64!x64VecDotQ1_0Kernel(b), Activations.q8_0, 0, 32 * 3 + 31, 18, 34 * 3 + 34)
  <2>1. Within(X64!x64VecDotQ1_0Kernel(b), 18, 34 * 3 + 34)
    BY x64Q1_0_Layout
  <2> QED BY <2>1, x64Q1_0_Layout, SoundBlocks
<1>2. Sound(X64!x64VecDotQ1_0Kernel(b), Activations.q8_0, 0, 127, 18, 136)
  BY <1>1
<1>3. BlockBytes["q1_0"] = 18 /\ "q1_0" \in Rows128
  BY DEF BlockBytes, Rows128
<1> QED BY ONLY <1>2, <1>3, Rows128Sound, Zenon

LEMMA x64Q2_0_Sound ==
    ASSUME NEW b
    PROVE  SoundFor(X64!x64VecDotQ2_0Kernel(b), "row", "q2_0", 0)
<1>1. Sound(X64!x64VecDotQ2_0Kernel(b), Activations.q8_0, 0, 32 * 1 + 31, 18, 34 * 1 + 34)
  <2>1. Within(X64!x64VecDotQ2_0Kernel(b), 18, 34 * 1 + 34)
    BY x64Q2_0_Layout
  <2> QED BY <2>1, x64Q2_0_Layout, SoundBlocks
<1>2. Sound(X64!x64VecDotQ2_0Kernel(b), Activations.q8_0, 0, 63, 18, 68)
  BY <1>1
<1>3. BlockBytes["q2_0"] = 18 /\ "q2_0" \in Rows64
  BY DEF BlockBytes, Rows64
<1> QED BY ONLY <1>2, <1>3, Rows64Sound, Zenon

LEMMA x64NVFP4_Sound ==
    ASSUME NEW b
    PROVE  SoundFor(X64!x64VecDotNVFP4Kernel(b), "row", "nvfp4", 0)
<1>1. Sound(X64!x64VecDotNVFP4Kernel(b), Activations.q8_0, 0, 32 * 1 + 31, 36, 34 * 1 + 34)
  <2>1. Within(X64!x64VecDotNVFP4Kernel(b), 36, 34 * 1 + 34)
    BY x64NVFP4_Layout
  <2> QED BY <2>1, x64NVFP4_Layout, SoundBlocks
<1>2. Sound(X64!x64VecDotNVFP4Kernel(b), Activations.q8_0, 0, 63, 36, 68)
  BY <1>1
<1>3. BlockBytes["nvfp4"] = 36 /\ "nvfp4" \in Rows64
  BY DEF BlockBytes, Rows64
<1> QED BY ONLY <1>2, <1>3, Rows64Sound, Zenon

LEMMA x64Q2_K_Sound ==
    ASSUME NEW b
    PROVE  SoundFor(X64!x64VecDotQ2_KKernel(b), "row", "q2_K", 0)
<1>1. Sound(X64!x64VecDotQ2_KKernel(b), Activations.q8_K, 0, 255, 84, 292)
  BY x64Q2_K_Layout, SoundK
<1>2. BlockBytes["q2_K"] = 84 /\ "q2_K" \in Rows256
  BY DEF BlockBytes, Rows256
<1> QED BY ONLY <1>1, <1>2, Rows256Sound, Zenon

LEMMA x64Q3_K_Sound ==
    ASSUME NEW b
    PROVE  SoundFor(X64!x64VecDotQ3_KKernel(b), "row", "q3_K", 0)
<1>1. Sound(X64!x64VecDotQ3_KKernel(b), Activations.q8_K, 0, 255, 110, 292)
  BY x64Q3_K_Layout, SoundK
<1>2. BlockBytes["q3_K"] = 110 /\ "q3_K" \in Rows256
  BY DEF BlockBytes, Rows256
<1> QED BY ONLY <1>1, <1>2, Rows256Sound, Zenon

LEMMA x64Q4_K_Sound ==
    ASSUME NEW b
    PROVE  SoundFor(X64!x64VecDotQ4_KKernel(b), "row", "q4_K", 0)
<1>1. Sound(X64!x64VecDotQ4_KKernel(b), Activations.q8_K, 0, 255, 144, 292)
  BY x64Q4_K_Layout, SoundK
<1>2. BlockBytes["q4_K"] = 144 /\ "q4_K" \in Rows256
  BY DEF BlockBytes, Rows256
<1> QED BY ONLY <1>1, <1>2, Rows256Sound, Zenon

LEMMA x64Q5_K_Sound ==
    ASSUME NEW b
    PROVE  SoundFor(X64!x64VecDotQ5_KKernel(b), "row", "q5_K", 0)
<1>1. Sound(X64!x64VecDotQ5_KKernel(b), Activations.q8_K, 0, 255, 176, 292)
  BY x64Q5_K_Layout, SoundK
<1>2. BlockBytes["q5_K"] = 176 /\ "q5_K" \in Rows256
  BY DEF BlockBytes, Rows256
<1> QED BY ONLY <1>1, <1>2, Rows256Sound, Zenon

LEMMA x64Q6_K_Sound ==
    ASSUME NEW b
    PROVE  SoundFor(X64!x64VecDotQ6_KKernel(b), "row", "q6_K", 0)
<1>1. Sound(X64!x64VecDotQ6_KKernel(b), Activations.q8_K, 0, 255, 210, 292)
  BY x64Q6_K_Layout, SoundK
<1>2. BlockBytes["q6_K"] = 210 /\ "q6_K" \in Rows256
  BY DEF BlockBytes, Rows256
<1> QED BY ONLY <1>1, <1>2, Rows256Sound, Zenon

LEMMA x64IQ4XS_Sound ==
    ASSUME NEW b
    PROVE  SoundFor(X64!x64VecDotIQ4XSKernel(b), "row", "iq4_xs", 0)
<1>1. Sound(X64!x64VecDotIQ4XSKernel(b), Activations.q8_K, 0, 255, 136, 292)
  BY x64IQ4XS_Layout, SoundK
<1>2. BlockBytes["iq4_xs"] = 136 /\ "iq4_xs" \in Rows256
  BY DEF BlockBytes, Rows256
<1> QED BY ONLY <1>1, <1>2, Rows256Sound, Zenon

LEMMA x64IQ3XXS_Sound ==
    ASSUME NEW b
    PROVE  SoundFor(X64!x64VecDotIQ3(FALSE, b), "row", "iq3_xxs", 0)
<1>1. Sound(X64!x64VecDotIQ3(FALSE, b), Activations.q8_K, 0, 255, 98, 292)
  BY x64IQ3XXS_Layout, SoundK
<1>2. BlockBytes["iq3_xxs"] = 98 /\ "iq3_xxs" \in Rows256
  BY DEF BlockBytes, Rows256
<1> QED BY ONLY <1>1, <1>2, Rows256Sound, Zenon

LEMMA x64IQ3S_Sound ==
    ASSUME NEW b
    PROVE  SoundFor(X64!x64VecDotIQ3(TRUE, b), "row", "iq3_s", 0)
<1>1. Sound(X64!x64VecDotIQ3(TRUE, b), Activations.q8_K, 0, 255, 110, 292)
  BY x64IQ3S_Layout, SoundK
<1>2. BlockBytes["iq3_s"] = 110 /\ "iq3_s" \in Rows256
  BY DEF BlockBytes, Rows256
<1> QED BY ONLY <1>1, <1>2, Rows256Sound, Zenon

LEMMA x64IQ2XXS_Sound ==
    ASSUME NEW b
    PROVE  SoundFor(X64!x64VecDotIQ2("iq2_xxs", b), "row", "iq2_xxs", 0)
<1>1. Sound(X64!x64VecDotIQ2("iq2_xxs", b), Activations.q8_K, 0, 255, 66, 292)
  BY x64IQ2XXS_Layout, SoundK
<1>2. BlockBytes["iq2_xxs"] = 66 /\ "iq2_xxs" \in Rows256
  BY DEF BlockBytes, Rows256
<1> QED BY ONLY <1>1, <1>2, Rows256Sound, Zenon

LEMMA x64IQ2XS_Sound ==
    ASSUME NEW b
    PROVE  SoundFor(X64!x64VecDotIQ2("iq2_xs", b), "row", "iq2_xs", 0)
<1>1. Sound(X64!x64VecDotIQ2("iq2_xs", b), Activations.q8_K, 0, 255, 74, 292)
  BY x64IQ2XS_Layout, SoundK
<1>2. BlockBytes["iq2_xs"] = 74 /\ "iq2_xs" \in Rows256
  BY DEF BlockBytes, Rows256
<1> QED BY ONLY <1>1, <1>2, Rows256Sound, Zenon

LEMMA x64IQ2S_Sound ==
    ASSUME NEW b
    PROVE  SoundFor(X64!x64VecDotIQ2("iq2_s", b), "row", "iq2_s", 0)
<1>1. Sound(X64!x64VecDotIQ2("iq2_s", b), Activations.q8_K, 0, 255, 82, 292)
  BY x64IQ2S_Layout, SoundK
<1>2. BlockBytes["iq2_s"] = 82 /\ "iq2_s" \in Rows256
  BY DEF BlockBytes, Rows256
<1> QED BY ONLY <1>1, <1>2, Rows256Sound, Zenon

LEMMA x64IQ1S_Sound ==
    ASSUME NEW b
    PROVE  SoundFor(X64!x64VecDotIQ1(FALSE, b), "row", "iq1_s", 0)
<1>1. Sound(X64!x64VecDotIQ1(FALSE, b), Activations.q8_K, 0, 255, 50, 292)
  BY x64IQ1S_Layout, SoundK
<1>2. BlockBytes["iq1_s"] = 50 /\ "iq1_s" \in Rows256
  BY DEF BlockBytes, Rows256
<1> QED BY ONLY <1>1, <1>2, Rows256Sound, Zenon

LEMMA x64IQ1M_Sound ==
    ASSUME NEW b
    PROVE  SoundFor(X64!x64VecDotIQ1(TRUE, b), "row", "iq1_m", 0)
<1>1. Sound(X64!x64VecDotIQ1(TRUE, b), Activations.q8_K, 0, 255, 56, 292)
  BY x64IQ1M_Layout, SoundK
<1>2. BlockBytes["iq1_m"] = 56 /\ "iq1_m" \in Rows256
  BY DEF BlockBytes, Rows256
<1> QED BY ONLY <1>1, <1>2, Rows256Sound, Zenon

LEMMA x64TQ1_Sound ==
    ASSUME NEW b
    PROVE  SoundFor(X64!x64VecDotTQ1_0Kernel(b), "row", "tq1_0", 0)
<1>1. Sound(X64!x64VecDotTQ1_0Kernel(b), Activations.q8_K, 0, 255, 54, 292)
  BY x64TQ1_Layout, SoundTQ1
<1>2. BlockBytes["tq1_0"] = 54 /\ "tq1_0" \in Rows256
  BY DEF BlockBytes, Rows256
<1> QED BY ONLY <1>1, <1>2, Rows256Sound, Zenon

LEMMA x64TQ2_0_Sound ==
    ASSUME NEW b
    PROVE  SoundFor(X64!x64VecDotTQ2_0Kernel(b), "row", "tq2_0", 0)
<1>1. Sound(X64!x64VecDotTQ2_0Kernel(b), Activations.q8_K, 0, 255, 66, 292)
  BY x64TQ2_0_Layout, SoundK
<1>2. BlockBytes["tq2_0"] = 66 /\ "tq2_0" \in Rows256
  BY DEF BlockBytes, Rows256
<1> QED BY ONLY <1>1, <1>2, Rows256Sound, Zenon

-----------------------------------------------------------------------------
(* The bodies of the exports, and the tile.                                *)

LEMMA a64LookupSound ==
    ASSUME NEW b, arch = "arm64", fmt \in {"iq4_nl", "mxfp4", "q4_1", "q5_1", "iq4_xs"}
    PROVE  SoundFor(LookupBody(b), "row", fmt, 0)
<1>1. CASE fmt = "iq4_nl"
  <2>1. LookupBody(b) = A64!a64VecDotLUT32("iq4_nl", b)
    BY arch = "arm64", <1>1 DEF LookupBody
  <2> QED BY ONLY <1>1, <2>1, a64IQ4NL_Sound, Zenon
<1>2. CASE fmt = "mxfp4"
  <2>1. LookupBody(b) = A64!a64VecDotLUT32("mxfp4", b)
    BY arch = "arm64", <1>2 DEF LookupBody
  <2> QED BY ONLY <1>2, <2>1, a64MXFP4_Sound, Zenon
<1>3. CASE fmt = "q4_1"
  <2>1. (fmt = "q5_1") = FALSE
    BY <1>3
  <2>2. LookupBody(b) = A64!a64VecDotQx1Kernel(fmt = "q5_1", b)
    BY arch = "arm64", <1>3 DEF LookupBody
  <2>3. LookupBody(b) = A64!a64VecDotQx1Kernel(FALSE, b)
    BY ONLY <2>1, <2>2, Zenon
  <2> QED BY ONLY <1>3, <2>3, a64Q4_1_Sound, Zenon
<1>4. CASE fmt = "q5_1"
  <2>1. (fmt = "q5_1") = TRUE
    BY <1>4
  <2>2. LookupBody(b) = A64!a64VecDotQx1Kernel(fmt = "q5_1", b)
    BY arch = "arm64", <1>4 DEF LookupBody
  <2>3. LookupBody(b) = A64!a64VecDotQx1Kernel(TRUE, b)
    BY ONLY <2>1, <2>2, Zenon
  <2> QED BY ONLY <1>4, <2>3, a64Q5_1_Sound, Zenon
<1>5. CASE fmt = "iq4_xs"
  <2>1. LookupBody(b) = A64!a64VecDotIQ4XSKernel(b)
    BY arch = "arm64", <1>5 DEF LookupBody
  <2> QED BY ONLY <1>5, <2>1, a64IQ4XS_Sound, Zenon
<1> QED BY <1>1, <1>2, <1>3, <1>4, <1>5

LEMMA x64LookupSound ==
    ASSUME NEW b, arch = "amd64", fmt \in {"iq4_nl", "mxfp4", "q4_1", "q5_1", "iq4_xs"}
    PROVE  SoundFor(LookupBody(b), "row", fmt, 0)
<1>1. CASE fmt = "iq4_nl"
  <2>1. LookupBody(b) = X64!x64VecDotLUT32("iq4_nl", b)
    BY arch = "amd64", <1>1 DEF LookupBody
  <2> QED BY ONLY <1>1, <2>1, x64IQ4NL_Sound, Zenon
<1>2. CASE fmt = "mxfp4"
  <2>1. LookupBody(b) = X64!x64VecDotLUT32("mxfp4", b)
    BY arch = "amd64", <1>2 DEF LookupBody
  <2> QED BY ONLY <1>2, <2>1, x64MXFP4_Sound, Zenon
<1>3. CASE fmt = "q4_1"
  <2>1. (fmt = "q5_1") = FALSE
    BY <1>3
  <2>2. LookupBody(b) = X64!x64VecDotQx1Kernel(fmt = "q5_1", b)
    BY arch = "amd64", <1>3 DEF LookupBody
  <2>3. LookupBody(b) = X64!x64VecDotQx1Kernel(FALSE, b)
    BY ONLY <2>1, <2>2, Zenon
  <2> QED BY ONLY <1>3, <2>3, x64Q4_1_Sound, Zenon
<1>4. CASE fmt = "q5_1"
  <2>1. (fmt = "q5_1") = TRUE
    BY <1>4
  <2>2. LookupBody(b) = X64!x64VecDotQx1Kernel(fmt = "q5_1", b)
    BY arch = "amd64", <1>4 DEF LookupBody
  <2>3. LookupBody(b) = X64!x64VecDotQx1Kernel(TRUE, b)
    BY ONLY <2>1, <2>2, Zenon
  <2> QED BY ONLY <1>4, <2>3, x64Q5_1_Sound, Zenon
<1>5. CASE fmt = "iq4_xs"
  <2>1. LookupBody(b) = X64!x64VecDotIQ4XSKernel(b)
    BY arch = "amd64", <1>5 DEF LookupBody
  <2> QED BY ONLY <1>5, <2>1, x64IQ4XS_Sound, Zenon
<1> QED BY <1>1, <1>2, <1>3, <1>4, <1>5

LEMMA a64CodebookSound ==
    ASSUME NEW b, arch = "arm64", fmt \in Codebooks \ {"iq4_xs"}
    PROVE  SoundFor(CodebookBody(b), "row", fmt, 0)
<1>1. CASE fmt = "iq3_xxs"
  <2>1. CodebookBody(b) = A64!a64VecDotIQ3XXSKernel(b)
    BY arch = "arm64", <1>1 DEF CodebookBody
  <2> QED BY ONLY <1>1, <2>1, a64IQ3XXS_Sound, Zenon
<1>2. CASE fmt = "iq3_s"
  <2>1. CodebookBody(b) = A64!a64VecDotIQ3SKernel(b)
    BY arch = "arm64", <1>2 DEF CodebookBody
  <2> QED BY ONLY <1>2, <2>1, a64IQ3S_Sound, Zenon
<1>3. CASE fmt = "iq2_xxs"
  <2>1. CodebookBody(b) = A64!a64VecDotIQ2("iq2_xxs", b)
    BY arch = "arm64", <1>3 DEF CodebookBody
  <2> QED BY ONLY <1>3, <2>1, a64IQ2XXS_Sound, Zenon
<1>4. CASE fmt = "iq2_xs"
  <2>1. CodebookBody(b) = A64!a64VecDotIQ2("iq2_xs", b)
    BY arch = "arm64", <1>4 DEF CodebookBody
  <2> QED BY ONLY <1>4, <2>1, a64IQ2XS_Sound, Zenon
<1>5. CASE fmt = "iq2_s"
  <2>1. CodebookBody(b) = A64!a64VecDotIQ2("iq2_s", b)
    BY arch = "arm64", <1>5 DEF CodebookBody
  <2> QED BY ONLY <1>5, <2>1, a64IQ2S_Sound, Zenon
<1>6. CASE fmt = "iq1_s"
  <2>1. CodebookBody(b) = A64!a64VecDotIQ1SKernel(b)
    BY arch = "arm64", <1>6 DEF CodebookBody
  <2> QED BY ONLY <1>6, <2>1, a64IQ1S_Sound, Zenon
<1>7. CASE fmt = "iq1_m"
  <2>1. CodebookBody(b) = A64!a64VecDotIQ1MKernel(b)
    BY arch = "arm64", <1>7 DEF CodebookBody
  <2> QED BY ONLY <1>7, <2>1, a64IQ1M_Sound, Zenon
<1> QED BY <1>1, <1>2, <1>3, <1>4, <1>5, <1>6, <1>7 DEF Codebooks

LEMMA x64CodebookSound ==
    ASSUME NEW b, arch = "amd64", fmt \in Codebooks \ {"iq4_xs"}
    PROVE  SoundFor(CodebookBody(b), "row", fmt, 0)
<1>1. CASE fmt = "iq3_xxs"
  <2>1. (fmt = "iq3_s") = FALSE
    BY <1>1
  <2>2. CodebookBody(b) = X64!x64VecDotIQ3(fmt = "iq3_s", b)
    BY arch = "amd64", <1>1 DEF CodebookBody
  <2>3. CodebookBody(b) = X64!x64VecDotIQ3(FALSE, b)
    BY ONLY <2>1, <2>2, Zenon
  <2> QED BY ONLY <1>1, <2>3, x64IQ3XXS_Sound, Zenon
<1>2. CASE fmt = "iq3_s"
  <2>1. (fmt = "iq3_s") = TRUE
    BY <1>2
  <2>2. CodebookBody(b) = X64!x64VecDotIQ3(fmt = "iq3_s", b)
    BY arch = "amd64", <1>2 DEF CodebookBody
  <2>3. CodebookBody(b) = X64!x64VecDotIQ3(TRUE, b)
    BY ONLY <2>1, <2>2, Zenon
  <2> QED BY ONLY <1>2, <2>3, x64IQ3S_Sound, Zenon
<1>3. CASE fmt = "iq2_xxs"
  <2>1. CodebookBody(b) = X64!x64VecDotIQ2("iq2_xxs", b)
    BY arch = "amd64", <1>3 DEF CodebookBody
  <2> QED BY ONLY <1>3, <2>1, x64IQ2XXS_Sound, Zenon
<1>4. CASE fmt = "iq2_xs"
  <2>1. CodebookBody(b) = X64!x64VecDotIQ2("iq2_xs", b)
    BY arch = "amd64", <1>4 DEF CodebookBody
  <2> QED BY ONLY <1>4, <2>1, x64IQ2XS_Sound, Zenon
<1>5. CASE fmt = "iq2_s"
  <2>1. CodebookBody(b) = X64!x64VecDotIQ2("iq2_s", b)
    BY arch = "amd64", <1>5 DEF CodebookBody
  <2> QED BY ONLY <1>5, <2>1, x64IQ2S_Sound, Zenon
<1>6. CASE fmt = "iq1_s"
  <2>1. (fmt = "iq1_m") = FALSE
    BY <1>6
  <2>2. CodebookBody(b) = X64!x64VecDotIQ1(fmt = "iq1_m", b)
    BY arch = "amd64", <1>6 DEF CodebookBody
  <2>3. CodebookBody(b) = X64!x64VecDotIQ1(FALSE, b)
    BY ONLY <2>1, <2>2, Zenon
  <2> QED BY ONLY <1>6, <2>3, x64IQ1S_Sound, Zenon
<1>7. CASE fmt = "iq1_m"
  <2>1. (fmt = "iq1_m") = TRUE
    BY <1>7
  <2>2. CodebookBody(b) = X64!x64VecDotIQ1(fmt = "iq1_m", b)
    BY arch = "amd64", <1>7 DEF CodebookBody
  <2>3. CodebookBody(b) = X64!x64VecDotIQ1(TRUE, b)
    BY ONLY <2>1, <2>2, Zenon
  <2> QED BY ONLY <1>7, <2>3, x64IQ1M_Sound, Zenon
<1> QED BY <1>1, <1>2, <1>3, <1>4, <1>5, <1>6, <1>7 DEF Codebooks

LEMMA a64TernarySound ==
    ASSUME NEW b, arch = "arm64", fmt \in Ternary \cup Packed
    PROVE  SoundFor(TernaryBody(b), "row", fmt, 0)
<1>1. CASE fmt = "tq1_0"
  <2>1. TernaryBody(b) = A64!a64VecDotTQ1_0Kernel(b)
    BY arch = "arm64", <1>1 DEF TernaryBody
  <2> QED BY ONLY <1>1, <2>1, a64TQ1_Sound, Zenon
<1>2. CASE fmt = "tq2_0"
  <2>1. TernaryBody(b) = A64!a64VecDotTQ2_0Kernel(b)
    BY arch = "arm64", <1>2 DEF TernaryBody
  <2> QED BY ONLY <1>2, <2>1, a64TQ2_0_Sound, Zenon
<1>3. CASE fmt = "q1_0"
  <2>1. TernaryBody(b) = A64!a64VecDotQ1_0Kernel(b)
    BY arch = "arm64", <1>3 DEF TernaryBody
  <2> QED BY ONLY <1>3, <2>1, a64Q1_0_Sound, Zenon
<1>4. CASE fmt = "q2_0"
  <2>1. TernaryBody(b) = A64!a64VecDotQ2_0Kernel(b)
    BY arch = "arm64", <1>4 DEF TernaryBody
  <2> QED BY ONLY <1>4, <2>1, a64Q2_0_Sound, Zenon
<1>5. CASE fmt = "nvfp4"
  <2>1. TernaryBody(b) = A64!a64VecDotNVFP4Kernel(b)
    BY arch = "arm64", <1>5 DEF TernaryBody
  <2> QED BY ONLY <1>5, <2>1, a64NVFP4_Sound, Zenon
<1> QED BY <1>1, <1>2, <1>3, <1>4, <1>5 DEF Ternary, Packed

LEMMA x64TernarySound ==
    ASSUME NEW b, arch = "amd64", fmt \in Ternary \cup Packed
    PROVE  SoundFor(TernaryBody(b), "row", fmt, 0)
<1>1. CASE fmt = "tq1_0"
  <2>1. TernaryBody(b) = X64!x64VecDotTQ1_0Kernel(b)
    BY arch = "amd64", <1>1 DEF TernaryBody
  <2> QED BY ONLY <1>1, <2>1, x64TQ1_Sound, Zenon
<1>2. CASE fmt = "tq2_0"
  <2>1. TernaryBody(b) = X64!x64VecDotTQ2_0Kernel(b)
    BY arch = "amd64", <1>2 DEF TernaryBody
  <2> QED BY ONLY <1>2, <2>1, x64TQ2_0_Sound, Zenon
<1>3. CASE fmt = "q1_0"
  <2>1. TernaryBody(b) = X64!x64VecDotQ1_0Kernel(b)
    BY arch = "amd64", <1>3 DEF TernaryBody
  <2> QED BY ONLY <1>3, <2>1, x64Q1_0_Sound, Zenon
<1>4. CASE fmt = "q2_0"
  <2>1. TernaryBody(b) = X64!x64VecDotQ2_0Kernel(b)
    BY arch = "amd64", <1>4 DEF TernaryBody
  <2> QED BY ONLY <1>4, <2>1, x64Q2_0_Sound, Zenon
<1>5. CASE fmt = "nvfp4"
  <2>1. TernaryBody(b) = X64!x64VecDotNVFP4Kernel(b)
    BY arch = "amd64", <1>5 DEF TernaryBody
  <2> QED BY ONLY <1>5, <2>1, x64NVFP4_Sound, Zenon
<1> QED BY <1>1, <1>2, <1>3, <1>4, <1>5 DEF Ternary, Packed

LEMMA a64LegacyAndKSound ==
    ASSUME NEW b, arch = "arm64", fmt \in {"q4_0", "q8_0", "q5_0"} \cup KFormats
    PROVE  SoundFor(LegacyAndKBody(b), "row", fmt, 0)
<1>1. CASE fmt = "q4_0"
  <2>1. LegacyAndKBody(b) = A64!a64VecDotLegacy("q4_0", b)
    BY arch = "arm64", <1>1 DEF LegacyAndKBody
  <2> QED BY ONLY <1>1, <2>1, a64Q4_0_Sound, Zenon
<1>2. CASE fmt = "q8_0"
  <2>1. LegacyAndKBody(b) = A64!a64VecDotLegacy("q8_0", b)
    BY arch = "arm64", <1>2 DEF LegacyAndKBody
  <2> QED BY ONLY <1>2, <2>1, a64Q8_0_Sound, Zenon
<1>3. CASE fmt = "q5_0"
  <2>1. LegacyAndKBody(b) = A64!a64VecDotQ5_0Kernel(b)
    BY arch = "arm64", <1>3 DEF LegacyAndKBody
  <2> QED BY ONLY <1>3, <2>1, a64Q5_0_Sound, Zenon
<1>4. CASE fmt = "q2_K"
  <2>1. LegacyAndKBody(b) = A64!a64VecDotQ2_KKernel(b)
    BY arch = "arm64", <1>4 DEF LegacyAndKBody
  <2> QED BY ONLY <1>4, <2>1, a64Q2_K_Sound, Zenon
<1>5. CASE fmt = "q3_K"
  <2>1. LegacyAndKBody(b) = A64!a64VecDotQ3_KKernel(b)
    BY arch = "arm64", <1>5 DEF LegacyAndKBody
  <2> QED BY ONLY <1>5, <2>1, a64Q3_K_Sound, Zenon
<1>6. CASE fmt = "q4_K"
  <2>1. LegacyAndKBody(b) = A64!a64VecDotQ4_KKernel(b)
    BY arch = "arm64", <1>6 DEF LegacyAndKBody
  <2> QED BY ONLY <1>6, <2>1, a64Q4_K_Sound, Zenon
<1>7. CASE fmt = "q5_K"
  <2>1. LegacyAndKBody(b) = A64!a64VecDotQ5_KKernel(b)
    BY arch = "arm64", <1>7 DEF LegacyAndKBody
  <2> QED BY ONLY <1>7, <2>1, a64Q5_K_Sound, Zenon
<1>8. CASE fmt = "q6_K"
  <2>1. LegacyAndKBody(b) = A64!a64VecDotQ6_KKernel(b)
    BY arch = "arm64", <1>8 DEF LegacyAndKBody
  <2> QED BY ONLY <1>8, <2>1, a64Q6_K_Sound, Zenon
<1> QED BY <1>1, <1>2, <1>3, <1>4, <1>5, <1>6, <1>7, <1>8 DEF KFormats

LEMMA x64LegacyAndKSound ==
    ASSUME NEW b, arch = "amd64", fmt \in {"q4_0", "q8_0", "q5_0"} \cup KFormats
    PROVE  SoundFor(LegacyAndKBody(b), "row", fmt, 0)
<1>1. CASE fmt = "q4_0"
  <2>1. LegacyAndKBody(b) = X64!x64VecDotLegacy("q4_0", b)
    BY arch = "amd64", <1>1 DEF LegacyAndKBody
  <2> QED BY ONLY <1>1, <2>1, x64Q4_0_Sound, Zenon
<1>2. CASE fmt = "q8_0"
  <2>1. LegacyAndKBody(b) = X64!x64VecDotLegacy("q8_0", b)
    BY arch = "amd64", <1>2 DEF LegacyAndKBody
  <2> QED BY ONLY <1>2, <2>1, x64Q8_0_Sound, Zenon
<1>3. CASE fmt = "q5_0"
  <2>1. LegacyAndKBody(b) = X64!x64VecDotQ5_0Kernel(b)
    BY arch = "amd64", <1>3 DEF LegacyAndKBody
  <2> QED BY ONLY <1>3, <2>1, x64Q5_0_Sound, Zenon
<1>4. CASE fmt = "q2_K"
  <2>1. LegacyAndKBody(b) = X64!x64VecDotQ2_KKernel(b)
    BY arch = "amd64", <1>4 DEF LegacyAndKBody
  <2> QED BY ONLY <1>4, <2>1, x64Q2_K_Sound, Zenon
<1>5. CASE fmt = "q3_K"
  <2>1. LegacyAndKBody(b) = X64!x64VecDotQ3_KKernel(b)
    BY arch = "amd64", <1>5 DEF LegacyAndKBody
  <2> QED BY ONLY <1>5, <2>1, x64Q3_K_Sound, Zenon
<1>6. CASE fmt = "q4_K"
  <2>1. LegacyAndKBody(b) = X64!x64VecDotQ4_KKernel(b)
    BY arch = "amd64", <1>6 DEF LegacyAndKBody
  <2> QED BY ONLY <1>6, <2>1, x64Q4_K_Sound, Zenon
<1>7. CASE fmt = "q5_K"
  <2>1. LegacyAndKBody(b) = X64!x64VecDotQ5_KKernel(b)
    BY arch = "amd64", <1>7 DEF LegacyAndKBody
  <2> QED BY ONLY <1>7, <2>1, x64Q5_K_Sound, Zenon
<1>8. CASE fmt = "q6_K"
  <2>1. LegacyAndKBody(b) = X64!x64VecDotQ6_KKernel(b)
    BY arch = "amd64", <1>8 DEF LegacyAndKBody
  <2> QED BY ONLY <1>8, <2>1, x64Q6_K_Sound, Zenon
<1> QED BY <1>1, <1>2, <1>3, <1>4, <1>5, <1>6, <1>7, <1>8 DEF KFormats

(* A tile's lanes, which are the row dots of the rows in the tile.         *)
LEMMA TileShape ==
    ASSUME NEW f, NEW fm, SoundFor(f, "row", fm, 0)
    PROVE  SoundFor(f, "tile", fm, 0)
<1>1. ActFor("tile", fm) = ActFor("row", fm)
  BY DEF ActFor
<1>2. XBytesFor("tile", fm) = XBytesFor("row", fm)
  BY DEF XBytesFor, Nests
<1>3. YBytesFor("tile", fm) = YBytesFor("row", fm)
  BY <1>1 DEF YBytesFor
<1> QED BY <1>1, <1>2, <1>3, Zenon DEF SoundFor

LEMMA TileLanes ==
    ASSUME NEW x, NEW t \in 0 .. 3, arch = "arm64", fmt \in Tiled, OfBytes(x[t % 2]) \/ fmt # "q6_K"
    PROVE  /\ DOMAIN TileBody(x) = 0 .. 3
           /\ TileBody(x)[t].xrow = t % 2
           /\ TileBody(x)[t].yrow = t \div 2
           /\ TileBody(x)[t].form = SingleBody(x[t % 2])
           /\ SoundFor(TileBody(x)[t].form, "tile", fmt, 0)
<1> DEFINE b == x[t % 2]

<1>1. CASE fmt = "q4_K"
  <2>1. TileBody(x) = A64!a64VecDotQ4_KTile(x)
    BY ONLY <1>1 DEF TileBody
  <2>2. SingleBody(b) = A64!a64VecDotQ4_KKernel(b)
    <3>1. SingleBody(b) = LegacyAndKBody(b)
      BY ONLY <1>1 DEF SingleBody, Codebooks, Ternary, Packed, KFormats
    <3>2. LegacyAndKBody(b) = A64!a64VecDotQ4_KKernel(b)
      BY ONLY <1>1, arch = "arm64" DEF LegacyAndKBody
    <3> QED BY ONLY <3>1, <3>2, Zenon
  <2>4. /\ DOMAIN A64!a64VecDotQ4_KTile(x) = 0 .. 3
        /\ A64!a64VecDotQ4_KTile(x)[t].xrow = t % 2
        /\ A64!a64VecDotQ4_KTile(x)[t].yrow = t \div 2
        /\ A64!a64VecDotQ4_KTile(x)[t].form = A64!a64VecDotQ4_KKernel(b)
    BY ONLY Q4KTile, t \in 0 .. 3, Zenon
  <2>5. SoundFor(A64!a64VecDotQ4_KKernel(b), "tile", fmt, 0)
    BY ONLY <1>1, a64Q4_K_Sound, TileShape, Zenon
  <2> HIDE DEF b
  <2> QED BY ONLY <2>1, <2>2, <2>4, <2>5, Zenon DEF b
<1>2. CASE fmt = "q5_K"
  <2>1. TileBody(x) = A64!a64VecDotQ5_KTile(x)
    BY ONLY <1>2 DEF TileBody
  <2>2. SingleBody(b) = A64!a64VecDotQ5_KKernel(b)
    <3>1. SingleBody(b) = LegacyAndKBody(b)
      BY ONLY <1>2 DEF SingleBody, Codebooks, Ternary, Packed, KFormats
    <3>2. LegacyAndKBody(b) = A64!a64VecDotQ5_KKernel(b)
      BY ONLY <1>2, arch = "arm64" DEF LegacyAndKBody
    <3> QED BY ONLY <3>1, <3>2, Zenon
  <2>4. /\ DOMAIN A64!a64VecDotQ5_KTile(x) = 0 .. 3
        /\ A64!a64VecDotQ5_KTile(x)[t].xrow = t % 2
        /\ A64!a64VecDotQ5_KTile(x)[t].yrow = t \div 2
        /\ A64!a64VecDotQ5_KTile(x)[t].form = A64!a64VecDotQ5_KKernel(b)
    BY ONLY Q5KTile, t \in 0 .. 3, Zenon
  <2>5. SoundFor(A64!a64VecDotQ5_KKernel(b), "tile", fmt, 0)
    BY ONLY <1>2, a64Q5_K_Sound, TileShape, Zenon
  <2> HIDE DEF b
  <2> QED BY ONLY <2>1, <2>2, <2>4, <2>5, Zenon DEF b
<1>3. CASE fmt = "q6_K"
  <2>1. TileBody(x) = A64!a64VecDotQ6_KTile(x)
    BY ONLY <1>3 DEF TileBody
  <2>2. SingleBody(b) = A64!a64VecDotQ6_KKernel(b)
    <3>1. SingleBody(b) = LegacyAndKBody(b)
      BY ONLY <1>3 DEF SingleBody, Codebooks, Ternary, Packed, KFormats
    <3>2. LegacyAndKBody(b) = A64!a64VecDotQ6_KKernel(b)
      BY ONLY <1>3, arch = "arm64" DEF LegacyAndKBody
    <3> QED BY ONLY <3>1, <3>2, Zenon
  <2>3. OfBytes(b)
    BY <1>3
  <2>4. /\ DOMAIN A64!a64VecDotQ6_KTile(x) = 0 .. 3
        /\ A64!a64VecDotQ6_KTile(x)[t].xrow = t % 2
        /\ A64!a64VecDotQ6_KTile(x)[t].yrow = t \div 2
        /\ A64!a64VecDotQ6_KTile(x)[t].form = A64!a64VecDotQ6_KKernel(b)
    BY ONLY <2>3, Q6KTile, t \in 0 .. 3, Zenon
  <2>5. SoundFor(A64!a64VecDotQ6_KKernel(b), "tile", fmt, 0)
    BY ONLY <1>3, a64Q6_K_Sound, TileShape, Zenon
  <2> HIDE DEF b
  <2> QED BY ONLY <2>1, <2>2, <2>4, <2>5, Zenon DEF b
<1> QED BY ONLY fmt \in Tiled, <1>1, <1>2, <1>3 DEF Tiled

-----------------------------------------------------------------------------
(* The repacked products.                                                  *)
LEMMA GemvShape ==
    ASSUME NEW f, NEW fm, NEW a, NEW top, NEW yBytes,
           Sound(f, a, 0, top, PackedBytes[fm], yBytes),
           ActFor("gemv", fm) = a, QuantsOf(fm) - 1 = top, YBytesFor("gemv", fm) = yBytes
    PROVE  SoundFor(f, "gemv", fm, 0)
<1>1. XBytesFor("gemv", fm) = PackedBytes[fm]
  BY DEF XBytesFor, Nests
<1> QED BY <1>1 DEF SoundFor

LEMMA GemmShape ==
    ASSUME NEW f, NEW fm, NEW a, NEW r, NEW top, NEW yBytes,
           Sound(f, a, r, top, PackedBytes[fm], yBytes),
           ActFor("gemm", fm) = a, QuantsOf(fm) - 1 = top, YBytesFor("gemm", fm) = yBytes
    PROVE  SoundFor(f, "gemm", fm, r)
<1>1. XBytesFor("gemm", fm) = PackedBytes[fm]
  BY DEF XBytesFor, Nests
<1> QED BY <1>1 DEF SoundFor

LEMMA GemmShapes ==
    /\ \A fm \in {"q4_K", "q5_K", "q6_K"} :
          /\ ActFor("gemm", fm) = Activations.q8_Kx4
          /\ QuantsOf(fm) - 1 = 255 /\ YBytesFor("gemm", fm) = 1168
    /\ \A fm \in {"q5_0", "q4_0", "iq4_nl", "mxfp4"} :
          /\ ActFor("gemm", fm) = Activations.q8_0x4by8
          /\ QuantsOf(fm) - 1 = 31 /\ YBytesFor("gemm", fm) = 136
    /\ ActFor("gemm", "q8_0") = Activations.q8_0x4by4
    /\ QuantsOf("q8_0") - 1 = 31 /\ YBytesFor("gemm", "q8_0") = 136
<1>1. ASSUME NEW fm \in {"q4_K", "q5_K", "q6_K"}
      PROVE  /\ ActFor("gemm", fm) = Activations.q8_Kx4
             /\ QuantsOf(fm) - 1 = 255 /\ YBytesFor("gemm", fm) = 1168
  <2>1. ActFor("gemm", fm) = Activations.q8_Kx4
    BY DEF ActFor, KFormats
  <2>2. QuantsOf(fm) = 256
    BY DEF QuantsOf, Legacy
  <2> QED BY <2>1, <2>2, Acts DEF YBytesFor
<1>2. ASSUME NEW fm \in {"q5_0", "q4_0", "iq4_nl", "mxfp4"}
      PROVE  /\ ActFor("gemm", fm) = Activations.q8_0x4by8
             /\ QuantsOf(fm) - 1 = 31 /\ YBytesFor("gemm", fm) = 136
  <2>1. ActFor("gemm", fm) = Activations.q8_0x4by8
    BY DEF ActFor, KFormats
  <2>2. QuantsOf(fm) = 32
    BY DEF QuantsOf, Legacy
  <2> QED BY <2>1, <2>2, Acts DEF YBytesFor
<1>3. /\ ActFor("gemm", "q8_0") = Activations.q8_0x4by4
      /\ QuantsOf("q8_0") - 1 = 31 /\ YBytesFor("gemm", "q8_0") = 136
  <2>1. ActFor("gemm", "q8_0") = Activations.q8_0x4by4
    BY DEF ActFor, KFormats
  <2>2. QuantsOf("q8_0") = 32
    BY DEF QuantsOf, Legacy
  <2> QED BY <2>1, <2>2, Acts DEF YBytesFor
<1> QED BY <1>1, <1>2, <1>3

LEMMA PackedExtents ==
    PackedBytes["q6_K"] = 1680 /\ PackedBytes["q8_0"] = 136
BY DEF PackedBytes

LEMMA a64GemvSound ==
    ASSUME NEW feature, NEW b, NEW c \in 0 .. Columns(fmt) - 1, arch = "arm64", fmt \in Repacked
    PROVE  SoundFor(GemvBody(feature, b, c), "gemv", fmt, 0)
<1>1. CASE fmt \in {"q4_K", "q5_K"}
  <2>1. GemvBody(feature, b, c) = PA64!a64GemvKx8Kernel(PA64!kx8Layout(fmt), b, c)
    BY arch = "arm64", <1>1 DEF GemvBody
  <2>2. c \in 0 .. 7
    BY <1>1 DEF Columns
  <2>3. Runs(PA64!a64GemvKx8Kernel(PA64!kx8Layout(fmt), b, c).dots, 4, 8, 31, 7, 0) /\ Within(PA64!a64GemvKx8Kernel(PA64!kx8Layout(fmt), b, c), PackedBytes[fmt], 292)
    BY ONLY <1>1, <2>2, a64GemvKx8_Layout
  <2>4. Sound(PA64!a64GemvKx8Kernel(PA64!kx8Layout(fmt), b, c), Activations.q8_K, 0, 255, PackedBytes[fmt], 292)
    BY ONLY <2>3, SoundK
  <2>5. ActFor("gemv", fmt) = Activations.q8_K /\ QuantsOf(fmt) - 1 = 255 /\ YBytesFor("gemv", fmt) = 292
    BY <1>1, Rows256Shape DEF Rows256
  <2> QED BY ONLY <2>1, <2>4, <2>5, GemvShape
<1>2. CASE fmt = "q6_K"
  <2>1. GemvBody(feature, b, c) = PA64!a64GemvQ6K8x8Kernel(b, c)
    BY arch = "arm64", <1>2 DEF GemvBody
  <2>2. c \in 0 .. 7
    BY <1>2 DEF Columns
  <2>3. Runs(PA64!a64GemvQ6K8x8Kernel(b, c).dots, 4, 8, 31, 7, 0) /\ Within(PA64!a64GemvQ6K8x8Kernel(b, c), PackedBytes[fmt], 292)
    BY <1>2, <2>2, a64GemvQ6_Layout, PackedExtents
  <2>4. Sound(PA64!a64GemvQ6K8x8Kernel(b, c), Activations.q8_K, 0, 255, PackedBytes[fmt], 292)
    BY ONLY <2>3, SoundK
  <2>5. ActFor("gemv", fmt) = Activations.q8_K /\ QuantsOf(fmt) - 1 = 255 /\ YBytesFor("gemv", fmt) = 292
    BY <1>2, Rows256Shape DEF Rows256
  <2> QED BY ONLY <2>1, <2>4, <2>5, GemvShape
<1>3. CASE fmt = "q8_0"
  <2>1. GemvBody(feature, b, c) = PA64!a64RepackGemvKernel(b, c)
    BY arch = "arm64", <1>3 DEF GemvBody
  <2>3. Runs(PA64!a64RepackGemvKernel(b, c).dots, 2, 4, 7, 3, 0) /\ Within(PA64!a64RepackGemvKernel(b, c), PackedBytes[fmt], 34)
    BY <1>3, a64RepackGemv_Layout, PackedExtents
  <2>4. Sound(PA64!a64RepackGemvKernel(b, c), Activations.q8_0, 0, 31, PackedBytes[fmt], 34)
    BY ONLY <2>3, Sound0
  <2>5. ActFor("gemv", fmt) = Activations.q8_0 /\ QuantsOf(fmt) - 1 = 31 /\ YBytesFor("gemv", fmt) = 34
    BY <1>3, Rows32Shape DEF Rows32
  <2> QED BY ONLY <2>1, <2>4, <2>5, GemvShape
<1>4. CASE fmt \in {"q5_0", "q4_0", "iq4_nl", "mxfp4"}
  <2>1. GemvBody(feature, b, c) = PA64!a64GemvX8Kernel(PA64!x8Layout(fmt), b, c)
    BY arch = "arm64", <1>4 DEF GemvBody
  <2>2. c \in 0 .. 7
    BY <1>4 DEF Columns
  <2>3. Runs(PA64!a64GemvX8Kernel(PA64!x8Layout(fmt), b, c).dots, 2, 8, 3, 7, 0) /\ Within(PA64!a64GemvX8Kernel(PA64!x8Layout(fmt), b, c), PackedBytes[fmt], 34)
    BY ONLY <1>4, <2>2, a64GemvX8_Layout
  <2>4. Sound(PA64!a64GemvX8Kernel(PA64!x8Layout(fmt), b, c), Activations.q8_0, 0, 31, PackedBytes[fmt], 34)
    BY ONLY <2>3, Sound0
  <2>5. ActFor("gemv", fmt) = Activations.q8_0 /\ QuantsOf(fmt) - 1 = 31 /\ YBytesFor("gemv", fmt) = 34
    BY <1>4, Rows32Shape DEF Rows32
  <2> QED BY ONLY <2>1, <2>4, <2>5, GemvShape
<1> QED BY <1>1, <1>2, <1>3, <1>4 DEF Repacked

LEMMA a64GemmSound ==
    ASSUME NEW feature, NEW b, NEW c \in 0 .. Columns(fmt) - 1, NEW r \in 0 .. 3, arch = "arm64", fmt \in Repacked
    PROVE  SoundFor(GemmBody(feature, b, c, r), "gemm", fmt, r)
<1>1. CASE fmt \in {"q4_K", "q5_K"}
  <2>1. GemmBody(feature, b, c, r) = PA64!a64GemmKx8Kernel(PA64!kx8Layout(fmt), b, c, r)
    BY arch = "arm64", <1>1 DEF GemmBody
  <2>2. c \in 0 .. 7
    BY <1>1 DEF Columns
  <2>3. Runs(PA64!a64GemmKx8Kernel(PA64!kx8Layout(fmt), b, c, r).dots, 16 + 8 * r, 32, 31, 7, 4 * r) /\ Within(PA64!a64GemmKx8Kernel(PA64!kx8Layout(fmt), b, c, r), PackedBytes[fmt], 1168)
    BY ONLY <1>1, <2>2, r \in 0 .. 3, a64GemmKx8_Layout
  <2>4. Sound(PA64!a64GemmKx8Kernel(PA64!kx8Layout(fmt), b, c, r), Activations.q8_Kx4, r, 255, PackedBytes[fmt], 1168)
    BY ONLY <2>3, r \in 0 .. 3, SoundKx4
  <2>5. ActFor("gemm", fmt) = Activations.q8_Kx4 /\ QuantsOf(fmt) - 1 = 255 /\ YBytesFor("gemm", fmt) = 1168
    BY <1>1, GemmShapes
  <2> QED BY ONLY <2>1, <2>4, <2>5, GemmShape
<1>2. CASE fmt = "q6_K"
  <2>1. GemmBody(feature, b, c, r) = PA64!a64GemmQ6K8x8Kernel(b, c, r)
    BY arch = "arm64", <1>2 DEF GemmBody
  <2>2. c \in 0 .. 7
    BY <1>2 DEF Columns
  <2>3. Runs(PA64!a64GemmQ6K8x8Kernel(b, c, r).dots, 16 + 8 * r, 32, 31, 7, 4 * r) /\ Within(PA64!a64GemmQ6K8x8Kernel(b, c, r), PackedBytes[fmt], 1168)
    BY <1>2, <2>2, a64GemmQ6_Layout, PackedExtents
  <2>4. Sound(PA64!a64GemmQ6K8x8Kernel(b, c, r), Activations.q8_Kx4, r, 255, PackedBytes[fmt], 1168)
    BY ONLY <2>3, r \in 0 .. 3, SoundKx4
  <2>5. ActFor("gemm", fmt) = Activations.q8_Kx4 /\ QuantsOf(fmt) - 1 = 255 /\ YBytesFor("gemm", fmt) = 1168
    BY <1>2, GemmShapes
  <2> QED BY ONLY <2>1, <2>4, <2>5, GemmShape
<1>3. CASE fmt = "q8_0"
  <2>1. GemmBody(feature, b, c, r) = PA64!a64RepackGemmKernel(feature, b, c, r)
    BY arch = "arm64", <1>3 DEF GemmBody
  <2>3. Runs(PA64!a64RepackGemmKernel(feature, b, c, r).dots, 8 + 4 * r, 16, 7, 3, 2 * r) /\ Within(PA64!a64RepackGemmKernel(feature, b, c, r), PackedBytes[fmt], 136)
    BY <1>3, a64RepackGemm_Layout, PackedExtents
  <2>4. Sound(PA64!a64RepackGemmKernel(feature, b, c, r), Activations.q8_0x4by4, r, 31, PackedBytes[fmt], 136)
    BY ONLY <2>3, r \in 0 .. 3, Sound0x4by4
  <2>5. ActFor("gemm", fmt) = Activations.q8_0x4by4 /\ QuantsOf(fmt) - 1 = 31 /\ YBytesFor("gemm", fmt) = 136
    BY <1>3, GemmShapes
  <2> QED BY ONLY <2>1, <2>4, <2>5, GemmShape
<1>4. CASE fmt \in {"q5_0", "q4_0", "iq4_nl", "mxfp4"}
  <2>1. GemmBody(feature, b, c, r) = PA64!a64GemmX8Kernel(PA64!x8Layout(fmt), b, c, r)
    BY arch = "arm64", <1>4 DEF GemmBody
  <2>2. c \in 0 .. 7
    BY <1>4 DEF Columns
  <2>3. Runs(PA64!a64GemmX8Kernel(PA64!x8Layout(fmt), b, c, r).dots, 8 + 8 * r, 32, 3, 7, 2 * r) /\ Within(PA64!a64GemmX8Kernel(PA64!x8Layout(fmt), b, c, r), PackedBytes[fmt], 136)
    BY ONLY <1>4, <2>2, r \in 0 .. 3, a64GemmX8_Layout, SMTT(30)
  <2>4. Sound(PA64!a64GemmX8Kernel(PA64!x8Layout(fmt), b, c, r), Activations.q8_0x4by8, r, 31, PackedBytes[fmt], 136)
    BY ONLY <2>3, r \in 0 .. 3, Sound0x4by8
  <2>5. ActFor("gemm", fmt) = Activations.q8_0x4by8 /\ QuantsOf(fmt) - 1 = 31 /\ YBytesFor("gemm", fmt) = 136
    BY <1>4, GemmShapes
  <2> QED BY ONLY <2>1, <2>4, <2>5, GemmShape
<1> QED BY <1>1, <1>2, <1>3, <1>4 DEF Repacked

LEMMA x64GemvSound ==
    ASSUME NEW feature, NEW b, NEW c \in 0 .. Columns(fmt) - 1, arch = "amd64", fmt \in Repacked
    PROVE  SoundFor(GemvBody(feature, b, c), "gemv", fmt, 0)
<1>1. CASE fmt \in {"q4_K", "q5_K"}
  <2>1. GemvBody(feature, b, c) = PX64!x64Kx8Body(PX64!kx8Layout(fmt), b, c)
    BY arch = "amd64", <1>1 DEF GemvBody
  <2>2. c \in 0 .. 7
    BY <1>1 DEF Columns
  <2>3. Runs(PX64!x64Kx8Body(PX64!kx8Layout(fmt), b, c).dots, 4, 8, 31, 7, 0) /\ Within(PX64!x64Kx8Body(PX64!kx8Layout(fmt), b, c), PackedBytes[fmt], 292)
    BY ONLY <1>1, <2>2, x64GemvKx8_Layout
  <2>4. Sound(PX64!x64Kx8Body(PX64!kx8Layout(fmt), b, c), Activations.q8_K, 0, 255, PackedBytes[fmt], 292)
    BY ONLY <2>3, SoundK
  <2>5. ActFor("gemv", fmt) = Activations.q8_K /\ QuantsOf(fmt) - 1 = 255 /\ YBytesFor("gemv", fmt) = 292
    BY <1>1, Rows256Shape DEF Rows256
  <2> QED BY ONLY <2>1, <2>4, <2>5, GemvShape
<1>2. CASE fmt = "q6_K"
  <2>1. GemvBody(feature, b, c) = PX64!x64Q6K8x8Body(b, c)
    BY arch = "amd64", <1>2 DEF GemvBody
  <2>2. c \in 0 .. 7
    BY <1>2 DEF Columns
  <2>3. Runs(PX64!x64Q6K8x8Body(b, c).dots, 4, 8, 31, 7, 0) /\ Within(PX64!x64Q6K8x8Body(b, c), PackedBytes[fmt], 292)
    BY <1>2, <2>2, x64GemvQ6_Layout, PackedExtents
  <2>4. Sound(PX64!x64Q6K8x8Body(b, c), Activations.q8_K, 0, 255, PackedBytes[fmt], 292)
    BY ONLY <2>3, SoundK
  <2>5. ActFor("gemv", fmt) = Activations.q8_K /\ QuantsOf(fmt) - 1 = 255 /\ YBytesFor("gemv", fmt) = 292
    BY <1>2, Rows256Shape DEF Rows256
  <2> QED BY ONLY <2>1, <2>4, <2>5, GemvShape
<1>3. CASE fmt = "q8_0"
  <2>1. GemvBody(feature, b, c) = PX64!x64RepackGemvKernel(feature, b, c)
    BY arch = "amd64", <1>3 DEF GemvBody
  <2>3. Runs(PX64!x64RepackGemvKernel(feature, b, c).dots, 2, 4, 7, 3, 0) /\ Within(PX64!x64RepackGemvKernel(feature, b, c), PackedBytes[fmt], 34)
    BY <1>3, x64RepackGemv_Layout, PackedExtents
  <2>4. Sound(PX64!x64RepackGemvKernel(feature, b, c), Activations.q8_0, 0, 31, PackedBytes[fmt], 34)
    BY ONLY <2>3, Sound0
  <2>5. ActFor("gemv", fmt) = Activations.q8_0 /\ QuantsOf(fmt) - 1 = 31 /\ YBytesFor("gemv", fmt) = 34
    BY <1>3, Rows32Shape DEF Rows32
  <2> QED BY ONLY <2>1, <2>4, <2>5, GemvShape
<1>4. CASE fmt \in {"q5_0", "q4_0", "iq4_nl", "mxfp4"}
  <2>1. GemvBody(feature, b, c) = PX64!x64GemvX8Kernel(PX64!x8Layout(fmt), b, c)
    BY arch = "amd64", <1>4 DEF GemvBody
  <2>2. c \in 0 .. 7
    BY <1>4 DEF Columns
  <2>3. Runs(PX64!x64GemvX8Kernel(PX64!x8Layout(fmt), b, c).dots, 2, 8, 3, 7, 0) /\ Within(PX64!x64GemvX8Kernel(PX64!x8Layout(fmt), b, c), PackedBytes[fmt], 34)
    BY ONLY <1>4, <2>2, x64GemvX8_Layout
  <2>4. Sound(PX64!x64GemvX8Kernel(PX64!x8Layout(fmt), b, c), Activations.q8_0, 0, 31, PackedBytes[fmt], 34)
    BY ONLY <2>3, Sound0
  <2>5. ActFor("gemv", fmt) = Activations.q8_0 /\ QuantsOf(fmt) - 1 = 31 /\ YBytesFor("gemv", fmt) = 34
    BY <1>4, Rows32Shape DEF Rows32
  <2> QED BY ONLY <2>1, <2>4, <2>5, GemvShape
<1> QED BY <1>1, <1>2, <1>3, <1>4 DEF Repacked

LEMMA x64GemmSound ==
    ASSUME NEW feature, NEW b, NEW c \in 0 .. Columns(fmt) - 1, NEW r \in 0 .. 3, arch = "amd64", fmt \in Repacked
    PROVE  SoundFor(GemmBody(feature, b, c, r), "gemm", fmt, r)
<1>1. CASE fmt \in {"q4_K", "q5_K"}
  <2>1. GemmBody(feature, b, c, r) = PX64!x64Kx8GemmTile(PX64!kx8Layout(fmt), b, c, r)
    BY arch = "amd64", <1>1 DEF GemmBody
  <2>2. c \in 0 .. 7
    BY <1>1 DEF Columns
  <2>3. Runs(PX64!x64Kx8GemmTile(PX64!kx8Layout(fmt), b, c, r).dots, 16 + 8 * r, 32, 31, 7, 4 * r) /\ Within(PX64!x64Kx8GemmTile(PX64!kx8Layout(fmt), b, c, r), PackedBytes[fmt], 1168)
    BY ONLY <1>1, <2>2, r \in 0 .. 3, x64GemmKx8_Layout
  <2>4. Sound(PX64!x64Kx8GemmTile(PX64!kx8Layout(fmt), b, c, r), Activations.q8_Kx4, r, 255, PackedBytes[fmt], 1168)
    BY ONLY <2>3, r \in 0 .. 3, SoundKx4
  <2>5. ActFor("gemm", fmt) = Activations.q8_Kx4 /\ QuantsOf(fmt) - 1 = 255 /\ YBytesFor("gemm", fmt) = 1168
    BY <1>1, GemmShapes
  <2> QED BY ONLY <2>1, <2>4, <2>5, GemmShape
<1>2. CASE fmt = "q6_K"
  <2>1. GemmBody(feature, b, c, r) = PX64!x64Q6KGemmTile(b, c, r)
    BY arch = "amd64", <1>2 DEF GemmBody
  <2>2. c \in 0 .. 7
    BY <1>2 DEF Columns
  <2>3. Runs(PX64!x64Q6KGemmTile(b, c, r).dots, 16 + 8 * r, 32, 31, 7, 4 * r) /\ Within(PX64!x64Q6KGemmTile(b, c, r), PackedBytes[fmt], 1168)
    BY <1>2, <2>2, x64GemmQ6_Layout, PackedExtents
  <2>4. Sound(PX64!x64Q6KGemmTile(b, c, r), Activations.q8_Kx4, r, 255, PackedBytes[fmt], 1168)
    BY ONLY <2>3, r \in 0 .. 3, SoundKx4
  <2>5. ActFor("gemm", fmt) = Activations.q8_Kx4 /\ QuantsOf(fmt) - 1 = 255 /\ YBytesFor("gemm", fmt) = 1168
    BY <1>2, GemmShapes
  <2> QED BY ONLY <2>1, <2>4, <2>5, GemmShape
<1>3. CASE fmt = "q8_0"
  <2>1. GemmBody(feature, b, c, r) = PX64!x64RepackGemmKernel(feature, b, c, r)
    BY arch = "amd64", <1>3 DEF GemmBody
  <2>3. Runs(PX64!x64RepackGemmKernel(feature, b, c, r).dots, 8 + 4 * r, 16, 7, 3, 2 * r) /\ Within(PX64!x64RepackGemmKernel(feature, b, c, r), PackedBytes[fmt], 136)
    BY <1>3, x64RepackGemm_Layout, PackedExtents
  <2>4. Sound(PX64!x64RepackGemmKernel(feature, b, c, r), Activations.q8_0x4by4, r, 31, PackedBytes[fmt], 136)
    BY ONLY <2>3, r \in 0 .. 3, Sound0x4by4
  <2>5. ActFor("gemm", fmt) = Activations.q8_0x4by4 /\ QuantsOf(fmt) - 1 = 31 /\ YBytesFor("gemm", fmt) = 136
    BY <1>3, GemmShapes
  <2> QED BY ONLY <2>1, <2>4, <2>5, GemmShape
<1>4. CASE fmt \in {"q5_0", "q4_0", "iq4_nl", "mxfp4"}
  <2>1. GemmBody(feature, b, c, r) = PX64!x64GemmX8Kernel(PX64!x8Layout(fmt), b, c, r)
    BY arch = "amd64", <1>4 DEF GemmBody
  <2>2. c \in 0 .. 7
    BY <1>4 DEF Columns
  <2>3. Runs(PX64!x64GemmX8Kernel(PX64!x8Layout(fmt), b, c, r).dots, 8 + 8 * r, 32, 3, 7, 2 * r) /\ Within(PX64!x64GemmX8Kernel(PX64!x8Layout(fmt), b, c, r), PackedBytes[fmt], 136)
    BY ONLY <1>4, <2>2, r \in 0 .. 3, x64GemmX8_Layout
  <2>4. Sound(PX64!x64GemmX8Kernel(PX64!x8Layout(fmt), b, c, r), Activations.q8_0x4by8, r, 31, PackedBytes[fmt], 136)
    BY ONLY <2>3, r \in 0 .. 3, Sound0x4by8
  <2>5. ActFor("gemm", fmt) = Activations.q8_0x4by8 /\ QuantsOf(fmt) - 1 = 31 /\ YBytesFor("gemm", fmt) = 136
    BY <1>4, GemmShapes
  <2> QED BY ONLY <2>1, <2>4, <2>5, GemmShape
<1> QED BY <1>1, <1>2, <1>3, <1>4 DEF Repacked

-----------------------------------------------------------------------------
(* The invariant.                                                          *)

(* What Init chose, which no pass changes, and where the row stands.       *)
Kinds == /\ arch \in {"arm64", "amd64"}
         /\ fmt \in Formats
         /\ nest \in {"row", "tile", "gemv", "gemm"}
         /\ nest = "tile" => arch = "arm64" /\ fmt \in Tiled
         /\ nest \in Nests => fmt \in Repacked
         /\ i \in 0 .. NB

FormsSound == \A t \in DOMAIN out : SoundFor(out[t].form, nest, fmt, Seat(t))

QInv == Kinds /\ FormsSound /\ TileMatchesSingle

LEMMA BlocksNat == NB \in Nat
BY BlocksAssumption, Zenon

LEMMA InitQInv == Init => QInv
<1> SUFFICES ASSUME Init PROVE QInv
  OBVIOUS
<1>1. Kinds
  BY BlocksNat DEF Init, Kinds
<1>2. DOMAIN out = {}
  BY DEF Init
<1>3. FormsSound
  BY <1>2 DEF FormsSound
<1>4. TileMatchesSingle
  BY <1>2 DEF TileMatchesSingle
<1> QED BY <1>1, <1>3, <1>4 DEF QInv

(* No pass changes the kind of the product; each takes one block.          *)
LEMMA KindsStep ==
    ASSUME Kinds, Next
    PROVE  /\ arch' = arch /\ fmt' = fmt /\ nest' = nest
           /\ i' = i + 1 /\ i' \in 1 .. NB /\ Kinds'
<1>1. arch' = arch /\ fmt' = fmt /\ nest' = nest /\ i < NB /\ i' = i + 1
  BY DEF Next, LookupPass, CodebookPass, TernaryPass, LegacyAndKPass, Pass, TilePass, RepackPass
<1>2. i' \in 1 .. NB
  BY <1>1, BlocksNat DEF Kinds
<1> QED BY <1>1, <1>2, BlocksNat DEF Kinds

(* A pass of a row dot leaves the one form of its body.                    *)
LEMMA RowStep ==
    ASSUME NEW f, nest = "row", nest' = nest, fmt' = fmt,
           out' = [t \in 0 .. 0 |-> [xrow |-> 0, yrow |-> 0, form |-> f]],
           SoundFor(f, "row", fmt, 0)
    PROVE  FormsSound' /\ TileMatchesSingle'
<1>1. ASSUME NEW t \in DOMAIN out'
      PROVE  SoundFor(out'[t].form, nest', fmt', Seat(t)')
  <2>1. out'[t].form = f
    OBVIOUS
  <2>2. Seat(t)' = 0
    BY DEF Seat
  <2>3. nest' = "row" /\ fmt' = fmt
    OBVIOUS
  <2> QED BY ONLY <2>1, <2>2, <2>3, SoundFor(f, "row", fmt, 0), Zenon
<1>2. FormsSound'
  BY ONLY <1>1, Zenon DEF FormsSound
<1>3. TileMatchesSingle'
  <2>1. nest' # "tile"
    OBVIOUS
  <2> QED BY ONLY <2>1 DEF TileMatchesSingle
<1> QED BY <1>2, <1>3

LEMMA LookupStep ==
    ASSUME Kinds, LookupPass
    PROVE  FormsSound' /\ TileMatchesSingle'
<1> DEFINE b == Block(0, i')
<1>1. /\ nest = "row" /\ nest' = nest /\ fmt' = fmt
      /\ out' = [t \in 0 .. 0 |-> [xrow |-> 0, yrow |-> 0, form |-> LookupBody(b)]]
  BY DEF LookupPass, Pass
<1>2. arch \in {"arm64", "amd64"} /\ fmt \in {"iq4_nl", "mxfp4", "q4_1", "q5_1", "iq4_xs"}
  BY DEF Kinds, LookupPass
<1> HIDE DEF b
<1>3. SoundFor(LookupBody(b), "row", fmt, 0)
  BY <1>2, a64LookupSound, x64LookupSound
<1> QED BY ONLY <1>1, <1>3, RowStep

LEMMA CodebookStep ==
    ASSUME Kinds, CodebookPass
    PROVE  FormsSound' /\ TileMatchesSingle'
<1> DEFINE b == Block(0, i')
<1>1. /\ nest = "row" /\ nest' = nest /\ fmt' = fmt
      /\ out' = [t \in 0 .. 0 |-> [xrow |-> 0, yrow |-> 0, form |-> CodebookBody(b)]]
  BY DEF CodebookPass, Pass
<1>2. arch \in {"arm64", "amd64"} /\ fmt \in Codebooks \ {"iq4_xs"}
  BY DEF Kinds, CodebookPass
<1> HIDE DEF b
<1>3. SoundFor(CodebookBody(b), "row", fmt, 0)
  BY <1>2, a64CodebookSound, x64CodebookSound
<1> QED BY ONLY <1>1, <1>3, RowStep

LEMMA TernaryStep ==
    ASSUME Kinds, TernaryPass
    PROVE  FormsSound' /\ TileMatchesSingle'
<1> DEFINE b == Block(0, i')
<1>1. /\ nest = "row" /\ nest' = nest /\ fmt' = fmt
      /\ out' = [t \in 0 .. 0 |-> [xrow |-> 0, yrow |-> 0, form |-> TernaryBody(b)]]
  BY DEF TernaryPass, Pass
<1>2. arch \in {"arm64", "amd64"} /\ fmt \in Ternary \cup Packed
  BY DEF Kinds, TernaryPass
<1> HIDE DEF b
<1>3. SoundFor(TernaryBody(b), "row", fmt, 0)
  BY <1>2, a64TernarySound, x64TernarySound
<1> QED BY ONLY <1>1, <1>3, RowStep

LEMMA LegacyAndKStep ==
    ASSUME Kinds, LegacyAndKPass
    PROVE  FormsSound' /\ TileMatchesSingle'
<1> DEFINE b == Block(0, i')
<1>1. /\ nest = "row" /\ nest' = nest /\ fmt' = fmt
      /\ out' = [t \in 0 .. 0 |-> [xrow |-> 0, yrow |-> 0, form |-> LegacyAndKBody(b)]]
  BY DEF LegacyAndKPass, Pass
<1>2. arch \in {"arm64", "amd64"} /\ fmt \in {"q4_0", "q8_0", "q5_0"} \cup KFormats
  BY DEF Kinds, LegacyAndKPass
<1> HIDE DEF b
<1>3. SoundFor(LegacyAndKBody(b), "row", fmt, 0)
  BY <1>2, a64LegacyAndKSound, x64LegacyAndKSound
<1> QED BY ONLY <1>1, <1>3, RowStep

(* The row dots of the formats with a tile, in this state and in the next. *)
TiledSingle(fm, b) == CASE fm = "q4_K" -> A64!a64VecDotQ4_KKernel(b)
                        [] fm = "q5_K" -> A64!a64VecDotQ5_KKernel(b)
                        [] fm = "q6_K" -> A64!a64VecDotQ6_KKernel(b)

LEMMA SingleTiled ==
    ASSUME arch = "arm64", fmt \in Tiled, arch' = arch, fmt' = fmt, NEW e
    PROVE  SingleBody(Block(e, i))' = SingleBody(Block(e, i'))
<1> DEFINE b == Block(e, i')
<1>1. Block(e, i)' = b
  BY Zenon DEF Block
<1>2. SingleBody(b) = TiledSingle(fmt, b)
  <2> HIDE DEF b
  <2>1. SingleBody(b) = LegacyAndKBody(b)
    BY DEF SingleBody, Codebooks, Ternary, Packed, KFormats, Tiled
  <2>2. LegacyAndKBody(b) = TiledSingle(fmt, b)
    BY DEF LegacyAndKBody, TiledSingle, Tiled
  <2> QED BY <2>1, <2>2
<1>3. SingleBody(Block(e, i))' = TiledSingle(fmt', Block(e, i)')
  <2>1. arch' = "arm64" /\ fmt' \in Tiled
    OBVIOUS
  <2>2. SingleBody(Block(e, i))' = LegacyAndKBody(Block(e, i))'
    BY ONLY <2>1 DEF SingleBody, Codebooks, Ternary, Packed, KFormats, Tiled
  <2>3. LegacyAndKBody(Block(e, i))' = TiledSingle(fmt', Block(e, i)')
    BY ONLY <2>1 DEF LegacyAndKBody, TiledSingle, Tiled
  <2> QED BY <2>2, <2>3
<1> HIDE DEF b
<1> QED BY ONLY <1>1, <1>2, <1>3, fmt' = fmt, Zenon DEF b

(* A pass of a tile: the rows are bytes, so TileLanes applies.             *)
LEMMA TileStep ==
    ASSUME Kinds, TilePass, fmt' = fmt, arch' = arch, nest' = nest, i' \in 1 .. NB
    PROVE  FormsSound' /\ TileMatchesSingle'
<1> DEFINE x == [r \in 0 .. 1 |-> Block(r, i')]
<1>1. nest = "tile" /\ arch = "arm64" /\ fmt \in Tiled /\ out' = TileBody(x)
  BY SMTT(30) DEF TilePass, Kinds
<1>2. ASSUME NEW r \in 0 .. 1, fmt = "q6_K"
      PROVE  OfBytes(Block(r, i'))
  <2>1. BlockBytes[fmt] - 1 = 209
    BY <1>2 DEF BlockBytes
  <2>2. ASSUME NEW o \in 0 .. 209
        PROVE  Block(r, i')[o] \in 0 .. 255
    <3>1. Block(r, i')[o] = Row(r, i', o)
      BY <2>1 DEF Block
    <3>2. r \in 0 .. 7
      OBVIOUS
    <3>3. Row(r, i', o) \in 0 .. 255
      BY ONLY <2>2, <3>2, i' \in 1 .. NB, BlocksAssumption, Zenon
    <3> QED BY ONLY <3>1, <3>3
  <2> QED BY <2>2, Zenon DEF OfBytes
<1>3. ASSUME NEW t \in 0 .. 3
      PROVE  /\ DOMAIN TileBody(x) = 0 .. 3
             /\ TileBody(x)[t].xrow = t % 2
             /\ TileBody(x)[t].yrow = t \div 2
             /\ TileBody(x)[t].form = SingleBody(Block(t % 2, i'))
             /\ SoundFor(TileBody(x)[t].form, "tile", fmt, 0)
  <2>1. t % 2 \in 0 .. 1
    OBVIOUS
  <2>2. x[t % 2] = Block(t % 2, i')
    BY <2>1
  <2>3. OfBytes(x[t % 2]) \/ fmt # "q6_K"
    BY <1>2, <2>1, <2>2
  <2> HIDE DEF x
  <2>4. /\ DOMAIN TileBody(x) = 0 .. 3
        /\ TileBody(x)[t].xrow = t % 2
        /\ TileBody(x)[t].yrow = t \div 2
        /\ TileBody(x)[t].form = SingleBody(x[t % 2])
        /\ SoundFor(TileBody(x)[t].form, "tile", fmt, 0)
    BY ONLY <1>1, <1>3, <2>3, TileLanes
  <2> QED BY ONLY <2>2, <2>4, Zenon
<1> HIDE DEF x
<1>4. FormsSound'
  <2>1. ASSUME NEW t \in DOMAIN out'
        PROVE  SoundFor(out'[t].form, nest', fmt', Seat(t)')
    <3>1. t \in 0 .. 3
      BY <1>1, <1>3
    <3>2. SoundFor(TileBody(x)[t].form, "tile", fmt, 0)
      BY <1>3, <3>1
    <3>3. Seat(t)' = 0 /\ nest' = "tile"
      BY <1>1 DEF Seat
    <3> QED BY ONLY <1>1, <3>2, <3>3, fmt' = fmt, Zenon
  <2> QED BY ONLY <2>1, Zenon DEF FormsSound
<1>5. TileMatchesSingle'
  <2>1. ASSUME NEW t \in DOMAIN out'
        PROVE  /\ out'[t].xrow = t % 2 /\ out'[t].yrow = t \div 2
               /\ out'[t].form = SingleBody(Block(t % 2, i))'
    <3>1. t \in 0 .. 3
      BY <1>1, <1>3
    <3>2. SingleBody(Block(t % 2, i))' = SingleBody(Block(t % 2, i'))
      BY <1>1, SingleTiled
    <3> QED BY ONLY <1>1, <1>3, <3>1, <3>2
  <2> QED BY ONLY <2>1, Zenon DEF TileMatchesSingle
<1> QED BY <1>4, <1>5

(* A pass of a nest: every cell, whichever feature the host has.           *)
LEMMA RepackSound ==
    ASSUME Kinds, nest \in Nests, NEW feature, NEW b,
           NEW c \in 0 .. Columns(fmt) - 1, NEW r \in 0 .. 3
    PROVE  SoundFor(RepackBody(feature, b, c, r), nest, fmt, IF nest = "gemm" THEN r ELSE 0)
<1>1. arch \in {"arm64", "amd64"} /\ fmt \in Repacked
  BY DEF Kinds
<1>2. CASE nest = "gemv"
  <2>1. SoundFor(GemvBody(feature, b, c), "gemv", fmt, 0)
    BY <1>1, a64GemvSound, x64GemvSound
  <2>2. RepackBody(feature, b, c, r) = GemvBody(feature, b, c)
    BY <1>2 DEF RepackBody
  <2>3. (IF nest = "gemm" THEN r ELSE 0) = 0
    BY <1>2
  <2> QED BY ONLY <1>2, <2>1, <2>2, <2>3, Zenon
<1>3. CASE nest = "gemm"
  <2>1. SoundFor(GemmBody(feature, b, c, r), "gemm", fmt, r)
    BY <1>1, a64GemmSound, x64GemmSound
  <2>2. RepackBody(feature, b, c, r) = GemmBody(feature, b, c, r)
    BY <1>3 DEF RepackBody
  <2>3. (IF nest = "gemm" THEN r ELSE 0) = r
    BY <1>3
  <2> QED BY ONLY <1>3, <2>1, <2>2, <2>3, Zenon
<1> QED BY <1>2, <1>3 DEF Nests

LEMMA RepackStep ==
    ASSUME Kinds, RepackPass, fmt' = fmt, nest' = nest, i' \in 1 .. NB
    PROVE  FormsSound' /\ TileMatchesSingle'
<1> DEFINE b == Packing(fmt, [c \in 0 .. Columns(fmt) - 1 |-> Block(c, i')])
           row(c) == IF nest = "gemm" THEN (c + i') % 4 ELSE 0
<1>1. /\ nest \in Nests
      /\ out' = [t \in (0 .. Columns(fmt) - 1) \X Features |->
                    [xrow |-> t[1], yrow |-> row(t[1]),
                     form |-> RepackBody(t[2], b, t[1], row(t[1]))]]
  BY DEF RepackPass
<1> HIDE DEF b
<1>2. \A c \in 0 .. Columns(fmt) - 1 : row(c) \in 0 .. 3
  <2>1. ASSUME NEW c \in 0 .. Columns(fmt) - 1
        PROVE  (c + i') % 4 \in 0 .. 3
    <3>1. c + i' \in Int
      BY ONLY <2>1, i' \in 1 .. NB
    <3>2. \A s \in Int : s % 4 \in 0 .. 3
      BY ONLY TRUE
    <3> QED BY ONLY <3>1, <3>2
  <2>2. 0 \in 0 .. 3
    BY ONLY TRUE
  <2> QED BY ONLY <2>1, <2>2
<1>3. ASSUME NEW t \in DOMAIN out'
      PROVE  SoundFor(out'[t].form, nest', fmt', Seat(t)')
  <2>1. t[1] \in 0 .. Columns(fmt) - 1
    BY <1>1
  <2> DEFINE c == t[1]
             r == row(c)
             f == RepackBody(t[2], b, c, r)
  <2>2. out'[t].form = f /\ out'[t].yrow = r
    BY <1>1
  <2>3. r \in 0 .. 3
    BY <1>2, <2>1
  <2> HIDE DEF r
  <2>4. SoundFor(f, nest, fmt, IF nest = "gemm" THEN r ELSE 0)
    BY <1>1, <2>1, <2>3, RepackSound
  <2>5. Seat(t)' = IF nest = "gemm" THEN r ELSE 0
    BY <2>2 DEF Seat
  <2> HIDE DEF f
  <2> QED BY ONLY <2>2, <2>4, <2>5, fmt' = fmt, nest' = nest, Zenon
<1>4. FormsSound'
  BY ONLY <1>3, Zenon DEF FormsSound
<1>5. TileMatchesSingle'
  <2>1. nest' # "tile"
    BY <1>1 DEF Nests
  <2> QED BY ONLY <2>1 DEF TileMatchesSingle
<1> QED BY <1>4, <1>5

LEMMA UnchangedQInv == QInv /\ UNCHANGED vars => QInv'
<1> SUFFICES ASSUME QInv, UNCHANGED vars PROVE QInv'
  OBVIOUS
<1>1. arch' = arch /\ fmt' = fmt /\ nest' = nest /\ i' = i /\ out' = out
  BY DEF vars
<1>2. Kinds'
  BY <1>1 DEF QInv, Kinds
<1>3. FormsSound'
  <2>1. ASSUME NEW t \in DOMAIN out'
        PROVE  SoundFor(out'[t].form, nest', fmt', Seat(t)')
    <3>1. SoundFor(out[t].form, nest, fmt, Seat(t))
      BY <1>1 DEF QInv, FormsSound
    <3>2. Seat(t)' = Seat(t)
      BY <1>1 DEF Seat
    <3> QED BY ONLY <1>1, <3>1, <3>2, Zenon
  <2> QED BY ONLY <2>1, Zenon DEF FormsSound
<1>4. TileMatchesSingle'
  <2>1. CASE nest # "tile"
    BY <1>1, <2>1 DEF TileMatchesSingle
  <2>2. CASE nest = "tile"
    <3>1. arch = "arm64" /\ fmt \in Tiled
      BY <2>2 DEF QInv, Kinds
    <3>2. ASSUME NEW t \in DOMAIN out'
          PROVE  /\ out'[t].xrow = t % 2 /\ out'[t].yrow = t \div 2
                 /\ out'[t].form = SingleBody(Block(t % 2, i))'
      <4>1. /\ out[t].xrow = t % 2 /\ out[t].yrow = t \div 2
            /\ out[t].form = SingleBody(Block(t % 2, i))
        BY <1>1, <2>2 DEF QInv, TileMatchesSingle
      <4>2. SingleBody(Block(t % 2, i))' = SingleBody(Block(t % 2, i'))
        BY <1>1, <3>1, SingleTiled
      <4> QED BY ONLY <1>1, <4>1, <4>2, Zenon
    <3> QED BY ONLY <3>2, Zenon DEF TileMatchesSingle
  <2> QED BY <2>1, <2>2
<1> QED BY <1>2, <1>3, <1>4 DEF QInv

LEMMA NextQInv == QInv /\ [Next]_vars => QInv'
<1> SUFFICES ASSUME QInv, [Next]_vars PROVE QInv'
  OBVIOUS
<1>1. CASE UNCHANGED vars
  BY <1>1, UnchangedQInv
<1>2. CASE Next
  <2>1. Kinds
    BY DEF QInv
  <2>2. /\ arch' = arch /\ fmt' = fmt /\ nest' = nest
        /\ i' = i + 1 /\ i' \in 1 .. NB /\ Kinds'
    BY <1>2, <2>1, KindsStep
  <2>3. CASE LookupPass
    BY ONLY <2>1, <2>2, <2>3, LookupStep DEF QInv
  <2>4. CASE CodebookPass
    BY ONLY <2>1, <2>2, <2>4, CodebookStep DEF QInv
  <2>5. CASE TernaryPass
    BY ONLY <2>1, <2>2, <2>5, TernaryStep DEF QInv
  <2>6. CASE LegacyAndKPass
    BY ONLY <2>1, <2>2, <2>6, LegacyAndKStep DEF QInv
  <2>7. CASE TilePass
    BY ONLY <2>1, <2>2, <2>7, TileStep DEF QInv
  <2>8. CASE RepackPass
    BY ONLY <2>1, <2>2, <2>8, RepackStep DEF QInv
  <2> QED BY ONLY <1>2, <2>3, <2>4, <2>5, <2>6, <2>7, <2>8 DEF Next
<1> QED BY <1>1, <1>2

LEMMA SpecQInv == Spec => []QInv
BY InitQInv, NextQInv, PTL DEF Spec

-----------------------------------------------------------------------------
LEMMA ActIs == Act = ActFor(nest, fmt)
BY DEF Act, ActFor

(* For every row length, every content of the blocks and of the codebooks: *)
(* each export multiplies every quant of a block once, by the activation   *)
(* that belongs to it and under that activation's scale, and its lanes     *)
(* touch no byte of another row.                                           *)
THEOREM QuantsOnceHolds == Spec => []QuantsOnce
<1>1. QInv => QuantsOnce
  <2> SUFFICES ASSUME QInv, NEW t \in DOMAIN out
               PROVE  Once(out[t].form, Act, Seat(t), 0 .. QuantsOf(fmt) - 1)
    BY Zenon DEF QuantsOnce, Once
  <2>1. SoundFor(out[t].form, nest, fmt, Seat(t))
    BY DEF QInv, FormsSound
  <2> QED BY <2>1, ActIs DEF SoundFor, Sound
<1> QED BY <1>1, SpecQInv, PTL

(* No pass of any export loads a byte behind the last of its two blocks.   *)
THEOREM LoadsInBlockHolds == Spec => []LoadsInBlock
<1>1. QInv => LoadsInBlock
  <2> SUFFICES ASSUME QInv, NEW f \in Forms
               PROVE  /\ \A l \in f.ld : l[1] + l[2] <= XBytesFor(nest, fmt)
                      /\ \A l \in f.ldy : l[1] + l[2] <= YBytesFor(nest, fmt)
                      /\ \A d \in f.dots : \A m \in DOMAIN d.w : d.y + m < YBytesFor(nest, fmt)
    BY ActIs DEF LoadsInBlock, XBytesFor, YBytesFor
  <2>1. PICK t \in DOMAIN out : f = out[t].form
    BY DEF Forms
  <2>2. SoundFor(f, nest, fmt, Seat(t))
    BY <2>1 DEF QInv, FormsSound
  <2> QED BY <2>2 DEF SoundFor, Sound, Within
<1> QED BY <1>1, SpecQInv, PTL

(* A lane of an arm64 tile adds what the row dot of its two rows adds,     *)
(* whatever the rows hold, and stands where the output of that pair goes.  *)
THEOREM TileMatchesSingleHolds == Spec => []TileMatchesSingle
<1>1. QInv => TileMatchesSingle
  BY DEF QInv
<1> QED BY <1>1, SpecQInv, PTL

-----------------------------------------------------------------------------
(* Sums in 16 bits.                                                        *)

(* What a pass may not exceed, in one of its forms.                        *)
FitsIn(f, top) ==
    f.act > 0 =>
        /\ \A d \in f.dots : \A m \in DOMAIN d.w : m % 2 = 0 => PairSum(f, d, m) <= top
        /\ \A sum \in f.words : \A m \in {0, 2, 4, 6} : WordSum(f, sum, m) <= top

Fits(f) == FitsIn(f, 32767)

(* The last lane of a dot.                                                 *)
LastLanes == {3, 7, 15, 31}

(* A dot of n + 1 lanes with weights of magnitude at most B.       *)
Weights(w, n, B) == DOMAIN w = 0 .. n /\ \A m \in 0 .. n : w[m] \in -B .. B

(* A form whose weights leave its pair sums room.                          *)
Narrow(f, act, B) ==
    /\ f.act = act /\ f.words = {}
    /\ \A d \in f.dots : \E n \in LastLanes : Weights(d.w, n, B)

(* No pair sum of the dot is above P.                                      *)
PairsUpTo(f, d, P) == \A m \in DOMAIN d.w : m % 2 = 0 => PairSum(f, d, m) \in 0 .. P

(* A pair of products of at most B each with activations of at most act.   *)
LEMMA PairBound ==
    ASSUME NEW f, NEW d, NEW n \in LastLanes, NEW B \in Nat, Weights(d.w, n, B),
           NEW act \in Nat, f.act = act, NEW P, P = act * (2 * B)
    PROVE  PairsUpTo(f, d, P)
<1> SUFFICES ASSUME NEW m \in DOMAIN d.w, m % 2 = 0
             PROVE  PairSum(f, d, m) \in 0 .. P
  BY DEF PairsUpTo
<1>1. m \in 0 .. n /\ m + 1 \in 0 .. n
  <2>1. \A top \in {3, 7, 15, 31} : \A l \in 0 .. top : l % 2 = 0 => l + 1 \in 0 .. top
    OBVIOUS
  <2>2. m \in 0 .. n
    BY DEF Weights
  <2> QED BY ONLY <2>1, <2>2, m % 2 = 0, n \in LastLanes DEF LastLanes
<1>2. Abs(d.w[m]) \in 0 .. B /\ Abs(d.w[m + 1]) \in 0 .. B
  <2>1. \A x \in -B .. B : Abs(x) \in 0 .. B
    BY DEF Abs
  <2>2. d.w[m] \in -B .. B /\ d.w[m + 1] \in -B .. B
    BY <1>1 DEF Weights
  <2> QED BY ONLY <2>1, <2>2
<1> DEFINE s == Abs(d.w[m]) + Abs(d.w[m + 1])
<1>3. s \in 0 .. 2 * B
  BY <1>2
<1> HIDE DEF s
<1>4. \A a, x, y \in Nat : x <= y => a * x \in 0 .. a * y
  OBVIOUS
<1>5. act * s \in 0 .. act * (2 * B)
  BY <1>3, <1>4
<1>6. PairSum(f, d, m) = act * s
  BY DEF PairSum, s
<1> QED BY ONLY <1>5, <1>6, P = act * (2 * B)

(* 127 * 256 and 128 * 254 are both 32512: room for a pair in 16 bits.     *)
LEMMA NarrowFits ==
    ASSUME NEW f, Narrow(f, 127, 128) \/ Narrow(f, 128, 127)
    PROVE  Fits(f)
<1>1. ASSUME NEW act \in Nat, NEW B \in Nat, NEW P \in Nat, P = act * (2 * B),
             NEW top, P <= top, top \in Nat, Narrow(f, act, B)
      PROVE  FitsIn(f, top)
  <2>1. ASSUME NEW d \in f.dots
        PROVE  PairsUpTo(f, d, P)
    <3>1. f.act = act
      BY <1>1 DEF Narrow
    <3>2. PICK n \in LastLanes : Weights(d.w, n, B)
      BY <1>1 DEF Narrow
    <3>3. P = act * (2 * B)
      BY <1>1
    <3> QED BY <3>1, <3>2, <3>3, PairBound, Zenon
  <2>2. \A x \in 0 .. P : x <= top
    BY <1>1
  <2>3. f.words = {}
    BY <1>1 DEF Narrow
  <2>4. \A d \in f.dots : \A m \in DOMAIN d.w : m % 2 = 0 => PairSum(f, d, m) <= top
    <3> TAKE d \in f.dots
    <3>1. \A m \in DOMAIN d.w : m % 2 = 0 => PairSum(f, d, m) \in 0 .. P
      BY <2>1, Zenon DEF PairsUpTo
    <3> QED BY ONLY <2>2, <3>1, Zenon
  <2>5. \A sum \in f.words : \A m \in {0, 2, 4, 6} : WordSum(f, sum, m) <= top
    BY ONLY <2>3
  <2> QED BY ONLY <2>4, <2>5, Zenon DEF FitsIn
<1>2. \A act, B, P, top \in Nat : P = act * (2 * B) /\ P <= top /\ Narrow(f, act, B)
                                   => FitsIn(f, top)
  BY ONLY <1>1, Zenon
<1>3. /\ 32512 = 127 * (2 * 128) /\ 32512 = 128 * (2 * 127) /\ 32512 <= 32767
      /\ 127 \in Nat /\ 128 \in Nat /\ 32512 \in Nat /\ 32767 \in Nat
  OBVIOUS
<1>4. Narrow(f, 127, 128) => FitsIn(f, 32767)
  BY ONLY <1>2, <1>3
<1>5. Narrow(f, 128, 127) => FitsIn(f, 32767)
  BY ONLY <1>2, <1>3
<1> QED BY ONLY <1>4, <1>5, Narrow(f, 127, 128) \/ Narrow(f, 128, 127) DEF Fits

-----------------------------------------------------------------------------
(* The sum of up to four dots, taken out of their set one by one.          *)
Chosen(s) == CHOOSE x \in s : TRUE
Rest(s) == s \ {Chosen(s)}

LEMMA ChosenIn == ASSUME NEW s, s # {} PROVE Chosen(s) \in s
BY DEF Chosen

(* A set of two is empty after its elements are taken out.                 *)
LEMMA RestOfTwo ==
    ASSUME NEW a, NEW b, NEW s \in SUBSET {a, b}
    PROVE  Rest(Rest(s)) = {}
<1>1. s # {} => Chosen(s) \in s
  BY ChosenIn
<1>2. Rest(s) # {} => Chosen(Rest(s)) \in Rest(s)
  BY ChosenIn
<1> QED BY <1>1, <1>2 DEF Rest

(* So is a set of four.                                                    *)
LEMMA RestOfFour ==
    ASSUME NEW a, NEW b, NEW c, NEW d, NEW s \in SUBSET {a, b, c, d}
    PROVE  Rest(Rest(Rest(Rest(s)))) = {}
<1> DEFINE s1 == Rest(s)
           s2 == Rest(s1)
           s3 == Rest(s2)
           s4 == Rest(s3)
<1>1. \A u : u # {} => Chosen(u) \in u
  BY ChosenIn
<1>2. /\ s1 = s \ {Chosen(s)} /\ s2 = s1 \ {Chosen(s1)}
      /\ s3 = s2 \ {Chosen(s2)} /\ s4 = s3 \ {Chosen(s3)}
  BY Zenon DEF Rest
<1> HIDE DEF s1, s2, s3, s4
<1>3. ASSUME s4 # {} PROVE FALSE
  <2>1. s # {} /\ s1 # {} /\ s2 # {} /\ s3 # {}
    BY <1>2, <1>3
  <2>2. PICK x : x \in s4
    BY <1>3
  <2>3. Chosen(s) \in s /\ Chosen(s1) \in s1 /\ Chosen(s2) \in s2 /\ Chosen(s3) \in s3
    BY <1>1, <2>1
  <2> DEFINE h0 == Chosen(s)
             h1 == Chosen(s1)
             h2 == Chosen(s2)
             h3 == Chosen(s3)
  <2> HIDE DEF h0, h1, h2, h3
  <2>4. /\ h0 # h1 /\ h0 # h2 /\ h0 # h3 /\ h0 # x /\ h1 # h2
        /\ h1 # h3 /\ h1 # x /\ h2 # h3 /\ h2 # x /\ h3 # x
    BY <1>2, <2>2, <2>3 DEF h0, h1, h2, h3
  <2>5. /\ h0 \in {a, b, c, d} /\ h1 \in {a, b, c, d} /\ h2 \in {a, b, c, d}
        /\ h3 \in {a, b, c, d} /\ x \in {a, b, c, d}
    BY <1>2, <2>2, <2>3 DEF h0, h1, h2, h3
  <2> QED BY ONLY <2>4, <2>5
<1> QED BY <1>3 DEF s1, s2, s3, s4

(* What the element chosen from s adds.                                    *)
Added(f, m, s) == IF s = {} THEN 0 ELSE PairSum(f, Chosen(s), m)

(* WordSum is a fold: a function of the subsets, of which only its         *)
(* equation is known.  A closed form satisfies it, so one exists; and any  *)
(* that does has this value.                                               *)
LEMMA SumOfFour ==
    ASSUME NEW a, NEW b, NEW c, NEW d, NEW S, S \subseteq {a, b, c, d}, NEW f, NEW m,
           \A x \in S : PairSum(f, x, m) \in Int
    PROVE  WordSum(f, S, m) = Added(f, m, S) + Added(f, m, Rest(S)) + Added(f, m, Rest(Rest(S)))
                              + Added(f, m, Rest(Rest(Rest(S))))
<1> DEFINE W(s) == Added(f, m, s)
           V(s) == W(s) + W(Rest(s)) + W(Rest(Rest(s))) + W(Rest(Rest(Rest(s))))
           G(g, s) == IF s = {} THEN 0 ELSE PairSum(f, Chosen(s), m) + g[Rest(s)]
           iter == CHOOSE g : g = [s \in SUBSET S |-> G(g, s)]
<1>1. WordSum(f, S, m) = iter[S]
  BY DEF WordSum, MapThenSumSet, MapThenFoldSet, Chosen, Rest
<1>2. \A s \in SUBSET S : Rest(s) \in SUBSET S
  BY DEF Rest
<1>3. \A s \in SUBSET S : W(s) \in Int
  BY ChosenIn DEF Added
<1>4. \A s \in SUBSET S : Rest(Rest(Rest(Rest(s)))) = {}
  BY RestOfFour
<1>5. W({}) = 0 /\ Rest({}) = {}
  BY DEF Rest, Added
<1>6. \A g, s : s # {} => G(g, s) = W(s) + g[Rest(s)]
  BY DEF Added
<1>7. \A g : G(g, {}) = 0
  OBVIOUS
<1> HIDE DEF W, G
<1>8. \A s \in SUBSET S : s # {} => V(s) = W(s) + V(Rest(s))
  <2> TAKE s \in SUBSET S
  <2>1. W(Rest(Rest(Rest(Rest(s))))) = 0
    BY <1>4, <1>5
  <2>2. W(s) \in Int /\ W(Rest(s)) \in Int /\ W(Rest(Rest(s))) \in Int
        /\ W(Rest(Rest(Rest(s)))) \in Int
    BY <1>2, <1>3
  <2> QED BY ONLY <2>1, <2>2
<1>9. V({}) = 0
  BY ONLY <1>5
<1> HIDE DEF V
<1>10. \E g : g = [s \in SUBSET S |-> G(g, s)]
  <2> DEFINE g == [s \in SUBSET S |-> V(s)]
  <2>1. \A s \in SUBSET S : g[s] = V(s)
    OBVIOUS
  <2>2. ASSUME NEW s \in SUBSET S PROVE V(s) = G(g, s)
    <3>1. CASE s = {}
      BY ONLY <3>1, <1>7, <1>9
    <3>2. CASE s # {}
      <4>1. g[Rest(s)] = V(Rest(s))
        BY <1>2, <2>1, <2>2
      <4> HIDE DEF g
      <4> QED BY ONLY <3>2, <4>1, <1>6, <1>8, <2>2
    <3> QED BY <3>1, <3>2
  <2>3. g = [s \in SUBSET S |-> G(g, s)]
    BY ONLY <2>2
  <2> QED BY <2>3
<1>11. iter = [s \in SUBSET S |-> G(iter, s)]
  BY <1>10
<1> HIDE DEF iter
<1>12. \A s \in SUBSET S : iter[s] = G(iter, s)
  BY ONLY <1>11
<1>13. iter[{}] = 0
  BY ONLY <1>12, <1>7
<1>14. \A s \in SUBSET S : iter[s] = W(s) + iter[Rest(s)]
  <2> TAKE s \in SUBSET S
  <2>1. CASE s = {}
    BY ONLY <2>1, <1>13, <1>5
  <2>2. CASE s # {}
    BY ONLY <2>2, <1>12, <1>6, s \in SUBSET S
  <2> QED BY <2>1, <2>2
<1>15. iter[S] = V(S)
  <2>1. /\ S \in SUBSET S /\ Rest(S) \in SUBSET S /\ Rest(Rest(S)) \in SUBSET S
        /\ Rest(Rest(Rest(S))) \in SUBSET S
    BY <1>2
  <2>2. iter[Rest(Rest(Rest(Rest(S))))] = 0
    BY <1>4, <1>13
  <2>3. /\ iter[S] = W(S) + iter[Rest(S)]
        /\ iter[Rest(S)] = W(Rest(S)) + iter[Rest(Rest(S))]
        /\ iter[Rest(Rest(S))] = W(Rest(Rest(S))) + iter[Rest(Rest(Rest(S)))]
        /\ iter[Rest(Rest(Rest(S)))] = W(Rest(Rest(Rest(S)))) + iter[Rest(Rest(Rest(Rest(S))))]
    BY ONLY <2>1, <1>14
  <2>4. W(S) \in Int /\ W(Rest(S)) \in Int /\ W(Rest(Rest(S))) \in Int
        /\ W(Rest(Rest(Rest(S)))) \in Int
    BY <2>1, <1>3
  <2> QED BY ONLY <2>2, <2>3, <2>4 DEF V
<1>16. WordSum(f, S, m) = V(S)
  BY ONLY <1>1, <1>15
<1> QED BY <1>16 DEF V, W

(* Up to four dots whose pair sums are at most P, and up to two.           *)
LEMMA WordBound ==
    ASSUME NEW a, NEW b, NEW c, NEW d, NEW S, S \subseteq {a, b, c, d}, NEW f, NEW m,
           NEW P \in Nat, \A x \in S : PairSum(f, x, m) \in 0 .. P
    PROVE  /\ WordSum(f, S, m) \in 0 .. 4 * P
           /\ S \subseteq {a, b} => WordSum(f, S, m) \in 0 .. 2 * P
<1> DEFINE W(s) == Added(f, m, s)
<1>1. \A s \in SUBSET S : Rest(s) \in SUBSET S
  BY DEF Rest
<1>2. \A s \in SUBSET S : W(s) \in 0 .. P
  BY ChosenIn DEF Added
<1>3. S \subseteq {a, b} => Rest(Rest(S)) = {}
  BY RestOfTwo
<1>4. Rest({}) = {} /\ W({}) = 0
  BY DEF Rest, Added
<1> HIDE DEF W
<1>5. /\ W(S) \in 0 .. P /\ W(Rest(S)) \in 0 .. P /\ W(Rest(Rest(S))) \in 0 .. P
      /\ W(Rest(Rest(Rest(S)))) \in 0 .. P
  BY <1>1, <1>2
<1>6. WordSum(f, S, m) = W(S) + W(Rest(S)) + W(Rest(Rest(S))) + W(Rest(Rest(Rest(S))))
  <2>1. \A x \in S : PairSum(f, x, m) \in Int
    OBVIOUS
  <2> QED BY <2>1, SumOfFour, Zenon DEF W
<1>7. WordSum(f, S, m) \in 0 .. 4 * P
  BY ONLY <1>5, <1>6, P \in Nat
<1>8. ASSUME S \subseteq {a, b} PROVE WordSum(f, S, m) \in 0 .. 2 * P
  <2>1. W(Rest(Rest(S))) = 0 /\ W(Rest(Rest(Rest(S)))) = 0
    BY <1>3, <1>4, <1>8
  <2> QED BY ONLY <1>5, <1>6, <2>1, P \in Nat
<1> QED BY <1>7, <1>8

-----------------------------------------------------------------------------
(* What the lane arithmetic returns.                                       *)
Bytes(b, top) == \A o \in 0 .. top : b[o] \in 0 .. 255

(* One byte of a block.                                                    *)
LEMMA ByteAt ==
    ASSUME NEW b, NEW top, Bytes(b, top), NEW o \in 0 .. top
    PROVE  b[o] \in 0 .. 255 /\ b[o] \in Int
BY DEF Bytes

(* Every dot's weights are in range.                                       *)
InRange(dots, B) == \A d \in dots : \E n \in LastLanes : Weights(d.w, n, B)

LEMMA Powers == \A k \in 0 .. 9 : 2^k \in Nat /\ 2^k > 0
<1>1. 2^0 = 1 /\ 2^1 = 2 /\ 2^2 = 4 /\ 2^3 = 8 /\ 2^4 = 16 /\ 2^5 = 32 /\ 2^6 = 64 /\ 2^7 = 128
      /\ 2^8 = 256 /\ 2^9 = 512
  OBVIOUS
<1>2. ASSUME NEW k \in 0 .. 9
      PROVE  k = 0 \/ k = 1 \/ k = 2 \/ k = 3 \/ k = 4 \/ k = 5 \/ k = 6 \/ k = 7 \/ k = 8 \/ k = 9
  OBVIOUS
<1> DEFINE p(k) == 2^k
<1>3. \A k \in 0 .. 9 : p(k) \in Nat /\ p(k) > 0
  <2>1. p(0) = 1 /\ p(1) = 2 /\ p(2) = 4 /\ p(3) = 8 /\ p(4) = 16 /\ p(5) = 32 /\ p(6) = 64
        /\ p(7) = 128 /\ p(8) = 256 /\ p(9) = 512
    BY <1>1
  <2> HIDE DEF p
  <2> QED BY <1>2, <2>1
<1> QED BY <1>3

(* Shifting right by k bits, and what the shift drops.                     *)
LEMMA Divided ==
    ASSUME NEW x \in Int, NEW k \in 0 .. 9
    PROVE  x \div 2^k \in Int /\ x % 2^k \in 0 .. 2^k - 1
<1> DEFINE p == 2^k
<1>1. p \in Nat /\ p > 0
  BY Powers
<1> HIDE DEF p
<1>2. x \div p \in Int /\ x % p \in 0 .. p - 1
  BY <1>1
<1> QED BY <1>2 DEF p

(* A field of one, two or four bits.                                       *)
LEMMA x64Bits ==
    ASSUME NEW x \in Int, NEW lo \in 0 .. 9
    PROVE  /\ X64!Bits(x, lo, 1) \in 0 .. 1 /\ X64!Bits(x, lo, 2) \in 0 .. 3
           /\ X64!Bits(x, lo, 4) \in 0 .. 15
<1> DEFINE y == x \div 2^lo
<1>1. y \in Int
  BY Divided
<1> HIDE DEF y
<1>2. y % 2^1 \in 0 .. 1 /\ y % 2^2 \in 0 .. 3 /\ y % 2^4 \in 0 .. 15
  <2>1. 2^1 = 2 /\ 2^2 = 4 /\ 2^4 = 16
    OBVIOUS
  <2>2. y % 2 \in 0 .. 1 /\ y % 4 \in 0 .. 3 /\ y % 16 \in 0 .. 15
    BY <1>1
  <2> QED BY ONLY <2>1, <2>2
<1> QED BY <1>2 DEF X64!Bits, y

(* A byte of a register of words shifted right.                            *)
LEMMA x64Shr ==
    ASSUME NEW b, NEW o, NEW m, NEW s \in 0 .. 7, b[o + m] \in Int,
           (m + 1) % 2 = 0 \/ b[o + m + 1] \in Int
    PROVE  X64!Shr(b, o, m, s, 2) \in 0 .. 255
<1> DEFINE next == IF (m + 1) % 2 = 0 THEN 0 ELSE b[o + m + 1]
           x == b[o + m] + 256 * next
           y == x \div 2^s
<1>1. next \in Int
  OBVIOUS
<1> HIDE DEF next
<1>2. x \in Int
  BY <1>1
<1> HIDE DEF x
<1>3. y \in Int
  <2>1. s \in 0 .. 9
    OBVIOUS
  <2> QED BY ONLY <1>2, <2>1, Divided
<1> HIDE DEF y
<1>4. y % 256 \in 0 .. 255
  BY <1>3
<1> QED BY <1>4 DEF y, x, next, X64!Shr

(* The 32 nibbles of 16 bytes, the low ones first.                         *)
LEMMA x64Nibbles ==
    ASSUME NEW b, NEW o \in Nat, NEW m \in 0 .. 31, \A l \in 0 .. 15 : b[o + l] \in Int
    PROVE  X64!Nibbles32(b, o, m) \in 0 .. 15
<1>1. CASE m < 16
  <2>1. b[o + m] \in Int
    BY <1>1
  <2>2. b[o + m] % 16 \in 0 .. 15
    BY <2>1
  <2> QED BY <1>1, <2>2 DEF X64!Nibbles32
<1>2. CASE ~(m < 16)
  <2> DEFINE l == m - 16
             v == X64!Shr(b, o, l, 4, 2)
  <2>1. l \in 0 .. 15
    BY <1>2
  <2>2. b[o + l] \in Int
    BY <2>1
  <2>3. (l + 1) % 2 = 0 \/ (l + 1 \in 0 .. 15 /\ o + l + 1 = o + (l + 1))
    BY <2>1
  <2>4. (l + 1) % 2 = 0 \/ b[o + l + 1] \in Int
    BY <2>3
  <2>5. v \in 0 .. 255
    <3> HIDE DEF l
    <3>1. 4 \in 0 .. 7
      OBVIOUS
    <3> QED BY <2>2, <2>4, <3>1, x64Shr
  <2>6. v % 16 \in 0 .. 15
    <3> HIDE DEF v
    <3> QED BY <2>5
  <2> QED BY <1>2, <2>6 DEF X64!Nibbles32
<1> QED BY <1>1, <1>2

(* n bits of a little-endian word.                                         *)
LEMMA x64Field ==
    ASSUME NEW b, NEW o \in Nat, NEW lo \in Nat, NEW n \in 0 .. 9, b[o + lo \div 8] \in Int,
           (lo % 8) + n <= 8 \/ b[o + lo \div 8 + 1] \in Int
    PROVE  X64!Field(b, o, lo, n) \in 0 .. 2^n - 1
<1> DEFINE q == o + lo \div 8
           above == IF (lo % 8) + n > 8 THEN b[q + 1] ELSE 0
           x == b[q] + 256 * above
           y == x \div 2^(lo % 8)
<1>1. above \in Int
  <2>1. lo % 8 \in 0 .. 7
    OBVIOUS
  <2> DEFINE t == lo % 8
  <2> HIDE DEF t
  <2>2. t + n <= 8 \/ b[q + 1] \in Int
    BY DEF t
  <2>3. t \in Int
    BY <2>1 DEF t
  <2>4. (IF t + n > 8 THEN b[q + 1] ELSE 0) \in Int
    BY ONLY <2>2, <2>3, n \in 0 .. 9
  <2> QED BY <2>4 DEF t
<1> HIDE DEF above
<1>2. x \in Int
  BY <1>1
<1> HIDE DEF x
<1>3. y \in Int
  <2>1. lo % 8 \in 0 .. 9
    OBVIOUS
  <2> QED BY <1>2, <2>1, Divided
<1> HIDE DEF y
<1>4. y % 2^n \in 0 .. 2^n - 1
  BY <1>3, Divided
<1> QED BY <1>4 DEF X64!Field, q, above, x, y

(* The factor an XOR and a subtraction of the sign mask apply.             *)
LEMMA x64SignBit ==
    ASSUME NEW x, NEW j
    PROVE  X64!SignBit(x, j) \in {-1, 1} /\ X64!kevenSigns(x, j) \in {-1, 1}
BY DEF X64!SignBit, X64!kevenSigns

(* A grid value under its sign.                                            *)
LEMMA Signed16 ==
    ASSUME NEW g \in -62 .. 62, NEW s \in {-1, 1}
    PROVE  g * s \in -128 .. 128
OBVIOUS

(* A byte taken as signed.                                                 *)
LEMMA x64I8 ==
    ASSUME NEW x \in 0 .. 255
    PROVE  X64!I8(x) \in -128 .. 128
BY DEF X64!I8

(* The lookup tables of the 4-bit codebooks.                               *)
LEMMA x64Tables ==
    ASSUME NEW v \in 0 .. 15
    PROVE  X64!kvaluesIQ4NL[1 + v] \in -128 .. 128 /\ X64!kvaluesFP4[1 + v] \in -128 .. 128
<1>1. 1 + v \in 1 .. 16
  OBVIOUS
<1>2. \A e \in 1 .. 16 : X64!kvaluesIQ4NL[e] \in -128 .. 128
  BY DEF X64!kvaluesIQ4NL
<1>3. \A e \in 1 .. 16 : X64!kvaluesFP4[e] \in -128 .. 128
  BY DEF X64!kvaluesFP4
<1> QED BY <1>1, <1>2, <1>3

GridWithin(f, top) == \A e \in 0 .. top, n \in 0 .. 7 : Grid(f, e, n) \in -62 .. 62

(* No entry of a codebook is above 62 in magnitude.                        *)
LEMMA GridRange ==
    /\ GridWithin("iq3_xxs", 255)
    /\ GridWithin("iq3_s", 511)
    /\ GridWithin("iq2_xxs", 255)
    /\ GridWithin("iq2_xs", 511)
    /\ GridWithin("iq2_s", 1023)
    /\ GridWithin("iq1", 2047)
<1>1. \A f \in {"iq3_xxs", "iq3_s", "iq2_xxs", "iq2_xs", "iq2_s", "iq1"} :
          f \in DOMAIN Codebook /\ \A x \in Codebook[f].bytes : x \in -62 .. 62
  BY DEF Codebook, iq3xxsGrid, iq3sGrid, iq2xxsGrid, iq2xsGrid, iq2sGrid, iq1sGrid
<1>2. /\ Codebook["iq3_xxs"].size = 256 /\ Codebook["iq3_s"].size = 512
      /\ Codebook["iq2_xxs"].size = 256 /\ Codebook["iq2_xs"].size = 512
      /\ Codebook["iq2_s"].size = 1024 /\ Codebook["iq1"].size = 2048
  BY DEF Codebook
<1>3. ASSUME NEW f \in {"iq3_xxs", "iq3_s", "iq2_xxs", "iq2_xs", "iq2_s", "iq1"}, NEW top \in Int,
             Codebook[f].size = top + 1
      PROVE  GridWithin(f, top)
  <2>1. \A e \in 0 .. Codebook[f].size - 1, n \in 0 .. 7 : Grid(f, e, n) \in Codebook[f].bytes
    BY <1>1, GridAssumption DEF L8
  <2>2. Codebook[f].size - 1 = top
    BY <1>3
  <2> QED BY <1>1, <2>1, <2>2 DEF GridWithin
<1> HIDE DEF Codebook
<1>4. GridWithin("iq3_xxs", 255)
  <2>1. 255 \in Int /\ 256 = 255 + 1
    OBVIOUS
  <2>2. Codebook["iq3_xxs"].size = 255 + 1
    BY ONLY <1>2, <2>1
  <2> QED BY ONLY <1>3, <2>1, <2>2
<1>5. GridWithin("iq3_s", 511)
  <2>1. 511 \in Int /\ 512 = 511 + 1
    OBVIOUS
  <2>2. Codebook["iq3_s"].size = 511 + 1
    BY ONLY <1>2, <2>1
  <2> QED BY ONLY <1>3, <2>1, <2>2
<1>6. GridWithin("iq2_xxs", 255)
  <2>1. 255 \in Int /\ 256 = 255 + 1
    OBVIOUS
  <2>2. Codebook["iq2_xxs"].size = 255 + 1
    BY ONLY <1>2, <2>1
  <2> QED BY ONLY <1>3, <2>1, <2>2
<1>7. GridWithin("iq2_xs", 511)
  <2>1. 511 \in Int /\ 512 = 511 + 1
    OBVIOUS
  <2>2. Codebook["iq2_xs"].size = 511 + 1
    BY ONLY <1>2, <2>1
  <2> QED BY ONLY <1>3, <2>1, <2>2
<1>8. GridWithin("iq2_s", 1023)
  <2>1. 1023 \in Int /\ 1024 = 1023 + 1
    OBVIOUS
  <2>2. Codebook["iq2_s"].size = 1023 + 1
    BY ONLY <1>2, <2>1
  <2> QED BY ONLY <1>3, <2>1, <2>2
<1>9. GridWithin("iq1", 2047)
  <2>1. 2047 \in Int /\ 2048 = 2047 + 1
    OBVIOUS
  <2>2. Codebook["iq1"].size = 2047 + 1
    BY ONLY <1>2, <2>1
  <2> QED BY ONLY <1>3, <2>1, <2>2
<1> QED BY ONLY <1>4, <1>5, <1>6, <1>7, <1>8, <1>9

(* One entry of a codebook.                                                *)
LEMMA GridAt ==
    ASSUME NEW f, NEW top, GridWithin(f, top), NEW e \in 0 .. top, NEW n \in 0 .. 7
    PROVE  Grid(f, e, n) \in -62 .. 62
BY DEF GridWithin

(* The dots of the shapes the row dots have.                               *)
LEMMA InRangeEach ==
    ASSUME NEW E, NEW G, NEW B, \A g \in G : \E n \in LastLanes : Weights(E[g].w, n, B)
    PROVE  InRange(Each(E, G), B)
BY DEF InRange, Each

LEMMA InRangeGrid2 ==
    ASSUME NEW D, NEW P, NEW H, NEW B, NEW n \in LastLanes,
           \A p \in P, h \in H : Weights(D[p][h].w, n, B)
    PROVE  InRange(Grid2(D, P, H), B)
BY DEF InRange, Grid2

LEMMA InRange82 ==
    ASSUME NEW D, NEW B, \A g \in 0 .. 7, h \in 0 .. 1 : Weights(D[g][h].w, 15, B)
    PROVE  InRange(Dots82(D), B)
BY DEF InRange, Dots82, LastLanes

LEMMA InRange242 ==
    ASSUME NEW D, NEW B, \A j \in 0 .. 1, t \in 0 .. 3, h \in 0 .. 1 : Weights(D[j][t][h].w, 15, B)
    PROVE  InRange(Dots242(D), B)
<1>1. ASSUME NEW d \in Dots242(D)
      PROVE  \E n \in LastLanes : Weights(d.w, n, B)
  <2>1. PICK j \in 0 .. 1, t \in 0 .. 3, h \in 0 .. 1 : d = D[j][t][h]
    BY DEF Dots242
  <2>2. Weights(d.w, 15, B)
    BY <2>1
  <2> QED BY <2>2 DEF LastLanes
<1> QED BY <1>1 DEF InRange

LEMMA InRange422 ==
    ASSUME NEW D, NEW B, \A j \in 0 .. 3, f \in 0 .. 1, h \in 0 .. 1 : Weights(D[j][f][h].w, 15, B)
    PROVE  InRange(Dots422(D), B)
<1>1. ASSUME NEW d \in Dots422(D)
      PROVE  \E n \in LastLanes : Weights(d.w, n, B)
  <2>1. PICK j \in 0 .. 3, f \in 0 .. 1, h \in 0 .. 1 : d = D[j][f][h]
    BY DEF Dots422
  <2>2. Weights(d.w, 15, B)
    BY <2>1
  <2> QED BY <2>2 DEF LastLanes
<1> QED BY <1>1 DEF InRange

-----------------------------------------------------------------------------
(* The row dots of amd64: no pair of weights is too large.                 *)

LEMMA x64Q4_0_Narrow ==
    ASSUME NEW b, Bytes(b, 17)
    PROVE  Narrow(X64!x64VecDotLegacy("q4_0", b), 127, 128)
<1>1. ASSUME NEW h \in 0 .. 1
      PROVE  Weights(x64Q4_0_w(b, h), 15, 128)
  <2>1. ASSUME NEW m \in 0 .. 15
        PROVE  x64Q4_0_w(b, h)[m] \in -128 .. 128
    <3> DEFINE l == 16 * h + m
    <3>1. l \in 0 .. 31
      BY <1>1, <2>1
    <3> HIDE DEF l
    <3> DEFINE v == X64!Nibbles32(b, 2, l)
    <3>2. v \in 0 .. 15
      <4>1. ASSUME NEW e \in 0 .. 15
            PROVE  b[2 + e] \in Int
        <5>1. 2 + e \in 0 .. 17
          BY <1>1
        <5> QED BY ONLY <5>1, Bytes(b, 17), ByteAt
      <4>2. 2 \in Nat
        BY <1>1
      <4> QED BY ONLY <3>1, <4>1, <4>2, x64Nibbles
    <3> HIDE DEF v
    <3>3. X64!Shr([e \in 0 .. 1 |-> 16], 0, 0, 1, 2) = 8
      BY DEF X64!Shr
    <3>4. x64Q4_0_w(b, h)[m] = v - 8
      BY <2>1, <3>3 DEF x64Q4_0_w, v, l
    <3> QED BY ONLY <3>2, <3>4
  <2>2. DOMAIN x64Q4_0_w(b, h) = 0 .. 15
    BY DEF x64Q4_0_w
  <2> QED BY ONLY <2>1, <2>2 DEF Weights
<1>2. \A h \in 0 .. 1 : Weights(x64Q4_0_Dots(b)[h].w, 15, 128)
  BY <1>1 DEF x64Q4_0_Dots, X64!DotOn
<1>3. InRange(Each(x64Q4_0_Dots(b), 0 .. 1), 128)
  <2>1. \A g \in 0 .. 1 : \E n \in LastLanes : Weights(x64Q4_0_Dots(b)[g].w, n, 128)
    BY ONLY <1>2 DEF LastLanes
  <2> QED BY ONLY <2>1, InRangeEach
<1>4. X64!x64VecDotLegacy("q4_0", b).act = 127 /\ X64!x64VecDotLegacy("q4_0", b).words = {}
  BY DEF X64!x64VecDotLegacy, X64!SignedPairs, X64!Form,
         X64!Dots32, X64!DotOn, X64!L16, X64!L4, X64!L8
<1> QED BY ONLY <1>3, <1>4, x64Q4_0_Are DEF Narrow, InRange

LEMMA x64Q8_0_Narrow ==
    ASSUME NEW b, Bytes(b, 33)
    PROVE  Narrow(X64!x64VecDotLegacy("q8_0", b), 127, 128)
<1>1. ASSUME NEW h \in 0 .. 1
      PROVE  Weights(x64Q8_0_w(b, h), 15, 128)
  <2>1. ASSUME NEW m \in 0 .. 15
        PROVE  x64Q8_0_w(b, h)[m] \in -128 .. 128
    <3> DEFINE l == 16 * h + m
    <3>1. l \in 0 .. 31
      BY <1>1, <2>1
    <3> HIDE DEF l
    <3>2. b[2 + l] \in 0 .. 255
      <4>1. 2 + l \in 0 .. 33
        BY <3>1
      <4> QED BY ONLY <4>1, Bytes(b, 33), ByteAt
    <3>3. x64Q8_0_w(b, h)[m] = X64!I8(b[2 + l])
      BY <2>1 DEF x64Q8_0_w, l
    <3>4. X64!I8(b[2 + l]) \in -128 .. 128
      BY ONLY <3>2, x64I8
    <3> QED BY ONLY <3>3, <3>4
  <2>2. DOMAIN x64Q8_0_w(b, h) = 0 .. 15
    BY DEF x64Q8_0_w
  <2> QED BY ONLY <2>1, <2>2 DEF Weights
<1>2. \A h \in 0 .. 1 : Weights(x64Q8_0_Dots(b)[h].w, 15, 128)
  BY <1>1 DEF x64Q8_0_Dots, X64!DotOn
<1>3. InRange(Each(x64Q8_0_Dots(b), 0 .. 1), 128)
  <2>1. \A g \in 0 .. 1 : \E n \in LastLanes : Weights(x64Q8_0_Dots(b)[g].w, n, 128)
    BY ONLY <1>2 DEF LastLanes
  <2> QED BY ONLY <2>1, InRangeEach
<1>4. X64!x64VecDotLegacy("q8_0", b).act = 127 /\ X64!x64VecDotLegacy("q8_0", b).words = {}
  BY DEF X64!x64VecDotLegacy, X64!SignedPairs, X64!Form,
         X64!Dots32, X64!DotOn, X64!L16, X64!L4, X64!L8
<1> QED BY ONLY <1>3, <1>4, x64Q8_0_Are DEF Narrow, InRange

LEMMA x64Q5_0_Narrow ==
    ASSUME NEW b, Bytes(b, 21)
    PROVE  Narrow(X64!x64VecDotQ5_0Kernel(b), 127, 128)
<1>1. ASSUME NEW h \in 0 .. 1
      PROVE  Weights(x64Q5_0_w(b, h), 15, 128)
  <2>1. ASSUME NEW m \in 0 .. 15
        PROVE  x64Q5_0_w(b, h)[m] \in -128 .. 128
    <3> DEFINE l == 16 * h + m
    <3>1. l \in 0 .. 31
      BY <1>1, <2>1
    <3> HIDE DEF l
    <3> DEFINE v == X64!Nibbles32(b, 6, l)
    <3>2. v \in 0 .. 15
      <4>1. ASSUME NEW e \in 0 .. 15
            PROVE  b[6 + e] \in Int
        <5>1. 6 + e \in 0 .. 21
          BY <1>1
        <5> QED BY ONLY <5>1, Bytes(b, 21), ByteAt
      <4>2. 6 \in Nat
        BY <1>1
      <4> QED BY ONLY <3>1, <4>1, <4>2, x64Nibbles
    <3> HIDE DEF v
    <3> DEFINE high == IF X64!BitOf32(b, 2, l) = 1 THEN 0 ELSE 15 * 16
    <3>3. high \in {0, 240}
      OBVIOUS
    <3>4. x64Q5_0_w(b, h)[m] = X64!I8(v + high)
      BY <2>1 DEF x64Q5_0_w, v, l
    <3> HIDE DEF high
    <3>5. v + high \in 0 .. 255
      BY ONLY <3>2, <3>3, SMTT(30)
    <3>6. X64!I8(v + high) \in -128 .. 128
      BY ONLY <3>5, x64I8
    <3> QED BY ONLY <3>4, <3>6
  <2>2. DOMAIN x64Q5_0_w(b, h) = 0 .. 15
    BY DEF x64Q5_0_w
  <2> QED BY ONLY <2>1, <2>2 DEF Weights
<1>2. \A h \in 0 .. 1 : Weights(x64Q5_0_Dots(b)[h].w, 15, 128)
  BY <1>1 DEF x64Q5_0_Dots, X64!DotOn
<1>3. InRange(Each(x64Q5_0_Dots(b), 0 .. 1), 128)
  <2>1. \A g \in 0 .. 1 : \E n \in LastLanes : Weights(x64Q5_0_Dots(b)[g].w, n, 128)
    BY ONLY <1>2 DEF LastLanes
  <2> QED BY ONLY <2>1, InRangeEach
<1>4. X64!x64VecDotQ5_0Kernel(b).act = 127 /\ X64!x64VecDotQ5_0Kernel(b).words = {}
  BY DEF X64!x64VecDotQ5_0Kernel, X64!SignedPairs, X64!Form,
         X64!Dots32, X64!DotOn, X64!L16, X64!L4, X64!L8
<1> QED BY ONLY <1>3, <1>4, x64Q5_0_Are DEF Narrow, InRange

LEMMA x64Q4_1_Narrow ==
    ASSUME NEW b, Bytes(b, 19)
    PROVE  Narrow(X64!x64VecDotQx1Kernel(FALSE, b), 128, 127)
<1>1. ASSUME NEW h \in 0 .. 1
      PROVE  Weights(x64Q4_1_w(b, h), 15, 127)
  <2>1. ASSUME NEW m \in 0 .. 15
        PROVE  x64Q4_1_w(b, h)[m] \in -127 .. 127
    <3> DEFINE l == 16 * h + m
    <3>1. l \in 0 .. 31
      BY <1>1, <2>1
    <3> HIDE DEF l
    <3> DEFINE v == X64!Nibbles32(b, 4, l)
    <3>2. v \in 0 .. 15
      <4>1. ASSUME NEW e \in 0 .. 15
            PROVE  b[4 + e] \in Int
        <5>1. 4 + e \in 0 .. 19
          BY <1>1
        <5> QED BY ONLY <5>1, Bytes(b, 19), ByteAt
      <4>2. 4 \in Nat
        BY <1>1
      <4> QED BY ONLY <3>1, <4>1, <4>2, x64Nibbles
    <3> HIDE DEF v
    <3>3. x64Q4_1_w(b, h)[m] = v + 0
      BY <2>1 DEF x64Q4_1_w, v, l
    <3> QED BY ONLY <3>2, <3>3
  <2>2. DOMAIN x64Q4_1_w(b, h) = 0 .. 15
    BY DEF x64Q4_1_w
  <2> QED BY ONLY <2>1, <2>2 DEF Weights
<1>2. \A h \in 0 .. 1 : Weights(x64Q4_1_Dots(b)[h].w, 15, 127)
  BY <1>1 DEF x64Q4_1_Dots, X64!DotOn
<1>3. InRange(Each(x64Q4_1_Dots(b), 0 .. 1), 127)
  <2>1. \A g \in 0 .. 1 : \E n \in LastLanes : Weights(x64Q4_1_Dots(b)[g].w, n, 127)
    BY ONLY <1>2 DEF LastLanes
  <2> QED BY ONLY <2>1, InRangeEach
<1>4. X64!x64VecDotQx1Kernel(FALSE, b).act = 128 /\ X64!x64VecDotQx1Kernel(FALSE, b).words = {}
  BY DEF X64!x64VecDotQx1Kernel, X64!UnsignedPairs, X64!Form,
         X64!Dots32, X64!DotOn, X64!L16, X64!L4, X64!L8
<1> QED BY ONLY <1>3, <1>4, x64Q4_1_Are DEF Narrow, InRange

LEMMA x64Q5_1_Narrow ==
    ASSUME NEW b, Bytes(b, 23)
    PROVE  Narrow(X64!x64VecDotQx1Kernel(TRUE, b), 128, 127)
<1>1. ASSUME NEW h \in 0 .. 1
      PROVE  Weights(x64Q5_1_w(b, h), 15, 127)
  <2>1. ASSUME NEW m \in 0 .. 15
        PROVE  x64Q5_1_w(b, h)[m] \in -127 .. 127
    <3> DEFINE l == 16 * h + m
    <3>1. l \in 0 .. 31
      BY <1>1, <2>1
    <3> HIDE DEF l
    <3> DEFINE v == X64!Nibbles32(b, 8, l)
    <3>2. v \in 0 .. 15
      <4>1. ASSUME NEW e \in 0 .. 15
            PROVE  b[8 + e] \in Int
        <5>1. 8 + e \in 0 .. 23
          BY <1>1
        <5> QED BY ONLY <5>1, Bytes(b, 23), ByteAt
      <4>2. 8 \in Nat
        BY <1>1
      <4> QED BY ONLY <3>1, <4>1, <4>2, x64Nibbles
    <3> HIDE DEF v
    <3> DEFINE bit == X64!BitOf32(b, 4, l)
    <3>3. bit \in 0 .. 1
      <4>1. 4 + l \div 8 \in 0 .. 23 /\ l % 8 \in 0 .. 9
        BY <3>1
      <4>2. b[4 + l \div 8] \in Int
        BY ONLY <4>1, Bytes(b, 23), ByteAt
      <4> QED BY <4>1, <4>2, x64Bits DEF X64!BitOf32
    <3> HIDE DEF bit
    <3>4. x64Q5_1_w(b, h)[m] = v + 16 * bit
      BY <2>1 DEF x64Q5_1_w, v, l, bit
    <3> QED BY ONLY <3>2, <3>3, <3>4
  <2>2. DOMAIN x64Q5_1_w(b, h) = 0 .. 15
    BY DEF x64Q5_1_w
  <2> QED BY ONLY <2>1, <2>2 DEF Weights
<1>2. \A h \in 0 .. 1 : Weights(x64Q5_1_Dots(b)[h].w, 15, 127)
  BY <1>1 DEF x64Q5_1_Dots, X64!DotOn
<1>3. InRange(Each(x64Q5_1_Dots(b), 0 .. 1), 127)
  <2>1. \A g \in 0 .. 1 : \E n \in LastLanes : Weights(x64Q5_1_Dots(b)[g].w, n, 127)
    BY ONLY <1>2 DEF LastLanes
  <2> QED BY ONLY <2>1, InRangeEach
<1>4. X64!x64VecDotQx1Kernel(TRUE, b).act = 128 /\ X64!x64VecDotQx1Kernel(TRUE, b).words = {}
  BY DEF X64!x64VecDotQx1Kernel, X64!UnsignedPairs, X64!Form,
         X64!Dots32, X64!DotOn, X64!L16, X64!L4, X64!L8
<1> QED BY ONLY <1>3, <1>4, x64Q5_1_Are DEF Narrow, InRange

LEMMA x64MXFP4_Narrow ==
    ASSUME NEW b, Bytes(b, 16)
    PROVE  Narrow(X64!x64VecDotLUT32("mxfp4", b), 127, 128)
<1>1. ASSUME NEW h \in 0 .. 1
      PROVE  Weights(x64MXFP4_w(b, h), 15, 128)
  <2>1. ASSUME NEW m \in 0 .. 15
        PROVE  x64MXFP4_w(b, h)[m] \in -128 .. 128
    <3> DEFINE l == 16 * h + m
    <3>1. l \in 0 .. 31
      BY <1>1, <2>1
    <3> HIDE DEF l
    <3> DEFINE v == X64!Nibbles32(b, 1, l)
    <3>2. v \in 0 .. 15
      <4>1. ASSUME NEW e \in 0 .. 15
            PROVE  b[1 + e] \in Int
        <5>1. 1 + e \in 0 .. 16
          BY <1>1
        <5> QED BY ONLY <5>1, Bytes(b, 16), ByteAt
      <4>2. 1 \in Nat
        BY <1>1
      <4> QED BY ONLY <3>1, <4>1, <4>2, x64Nibbles
    <3> HIDE DEF v
    <3>3. x64MXFP4_w(b, h)[m] = X64!kvaluesFP4[1 + v]
      BY <2>1 DEF x64MXFP4_w, v, l
    <3> QED BY ONLY <3>2, <3>3, x64Tables
  <2>2. DOMAIN x64MXFP4_w(b, h) = 0 .. 15
    BY DEF x64MXFP4_w
  <2> QED BY ONLY <2>1, <2>2 DEF Weights
<1>2. \A h \in 0 .. 1 : Weights(x64MXFP4_Dots(b)[h].w, 15, 128)
  BY <1>1 DEF x64MXFP4_Dots, X64!DotOn
<1>3. InRange(Each(x64MXFP4_Dots(b), 0 .. 1), 128)
  <2>1. \A g \in 0 .. 1 : \E n \in LastLanes : Weights(x64MXFP4_Dots(b)[g].w, n, 128)
    BY ONLY <1>2 DEF LastLanes
  <2> QED BY ONLY <2>1, InRangeEach
<1>4. X64!x64VecDotLUT32("mxfp4", b).act = 127 /\ X64!x64VecDotLUT32("mxfp4", b).words = {}
  BY DEF X64!x64VecDotLUT32, X64!SignedPairs, X64!Form,
         X64!Dots32, X64!DotOn, X64!L16, X64!L4, X64!L8
<1> QED BY ONLY <1>3, <1>4, x64MXFP4_Are DEF Narrow, InRange

LEMMA x64IQ4NL_Narrow ==
    ASSUME NEW b, Bytes(b, 17)
    PROVE  Narrow(X64!x64VecDotLUT32("iq4_nl", b), 127, 128)
<1>1. ASSUME NEW h \in 0 .. 1
      PROVE  Weights(x64IQ4NL_w(b, h), 15, 128)
  <2>1. ASSUME NEW m \in 0 .. 15
        PROVE  x64IQ4NL_w(b, h)[m] \in -128 .. 128
    <3> DEFINE l == 16 * h + m
    <3>1. l \in 0 .. 31
      BY <1>1, <2>1
    <3> HIDE DEF l
    <3> DEFINE v == X64!Nibbles32(b, 2, l)
    <3>2. v \in 0 .. 15
      <4>1. ASSUME NEW e \in 0 .. 15
            PROVE  b[2 + e] \in Int
        <5>1. 2 + e \in 0 .. 17
          BY <1>1
        <5> QED BY ONLY <5>1, Bytes(b, 17), ByteAt
      <4>2. 2 \in Nat
        BY <1>1
      <4> QED BY ONLY <3>1, <4>1, <4>2, x64Nibbles
    <3> HIDE DEF v
    <3>3. x64IQ4NL_w(b, h)[m] = X64!kvaluesIQ4NL[1 + v]
      BY <2>1 DEF x64IQ4NL_w, v, l
    <3> QED BY ONLY <3>2, <3>3, x64Tables
  <2>2. DOMAIN x64IQ4NL_w(b, h) = 0 .. 15
    BY DEF x64IQ4NL_w
  <2> QED BY ONLY <2>1, <2>2 DEF Weights
<1>2. \A h \in 0 .. 1 : Weights(x64IQ4NL_Dots(b)[h].w, 15, 128)
  BY <1>1 DEF x64IQ4NL_Dots, X64!DotOn
<1>3. InRange(Each(x64IQ4NL_Dots(b), 0 .. 1), 128)
  <2>1. \A g \in 0 .. 1 : \E n \in LastLanes : Weights(x64IQ4NL_Dots(b)[g].w, n, 128)
    BY ONLY <1>2 DEF LastLanes
  <2> QED BY ONLY <2>1, InRangeEach
<1>4. X64!x64VecDotLUT32("iq4_nl", b).act = 127 /\ X64!x64VecDotLUT32("iq4_nl", b).words = {}
  BY DEF X64!x64VecDotLUT32, X64!SignedPairs, X64!Form,
         X64!Dots32, X64!DotOn, X64!L16, X64!L4, X64!L8
<1> QED BY ONLY <1>3, <1>4, x64IQ4NL_Are DEF Narrow, InRange

LEMMA x64IQ4XS_Narrow ==
    ASSUME NEW b, Bytes(b, 135)
    PROVE  Narrow(X64!x64VecDotIQ4XSKernel(b), 127, 128)
<1>1. ASSUME NEW g \in 0 .. 7, NEW h \in 0 .. 1
      PROVE  Weights(x64IQ4XS_w(b, g, h), 15, 128)
  <2>1. ASSUME NEW m \in 0 .. 15
        PROVE  x64IQ4XS_w(b, g, h)[m] \in -128 .. 128
    <3> DEFINE l == 16 * h + m
    <3>1. l \in 0 .. 31
      BY <1>1, <2>1
    <3> HIDE DEF l
    <3> DEFINE v == X64!Nibbles32(b, 8 + 16 * g, l)
    <3>2. v \in 0 .. 15
      <4>1. ASSUME NEW e \in 0 .. 15
            PROVE  b[8 + 16 * g + e] \in Int
        <5>1. 8 + 16 * g + e \in 0 .. 135
          BY <1>1
        <5> QED BY ONLY <5>1, Bytes(b, 135), ByteAt
      <4>2. 8 + 16 * g \in Nat
        BY <1>1
      <4> QED BY ONLY <3>1, <4>1, <4>2, x64Nibbles
    <3> HIDE DEF v
    <3>3. x64IQ4XS_w(b, g, h)[m] = X64!kvaluesIQ4NL[1 + v]
      BY <2>1 DEF x64IQ4XS_w, v, l
    <3> QED BY ONLY <3>2, <3>3, x64Tables
  <2>2. DOMAIN x64IQ4XS_w(b, g, h) = 0 .. 15
    BY DEF x64IQ4XS_w
  <2> QED BY ONLY <2>1, <2>2 DEF Weights
<1>2. \A g \in 0 .. 7, h \in 0 .. 1 : Weights(x64IQ4XS_Dots(b)[g][h].w, 15, 128)
  BY <1>1 DEF x64IQ4XS_Dots, X64!DotOn
<1>3. InRange(Dots82(x64IQ4XS_Dots(b)), 128)
  BY ONLY <1>2, InRange82
<1>4. X64!x64VecDotIQ4XSKernel(b).act = 127 /\ X64!x64VecDotIQ4XSKernel(b).words = {}
  BY DEF X64!x64VecDotIQ4XSKernel, X64!SignedPairs, X64!Form,
         X64!Dots32, X64!DotOn, X64!L16, X64!L4, X64!L8
<1> QED BY ONLY <1>3, <1>4, x64IQ4XS_Are DEF Narrow, InRange

LEMMA x64Q4_K_Narrow ==
    ASSUME NEW b, Bytes(b, 143)
    PROVE  Narrow(X64!x64VecDotQ4_KKernel(b), 128, 127)
<1>1. ASSUME NEW j \in 0 .. 3, NEW f \in 0 .. 1, NEW h \in 0 .. 1
      PROVE  Weights(x64Q4_K_w(b, j, f, h), 15, 127)
  <2>1. ASSUME NEW m \in 0 .. 15
        PROVE  x64Q4_K_w(b, j, f, h)[m] \in -127 .. 127
    <3> DEFINE l == 16 * h + m
    <3>1. l \in 0 .. 31
      BY <1>1, <2>1
    <3> HIDE DEF l
    <3> DEFINE v == X64!Shr(b, 16 + 32 * j, l, 4, 2)
    <3>2. v \in 0 .. 255
      <4>1. b[16 + 32 * j + l] \in Int
        <5>1. 16 + 32 * j + l \in 0 .. 143
          BY <1>1, <3>1
        <5> QED BY ONLY <5>1, Bytes(b, 143), ByteAt
      <4>2. (l + 1) % 2 = 0 \/ b[16 + 32 * j + l + 1] \in Int
        <5>1. (l + 1) % 2 = 0 \/ 16 + 32 * j + l + 1 \in 0 .. 143
          BY <1>1, <3>1
        <5> QED BY ONLY <5>1, Bytes(b, 143), ByteAt
      <4>3. 4 \in 0 .. 7
        BY <1>1
      <4> QED BY ONLY <4>1, <4>2, <4>3, x64Shr
    <3> HIDE DEF v
    <3>3. b[16 + 32 * j + l] \in Int
      <4>1. 16 + 32 * j + l \in 0 .. 143
        BY <1>1, <3>1
      <4> QED BY ONLY <4>1, Bytes(b, 143), ByteAt
    <3> DEFINE u == b[16 + 32 * j + l]
    <3>4. x64Q4_K_w(b, j, f, h)[m] = IF f = 0 THEN (u % 16) + 0 ELSE (v % 16) + 0
      BY <2>1 DEF x64Q4_K_w, v, l, X64!NoBits
    <3> HIDE DEF u
    <3>5. (u % 16) + 0 \in 0 .. 15 /\ (v % 16) + 0 \in 0 .. 15
      BY <3>2, <3>3 DEF u
    <3> QED BY ONLY <3>4, <3>5
  <2>2. DOMAIN x64Q4_K_w(b, j, f, h) = 0 .. 15
    BY DEF x64Q4_K_w
  <2> QED BY ONLY <2>1, <2>2 DEF Weights
<1>2. \A j \in 0 .. 3, f \in 0 .. 1, h \in 0 .. 1 : Weights(x64Q4_K_Dots(b)[j][f][h].w, 15, 127)
  BY <1>1, SMTT(30) DEF x64Q4_K_Dots, X64!DotOn
<1>3. InRange(Dots422(x64Q4_K_Dots(b)), 127)
  BY ONLY <1>2, InRange422
<1>4. X64!x64VecDotQ4_KKernel(b).act = 128 /\ X64!x64VecDotQ4_KKernel(b).words = {}
  BY DEF X64!x64VecDotQ4_KKernel, X64!x64KBlock, X64!UnsignedPairs, X64!Form,
         X64!Dots32, X64!DotOn, X64!L16, X64!L4, X64!L8
<1> QED BY ONLY <1>3, <1>4, x64Q4_K_Are DEF Narrow, InRange

LEMMA x64Q5_K_Narrow ==
    ASSUME NEW b, Bytes(b, 175)
    PROVE  Narrow(X64!x64VecDotQ5_KKernel(b), 128, 127)
<1>1. ASSUME NEW j \in 0 .. 3, NEW f \in 0 .. 1, NEW h \in 0 .. 1
      PROVE  Weights(x64Q5_K_w(b, j, f, h), 15, 127)
  <2>1. ASSUME NEW m \in 0 .. 15
        PROVE  x64Q5_K_w(b, j, f, h)[m] \in -127 .. 127
    <3> DEFINE l == 16 * h + m
    <3>1. l \in 0 .. 31
      BY <1>1, <2>1
    <3> HIDE DEF l
    <3> DEFINE v == X64!Shr(b, 48 + 32 * j, l, 4, 2)
    <3>2. v \in 0 .. 255
      <4>1. b[48 + 32 * j + l] \in Int
        <5>1. 48 + 32 * j + l \in 0 .. 175
          BY <1>1, <3>1
        <5> QED BY ONLY <5>1, Bytes(b, 175), ByteAt
      <4>2. (l + 1) % 2 = 0 \/ b[48 + 32 * j + l + 1] \in Int
        <5>1. (l + 1) % 2 = 0 \/ 48 + 32 * j + l + 1 \in 0 .. 175
          BY <1>1, <3>1
        <5> QED BY ONLY <5>1, Bytes(b, 175), ByteAt
      <4>3. 4 \in 0 .. 7
        BY <1>1
      <4> QED BY ONLY <4>1, <4>2, <4>3, x64Shr
    <3> HIDE DEF v
    <3> DEFINE qh == X64!Shr(b, 16, l, 2 * j, 2)
    <3>3. qh \in 0 .. 255
      <4>1. b[16 + l] \in Int
        <5>1. 16 + l \in 0 .. 175
          BY <1>1, <3>1
        <5> QED BY ONLY <5>1, Bytes(b, 175), ByteAt
      <4>2. (l + 1) % 2 = 0 \/ b[16 + l + 1] \in Int
        <5>1. (l + 1) % 2 = 0 \/ 16 + l + 1 \in 0 .. 175
          BY <1>1, <3>1
        <5> QED BY ONLY <5>1, Bytes(b, 175), ByteAt
      <4>3. 2 * j \in 0 .. 7
        BY <1>1
      <4> QED BY ONLY <4>1, <4>2, <4>3, x64Shr
    <3> HIDE DEF qh
    <3>4. b[48 + 32 * j + l] \in Int
      <4>1. 48 + 32 * j + l \in 0 .. 175
        BY <1>1, <3>1
      <4> QED BY ONLY <4>1, Bytes(b, 175), ByteAt
    <3> DEFINE u == b[48 + 32 * j + l]
               low == X64!Bits(qh, 0, 1)
               high == X64!Bits(qh, 1, 1)
    <3>5. x64Q5_K_w(b, j, f, h)[m] = IF f = 0 THEN (u % 16) + low * 2^4 ELSE (v % 16) + high * 2 * 2^3
      BY <2>1 DEF x64Q5_K_w, v, l, qh
    <3>6. low \in 0 .. 1 /\ high \in 0 .. 1
      <4>1. qh \in Int /\ 0 \in 0 .. 9 /\ 1 \in 0 .. 9
        BY <3>3
      <4> QED BY ONLY <4>1, x64Bits
    <3>7. (u % 16) \in 0 .. 15 /\ (v % 16) \in 0 .. 15
      BY <3>2, <3>4
    <3> HIDE DEF u, low, high
    <3>8. low * 2^4 \in 0 .. 16 /\ high * 2 * 2^3 \in 0 .. 16
      <4>1. 2^4 = 16 /\ 2^3 = 8
        OBVIOUS
      <4> QED BY ONLY <3>6, <4>1
    <3> QED BY ONLY <3>5, <3>7, <3>8
  <2>2. DOMAIN x64Q5_K_w(b, j, f, h) = 0 .. 15
    BY DEF x64Q5_K_w
  <2> QED BY ONLY <2>1, <2>2 DEF Weights
<1>2. \A j \in 0 .. 3, f \in 0 .. 1, h \in 0 .. 1 : Weights(x64Q5_K_Dots(b)[j][f][h].w, 15, 127)
  BY <1>1 DEF x64Q5_K_Dots, X64!DotOn
<1>3. InRange(Dots422(x64Q5_K_Dots(b)), 127)
  BY ONLY <1>2, InRange422
<1>4. X64!x64VecDotQ5_KKernel(b).act = 128 /\ X64!x64VecDotQ5_KKernel(b).words = {}
  BY DEF X64!x64VecDotQ5_KKernel, X64!x64KBlock, X64!UnsignedPairs, X64!Form,
         X64!Dots32, X64!DotOn, X64!L16, X64!L4, X64!L8
<1> QED BY ONLY <1>3, <1>4, x64Q5_K_Are DEF Narrow, InRange

LEMMA x64Q6_K_Narrow ==
    ASSUME NEW b, Bytes(b, 209)
    PROVE  Narrow(X64!x64VecDotQ6_KKernel(b), 128, 127)
<1>1. ASSUME NEW j \in 0 .. 1, NEW t \in 0 .. 3, NEW h \in 0 .. 1
      PROVE  Weights(x64Q6_K_w(b, j, t, h), 15, 127)
  <2>1. ASSUME NEW m \in 0 .. 15
        PROVE  x64Q6_K_w(b, j, t, h)[m] \in -127 .. 127
    <3> DEFINE l == 16 * h + m
    <3>1. l \in 0 .. 31
      BY <1>1, <2>1
    <3> HIDE DEF l
    <3> DEFINE q0 == X64!Shr(b, 64 * j + 0, l, 0, 2)
    <3>2. q0 \in 0 .. 255
      <4>1. b[64 * j + 0 + l] \in Int
        <5>1. 64 * j + 0 + l \in 0 .. 209
          BY <1>1, <3>1
        <5> QED BY ONLY <5>1, Bytes(b, 209), ByteAt
      <4>2. (l + 1) % 2 = 0 \/ b[64 * j + 0 + l + 1] \in Int
        <5>1. (l + 1) % 2 = 0 \/ 64 * j + 0 + l + 1 \in 0 .. 209
          BY <1>1, <3>1
        <5> QED BY ONLY <5>1, Bytes(b, 209), ByteAt
      <4>3. 0 \in 0 .. 7
        BY <1>1
      <4> QED BY ONLY <4>1, <4>2, <4>3, x64Shr
    <3> HIDE DEF q0
    <3> DEFINE q1 == X64!Shr(b, 64 * j + 32, l, 0, 2)
    <3>3. q1 \in 0 .. 255
      <4>1. b[64 * j + 32 + l] \in Int
        <5>1. 64 * j + 32 + l \in 0 .. 209
          BY <1>1, <3>1
        <5> QED BY ONLY <5>1, Bytes(b, 209), ByteAt
      <4>2. (l + 1) % 2 = 0 \/ b[64 * j + 32 + l + 1] \in Int
        <5>1. (l + 1) % 2 = 0 \/ 64 * j + 32 + l + 1 \in 0 .. 209
          BY <1>1, <3>1
        <5> QED BY ONLY <5>1, Bytes(b, 209), ByteAt
      <4>3. 0 \in 0 .. 7
        BY <1>1
      <4> QED BY ONLY <4>1, <4>2, <4>3, x64Shr
    <3> HIDE DEF q1
    <3> DEFINE q2 == X64!Shr(b, 64 * j + 0, l, 4, 2)
    <3>4. q2 \in 0 .. 255
      <4>1. b[64 * j + 0 + l] \in Int
        <5>1. 64 * j + 0 + l \in 0 .. 209
          BY <1>1, <3>1
        <5> QED BY ONLY <5>1, Bytes(b, 209), ByteAt
      <4>2. (l + 1) % 2 = 0 \/ b[64 * j + 0 + l + 1] \in Int
        <5>1. (l + 1) % 2 = 0 \/ 64 * j + 0 + l + 1 \in 0 .. 209
          BY <1>1, <3>1
        <5> QED BY ONLY <5>1, Bytes(b, 209), ByteAt
      <4>3. 4 \in 0 .. 7
        BY <1>1
      <4> QED BY ONLY <4>1, <4>2, <4>3, x64Shr
    <3> HIDE DEF q2
    <3> DEFINE q3 == X64!Shr(b, 64 * j + 32, l, 4, 2)
    <3>5. q3 \in 0 .. 255
      <4>1. b[64 * j + 32 + l] \in Int
        <5>1. 64 * j + 32 + l \in 0 .. 209
          BY <1>1, <3>1
        <5> QED BY ONLY <5>1, Bytes(b, 209), ByteAt
      <4>2. (l + 1) % 2 = 0 \/ b[64 * j + 32 + l + 1] \in Int
        <5>1. (l + 1) % 2 = 0 \/ 64 * j + 32 + l + 1 \in 0 .. 209
          BY <1>1, <3>1
        <5> QED BY ONLY <5>1, Bytes(b, 209), ByteAt
      <4>3. 4 \in 0 .. 7
        BY <1>1
      <4> QED BY ONLY <4>1, <4>2, <4>3, x64Shr
    <3> HIDE DEF q3
    <3> DEFINE u == b[128 + 32 * j + l]
    <3>6. u \in Int
      <4>1. 128 + 32 * j + l \in 0 .. 209
        BY <1>1, <3>1
      <4> QED BY ONLY <4>1, Bytes(b, 209), ByteAt
    <3> HIDE DEF u
    <3> DEFINE e0 == X64!Bits(u, 0, 2)
               e1 == X64!Bits(u, 2, 2)
               e2 == X64!Bits(u, 4, 2)
               e3 == X64!Bits(u, 6, 2)
    <3>7. e0 \in 0 .. 3 /\ e1 \in 0 .. 3 /\ e2 \in 0 .. 3 /\ e3 \in 0 .. 3
      <4>1. 0 \in 0 .. 9 /\ 2 \in 0 .. 9 /\ 4 \in 0 .. 9 /\ 6 \in 0 .. 9
        OBVIOUS
      <4> QED BY ONLY <3>6, <4>1, x64Bits
    <3>8. x64Q6_K_w(b, j, t, h)[m] =
             CASE t = 0 -> (q0 % 16) + e0 * 2^4
               [] t = 1 -> (q1 % 16) + e1 * 4 * 2^2
               [] t = 2 -> (q2 % 16) + e2 * 16
               [] t = 3 -> (q3 % 16) + (e3 * 64) \div 2^2
      BY <2>1 DEF x64Q6_K_w, l, q0, q1, q2, q3, u
    <3> HIDE DEF e0, e1, e2, e3
    <3>9. q0 % 16 \in 0 .. 15 /\ q1 % 16 \in 0 .. 15 /\ q2 % 16 \in 0 .. 15 /\ q3 % 16 \in 0 .. 15
      BY ONLY <3>2, <3>3, <3>4, <3>5
    <3>10. e0 * 2^4 \in 0 .. 48 /\ e1 * 4 * 2^2 \in 0 .. 48 /\ e2 * 16 \in 0 .. 48
           /\ (e3 * 64) \div 2^2 \in 0 .. 48
      <4>1. 2^4 = 16 /\ 2^2 = 4
        OBVIOUS
      <4> QED BY ONLY <3>7, <4>1
    <3>11. t = 0 \/ t = 1 \/ t = 2 \/ t = 3
      BY <1>1
    <3> QED BY ONLY <3>8, <3>9, <3>10, <3>11
  <2>2. DOMAIN x64Q6_K_w(b, j, t, h) = 0 .. 15
    BY DEF x64Q6_K_w
  <2> QED BY ONLY <2>1, <2>2 DEF Weights
<1>2. \A j \in 0 .. 1, t \in 0 .. 3, h \in 0 .. 1 : Weights(x64Q6_K_Dots(b)[j][t][h].w, 15, 127)
  BY <1>1, SMTT(30) DEF x64Q6_K_Dots, X64!DotOn
<1>3. InRange(Dots242(x64Q6_K_Dots(b)), 127)
  BY ONLY <1>2, InRange242
<1>4. X64!x64VecDotQ6_KKernel(b).act = 128 /\ X64!x64VecDotQ6_KKernel(b).words = {}
  BY DEF X64!x64VecDotQ6_KKernel, X64!UnsignedPairs, X64!Form,
         X64!Dots32, X64!DotOn, X64!L16, X64!L4, X64!L8
<1> QED BY ONLY <1>3, <1>4, x64Q6_K_Are DEF Narrow, InRange

LEMMA x64Q2_K_Narrow ==
    ASSUME NEW b, Bytes(b, 83)
    PROVE  Narrow(X64!x64VecDotQ2_KKernel(b), 128, 127)
<1>1. ASSUME NEW j \in 0 .. 1, NEW t \in 0 .. 3, NEW h \in 0 .. 1
      PROVE  Weights(x64Q2_K_w(b, j, t, h), 15, 127)
  <2>1. ASSUME NEW m \in 0 .. 15
        PROVE  x64Q2_K_w(b, j, t, h)[m] \in -127 .. 127
    <3> DEFINE l == 16 * h + m
    <3>1. l \in 0 .. 31
      BY <1>1, <2>1
    <3> HIDE DEF l
    <3> DEFINE v == X64!Shr(b, 16 + 32 * j, l, 2 * t, 2)
    <3>2. v \in 0 .. 255
      <4>1. b[16 + 32 * j + l] \in Int
        <5>1. 16 + 32 * j + l \in 0 .. 83
          BY <1>1, <3>1
        <5> QED BY ONLY <5>1, Bytes(b, 83), ByteAt
      <4>2. (l + 1) % 2 = 0 \/ b[16 + 32 * j + l + 1] \in Int
        <5>1. (l + 1) % 2 = 0 \/ 16 + 32 * j + l + 1 \in 0 .. 83
          BY <1>1, <3>1
        <5> QED BY ONLY <5>1, Bytes(b, 83), ByteAt
      <4>3. 2 * t \in 0 .. 7
        BY <1>1
      <4> QED BY ONLY <4>1, <4>2, <4>3, x64Shr
    <3> HIDE DEF v
    <3>3. x64Q2_K_w(b, j, t, h)[m] = (v % 4) + 0
      BY <2>1 DEF x64Q2_K_w, v, l
    <3>4. v % 4 \in 0 .. 3
      BY ONLY <3>2
    <3> QED BY ONLY <3>3, <3>4
  <2>2. DOMAIN x64Q2_K_w(b, j, t, h) = 0 .. 15
    BY DEF x64Q2_K_w
  <2> QED BY ONLY <2>1, <2>2 DEF Weights
<1>2. \A j \in 0 .. 1, t \in 0 .. 3, h \in 0 .. 1 : Weights(x64Q2_K_Dots(b)[j][t][h].w, 15, 127)
  BY <1>1 DEF x64Q2_K_Dots, X64!DotOn
<1>3. InRange(Dots242(x64Q2_K_Dots(b)), 127)
  BY ONLY <1>2, InRange242
<1>4. X64!x64VecDotQ2_KKernel(b).act = 128 /\ X64!x64VecDotQ2_KKernel(b).words = {}
  BY DEF X64!x64VecDotQ2_KKernel, X64!UnsignedPairs, X64!Form,
         X64!Dots32, X64!DotOn, X64!L16, X64!L4, X64!L8, X64!Planes
<1> QED BY ONLY <1>3, <1>4, x64Q2_K_Are DEF Narrow, InRange

LEMMA x64Q3_K_Narrow ==
    ASSUME NEW b, Bytes(b, 109)
    PROVE  Narrow(X64!x64VecDotQ3_KKernel(b), 128, 127)
<1>1. ASSUME NEW j \in 0 .. 1, NEW t \in 0 .. 3, NEW h \in 0 .. 1
      PROVE  Weights(x64Q3_K_w(b, j, t, h), 15, 127)
  <2>1. ASSUME NEW m \in 0 .. 15
        PROVE  x64Q3_K_w(b, j, t, h)[m] \in -127 .. 127
    <3> DEFINE l == 16 * h + m
    <3>1. l \in 0 .. 31
      BY <1>1, <2>1
    <3> HIDE DEF l
    <3> DEFINE v == X64!Shr(b, 32 + 32 * j, l, 2 * t, 2)
    <3>2. v \in 0 .. 255
      <4>1. b[32 + 32 * j + l] \in Int
        <5>1. 32 + 32 * j + l \in 0 .. 109
          BY <1>1, <3>1
        <5> QED BY ONLY <5>1, Bytes(b, 109), ByteAt
      <4>2. (l + 1) % 2 = 0 \/ b[32 + 32 * j + l + 1] \in Int
        <5>1. (l + 1) % 2 = 0 \/ 32 + 32 * j + l + 1 \in 0 .. 109
          BY <1>1, <3>1
        <5> QED BY ONLY <5>1, Bytes(b, 109), ByteAt
      <4>3. 2 * t \in 0 .. 7
        BY <1>1
      <4> QED BY ONLY <4>1, <4>2, <4>3, x64Shr
    <3> HIDE DEF v
    <3> DEFINE u == X64!Shr(b, 0, l, 4 * j + t, 2)
    <3>3. u \in 0 .. 255
      <4>1. b[0 + l] \in Int
        <5>1. 0 + l \in 0 .. 109
          BY <1>1, <3>1
        <5> QED BY ONLY <5>1, Bytes(b, 109), ByteAt
      <4>2. (l + 1) % 2 = 0 \/ b[0 + l + 1] \in Int
        <5>1. (l + 1) % 2 = 0 \/ 0 + l + 1 \in 0 .. 109
          BY <1>1, <3>1
        <5> QED BY ONLY <5>1, Bytes(b, 109), ByteAt
      <4>3. 4 * j + t \in 0 .. 7
        BY <1>1
      <4> QED BY ONLY <4>1, <4>2, <4>3, x64Shr
    <3> HIDE DEF u
    <3>4. x64Q3_K_w(b, j, t, h)[m] = (v % 4) + (u % 2) * 2^2
      BY <2>1 DEF x64Q3_K_w, v, l, u
    <3>5. v % 4 \in 0 .. 3 /\ u % 2 \in 0 .. 1 /\ 2^2 = 4
      BY ONLY <3>2, <3>3
    <3> QED BY ONLY <3>4, <3>5
  <2>2. DOMAIN x64Q3_K_w(b, j, t, h) = 0 .. 15
    BY DEF x64Q3_K_w
  <2> QED BY ONLY <2>1, <2>2 DEF Weights
<1>2. \A j \in 0 .. 1, t \in 0 .. 3, h \in 0 .. 1 : Weights(x64Q3_K_Dots(b)[j][t][h].w, 15, 127)
  BY <1>1 DEF x64Q3_K_Dots, X64!DotOn
<1>3. InRange(Dots242(x64Q3_K_Dots(b)), 127)
  BY ONLY <1>2, InRange242
<1>4. X64!x64VecDotQ3_KKernel(b).act = 128 /\ X64!x64VecDotQ3_KKernel(b).words = {}
  BY DEF X64!x64VecDotQ3_KKernel, X64!UnsignedPairs, X64!Form,
         X64!Dots32, X64!DotOn, X64!L16, X64!L4, X64!L8, X64!Planes
<1> QED BY ONLY <1>3, <1>4, x64Q3_K_Are DEF Narrow, InRange

LEMMA x64TQ2_0_Narrow ==
    ASSUME NEW b, Bytes(b, 65)
    PROVE  Narrow(X64!x64VecDotTQ2_0Kernel(b), 127, 128)
<1>1. ASSUME NEW j \in 0 .. 1, NEW t \in 0 .. 3, NEW h \in 0 .. 1
      PROVE  Weights(x64TQ2_0_w(b, j, t, h), 15, 128)
  <2>1. ASSUME NEW m \in 0 .. 15
        PROVE  x64TQ2_0_w(b, j, t, h)[m] \in -128 .. 128
    <3> DEFINE l == 16 * h + m
    <3>1. l \in 0 .. 31
      BY <1>1, <2>1
    <3> HIDE DEF l
    <3> DEFINE v == X64!Shr(b, 32 * j, l, 2 * t, 2)
    <3>2. v \in 0 .. 255
      <4>1. b[32 * j + l] \in Int
        <5>1. 32 * j + l \in 0 .. 65
          BY <1>1, <3>1
        <5> QED BY ONLY <5>1, Bytes(b, 65), ByteAt
      <4>2. (l + 1) % 2 = 0 \/ b[32 * j + l + 1] \in Int
        <5>1. (l + 1) % 2 = 0 \/ 32 * j + l + 1 \in 0 .. 65
          BY <1>1, <3>1
        <5> QED BY ONLY <5>1, Bytes(b, 65), ByteAt
      <4>3. 2 * t \in 0 .. 7
        BY <1>1
      <4> QED BY ONLY <4>1, <4>2, <4>3, x64Shr
    <3> HIDE DEF v
    <3>3. x64TQ2_0_w(b, j, t, h)[m] = (v % 4) - 1
      BY <2>1 DEF x64TQ2_0_w, v, l
    <3>4. v % 4 \in 0 .. 3
      BY ONLY <3>2
    <3> QED BY ONLY <3>3, <3>4
  <2>2. DOMAIN x64TQ2_0_w(b, j, t, h) = 0 .. 15
    BY DEF x64TQ2_0_w
  <2> QED BY ONLY <2>1, <2>2 DEF Weights
<1>2. \A j \in 0 .. 1, t \in 0 .. 3, h \in 0 .. 1 : Weights(x64TQ2_0_Dots(b)[j][t][h].w, 15, 128)
  BY <1>1, SMTT(30) DEF x64TQ2_0_Dots, X64!DotOn
<1>3. InRange(Dots242(x64TQ2_0_Dots(b)), 128)
  BY ONLY <1>2, InRange242
<1>4. X64!x64VecDotTQ2_0Kernel(b).act = 127 /\ X64!x64VecDotTQ2_0Kernel(b).words = {}
  BY DEF X64!x64VecDotTQ2_0Kernel, X64!SignedPairs, X64!Form,
         X64!Dots32, X64!DotOn, X64!L16, X64!L4, X64!L8
<1> QED BY ONLY <1>3, <1>4, x64TQ2_0_Are DEF Narrow, InRange

LEMMA x64IQ3XXS_Narrow ==
    ASSUME NEW b, Bytes(b, 97)
    PROVE  Narrow(X64!x64VecDotIQ3(FALSE, b), 127, 128)
<1>1. ASSUME NEW g \in 0 .. 7, NEW h \in 0 .. 1
      PROVE  Weights(x64IQ3XXS_w(b, g, h), 15, 128)
  <2>1. ASSUME NEW m \in 0 .. 15
        PROVE  x64IQ3XXS_w(b, g, h)[m] \in -128 .. 128
    <3> DEFINE l == 16 * h + m
    <3>1. l \in 0 .. 31
      BY <1>1, <2>1
    <3> HIDE DEF l
    <3> DEFINE e == b[2 + 8 * g + l \div 4] + 0
    <3>2. b[2 + 8 * g + l \div 4] \in 0 .. 255
      <4>1. 2 + 8 * g + l \div 4 \in 0 .. 97
        BY <1>1, <3>1
      <4> QED BY ONLY <4>1, Bytes(b, 97), ByteAt
    <3>3. e \in 0 .. 255
      BY ONLY <3>2
    <3> HIDE DEF e
    <3>4. l % 4 \in 0 .. 7
      BY <3>1
    <3>5. Grid("iq3_xxs", e, l % 4) \in -62 .. 62
      <4>1. GridWithin("iq3_xxs", 255)
        BY GridRange
      <4> QED BY ONLY <3>3, <3>4, <4>1, GridAt
    <3>6. X64!kevenSigns(X64!Field(b, 66 + 4 * g, 7 * (l \div 8), 7), l % 8) \in {-1, 1}
      BY x64SignBit
    <3>7. x64IQ3XXS_w(b, g, h)[m] = Grid("iq3_xxs", e, l % 4) * X64!kevenSigns(X64!Field(b, 66 + 4 * g, 7 * (l \div 8), 7), l % 8)
      BY <2>1 DEF x64IQ3XXS_w, l, e
    <3> DEFINE x == Grid("iq3_xxs", e, l % 4)
               s == X64!kevenSigns(X64!Field(b, 66 + 4 * g, 7 * (l \div 8), 7), l % 8)
    <3>8. x \in -62 .. 62 /\ s \in {-1, 1} /\ x64IQ3XXS_w(b, g, h)[m] = x * s
      BY ONLY <3>5, <3>6, <3>7
    <3> HIDE DEF x, s
    <3>9. x * s \in -128 .. 128
      BY ONLY <3>8, Signed16
    <3> QED BY ONLY <3>8, <3>9
  <2>2. DOMAIN x64IQ3XXS_w(b, g, h) = 0 .. 15
    BY DEF x64IQ3XXS_w
  <2> QED BY ONLY <2>1, <2>2 DEF Weights
<1>2. \A g \in 0 .. 7, h \in 0 .. 1 : Weights(x64IQ3XXS_Dots(b)[g][h].w, 15, 128)
  BY <1>1 DEF x64IQ3XXS_Dots, X64!DotOn
<1>3. InRange(Dots82(x64IQ3XXS_Dots(b)), 128)
  BY ONLY <1>2, InRange82
<1>4. X64!x64VecDotIQ3(FALSE, b).act = 127 /\ X64!x64VecDotIQ3(FALSE, b).words = {}
  BY DEF X64!x64VecDotIQ3, X64!GridDots32, X64!SignedPairs, X64!Form,
         X64!Dots32, X64!DotOn, X64!L16, X64!L4, X64!L8
<1> QED BY ONLY <1>3, <1>4, x64IQ3XXS_Are DEF Narrow, InRange

LEMMA x64IQ3S_Narrow ==
    ASSUME NEW b, Bytes(b, 109)
    PROVE  Narrow(X64!x64VecDotIQ3(TRUE, b), 127, 128)
<1>1. ASSUME NEW g \in 0 .. 7, NEW h \in 0 .. 1
      PROVE  Weights(x64IQ3S_w(b, g, h), 15, 128)
  <2>1. ASSUME NEW m \in 0 .. 15
        PROVE  x64IQ3S_w(b, g, h)[m] \in -128 .. 128
    <3> DEFINE l == 16 * h + m
    <3>1. l \in 0 .. 31
      BY <1>1, <2>1
    <3> HIDE DEF l
    <3>2. b[2 + 8 * g + l \div 4] \in 0 .. 255
      <4>1. 2 + 8 * g + l \div 4 \in 0 .. 109
        BY <1>1, <3>1
      <4> QED BY ONLY <4>1, Bytes(b, 109), ByteAt
    <3> DEFINE c == X64!Bits(b[66 + g], l \div 4, 1)
    <3>3. c \in 0 .. 1
      <4>1. 66 + g \in 0 .. 109 /\ l \div 4 \in 0 .. 9
        BY <1>1, <3>1
      <4>2. b[66 + g] \in Int
        BY ONLY <4>1, Bytes(b, 109), ByteAt
      <4> QED BY ONLY <4>1, <4>2, x64Bits
    <3> HIDE DEF c
    <3> DEFINE e == b[2 + 8 * g + l \div 4] + 256 * c
    <3>4. e \in 0 .. 511
      BY ONLY <3>2, <3>3
    <3> HIDE DEF e
    <3>5. l % 4 \in 0 .. 7
      BY <3>1
    <3>6. Grid("iq3_s", e, l % 4) \in -62 .. 62
      <4>1. GridWithin("iq3_s", 511)
        BY GridRange
      <4> QED BY ONLY <3>4, <3>5, <4>1, GridAt
    <3>7. X64!SignBit(b[74 + 4 * g + l \div 8], l % 8) \in {-1, 1}
      BY x64SignBit
    <3>8. x64IQ3S_w(b, g, h)[m] = Grid("iq3_s", e, l % 4) * X64!SignBit(b[74 + 4 * g + l \div 8], l % 8)
      BY <2>1 DEF x64IQ3S_w, l, e, c
    <3> DEFINE x == Grid("iq3_s", e, l % 4)
               s == X64!SignBit(b[74 + 4 * g + l \div 8], l % 8)
    <3>9. x \in -62 .. 62 /\ s \in {-1, 1} /\ x64IQ3S_w(b, g, h)[m] = x * s
      BY ONLY <3>6, <3>7, <3>8
    <3> HIDE DEF x, s
    <3>10. x * s \in -128 .. 128
      BY ONLY <3>9, Signed16
    <3> QED BY ONLY <3>9, <3>10
  <2>2. DOMAIN x64IQ3S_w(b, g, h) = 0 .. 15
    BY DEF x64IQ3S_w
  <2> QED BY ONLY <2>1, <2>2 DEF Weights
<1>2. \A g \in 0 .. 7, h \in 0 .. 1 : Weights(x64IQ3S_Dots(b)[g][h].w, 15, 128)
  BY <1>1 DEF x64IQ3S_Dots, X64!DotOn
<1>3. InRange(Dots82(x64IQ3S_Dots(b)), 128)
  BY ONLY <1>2, InRange82
<1>4. X64!x64VecDotIQ3(TRUE, b).act = 127 /\ X64!x64VecDotIQ3(TRUE, b).words = {}
  BY DEF X64!x64VecDotIQ3, X64!GridDots32, X64!SignedPairs, X64!Form,
         X64!Dots32, X64!DotOn, X64!L16, X64!L4, X64!L8
<1> QED BY ONLY <1>3, <1>4, x64IQ3S_Are DEF Narrow, InRange

LEMMA x64IQ2S_Narrow ==
    ASSUME NEW b, Bytes(b, 81)
    PROVE  Narrow(X64!x64VecDotIQ2("iq2_s", b), 127, 128)
<1>1. ASSUME NEW g \in 0 .. 7, NEW h \in 0 .. 1
      PROVE  Weights(x64IQ2S_w(b, g, h), 15, 128)
  <2>1. ASSUME NEW m \in 0 .. 15
        PROVE  x64IQ2S_w(b, g, h)[m] \in -128 .. 128
    <3> DEFINE l == 16 * h + m
    <3>1. l \in 0 .. 31
      BY <1>1, <2>1
    <3> HIDE DEF l
    <3>2. b[2 + 4 * g + l \div 8] \in 0 .. 255
      <4>1. 2 + 4 * g + l \div 8 \in 0 .. 81
        BY <1>1, <3>1
      <4> QED BY ONLY <4>1, Bytes(b, 81), ByteAt
    <3> DEFINE c == X64!Bits(b[66 + g], 2 * (l \div 8), 2)
    <3>3. c \in 0 .. 3
      <4>1. 66 + g \in 0 .. 81 /\ 2 * (l \div 8) \in 0 .. 9
        BY <1>1, <3>1
      <4>2. b[66 + g] \in Int
        BY ONLY <4>1, Bytes(b, 81), ByteAt
      <4> QED BY ONLY <4>1, <4>2, x64Bits
    <3> HIDE DEF c
    <3> DEFINE e == b[2 + 4 * g + l \div 8] + 256 * c
    <3>4. e \in 0 .. 1023
      BY ONLY <3>2, <3>3
    <3> HIDE DEF e
    <3>5. l % 8 \in 0 .. 7
      BY <3>1
    <3>6. Grid("iq2_s", e, l % 8) \in -62 .. 62
      <4>1. GridWithin("iq2_s", 1023)
        BY GridRange
      <4> QED BY ONLY <3>4, <3>5, <4>1, GridAt
    <3>7. X64!SignBit(b[34 + 4 * g + l \div 8], l % 8) \in {-1, 1}
      BY x64SignBit
    <3>8. x64IQ2S_w(b, g, h)[m] = Grid("iq2_s", e, l % 8) * X64!SignBit(b[34 + 4 * g + l \div 8], l % 8)
      BY <2>1 DEF x64IQ2S_w, l, e, c
    <3> DEFINE x == Grid("iq2_s", e, l % 8)
               s == X64!SignBit(b[34 + 4 * g + l \div 8], l % 8)
    <3>9. x \in -62 .. 62 /\ s \in {-1, 1} /\ x64IQ2S_w(b, g, h)[m] = x * s
      BY ONLY <3>6, <3>7, <3>8
    <3> HIDE DEF x, s
    <3>10. x * s \in -128 .. 128
      BY ONLY <3>9, Signed16
    <3> QED BY ONLY <3>9, <3>10
  <2>2. DOMAIN x64IQ2S_w(b, g, h) = 0 .. 15
    BY DEF x64IQ2S_w
  <2> QED BY ONLY <2>1, <2>2 DEF Weights
<1>2. \A g \in 0 .. 7, h \in 0 .. 1 : Weights(x64IQ2S_Dots(b)[g][h].w, 15, 128)
  BY <1>1 DEF x64IQ2S_Dots, X64!DotOn
<1>3. InRange(Dots82(x64IQ2S_Dots(b)), 128)
  BY ONLY <1>2, InRange82
<1>4. X64!x64VecDotIQ2("iq2_s", b).act = 127 /\ X64!x64VecDotIQ2("iq2_s", b).words = {}
  BY DEF X64!x64VecDotIQ2, X64!GridDots32, X64!SignedPairs, X64!Form,
         X64!Dots32, X64!DotOn, X64!L16, X64!L4, X64!L8
<1> QED BY ONLY <1>3, <1>4, x64IQ2S_Are DEF Narrow, InRange

LEMMA x64IQ2XXS_Narrow ==
    ASSUME NEW b, Bytes(b, 65)
    PROVE  Narrow(X64!x64VecDotIQ2("iq2_xxs", b), 127, 128)
<1>1. ASSUME NEW g \in 0 .. 7, NEW h \in 0 .. 1
      PROVE  Weights(x64IQ2XXS_w(b, g, h), 15, 128)
  <2>1. ASSUME NEW m \in 0 .. 15
        PROVE  x64IQ2XXS_w(b, g, h)[m] \in -128 .. 128
    <3> DEFINE l == 16 * h + m
    <3>1. l \in 0 .. 31
      BY <1>1, <2>1
    <3> HIDE DEF l
    <3> DEFINE e == X64!Field(b, 2 + 8 * g, 8 * (l \div 8), 8)
    <3>2. e \in 0 .. 255
      <4>1. 8 * (l \div 8) \in Nat /\ 2 + 8 * g \in Nat /\ 8 \in 0 .. 9
        BY <1>1, <3>1
      <4>2. b[2 + 8 * g + (8 * (l \div 8)) \div 8] \in Int
        <5>1. 2 + 8 * g + (8 * (l \div 8)) \div 8 \in 0 .. 65
          BY <1>1, <3>1
        <5> QED BY ONLY <5>1, Bytes(b, 65), ByteAt
      <4>3. ((8 * (l \div 8)) % 8) + 8 <= 8 \/ b[2 + 8 * g + (8 * (l \div 8)) \div 8 + 1] \in Int
        <5>1. ((8 * (l \div 8)) % 8) + 8 <= 8 \/ 2 + 8 * g + (8 * (l \div 8)) \div 8 + 1 \in 0 .. 65
          BY <1>1, <3>1
        <5> QED BY ONLY <5>1, Bytes(b, 65), ByteAt
      <4>4. e \in 0 .. 2^8 - 1
        BY ONLY <4>1, <4>2, <4>3, x64Field
      <4>5. 2^8 = 256
        OBVIOUS
      <4> HIDE DEF e
      <4> QED BY ONLY <4>4, <4>5
    <3> HIDE DEF e
    <3>3. l % 8 \in 0 .. 7
      BY <3>1
    <3>4. Grid("iq2_xxs", e, l % 8) \in -62 .. 62
      <4>1. GridWithin("iq2_xxs", 255)
        BY GridRange
      <4> QED BY ONLY <3>2, <3>3, <4>1, GridAt
    <3>5. X64!kevenSigns(X64!Field(b, 2 + 8 * g, 32 + 7 * (l \div 8), 7), l % 8) \in {-1, 1}
      BY x64SignBit
    <3>6. x64IQ2XXS_w(b, g, h)[m] = Grid("iq2_xxs", e, l % 8) * X64!kevenSigns(X64!Field(b, 2 + 8 * g, 32 + 7 * (l \div 8), 7), l % 8)
      BY <2>1 DEF x64IQ2XXS_w, l, e
    <3> DEFINE x == Grid("iq2_xxs", e, l % 8)
               s == X64!kevenSigns(X64!Field(b, 2 + 8 * g, 32 + 7 * (l \div 8), 7), l % 8)
    <3>7. x \in -62 .. 62 /\ s \in {-1, 1} /\ x64IQ2XXS_w(b, g, h)[m] = x * s
      BY ONLY <3>4, <3>5, <3>6
    <3> HIDE DEF x, s
    <3>8. x * s \in -128 .. 128
      BY ONLY <3>7, Signed16
    <3> QED BY ONLY <3>7, <3>8
  <2>2. DOMAIN x64IQ2XXS_w(b, g, h) = 0 .. 15
    BY DEF x64IQ2XXS_w
  <2> QED BY ONLY <2>1, <2>2 DEF Weights
<1>2. \A g \in 0 .. 7, h \in 0 .. 1 : Weights(x64IQ2XXS_Dots(b)[g][h].w, 15, 128)
  BY <1>1 DEF x64IQ2XXS_Dots, X64!DotOn
<1>3. InRange(Dots82(x64IQ2XXS_Dots(b)), 128)
  BY ONLY <1>2, InRange82
<1>4. X64!x64VecDotIQ2("iq2_xxs", b).act = 127 /\ X64!x64VecDotIQ2("iq2_xxs", b).words = {}
  BY DEF X64!x64VecDotIQ2, X64!GridDots32, X64!SignedPairs, X64!Form,
         X64!Dots32, X64!DotOn, X64!L16, X64!L4, X64!L8
<1> QED BY ONLY <1>3, <1>4, x64IQ2XXS_Are DEF Narrow, InRange

LEMMA x64IQ2XS_Narrow ==
    ASSUME NEW b, Bytes(b, 73)
    PROVE  Narrow(X64!x64VecDotIQ2("iq2_xs", b), 127, 128)
<1>1. ASSUME NEW g \in 0 .. 7, NEW h \in 0 .. 1
      PROVE  Weights(x64IQ2XS_w(b, g, h), 15, 128)
  <2>1. ASSUME NEW m \in 0 .. 15
        PROVE  x64IQ2XS_w(b, g, h)[m] \in -128 .. 128
    <3> DEFINE l == 16 * h + m
    <3>1. l \in 0 .. 31
      BY <1>1, <2>1
    <3> HIDE DEF l
    <3> DEFINE e == X64!Field(b, 2 + 8 * g, 16 * (l \div 8), 9)
    <3>2. e \in 0 .. 511
      <4>1. 16 * (l \div 8) \in Nat /\ 2 + 8 * g \in Nat /\ 9 \in 0 .. 9
        BY <1>1, <3>1
      <4>2. b[2 + 8 * g + (16 * (l \div 8)) \div 8] \in Int
        <5>1. 2 + 8 * g + (16 * (l \div 8)) \div 8 \in 0 .. 73
          BY <1>1, <3>1
        <5> QED BY ONLY <5>1, Bytes(b, 73), ByteAt
      <4>3. ((16 * (l \div 8)) % 8) + 9 <= 8 \/ b[2 + 8 * g + (16 * (l \div 8)) \div 8 + 1] \in Int
        <5>1. ((16 * (l \div 8)) % 8) + 9 <= 8 \/ 2 + 8 * g + (16 * (l \div 8)) \div 8 + 1 \in 0 .. 73
          BY <1>1, <3>1
        <5> QED BY ONLY <5>1, Bytes(b, 73), ByteAt
      <4>4. e \in 0 .. 2^9 - 1
        BY ONLY <4>1, <4>2, <4>3, x64Field
      <4>5. 2^9 = 512
        OBVIOUS
      <4> HIDE DEF e
      <4> QED BY ONLY <4>4, <4>5
    <3> HIDE DEF e
    <3>3. l % 8 \in 0 .. 7
      BY <3>1
    <3>4. Grid("iq2_xs", e, l % 8) \in -62 .. 62
      <4>1. GridWithin("iq2_xs", 511)
        BY GridRange
      <4> QED BY ONLY <3>2, <3>3, <4>1, GridAt
    <3>5. X64!kevenSigns(X64!Field(b, 2 + 8 * g, 16 * (l \div 8) + 9, 7), l % 8) \in {-1, 1}
      BY x64SignBit
    <3>6. x64IQ2XS_w(b, g, h)[m] = Grid("iq2_xs", e, l % 8) * X64!kevenSigns(X64!Field(b, 2 + 8 * g, 16 * (l \div 8) + 9, 7), l % 8)
      BY <2>1 DEF x64IQ2XS_w, l, e
    <3> DEFINE x == Grid("iq2_xs", e, l % 8)
               s == X64!kevenSigns(X64!Field(b, 2 + 8 * g, 16 * (l \div 8) + 9, 7), l % 8)
    <3>7. x \in -62 .. 62 /\ s \in {-1, 1} /\ x64IQ2XS_w(b, g, h)[m] = x * s
      BY ONLY <3>4, <3>5, <3>6
    <3> HIDE DEF x, s
    <3>8. x * s \in -128 .. 128
      BY ONLY <3>7, Signed16
    <3> QED BY ONLY <3>7, <3>8
  <2>2. DOMAIN x64IQ2XS_w(b, g, h) = 0 .. 15
    BY DEF x64IQ2XS_w
  <2> QED BY ONLY <2>1, <2>2 DEF Weights
<1>2. \A g \in 0 .. 7, h \in 0 .. 1 : Weights(x64IQ2XS_Dots(b)[g][h].w, 15, 128)
  BY <1>1 DEF x64IQ2XS_Dots, X64!DotOn
<1>3. InRange(Dots82(x64IQ2XS_Dots(b)), 128)
  BY ONLY <1>2, InRange82
<1>4. X64!x64VecDotIQ2("iq2_xs", b).act = 127 /\ X64!x64VecDotIQ2("iq2_xs", b).words = {}
  BY DEF X64!x64VecDotIQ2, X64!GridDots32, X64!SignedPairs, X64!Form,
         X64!Dots32, X64!DotOn, X64!L16, X64!L4, X64!L8
<1> QED BY ONLY <1>3, <1>4, x64IQ2XS_Are DEF Narrow, InRange

LEMMA x64IQ1S_Narrow ==
    ASSUME NEW b, Bytes(b, 49)
    PROVE  Narrow(X64!x64VecDotIQ1(FALSE, b), 127, 128)
<1>1. ASSUME NEW g \in 0 .. 7, NEW h \in 0 .. 1
      PROVE  Weights(x64IQ1S_w(b, g, h), 15, 128)
  <2>1. ASSUME NEW m \in 0 .. 15
        PROVE  x64IQ1S_w(b, g, h)[m] \in -128 .. 128
    <3> DEFINE l == 16 * h + m
    <3>1. l \in 0 .. 31
      BY <1>1, <2>1
    <3> HIDE DEF l
    <3>2. b[2 + 4 * g + l \div 8] \in 0 .. 255
      <4>1. 2 + 4 * g + l \div 8 \in 0 .. 49
        BY <1>1, <3>1
      <4> QED BY ONLY <4>1, Bytes(b, 49), ByteAt
    <3> DEFINE c == X64!Field(b, 34 + 2 * g, 3 * (l \div 8), 3)
    <3>3. c \in 0 .. 7
      <4>1. 3 * (l \div 8) \in Nat /\ 34 + 2 * g \in Nat /\ 3 \in 0 .. 9
        BY <1>1, <3>1
      <4>2. b[34 + 2 * g + (3 * (l \div 8)) \div 8] \in Int
        <5>1. 34 + 2 * g + (3 * (l \div 8)) \div 8 \in 0 .. 49
          BY <1>1, <3>1
        <5> QED BY ONLY <5>1, Bytes(b, 49), ByteAt
      <4>3. ((3 * (l \div 8)) % 8) + 3 <= 8 \/ b[34 + 2 * g + (3 * (l \div 8)) \div 8 + 1] \in Int
        <5>1. ((3 * (l \div 8)) % 8) + 3 <= 8 \/ 34 + 2 * g + (3 * (l \div 8)) \div 8 + 1 \in 0 .. 49
          BY <1>1, <3>1
        <5> QED BY ONLY <5>1, Bytes(b, 49), ByteAt
      <4>4. c \in 0 .. 2^3 - 1
        BY ONLY <4>1, <4>2, <4>3, x64Field
      <4>5. 2^3 = 8
        BY SMTT(30)
      <4> HIDE DEF c
      <4> QED BY ONLY <4>4, <4>5
    <3> HIDE DEF c
    <3> DEFINE e == b[2 + 4 * g + l \div 8] + 256 * c
    <3>4. e \in 0 .. 2047
      BY ONLY <3>2, <3>3
    <3> HIDE DEF e
    <3>5. l % 8 \in 0 .. 7
      BY <3>1
    <3>6. Grid("iq1", e, l % 8) \in -62 .. 62
      <4>1. GridWithin("iq1", 2047)
        BY GridRange
      <4> QED BY ONLY <3>4, <3>5, <4>1, GridAt, SMTT(30)
    <3>7. x64IQ1S_w(b, g, h)[m] = Grid("iq1", e, l % 8) * 1
      BY <2>1 DEF x64IQ1S_w, X64!One, l, e, c
    <3> DEFINE x == Grid("iq1", e, l % 8)
    <3>8. x \in -62 .. 62 /\ x64IQ1S_w(b, g, h)[m] = x * 1
      BY ONLY <3>6, <3>7
    <3> HIDE DEF x
    <3> QED BY ONLY <3>8
  <2>2. DOMAIN x64IQ1S_w(b, g, h) = 0 .. 15
    BY DEF x64IQ1S_w
  <2> QED BY ONLY <2>1, <2>2 DEF Weights
<1>2. \A g \in 0 .. 7, h \in 0 .. 1 : Weights(x64IQ1S_Dots(b)[g][h].w, 15, 128)
  BY <1>1 DEF x64IQ1S_Dots, X64!DotOn
<1>3. InRange(Dots82(x64IQ1S_Dots(b)), 128)
  BY ONLY <1>2, InRange82
<1>4. X64!x64VecDotIQ1(FALSE, b).act = 127 /\ X64!x64VecDotIQ1(FALSE, b).words = {}
  BY DEF X64!x64VecDotIQ1, X64!GridDots32, X64!SignedPairs, X64!Form,
         X64!Dots32, X64!DotOn, X64!L16, X64!L4, X64!L8
<1> QED BY ONLY <1>3, <1>4, x64IQ1S_Are DEF Narrow, InRange

LEMMA x64IQ1M_Narrow ==
    ASSUME NEW b, Bytes(b, 55)
    PROVE  Narrow(X64!x64VecDotIQ1(TRUE, b), 127, 128)
<1>1. ASSUME NEW g \in 0 .. 7, NEW h \in 0 .. 1
      PROVE  Weights(x64IQ1M_w(b, g, h), 15, 128)
  <2>1. ASSUME NEW m \in 0 .. 15
        PROVE  x64IQ1M_w(b, g, h)[m] \in -128 .. 128
    <3> DEFINE l == 16 * h + m
    <3>1. l \in 0 .. 31
      BY <1>1, <2>1
    <3> HIDE DEF l
    <3>2. b[0 + 4 * g + l \div 8] \in 0 .. 255
      <4>1. 0 + 4 * g + l \div 8 \in 0 .. 55
        BY <1>1, <3>1
      <4> QED BY ONLY <4>1, Bytes(b, 55), ByteAt
    <3> DEFINE c == X64!Field(b, 32 + 2 * g, 4 * (l \div 8), 3)
    <3>3. c \in 0 .. 7
      <4>1. 4 * (l \div 8) \in Nat /\ 32 + 2 * g \in Nat /\ 3 \in 0 .. 9
        BY <1>1, <3>1
      <4>2. b[32 + 2 * g + (4 * (l \div 8)) \div 8] \in Int
        <5>1. 32 + 2 * g + (4 * (l \div 8)) \div 8 \in 0 .. 55
          BY <1>1, <3>1
        <5> QED BY ONLY <5>1, Bytes(b, 55), ByteAt
      <4>3. ((4 * (l \div 8)) % 8) + 3 <= 8 \/ b[32 + 2 * g + (4 * (l \div 8)) \div 8 + 1] \in Int
        <5>1. ((4 * (l \div 8)) % 8) + 3 <= 8 \/ 32 + 2 * g + (4 * (l \div 8)) \div 8 + 1 \in 0 .. 55
          BY <1>1, <3>1
        <5> QED BY ONLY <5>1, Bytes(b, 55), ByteAt
      <4>4. c \in 0 .. 2^3 - 1
        BY ONLY <4>1, <4>2, <4>3, x64Field
      <4>5. 2^3 = 8
        BY ONLY SMTT(30)
      <4> HIDE DEF c
      <4> QED BY ONLY <4>4, <4>5
    <3> HIDE DEF c
    <3> DEFINE e == b[0 + 4 * g + l \div 8] + 256 * c
    <3>4. e \in 0 .. 2047
      BY ONLY <3>2, <3>3
    <3> HIDE DEF e
    <3>5. l % 8 \in 0 .. 7
      BY <3>1
    <3>6. Grid("iq1", e, l % 8) \in -62 .. 62
      <4>1. GridWithin("iq1", 2047)
        BY GridRange
      <4> QED BY ONLY <3>4, <3>5, <4>1, GridAt
    <3>7. x64IQ1M_w(b, g, h)[m] = Grid("iq1", e, l % 8) * 1
      BY <2>1 DEF x64IQ1M_w, X64!One, l, e, c
    <3> DEFINE x == Grid("iq1", e, l % 8)
    <3>8. x \in -62 .. 62 /\ x64IQ1M_w(b, g, h)[m] = x * 1
      BY ONLY <3>6, <3>7
    <3> HIDE DEF x
    <3> QED BY ONLY <3>8
  <2>2. DOMAIN x64IQ1M_w(b, g, h) = 0 .. 15
    BY DEF x64IQ1M_w
  <2> QED BY ONLY <2>1, <2>2 DEF Weights
<1>2. \A g \in 0 .. 7, h \in 0 .. 1 : Weights(x64IQ1M_Dots(b)[g][h].w, 15, 128)
  BY <1>1 DEF x64IQ1M_Dots, X64!DotOn
<1>3. InRange(Dots82(x64IQ1M_Dots(b)), 128)
  BY ONLY <1>2, InRange82
<1>4. X64!x64VecDotIQ1(TRUE, b).act = 127 /\ X64!x64VecDotIQ1(TRUE, b).words = {}
  BY DEF X64!x64VecDotIQ1, X64!GridDots32, X64!SignedPairs, X64!Form,
         X64!Dots32, X64!DotOn, X64!L16, X64!L4, X64!L8
<1> QED BY ONLY <1>3, <1>4, x64IQ1M_Are DEF Narrow, InRange

LEMMA x64Q1_0_Narrow ==
    ASSUME NEW b, Bytes(b, 17)
    PROVE  Narrow(X64!x64VecDotQ1_0Kernel(b), 127, 128)
<1>1. ASSUME NEW k \in 0 .. 3, NEW h \in 0 .. 0
      PROVE  Weights(x64Q1_0_w(b, k, h), 31, 128)
  <2>1. ASSUME NEW m \in 0 .. 31
        PROVE  x64Q1_0_w(b, k, h)[m] \in -128 .. 128
    <3>1. x64Q1_0_w(b, k, h)[m] = X64!SignBit(b[2 + 4 * k + m \div 8], m % 8)
      BY <2>1 DEF x64Q1_0_w
    <3>2. X64!SignBit(b[2 + 4 * k + m \div 8], m % 8) \in {-1, 1}
      BY x64SignBit
    <3> QED BY ONLY <3>1, <3>2
  <2>2. DOMAIN x64Q1_0_w(b, k, h) = 0 .. 31
    BY DEF x64Q1_0_w
  <2> QED BY ONLY <2>1, <2>2, Zenon DEF Weights
<1>2. \A k \in 0 .. 3, h \in 0 .. 0 : Weights(x64Q1_0_Dots(b)[k][h].w, 31, 128)
  BY <1>1 DEF x64Q1_0_Dots, X64!DotOn
<1>3. InRange(Grid2(x64Q1_0_Dots(b), 0 .. 3, 0 .. 0), 128)
  <2>1. 31 \in LastLanes
    BY DEF LastLanes
  <2> QED BY ONLY <1>2, <2>1, InRangeGrid2
<1>4. X64!x64VecDotQ1_0Kernel(b).act = 127 /\ X64!x64VecDotQ1_0Kernel(b).words = {}
  BY DEF X64!x64VecDotQ1_0Kernel, X64!SignedPairs, X64!Form,
         X64!Dots32, X64!DotOn, X64!L16, X64!L4, X64!L8
<1> QED BY ONLY <1>3, <1>4, x64Q1_0_Are, SMTT(30) DEF Narrow, InRange

LEMMA x64Q2_0_Narrow ==
    ASSUME NEW b, Bytes(b, 17)
    PROVE  Narrow(X64!x64VecDotQ2_0Kernel(b), 127, 128)
<1>1. ASSUME NEW k \in 0 .. 1, NEW h \in 0 .. 0
      PROVE  Weights(x64Q2_0_w(b, k, h), 31, 128)
  <2>1. ASSUME NEW m \in 0 .. 31
        PROVE  x64Q2_0_w(b, k, h)[m] \in -128 .. 128
    <3> DEFINE repl == [l \in 0 .. 31 |-> b[2 + 8 * k + 4 * (l \div 16) + (l % 16) \div 4]]
               v == X64!Shr(repl, 0, m, 2 * (m % 4), 2)
    <3>1. x64Q2_0_w(b, k, h)[m] = (v % 4) - 1
      BY <2>1 DEF x64Q2_0_w
    <3>2. ASSUME NEW l \in 0 .. 31
          PROVE  repl[l] \in Int
      <4>1. 2 + 8 * k + 4 * (l \div 16) + (l % 16) \div 4 \in 0 .. 17
        BY <1>1, <3>2
      <4>2. b[2 + 8 * k + 4 * (l \div 16) + (l % 16) \div 4] \in Int
        BY ONLY <4>1, Bytes(b, 17), ByteAt
      <4> QED BY <4>2
    <3> HIDE DEF repl
    <3>3. v \in 0 .. 255
      <4>1. 0 + m \in 0 .. 31 /\ 2 * (m % 4) \in 0 .. 7
        BY <2>1
      <4>2. (m + 1) % 2 = 0 \/ 0 + m + 1 \in 0 .. 31
        BY <2>1
      <4>3. repl[0 + m] \in Int /\ ((m + 1) % 2 = 0 \/ repl[0 + m + 1] \in Int)
        BY ONLY <3>2, <4>1, <4>2
      <4> QED BY ONLY <4>1, <4>3, x64Shr
    <3> HIDE DEF v
    <3>4. v % 4 \in 0 .. 3
      BY ONLY <3>3
    <3> QED BY ONLY <3>1, <3>4
  <2>2. DOMAIN x64Q2_0_w(b, k, h) = 0 .. 31
    BY DEF x64Q2_0_w
  <2> QED BY ONLY <2>1, <2>2, Zenon DEF Weights
<1>2. \A k \in 0 .. 1, h \in 0 .. 0 : Weights(x64Q2_0_Dots(b)[k][h].w, 31, 128)
  BY <1>1 DEF x64Q2_0_Dots, X64!DotOn
<1>3. InRange(Grid2(x64Q2_0_Dots(b), 0 .. 1, 0 .. 0), 128)
  <2>1. 31 \in LastLanes
    BY DEF LastLanes
  <2> QED BY ONLY <1>2, <2>1, InRangeGrid2
<1>4. X64!x64VecDotQ2_0Kernel(b).act = 127 /\ X64!x64VecDotQ2_0Kernel(b).words = {}
  BY DEF X64!x64VecDotQ2_0Kernel, X64!L32, X64!SignedPairs, X64!Form,
         X64!Dots32, X64!DotOn, X64!L16, X64!L4, X64!L8
<1> QED BY ONLY <1>3, <1>4, x64Q2_0_Are, SMTT(30) DEF Narrow, InRange

LEMMA x64NVFP4_Narrow ==
    ASSUME NEW b, Bytes(b, 35)
    PROVE  Narrow(X64!x64VecDotNVFP4Kernel(b), 127, 128)
<1>1. ASSUME NEW s \in 0 .. 3, NEW h \in 0 .. 0
      PROVE  Weights(x64NVFP4_w(b, s, h), 15, 128)
  <2>1. ASSUME NEW m \in 0 .. 15
        PROVE  x64NVFP4_w(b, s, h)[m] \in -128 .. 128
    <3> DEFINE nibble == IF m < 8 THEN b[4 + 8 * s + m] % 16
                         ELSE X64!Shr(b, 4 + 8 * s, m - 8, 4, 2) % 16
    <3>1. x64NVFP4_w(b, s, h)[m] = X64!kvaluesFP4[1 + nibble]
      BY <2>1 DEF x64NVFP4_w
    <3>2. nibble \in 0 .. 15
      <4>1. CASE m < 8
        <5>1. 4 + 8 * s + m \in 0 .. 35
          BY <1>1, <2>1, <4>1
        <5>2. b[4 + 8 * s + m] \in Int
          BY ONLY <5>1, Bytes(b, 35), ByteAt
        <5>3. b[4 + 8 * s + m] % 16 \in 0 .. 15
          BY ONLY <5>2
        <5> QED BY <4>1, <5>3
      <4>2. CASE ~(m < 8)
        <5> DEFINE l == m - 8
                   v == X64!Shr(b, 4 + 8 * s, l, 4, 2)
        <5>1. l \in 0 .. 7
          BY <2>1, <4>2
        <5> HIDE DEF l
        <5>2. 4 + 8 * s + l \in 0 .. 35 /\ 4 \in 0 .. 7
          BY <1>1, <5>1
        <5>3. (l + 1) % 2 = 0 \/ 4 + 8 * s + l + 1 \in 0 .. 35
          BY <1>1, <5>1
        <5>4. b[4 + 8 * s + l] \in Int /\ ((l + 1) % 2 = 0 \/ b[4 + 8 * s + l + 1] \in Int)
          BY ONLY <5>2, <5>3, Bytes(b, 35), ByteAt
        <5>5. v \in 0 .. 255
          BY ONLY <5>2, <5>4, x64Shr
        <5>6. nibble = v % 16
          BY <4>2 DEF l
        <5> HIDE DEF v, nibble
        <5> QED BY ONLY <5>5, <5>6
      <4> QED BY <4>1, <4>2
    <3> HIDE DEF nibble
    <3>3. X64!kvaluesFP4[1 + nibble] \in -128 .. 128
      BY ONLY <3>2, x64Tables
    <3> QED BY ONLY <3>1, <3>3
  <2>2. DOMAIN x64NVFP4_w(b, s, h) = 0 .. 15
    BY DEF x64NVFP4_w
  <2> QED BY ONLY <2>1, <2>2 DEF Weights
<1>2. \A s \in 0 .. 3, h \in 0 .. 0 : Weights(x64NVFP4_Dots(b)[s][h].w, 15, 128)
  BY <1>1 DEF x64NVFP4_Dots, X64!DotOn
<1>3. InRange(Grid2(x64NVFP4_Dots(b), 0 .. 3, 0 .. 0), 128)
  <2>1. 15 \in LastLanes
    BY DEF LastLanes
  <2> QED BY ONLY <1>2, <2>1, InRangeGrid2
<1>4. X64!x64VecDotNVFP4Kernel(b).act = 127 /\ X64!x64VecDotNVFP4Kernel(b).words = {}
  BY DEF X64!x64VecDotNVFP4Kernel, X64!SignedPairs, X64!Form,
         X64!Dots32, X64!DotOn, X64!L16, X64!L4, X64!L8
<1> QED BY ONLY <1>3, <1>4, x64NVFP4_Are DEF Narrow, InRange

(* tq1_0: the five digits of a byte, by multiplying with powers of three.  *)
LEMMA x64TQ1_Narrow ==
    ASSUME NEW b
    PROVE  Narrow(X64!x64VecDotTQ1_0Kernel(b), 127, 128)
<1> DEFINE A == x64TQ1_A(b)
           B == x64TQ1_B(b)
           C == x64TQ1_C(b)
           E == x64TQ1_E(b)
<1>1. ASSUME NEW v
      PROVE  X64!x64Digit(v) \in -128 .. 128
  <2> DEFINE lo == IF v >= 86 THEN 255 ELSE 0
             hi == IF v >= 171 THEN 255 ELSE 0
  <2>1. lo \in {0, 255} /\ hi \in {0, 255}
    OBVIOUS
  <2>2. X64!x64Digit(v) = X64!I8(255 - ((lo + hi) % 256))
    BY DEF X64!x64Digit
  <2> HIDE DEF lo, hi
  <2>3. 255 - ((lo + hi) % 256) \in 0 .. 255
    BY ONLY <2>1
  <2> DEFINE t == 255 - ((lo + hi) % 256)
  <2>4. t \in 0 .. 255 /\ X64!x64Digit(v) = X64!I8(t)
    BY ONLY <2>2, <2>3
  <2> HIDE DEF t
  <2>5. t \in 0 .. 255
    BY ONLY <2>4, SMTT(30)
  <2>6. X64!I8(t) \in -128 .. 128
    BY ONLY <2>5, x64I8
  <2> QED BY ONLY <2>4, <2>6
<1>2. ASSUME NEW first, NEW n \in LastLanes, NEW l
      PROVE  Weights(x64TQ1_w(b, first, n, l), n, 128)
  BY ONLY <1>1 DEF Weights, x64TQ1_w
<1>3. /\ \A l \in 0 .. 4 : A[l].w = x64TQ1_w(b, 0, 31, l)
      /\ \A l \in 0 .. 4 : B[l].w = x64TQ1_w(b, 32, 15, l)
      /\ \A l \in 0 .. 3 : C[l].w = x64TQ1_w(b, 48, 3, l)
  BY DEF x64TQ1_A, x64TQ1_B, x64TQ1_C, X64!Dot, X64!DotOn
<1>4. \A g \in 0 .. 13 : /\ g < 5 => E[g] = A[g]
                         /\ ~(g < 5) /\ g < 10 => E[g] = B[g - 5]
                         /\ ~(g < 10) => E[g] = C[g - 10]
  BY DEF x64TQ1_E
<1> HIDE DEF A, B, C, E
<1>5. 31 \in LastLanes /\ 15 \in LastLanes /\ 3 \in LastLanes
  BY DEF LastLanes
<1>6. ASSUME NEW g \in 0 .. 13
      PROVE  \E n \in LastLanes : Weights(E[g].w, n, 128)
  <2>1. CASE g < 5
    <3>1. g \in 0 .. 4
      BY <2>1
    <3>2. E[g].w = x64TQ1_w(b, 0, 31, g)
      BY ONLY <1>3, <1>4, <2>1, <3>1, g \in 0 .. 13
    <3> QED BY ONLY <1>2, <1>5, <3>2
  <2>2. CASE ~(g < 5) /\ g < 10
    <3>1. g - 5 \in 0 .. 4
      BY <2>2
    <3>2. E[g].w = x64TQ1_w(b, 32, 15, g - 5)
      BY ONLY <1>3, <1>4, <2>2, <3>1, g \in 0 .. 13
    <3> QED BY ONLY <1>2, <1>5, <3>2
  <2>3. CASE ~(g < 10)
    <3>1. g - 10 \in 0 .. 3
      BY <2>3
    <3>2. E[g].w = x64TQ1_w(b, 48, 3, g - 10)
      BY ONLY <1>3, <1>4, <2>3, <3>1, g \in 0 .. 13
    <3> QED BY ONLY <1>2, <1>5, <3>2
  <2> QED BY <2>1, <2>2, <2>3
<1>7. InRange(Each(E, 0 .. 13), 128)
  BY ONLY <1>6, InRangeEach
<1>8. X64!x64VecDotTQ1_0Kernel(b).dots = Each(E, 0 .. 13)
  BY x64TQ1_Are DEF E
<1>9. X64!x64VecDotTQ1_0Kernel(b).act = 127 /\ X64!x64VecDotTQ1_0Kernel(b).words = {}
  BY DEF X64!x64VecDotTQ1_0Kernel, X64!SignedPairs, X64!Form
<1> QED BY ONLY <1>7, <1>8, <1>9 DEF Narrow, InRange

-----------------------------------------------------------------------------
(* No kernel of arm64 sums pairs in 16 bits, and neither do the q8_0 nests *)
(* of amd64: SDOT, SMMLA and VPMADDWD add in 32 bits.                      *)
LEMMA Quiet == ASSUME NEW f, f.act = 0 PROVE Fits(f)
BY DEF Fits, FitsIn

(* The row dots of arm64, group by group.                                  *)
LEMMA a64LookupQuiet ==
    ASSUME NEW b
    PROVE  /\ A64!a64VecDotLUT32("iq4_nl", b).act = 0
           /\ A64!a64VecDotLUT32("mxfp4", b).act = 0
           /\ A64!a64VecDotQx1Kernel(FALSE, b).act = 0
           /\ A64!a64VecDotQx1Kernel(TRUE, b).act = 0
           /\ A64!a64VecDotIQ4XSKernel(b).act = 0
<1>1. A64!a64VecDotLUT32("iq4_nl", b).act = 0
  BY DEF A64!a64VecDotLUT32, A64!Form, A64!Dot, A64!DotOn, A64!L16, A64!L4, A64!L8
<1>2. A64!a64VecDotLUT32("mxfp4", b).act = 0
  BY DEF A64!a64VecDotLUT32, A64!Form, A64!Dot, A64!DotOn, A64!L16, A64!L4, A64!L8
<1>3. A64!a64VecDotQx1Kernel(FALSE, b).act = 0
  BY DEF A64!a64VecDotQx1Kernel, A64!Form, A64!Dot, A64!DotOn, A64!L16, A64!L4, A64!L8
<1>4. A64!a64VecDotQx1Kernel(TRUE, b).act = 0
  BY DEF A64!a64VecDotQx1Kernel, A64!Form, A64!Dot, A64!DotOn, A64!L16, A64!L4, A64!L8
<1>5. A64!a64VecDotIQ4XSKernel(b).act = 0
  BY DEF A64!a64VecDotIQ4XSKernel, A64!Form, A64!Dot, A64!DotOn, A64!L16, A64!L4, A64!L8
<1> QED BY ONLY <1>1, <1>2, <1>3, <1>4, <1>5, Zenon

LEMMA a64CodebookQuiet ==
    ASSUME NEW b
    PROVE  /\ A64!a64VecDotIQ3XXSKernel(b).act = 0
           /\ A64!a64VecDotIQ3SKernel(b).act = 0
           /\ A64!a64VecDotIQ2("iq2_xxs", b).act = 0
           /\ A64!a64VecDotIQ2("iq2_xs", b).act = 0
           /\ A64!a64VecDotIQ2("iq2_s", b).act = 0
           /\ A64!a64VecDotIQ1SKernel(b).act = 0
           /\ A64!a64VecDotIQ1MKernel(b).act = 0
<1>1. A64!a64VecDotIQ3XXSKernel(b).act = 0
  BY DEF A64!a64VecDotIQ3XXSKernel, A64!GridDots, A64!Form, A64!Dot, A64!DotOn, A64!L16,
         A64!L4, A64!L8
<1>2. A64!a64VecDotIQ3SKernel(b).act = 0
  BY DEF A64!a64VecDotIQ3SKernel, A64!GridDots, A64!Form, A64!Dot, A64!DotOn, A64!L16, A64!L4,
         A64!L8
<1>3. A64!a64VecDotIQ2("iq2_xxs", b).act = 0
  BY DEF A64!a64VecDotIQ2, A64!GridDots, A64!Form, A64!Dot, A64!DotOn, A64!L16, A64!L4, A64!L8
<1>4. A64!a64VecDotIQ2("iq2_xs", b).act = 0
  BY DEF A64!a64VecDotIQ2, A64!GridDots, A64!Form, A64!Dot, A64!DotOn, A64!L16, A64!L4, A64!L8
<1>5. A64!a64VecDotIQ2("iq2_s", b).act = 0
  BY DEF A64!a64VecDotIQ2, A64!GridDots, A64!Form, A64!Dot, A64!DotOn, A64!L16, A64!L4, A64!L8
<1>6. A64!a64VecDotIQ1SKernel(b).act = 0
  BY DEF A64!a64VecDotIQ1SKernel, A64!GridDots, A64!Form, A64!Dot, A64!DotOn, A64!L16, A64!L4,
         A64!L8
<1>7. A64!a64VecDotIQ1MKernel(b).act = 0
  BY DEF A64!a64VecDotIQ1MKernel, A64!GridDots, A64!Form, A64!Dot, A64!DotOn, A64!L16, A64!L4,
         A64!L8
<1> QED BY ONLY <1>1, <1>2, <1>3, <1>4, <1>5, <1>6, <1>7, Zenon

LEMMA a64TernaryQuiet ==
    ASSUME NEW b
    PROVE  /\ A64!a64VecDotTQ1_0Kernel(b).act = 0
           /\ A64!a64VecDotTQ2_0Kernel(b).act = 0
           /\ A64!a64VecDotQ1_0Kernel(b).act = 0
           /\ A64!a64VecDotQ2_0Kernel(b).act = 0
           /\ A64!a64VecDotNVFP4Kernel(b).act = 0
<1>1. A64!a64VecDotTQ1_0Kernel(b).act = 0
  BY DEF A64!a64VecDotTQ1_0Kernel, A64!Form
<1>2. A64!a64VecDotTQ2_0Kernel(b).act = 0
  BY DEF A64!a64VecDotTQ2_0Kernel, A64!Form, A64!Dot, A64!DotOn, A64!L16, A64!L4, A64!L8
<1>3. A64!a64VecDotQ1_0Kernel(b).act = 0
  BY DEF A64!a64VecDotQ1_0Kernel, A64!Form, A64!Dot, A64!DotOn, A64!L16, A64!L4, A64!L8
<1>4. A64!a64VecDotQ2_0Kernel(b).act = 0
  BY DEF A64!a64VecDotQ2_0Kernel, A64!Form, A64!Dot, A64!DotOn, A64!L16, A64!L4, A64!L8
<1>5. A64!a64VecDotNVFP4Kernel(b).act = 0
  BY DEF A64!a64VecDotNVFP4Kernel, A64!Form, A64!Dot, A64!DotOn, A64!L16, A64!L4, A64!L8
<1> QED BY ONLY <1>1, <1>2, <1>3, <1>4, <1>5, Zenon

LEMMA a64LegacyAndKQuiet ==
    ASSUME NEW b
    PROVE  /\ A64!a64VecDotLegacy("q4_0", b).act = 0
           /\ A64!a64VecDotLegacy("q8_0", b).act = 0
           /\ A64!a64VecDotQ5_0Kernel(b).act = 0
           /\ A64!a64VecDotQ2_KKernel(b).act = 0
           /\ A64!a64VecDotQ3_KKernel(b).act = 0
           /\ A64!a64VecDotQ4_KKernel(b).act = 0
           /\ A64!a64VecDotQ5_KKernel(b).act = 0
           /\ A64!a64VecDotQ6_KKernel(b).act = 0
<1>1. A64!a64VecDotLegacy("q4_0", b).act = 0
  BY DEF A64!a64VecDotLegacy, A64!Form, A64!Dot, A64!DotOn, A64!L16, A64!L4, A64!L8
<1>2. A64!a64VecDotLegacy("q8_0", b).act = 0
  BY DEF A64!a64VecDotLegacy, A64!Form, A64!Dot, A64!DotOn, A64!L16, A64!L4, A64!L8
<1>3. A64!a64VecDotQ5_0Kernel(b).act = 0
  BY DEF A64!a64VecDotQ5_0Kernel, A64!Form, A64!Dot, A64!DotOn, A64!L16, A64!L4, A64!L8
<1>4. A64!a64VecDotQ2_KKernel(b).act = 0
  BY DEF A64!a64VecDotQ2_KKernel, A64!Form, A64!Dot, A64!DotOn, A64!L16, A64!L4, A64!L8
<1>5. A64!a64VecDotQ3_KKernel(b).act = 0
  BY DEF A64!a64VecDotQ3_KKernel, A64!Form, A64!Dot, A64!DotOn, A64!L16, A64!L4, A64!L8
<1>6. A64!a64VecDotQ4_KKernel(b).act = 0
  BY DEF A64!a64VecDotQ4_KKernel, A64!KBlock, A64!KNibbles, A64!Form, A64!Dot, A64!DotOn,
         A64!L16, A64!L4, A64!L8
<1>7. A64!a64VecDotQ5_KKernel(b).act = 0
  BY DEF A64!a64VecDotQ5_KKernel, A64!KBlock, A64!KNibbles, A64!Form, A64!Dot, A64!DotOn,
         A64!L16, A64!L4, A64!L8
<1>8. A64!a64VecDotQ6_KKernel(b).act = 0
  BY DEF A64!a64VecDotQ6_KKernel, A64!Q6KBlock, A64!a64Q6Dot, A64!Form, A64!Dot, A64!DotOn,
         A64!L16, A64!L4, A64!L8
<1> QED BY ONLY <1>1, <1>2, <1>3, <1>4, <1>5, <1>6, <1>7, <1>8, Zenon

(* The nests of arm64, and the q8_0 nests of amd64.                        *)
LEMMA NestsQuiet ==
    ASSUME NEW L, NEW b, NEW c, NEW r, NEW feature
    PROVE  /\ PA64!a64RepackGemvKernel(b, c).act = 0
           /\ PA64!a64RepackGemmKernel(feature, b, c, r).act = 0
           /\ PX64!x64RepackGemvKernel(feature, b, c).act = 0
           /\ PX64!x64RepackGemmKernel(feature, b, c, r).act = 0
           /\ PA64!a64GemvQ6K8x8Kernel(b, c).act = 0
           /\ PA64!a64GemmQ6K8x8Kernel(b, c, r).act = 0
           /\ PA64!a64GemvKx8Kernel(L, b, c).act = 0
           /\ PA64!a64GemmKx8Kernel(L, b, c, r).act = 0
           /\ PA64!a64GemvX8Kernel(L, b, c).act = 0
           /\ PA64!a64GemmX8Kernel(L, b, c, r).act = 0
<1>1. PA64!a64RepackGemvKernel(b, c).act = 0
  BY DEF PA64!a64RepackGemvKernel, PA64!Form, PA64!L8
<1>2. PA64!a64RepackGemmKernel(feature, b, c, r).act = 0
  BY DEF PA64!a64RepackGemmKernel, PA64!Form, PA64!L8
<1>3. PX64!x64RepackGemvKernel(feature, b, c).act = 0
  BY DEF PX64!x64RepackGemvKernel, PX64!Form, PX64!L8, PX64!L4
<1>4. PX64!x64RepackGemmKernel(feature, b, c, r).act = 0
  BY DEF PX64!x64RepackGemmKernel, PX64!Form, PX64!L8, PX64!L4
<1>5. PA64!a64GemvQ6K8x8Kernel(b, c).act = 0
  BY DEF PA64!a64GemvQ6K8x8Kernel, PA64!a64Q6Form, PA64!q6Kx8, PA64!Form, PA64!L16, PA64!L4,
         PA64!L8
<1>6. PA64!a64GemmQ6K8x8Kernel(b, c, r).act = 0
  BY DEF PA64!a64GemmQ6K8x8Kernel, PA64!a64Q6Form, PA64!q6Kx8, PA64!Form, PA64!L16, PA64!L4,
         PA64!L8
<1>7. PA64!a64GemvKx8Kernel(L, b, c).act = 0
  BY DEF PA64!a64GemvKx8Kernel, PA64!a64Kx8Form, PA64!Form, PA64!DotOn, PA64!L4, PA64!L8
<1>8. PA64!a64GemmKx8Kernel(L, b, c, r).act = 0
  BY DEF PA64!a64GemmKx8Kernel, PA64!a64Kx8Form, PA64!Form, PA64!DotOn, PA64!L4, PA64!L8
<1>9. PA64!a64GemvX8Kernel(L, b, c).act = 0
  BY DEF PA64!a64GemvX8Kernel, PA64!a64X8Form, PA64!Form
<1>10. PA64!a64GemmX8Kernel(L, b, c, r).act = 0
  BY DEF PA64!a64GemmX8Kernel, PA64!a64X8Form, PA64!Form
<1> QED BY ONLY <1>1, <1>2, <1>3, <1>4, <1>5, <1>6, <1>7, <1>8, <1>9, <1>10

-----------------------------------------------------------------------------
(* The nests of amd64, which add the pair sums of two or of four dots up   *)
(* in 16 bits.                                                             *)
Fours(f) == \A sum \in f.words : \E p, q, s, t : sum \subseteq {p, q, s, t}
Twos(f) == \A sum \in f.words : \E p, q : sum \subseteq {p, q}

(* A nest's pair sums: alone, in fours with narrow weights, or in twos.    *)
LEMMA WordsFit ==
    ASSUME NEW f, NEW act \in Nat, f.act = act, NEW B \in Nat, NEW P \in Nat, P = act * (2 * B),
           NEW top \in Nat, UNION f.words \subseteq f.dots, \A d \in f.dots : Weights(d.w, 7, B),
           (Fours(f) /\ 4 * P <= top) \/ (Twos(f) /\ 2 * P <= top)
    PROVE  FitsIn(f, top)
<1>1. ASSUME NEW d \in f.dots
      PROVE  PairsUpTo(f, d, P)
  <2>1. 7 \in LastLanes
    BY DEF LastLanes
  <2>2. Weights(d.w, 7, B)
    OBVIOUS
  <2>3. f.act = act /\ P = act * (2 * B)
    OBVIOUS
  <2> QED BY <2>1, <2>2, <2>3, PairBound, Zenon
<1>2. P <= top
  OBVIOUS
<1>3. \A x \in 0 .. P : x <= top
  BY ONLY <1>2, P \in Nat, top \in Nat
<1>4. \A d \in f.dots : \A m \in DOMAIN d.w : m % 2 = 0 => PairSum(f, d, m) <= top
  <2>1. \A d \in f.dots : \A m \in DOMAIN d.w : m % 2 = 0 => PairSum(f, d, m) \in 0 .. P
    BY <1>1, Zenon DEF PairsUpTo
  <2> QED BY ONLY <1>3, <2>1, Zenon
<1>5. \A d \in f.dots : \A m \in {0, 2, 4, 6} : PairSum(f, d, m) \in 0 .. P
  <2>1. \A m \in {0, 2, 4, 6} : m \in 0 .. 7 /\ m % 2 = 0
    OBVIOUS
  <2>2. \A d \in f.dots : DOMAIN d.w = 0 .. 7
    BY Zenon DEF Weights
  <2> QED BY ONLY <1>1, <2>1, <2>2 DEF PairsUpTo
<1>6. ASSUME NEW sum \in f.words, NEW m \in {0, 2, 4, 6}
      PROVE  WordSum(f, sum, m) <= top
  <2>1. \A x \in sum : PairSum(f, x, m) \in 0 .. P
    BY <1>5
  <2>2. CASE Fours(f) /\ 4 * P <= top
    <3>1. PICK p, q, s, t : sum \subseteq {p, q, s, t}
      BY <2>2, Zenon DEF Fours
    <3>2. WordSum(f, sum, m) \in 0 .. 4 * P
      BY ONLY <2>1, <3>1, P \in Nat, WordBound
    <3> QED BY ONLY <2>2, <3>2, P \in Nat, top \in Nat
  <2>3. CASE Twos(f) /\ 2 * P <= top
    <3>1. PICK p, q : sum \subseteq {p, q}
      BY <2>3, Zenon DEF Twos
    <3>2. sum \subseteq {p, q, p, q}
      BY ONLY <3>1
    <3>3. WordSum(f, sum, m) \in 0 .. 2 * P
      BY ONLY <2>1, <3>1, <3>2, P \in Nat, WordBound
    <3> QED BY ONLY <2>3, <3>3, P \in Nat, top \in Nat
  <2> QED BY <2>2, <2>3
<1> QED BY <1>4, <1>6, Zenon DEF FitsIn

(* The nests of amd64 use the row dots' shifts.                            *)
LEMMA SameLanes ==
    /\ \A b, o, m, s, w : PX64!Shr(b, o, m, s, w) = X64!Shr(b, o, m, s, w)
    /\ \A x, lo, n : PX64!Bits(x, lo, n) = X64!Bits(x, lo, n)
BY DEF PX64!Shr, X64!Shr, PX64!Bits, X64!Bits

(* The bytes the quants of a packed block are in.                          *)
BytesIn(b, from, top) == \A o \in from .. top : b[o] \in 0 .. 255

(* One byte of a run of bytes.                                             *)
LEMMA ByteIn ==
    ASSUME NEW b, NEW from, NEW top, BytesIn(b, from, top), NEW o \in from .. top
    PROVE  b[o] \in 0 .. 255 /\ b[o] \in Int
BY DEF BytesIn

(* Eight of the 64 bytes of two registers.                                 *)
LEMMA HaddPlaces ==
    ASSUME NEW c \in 0 .. 7
    PROVE  PX64!HaddAt(PX64!LaneOf(c)) \in {0, 8, 16, 24, 32, 40, 48, 56}
<1>1. PX64!LaneOf(c) \in 0 .. 7
  BY DEF PX64!LaneOf, PX64!order
<1>2. \A lane \in 0 .. 7 : PX64!HaddAt(lane) \in {0, 8, 16, 24, 32, 40, 48, 56}
  BY DEF PX64!HaddAt
<1> QED BY ONLY <1>1, <1>2

(* Byte `at` of the 64 at o, shifted.                                      *)
LEMMA ShrOf64 ==
    ASSUME NEW b, NEW o \in Nat, NEW at \in 0 .. 63, NEW s \in 0 .. 7, BytesIn(b, o, o + 63)
    PROVE  PX64!Shr(b, o, at, s, 2) \in 0 .. 255 /\ b[o + at] \in 0 .. 255
<1>1. o + at \in o .. o + 63
  OBVIOUS
<1>2. b[o + at] \in 0 .. 255 /\ b[o + at] \in Int
  BY ONLY <1>1, BytesIn(b, o, o + 63), ByteIn
<1>3. (at + 1) % 2 = 0 \/ b[o + at + 1] \in Int
  <2>1. (at + 1) % 2 = 0 \/ o + at + 1 \in o .. o + 63
    OBVIOUS
  <2> QED BY ONLY <2>1, BytesIn(b, o, o + 63), ByteIn
<1>4. X64!Shr(b, o, at, s, 2) \in 0 .. 255
  BY ONLY <1>2, <1>3, s \in 0 .. 7, x64Shr
<1> QED BY ONLY <1>2, <1>4, SameLanes

(* The 64 bytes two registers are loaded from.                             *)
LEMMA Inside64 ==
    ASSUME NEW b, NEW from \in Nat, NEW top \in Nat, BytesIn(b, from, top), NEW o \in Nat,
           from <= o, o + 63 <= top
    PROVE  BytesIn(b, o, o + 63)
BY DEF BytesIn

(* The quants of a packed K block are bytes.                               *)
KBytes(L, b) ==
    /\ L.fifth \in BOOLEAN /\ L.qsOff \in Nat /\ BytesIn(b, L.qsOff, L.qsOff + 1023)
    /\ L.fifth => L.qhOff \in Nat /\ BytesIn(b, L.qhOff, L.qhOff + 255)

(* The fifth bit of q5_K, moved to the place of 16.                        *)
LEMMA x64Kx8Fifths ==
    ASSUME NEW L, NEW b, L.qhOff \in Nat, BytesIn(b, L.qhOff, L.qhOff + 255),
           NEW sb \in 0 .. 3, NEW nib \in 0 .. 1, NEW k \in 0 .. 3, NEW at \in 0 .. 63
    PROVE  PX64!x64Kx8Fifth(L, b, sb, nib, k, at) \in 0 .. 16
<1> DEFINE from == L.qhOff
           o == from + 64 * k
           qh == PX64!Shr(b, o, at, 2 * sb, 2)
<1>1. qh \in 0 .. 255
  <2>1. from \in Nat /\ from + 255 \in Nat /\ BytesIn(b, from, from + 255)
    OBVIOUS
  <2> HIDE DEF from
  <2>2. o \in Nat /\ from <= o /\ o + 63 <= from + 255
    BY <2>1
  <2> HIDE DEF o
  <2>3. BytesIn(b, o, o + 63)
    BY ONLY <2>1, <2>2, Inside64
  <2> DEFINE s == 2 * sb
  <2>4. s \in 0 .. 7
    OBVIOUS
  <2> HIDE DEF s
  <2>5. PX64!Shr(b, o, at, s, 2) \in 0 .. 255
    BY ONLY <2>2, <2>3, <2>4, at \in 0 .. 63, ShrOf64, Zenon
  <2> QED BY <2>5 DEF s
<1> HIDE DEF qh
<1> DEFINE e0 == PX64!Bits(qh, 0, 1)
           e1 == PX64!Bits(qh, 1, 1)
<1>2. e0 \in 0 .. 1 /\ e1 \in 0 .. 1
  <2>1. qh \in Int /\ 0 \in 0 .. 9 /\ 1 \in 0 .. 9
    BY <1>1
  <2>2. X64!Bits(qh, 0, 1) \in 0 .. 1 /\ X64!Bits(qh, 1, 1) \in 0 .. 1
    BY ONLY <2>1, x64Bits
  <2> QED BY ONLY <2>2, SameLanes
<1>3. PX64!x64Kx8Fifth(L, b, sb, nib, k, at) = IF nib = 0 THEN e0 * 2^4 ELSE (e1 * 2) * 2^3
  BY DEF PX64!x64Kx8Fifth, qh
<1> HIDE DEF e0, e1
<1>4. 2^4 = 16 /\ 2^3 = 8
  OBVIOUS
<1> QED BY ONLY <1>2, <1>3, <1>4

(* A q4_K or q5_K quant has at most five bits.                             *)
LEMMA x64Kx8Quants ==
    ASSUME NEW L, NEW b, KBytes(L, b),
           NEW sb \in 0 .. 3, NEW nib \in 0 .. 1, NEW k \in 0 .. 3, NEW at \in 0 .. 63
    PROVE  x64Kx8_at(L, b, sb, nib, k, at) \in -31 .. 31
<1> DEFINE from == L.qsOff
           o == from + 256 * sb + 64 * k
           v == PX64!Shr(b, o, at, 4, 2)
           u == b[o + at]
           fifth == IF L.fifth THEN PX64!x64Kx8Fifth(L, b, sb, nib, k, at) ELSE 0
<1>1. v \in 0 .. 255 /\ u \in 0 .. 255
  <2>1. from \in Nat /\ from + 1023 \in Nat /\ BytesIn(b, from, from + 1023)
    BY DEF KBytes
  <2> HIDE DEF from
  <2>2. o \in Nat /\ from <= o /\ o + 63 <= from + 1023
    BY <2>1
  <2> HIDE DEF o
  <2>3. BytesIn(b, o, o + 63)
    BY ONLY <2>1, <2>2, Inside64
  <2>4. \A s \in 0 .. 7 : PX64!Shr(b, o, at, s, 2) \in 0 .. 255 /\ b[o + at] \in 0 .. 255
    BY ONLY <2>2, <2>3, at \in 0 .. 63, ShrOf64, ZenonT(60)
  <2>5. 4 \in 0 .. 7
    OBVIOUS
  <2> QED BY ONLY <2>4, <2>5
<1>2. fifth \in 0 .. 16
  <2>1. CASE L.fifth
    <3>1. L.qhOff \in Nat /\ BytesIn(b, L.qhOff, L.qhOff + 255)
      BY <2>1 DEF KBytes
    <3>2. PX64!x64Kx8Fifth(L, b, sb, nib, k, at) \in 0 .. 16
      BY <3>1, x64Kx8Fifths, Zenon
    <3> QED BY ONLY <2>1, <3>2
  <2>2. CASE ~L.fifth
    BY <2>2
  <2> QED BY <2>1, <2>2
<1>3. x64Kx8_at(L, b, sb, nib, k, at) = (IF nib = 0 THEN u % 16 ELSE v % 16) + fifth
  BY DEF x64Kx8_at
<1> HIDE DEF u, v, fifth
<1>4. u % 16 \in 0 .. 15 /\ v % 16 \in 0 .. 15
  BY ONLY <1>1
<1> QED BY ONLY <1>2, <1>3, <1>4

(* Every dot of the q4_K and q5_K nests has 8 lanes of such quants.        *)
LEMMA x64Kx8Weights ==
    ASSUME NEW L, NEW b, KBytes(L, b), NEW c \in 0 .. 7, NEW y, NEW yd,
           NEW d \in UNION PX64!x64Kx8Dots(L, b, c, y, yd)
    PROVE  Weights(d.w, 7, 31)
<1> DEFINE D == x64Kx8_Dots(L, b, c, y, yd)
<1>1. PICK sb \in 0 .. 3, nib \in 0 .. 1, k \in 0 .. 3 : d = Cell3(D, sb, nib, k)
  <2>1. d \in Dots424(D)
    BY x64Kx8_Are, UnionDots424, Zenon
  <2> QED BY <2>1 DEF Dots424
<1>2. d = PX64!x64Kx8Dot(L, b, c, y, yd, sb, nib, k)
  BY <1>1 DEF Cell3, x64Kx8_Dots
<1> DEFINE h == PX64!HaddAt(PX64!LaneOf(c))
<1>3. d.w = [m \in 0 .. 7 |-> x64Kx8_at(L, b, sb, nib, k, h + m)]
  BY <1>2 DEF PX64!x64Kx8Dot, PX64!DotOn, PX64!L8, x64Kx8_at
<1>4. h \in {0, 8, 16, 24, 32, 40, 48, 56}
  BY HaddPlaces
<1> HIDE DEF h
<1>5. ASSUME NEW m \in 0 .. 7
      PROVE  x64Kx8_at(L, b, sb, nib, k, h + m) \in -31 .. 31
  <2>1. h + m \in 0 .. 63
    BY <1>4
  <2> DEFINE at == h + m
  <2> HIDE DEF at
  <2>2. at \in 0 .. 63
    BY <2>1 DEF at
  <2>3. x64Kx8_at(L, b, sb, nib, k, at) \in -31 .. 31
    BY ONLY <2>2, KBytes(L, b), sb \in 0 .. 3, nib \in 0 .. 1, k \in 0 .. 3, x64Kx8Quants, Zenon
  <2> QED BY <2>3 DEF at
<1> QED BY ONLY <1>3, <1>5 DEF Weights

(* A form whose dots are all in the sums, and dots of eight lanes.         *)
Summing(f, sums) == f.act = 128 /\ f.words = sums /\ f.dots = UNION sums
Octets(f, B) == \A d \in f.dots : Weights(d.w, 7, B)

(* Four sums of 128 * 62 fit, so the nests may add before they widen.      *)
LEMMA x64Kx8Fits ==
    ASSUME NEW L, NEW b, KBytes(L, b), NEW c \in 0 .. 7, NEW r
    PROVE  Fits(PX64!x64Kx8Body(L, b, c)) /\ Fits(PX64!x64Kx8GemmTile(L, b, c, r))
<1>1. ASSUME NEW y, NEW yd, NEW f, Summing(f, PX64!x64Kx8Dots(L, b, c, y, yd))
      PROVE  Fits(f)
  <2> DEFINE W == PX64!x64Kx8Dots(L, b, c, y, yd)
  <2>1. Fours(f)
    <3>1. ASSUME NEW sum \in W
          PROVE  \E p, q, s, t : sum \subseteq {p, q, s, t}
      <4>1. PICK j \in 0 .. 3, n \in 0 .. 1 :
                sum = {PX64!x64Kx8Dot(L, b, c, y, yd, j, n, k) : k \in PX64!L4}
        BY DEF PX64!x64Kx8Dots, PX64!L4
      <4>2. PX64!L4 = {0, 1, 2, 3}
        BY DEF PX64!L4
      <4>3. sum \subseteq {PX64!x64Kx8Dot(L, b, c, y, yd, j, n, 0), PX64!x64Kx8Dot(L, b, c, y, yd, j, n, 1),
                           PX64!x64Kx8Dot(L, b, c, y, yd, j, n, 2), PX64!x64Kx8Dot(L, b, c, y, yd, j, n, 3)}
        BY ONLY <4>1, <4>2
      <4> QED BY ONLY <4>3, Zenon
    <3>2. f.words = W
      BY <1>1 DEF Summing
    <3> HIDE DEF W
    <3> QED BY ONLY <3>1, <3>2, Zenon DEF Fours
  <2>2. Octets(f, 31)
    <3>1. f.dots = UNION W
      BY <1>1 DEF Summing
    <3>2. ASSUME NEW d \in UNION W
          PROVE  Weights(d.w, 7, 31)
      BY ONLY KBytes(L, b), c \in 0 .. 7, <3>2, x64Kx8Weights, Zenon
    <3> HIDE DEF W
    <3> QED BY ONLY <3>1, <3>2 DEF Octets
  <2>3. UNION f.words \subseteq f.dots
    BY <1>1 DEF Summing
  <2>4. /\ 128 \in Nat /\ 31 \in Nat /\ 7936 \in Nat /\ 7936 = 128 * (2 * 31) /\ 32767 \in Nat
        /\ 4 * 7936 <= 32767
    OBVIOUS
  <2>5. \A act, B, P, top \in Nat :
           /\ P = act * (2 * B) /\ 4 * P <= top /\ f.act = act
           /\ Octets(f, B)
           => FitsIn(f, top)
    BY ONLY <2>1, <2>3, WordsFit, Zenon DEF Octets
  <2>6. f.act = 128
    BY <1>1 DEF Summing
  <2>7. FitsIn(f, 32767)
    BY ONLY <2>2, <2>4, <2>5, <2>6
  <2> QED BY <2>7 DEF Fits
<1>2. Fits(PX64!x64Kx8Body(L, b, c))
  <2> DEFINE f == PX64!x64Kx8Body(L, b, c)
             y == PX64!GemvY(PX64!Activations.q8_K)
  <2>1. Summing(f, PX64!x64Kx8Dots(L, b, c, y, 0))
    BY DEF Summing, PX64!x64Kx8Body, PX64!x64Kx8Form, PX64!UnsignedPairs, PX64!Form
  <2> HIDE DEF f, y
  <2>2. Fits(f)
    BY ONLY <1>1, <2>1, Zenon
  <2> QED BY <2>2 DEF f
<1>3. Fits(PX64!x64Kx8GemmTile(L, b, c, r))
  <2> DEFINE f == PX64!x64Kx8GemmTile(L, b, c, r)
             y == PX64!GemmY(PX64!Activations.q8_Kx4, r)
  <2>1. Summing(f, PX64!x64Kx8Dots(L, b, c, y, 4 * r))
    BY DEF Summing, PX64!x64Kx8GemmTile, PX64!x64Kx8Form, PX64!UnsignedPairs, PX64!Form
  <2> HIDE DEF f, y
  <2>2. Fits(f)
    BY ONLY <1>1, <2>1, Zenon
  <2> QED BY <2>2 DEF f
<1> QED BY <1>2, <1>3

(* q6_K: a nibble and two bits above it.                                   *)
Q6Bytes(b) == BytesIn(b, 144, 1679)

(* A q6_K quant has at most six bits.                                      *)
LEMMA x64Q6Quants ==
    ASSUME NEW b, Q6Bytes(b), NEW c, NEW half \in 0 .. 1, NEW sbk \in 0 .. 3,
           NEW hi \in 0 .. 1, NEW k \in 0 .. 1, NEW at \in 0 .. 63
    PROVE  x64Q6_quant(b, c, half, sbk, hi, k, at) \in -63 .. 63
<1> DEFINE o == 144 + 512 * half + 128 * sbk + 64 * k
           t == 1168 + 256 * half + 128 * (sbk % 2) + 64 * k
           e == IF sbk < 2 THEN 0 ELSE 2
           l0 == PX64!Shr(b, o, at, 0, 2)
           l4 == PX64!Shr(b, o, at, 4, 2)
           qh == PX64!Shr(b, t, at, e, 2)
<1>1. o \in Nat /\ 144 <= o /\ o + 63 <= 1679
  OBVIOUS
<1>2. t \in Nat /\ 144 <= t /\ t + 63 <= 1679
  OBVIOUS
<1>3. e \in 0 .. 7
  OBVIOUS
<1>4. x64Q6_quant(b, c, half, sbk, hi, k, at)
      = IF hi = 0 THEN (l0 % 16) + (qh % 4) * 2^4 ELSE (l4 % 16) + PX64!Bits(qh, 4, 2) * 2^4
  BY DEF x64Q6_quant, PX64!q6Kx8
<1> HIDE DEF o, t, e
<1>5. ASSUME NEW p \in Nat, 144 <= p, p + 63 <= 1679, NEW s \in 0 .. 7
      PROVE  PX64!Shr(b, p, at, s, 2) \in 0 .. 255
  <2>1. 144 \in Nat /\ 1679 \in Nat
    OBVIOUS
  <2>2. BytesIn(b, p, p + 63)
    BY ONLY <1>5, <2>1, Q6Bytes(b), Inside64 DEF Q6Bytes
  <2> QED BY ONLY <2>2, p \in Nat, s \in 0 .. 7, at \in 0 .. 63, ShrOf64, Zenon
<1>6. \A s \in 0 .. 7 : PX64!Shr(b, o, at, s, 2) \in 0 .. 255
  BY ONLY <1>1, <1>5
<1>7. \A s \in 0 .. 7 : PX64!Shr(b, t, at, s, 2) \in 0 .. 255
  BY ONLY <1>2, <1>5
<1>8. l0 \in 0 .. 255 /\ l4 \in 0 .. 255 /\ qh \in 0 .. 255
  <2>1. 0 \in 0 .. 7 /\ 4 \in 0 .. 7
    OBVIOUS
  <2> QED BY ONLY <1>3, <1>6, <1>7, <2>1
<1> HIDE DEF l0, l4, qh
<1> DEFINE top == PX64!Bits(qh, 4, 2)
<1>9. top \in 0 .. 3
  <2>1. qh \in Int /\ 4 \in 0 .. 9
    BY <1>8
  <2>2. X64!Bits(qh, 4, 2) \in 0 .. 3
    BY ONLY <2>1, x64Bits
  <2> QED BY ONLY <2>2, SameLanes
<1> HIDE DEF top
<1>10. l0 % 16 \in 0 .. 15 /\ l4 % 16 \in 0 .. 15 /\ qh % 4 \in 0 .. 3 /\ 2^4 = 16
  BY ONLY <1>8
<1>11. x64Q6_quant(b, c, half, sbk, hi, k, at)
       = IF hi = 0 THEN (l0 % 16) + (qh % 4) * 2^4 ELSE (l4 % 16) + top * 2^4
  BY <1>4 DEF top
<1> QED BY ONLY <1>9, <1>10, <1>11

(* Every dot of the q6_K nests has 8 lanes of such quants.                 *)
LEMMA x64Q6Weights ==
    ASSUME NEW b, Q6Bytes(b), NEW c \in 0 .. 7, NEW y, NEW yd,
           NEW d \in UNION PX64!x64Q6Dots(b, c, y, yd)
    PROVE  Weights(d.w, 7, 63)
<1> DEFINE D == x64Q6_Dots(b, c, y, yd)
<1>1. PICK half \in 0 .. 1, sbk \in 0 .. 3, hi \in 0 .. 1, k \in 0 .. 1 : d = Cell4(D, half, sbk, hi, k)
  <2>1. d \in Dots2422(D)
    <3>1. PX64!x64Q6Dots(b, c, y, yd) = Sums2422(D)
      BY ONLY x64Q6_Are, ZenonT(60)
    <3> HIDE DEF D
    <3> QED BY <3>1, UnionDots2422
  <2> QED BY <2>1 DEF Dots2422
<1>2. d.w = x64Q6_w(b, c, half, sbk, hi, k)
  BY <1>1 DEF Cell4, x64Q6_Dots, PX64!DotOn
<1> DEFINE h == PX64!HaddAt(PX64!LaneOf(c))
<1>3. d.w = [m \in 0 .. 7 |-> x64Q6_quant(b, c, half, sbk, hi, k, h + m)]
  BY <1>2 DEF x64Q6_w, PX64!L8
<1>4. h \in {0, 8, 16, 24, 32, 40, 48, 56}
  BY HaddPlaces
<1> HIDE DEF h
<1>5. ASSUME NEW m \in 0 .. 7
      PROVE  x64Q6_quant(b, c, half, sbk, hi, k, h + m) \in -63 .. 63
  <2> DEFINE at == h + m
  <2>1. at \in 0 .. 63
    BY <1>4
  <2> HIDE DEF at
  <2>2. x64Q6_quant(b, c, half, sbk, hi, k, at) \in -63 .. 63
    BY ONLY <2>1, Q6Bytes(b), half \in 0 .. 1, sbk \in 0 .. 3, hi \in 0 .. 1, k \in 0 .. 1,
            x64Q6Quants, Zenon
  <2> QED BY <2>2 DEF at
<1> QED BY ONLY <1>3, <1>5 DEF Weights

(* Two sums of 128 * 126 fit.                                              *)
LEMMA x64Q6Fits ==
    ASSUME NEW b, Q6Bytes(b), NEW c \in 0 .. 7, NEW r
    PROVE  Fits(PX64!x64Q6K8x8Body(b, c)) /\ Fits(PX64!x64Q6KGemmTile(b, c, r))
<1>1. ASSUME NEW y, NEW yd, NEW f, Summing(f, PX64!x64Q6Dots(b, c, y, yd))
      PROVE  Fits(f)
  <2> DEFINE W == PX64!x64Q6Dots(b, c, y, yd)
             D == x64Q6_Dots(b, c, y, yd)
  <2>1. Twos(f)
    <3>1. W = Sums2422(D)
      BY ONLY x64Q6_Are, Zenon
    <3>2. f.words = W
      BY <1>1 DEF Summing
    <3> HIDE DEF W, D
    <3>3. ASSUME NEW sum \in Sums2422(D)
          PROVE  \E p, q : sum \subseteq {p, q}
      <4>1. PICK j \in 0 .. 1, k \in 0 .. 1, n \in 0 .. 3 : sum = {Cell4(D, j, n, k, l) : l \in 0 .. 1}
        BY DEF Sums2422
      <4>2. 0 .. 1 = {0, 1}
        OBVIOUS
      <4>3. sum \subseteq {Cell4(D, j, n, k, 0), Cell4(D, j, n, k, 1)}
        BY ONLY <4>1, <4>2
      <4> QED BY ONLY <4>3, Zenon
    <3>4. f.words = Sums2422(D)
      BY ONLY <3>1, <3>2
    <3>5. \A sum \in Sums2422(D) : \E p, q : sum \subseteq {p, q}
      BY ONLY <3>3
    <3> DEFINE S == Sums2422(D)
    <3> HIDE DEF S
    <3>6. f.words = S /\ \A sum \in S : \E p, q : sum \subseteq {p, q}
      BY ONLY <3>4, <3>5 DEF S
    <3> QED BY ONLY <3>6, Zenon DEF Twos
  <2>2. Octets(f, 63)
    <3>1. f.dots = UNION W
      BY <1>1 DEF Summing
    <3>2. ASSUME NEW d \in UNION W
          PROVE  Weights(d.w, 7, 63)
      BY ONLY Q6Bytes(b), c \in 0 .. 7, <3>2, x64Q6Weights, Zenon
    <3> HIDE DEF W
    <3> QED BY ONLY <3>1, <3>2 DEF Octets
  <2>3. UNION f.words \subseteq f.dots
    BY <1>1 DEF Summing
  <2>4. /\ 128 \in Nat /\ 63 \in Nat /\ 16128 \in Nat /\ 16128 = 128 * (2 * 63) /\ 32767 \in Nat
        /\ 2 * 16128 <= 32767
    OBVIOUS
  <2>5. \A act, B, P, top \in Nat :
           /\ P = act * (2 * B) /\ 2 * P <= top /\ f.act = act
           /\ Octets(f, B)
           => FitsIn(f, top)
    BY ONLY <2>1, <2>3, WordsFit, Zenon DEF Octets
  <2>6. f.act = 128
    BY <1>1 DEF Summing
  <2>7. FitsIn(f, 32767)
    BY ONLY <2>2, <2>4, <2>5, <2>6
  <2> QED BY <2>7 DEF Fits
<1>2. Fits(PX64!x64Q6K8x8Body(b, c))
  <2> DEFINE f == PX64!x64Q6K8x8Body(b, c)
             y == PX64!GemvY(PX64!Activations.q8_K)
  <2>1. Summing(f, PX64!x64Q6Dots(b, c, y, 0))
    BY DEF Summing, PX64!x64Q6K8x8Body, PX64!x64Q6Form, PX64!UnsignedPairs, PX64!Form
  <2> HIDE DEF f, y
  <2>2. Fits(f)
    BY ONLY <1>1, <2>1, Zenon
  <2> QED BY <2>2 DEF f
<1>3. Fits(PX64!x64Q6KGemmTile(b, c, r))
  <2> DEFINE f == PX64!x64Q6KGemmTile(b, c, r)
             y == PX64!GemmY(PX64!Activations.q8_Kx4, r)
  <2>1. Summing(f, PX64!x64Q6Dots(b, c, y, 4 * r))
    BY DEF Summing, PX64!x64Q6KGemmTile, PX64!x64Q6Form, PX64!UnsignedPairs, PX64!Form
  <2> HIDE DEF f, y
  <2>2. Fits(f)
    BY ONLY <1>1, <2>1, Zenon
  <2> QED BY <2>2 DEF f
<1> QED BY <1>2, <1>3

(* The 32-quant formats: a nibble of a byte whose nibbles may be flipped,  *)
(* a fifth bit or a look-up.                                               *)
XBytes(L, b) ==
    /\ L.fifth \in BOOLEAN /\ L.xor \in BOOLEAN
    /\ L.qsOff \in Nat /\ BytesIn(b, L.qsOff, L.qsOff + 127)
    /\ L.fifth => L.qhOff \in Nat /\ BytesIn(b, L.qhOff, L.qhOff + 31)
    /\ PX64!Signed(L) => \A v \in 0 .. 15 : L.lut[1 + v] \in -127 .. 127

(* A nibble of a 32-quant block of the nests.                              *)
LEMMA x64X8Nibbles ==
    ASSUME NEW L, NEW b, XBytes(L, b), NEW n \in 0 .. 3, NEW hi \in 0 .. 1, NEW e \in 0 .. 31
    PROVE  x64X8_nibble(L, b, n, hi, e) \in 0 .. 15
<1> DEFINE from == L.qsOff
           raw(l) == PX64!Unflipped(L, b[from + 32 * n + l])
           R == [l \in 0 .. 31 |-> raw(l)]
           v == PX64!Shr(R, 0, e, 4, 2)
<1>1. ASSUME NEW l \in 0 .. 31
      PROVE  raw(l) \in Int
  <2>1. from \in Nat /\ BytesIn(b, from, from + 127)
    BY DEF XBytes
  <2> HIDE DEF from
  <2>2. from + 32 * n + l \in from .. from + 127
    BY <1>1, <2>1
  <2> DEFINE byte == b[from + 32 * n + l]
  <2>3. byte \in Int
    BY ONLY <2>1, <2>2, ByteIn
  <2> HIDE DEF byte
  <2>4. PX64!Unflipped(L, byte) \in Int
    <3>1. ((byte % 16) + 8) % 16 \in Int /\ (byte \div 16 + 8) % 16 \in Int
      BY ONLY <2>3
    <3> DEFINE p == ((byte % 16) + 8) % 16
               q == (byte \div 16 + 8) % 16
    <3>2. PX64!Unflipped(L, byte) = IF L.xor THEN p + 16 * q ELSE byte
      BY DEF PX64!Unflipped
    <3> HIDE DEF p, q
    <3>3. p \in Int /\ q \in Int
      BY <3>1 DEF p, q
    <3> QED BY ONLY <2>3, <3>2, <3>3
  <2> QED BY <2>4, SMTT(30) DEF byte
<1>2. raw(e) % 16 \in 0 .. 15
  <2> DEFINE x == raw(e)
  <2>1. x \in Int
    BY <1>1
  <2> HIDE DEF x
  <2>2. x % 16 \in 0 .. 15
    BY <2>1
  <2> QED BY <2>2 DEF x
<1>3. ASSUME NEW l \in 0 .. 31
      PROVE  R[l] \in Int
  <2>1. R[l] = raw(l)
    BY <1>3
  <2> HIDE DEF R, raw
  <2> QED BY ONLY <1>1, <1>3, <2>1
<1>4. x64X8_nibble(L, b, n, hi, e) = IF hi = 0 THEN raw(e) % 16 ELSE v % 16
  BY DEF x64X8_nibble
<1> HIDE DEF R, raw
<1>5. v % 16 \in 0 .. 15
  <2>1. ASSUME NEW s \in 0 .. 7
        PROVE  PX64!Shr(R, 0, e, s, 2) \in 0 .. 255
    <3>1. 0 + e \in 0 .. 31 /\ ((e + 1) % 2 = 0 \/ 0 + e + 1 \in 0 .. 31)
      OBVIOUS
    <3>2. R[0 + e] \in Int /\ ((e + 1) % 2 = 0 \/ R[0 + e + 1] \in Int)
      BY ONLY <1>3, <3>1
    <3>3. X64!Shr(R, 0, e, s, 2) \in 0 .. 255
      BY ONLY <3>2, s \in 0 .. 7, x64Shr
    <3> QED BY ONLY <3>3, SameLanes
  <2>2. 4 \in 0 .. 7
    OBVIOUS
  <2>3. v \in 0 .. 255
    BY ONLY <2>1, <2>2
  <2> HIDE DEF v
  <2> QED BY ONLY <2>3
<1> QED BY ONLY <1>2, <1>4, <1>5

(* The fifth bit of q5_0, one of a byte per column.                        *)
LEMMA x64X8Fifths ==
    ASSUME NEW L, NEW b, XBytes(L, b), L.fifth, NEW n \in 0 .. 3, NEW hi \in 0 .. 1,
           NEW p \in 0 .. 3, NEW m \in 0 .. 7
    PROVE  x64X8_fifth(L, b, n, hi, p, m) \in 0 .. 1
<1> DEFINE from == L.qhOff
           run == x64X8_run(hi, p)
<1>1. run \in 0 .. 7
  BY SMTT(30) DEF x64X8_run
<1>2. from \in Nat /\ BytesIn(b, from, from + 31)
  BY DEF XBytes
<1> HIDE DEF from, run
<1>3. from + 8 * n + run \in from .. from + 31
  BY <1>1, <1>2
<1> DEFINE byte == b[from + 8 * n + run]
<1>4. byte \in Int
  BY ONLY <1>2, <1>3, ByteIn
<1> HIDE DEF byte
<1>5. m \in 0 .. 9
  OBVIOUS
<1>6. X64!Bits(byte, m, 1) \in 0 .. 1
  BY ONLY <1>4, <1>5, x64Bits
<1>7. PX64!Bits(byte, m, 1) \in 0 .. 1
  BY ONLY <1>6, SameLanes
<1> QED BY <1>7 DEF x64X8_fifth, byte, from, run

(* A weight of those nests: a nibble, five bits, or a table's entry.       *)
LEMMA x64X8Weights ==
    ASSUME NEW L, NEW b, XBytes(L, b), NEW c \in 0 .. 7, NEW n \in 0 .. 3, NEW hi \in 0 .. 1
    PROVE  Weights(x64X8_w(L, b, c, n, hi), 7, 127)
<1> DEFINE h == PX64!HaddAt(PX64!LaneOf(c))
           p == (h % 32) \div 8
<1>1. h \in {0, 8, 16, 24, 32, 40, 48, 56}
  BY HaddPlaces
<1> HIDE DEF h
<1>2. p \in 0 .. 3
  BY <1>1
<1>3. x64X8_w(L, b, c, n, hi) = [m \in 0 .. 7 |-> PX64!x64X8Unpack(L, b, n, hi, p, m)]
  BY DEF x64X8_w, PX64!L8, h
<1> HIDE DEF p
<1>4. ASSUME NEW m \in 0 .. 7
      PROVE  PX64!x64X8Unpack(L, b, n, hi, p, m) \in -127 .. 127
  <2> DEFINE e == 8 * p + m
             nibble == x64X8_nibble(L, b, n, hi, e)
             fifth == x64X8_fifth(L, b, n, hi, p, m)
  <2>1. PX64!x64X8Unpack(L, b, n, hi, p, m)
        = CASE PX64!Signed(L) -> L.lut[1 + nibble]
            [] L.fifth -> nibble + 16 * fifth
            [] ~PX64!Signed(L) /\ ~L.fifth -> nibble
    BY Zenon DEF PX64!x64X8Unpack, x64X8_nibble, x64X8_fifth, x64X8_run, PX64!L32
  <2>2. e \in 0 .. 31
    BY <1>2, <1>4
  <2> HIDE DEF e
  <2>3. nibble \in 0 .. 15
    BY ONLY XBytes(L, b), n \in 0 .. 3, hi \in 0 .. 1, <2>2, x64X8Nibbles
  <2>4. L.fifth => fifth \in 0 .. 1
    BY ONLY XBytes(L, b), n \in 0 .. 3, hi \in 0 .. 1, <1>2, <1>4, x64X8Fifths, SMTT(30)
  <2>5. PX64!Signed(L) => L.lut[1 + nibble] \in -127 .. 127
    BY ONLY XBytes(L, b), <2>3, SMTT(30) DEF XBytes
  <2> HIDE DEF nibble, fifth
  <2>6. L.fifth \in BOOLEAN
    BY DEF XBytes
  <2>7. PX64!Signed(L) \in BOOLEAN
    BY DEF PX64!Signed
  <2>8. CASE PX64!Signed(L)
    <3>1. \/ PX64!x64X8Unpack(L, b, n, hi, p, m) = L.lut[1 + nibble]
          \/ PX64!x64X8Unpack(L, b, n, hi, p, m) = nibble + 16 * fifth /\ L.fifth
      BY ONLY <2>1, <2>6, <2>8
    <3> QED BY ONLY <2>3, <2>4, <2>5, <2>8, <3>1
  <2>9. CASE ~PX64!Signed(L) /\ L.fifth
    <3>1. PX64!x64X8Unpack(L, b, n, hi, p, m) = nibble + 16 * fifth
      BY ONLY <2>1, <2>6, <2>9
    <3> QED BY ONLY <2>3, <2>4, <2>9, <3>1
  <2>10. CASE ~PX64!Signed(L) /\ ~L.fifth
    <3>1. PX64!x64X8Unpack(L, b, n, hi, p, m) = nibble
      BY ONLY <2>1, <2>6, <2>10
    <3> QED BY ONLY <2>3, <3>1
  <2> QED BY <2>6, <2>7, <2>8, <2>9, <2>10
<1> QED BY ONLY <1>3, <1>4 DEF Weights

(* Pairs of 128 * 254 fit: those nests widen every pair.                   *)
LEMMA x64X8Fits ==
    ASSUME NEW L, NEW b, XBytes(L, b), NEW c \in 0 .. 7, NEW r
    PROVE  Fits(PX64!x64GemvX8Kernel(L, b, c)) /\ Fits(PX64!x64GemmX8Kernel(L, b, c, r))
<1>1. ASSUME NEW y, NEW yd
      PROVE  \A d \in PX64!x64X8Form(L, b, c, y, yd).dots : Weights(d.w, 7, 127)
  <2> DEFINE D == x64X8_Dots(L, b, c, y, yd)
             N == x64X8_N(c)
  <2>1. PX64!x64X8Form(L, b, c, y, yd).dots = Grid2(D, N, 0 .. 1)
    BY ONLY x64X8_Are, Zenon
  <2>2. \A n \in N, h \in 0 .. 1 : n \in 0 .. 3 /\ D[n][h].w = x64X8_w(L, b, c, n, h)
    BY DEF x64X8_Dots, x64X8_N, PX64!L4, PX64!DotOn
  <2> HIDE DEF D, N
  <2>3. ASSUME NEW d \in Grid2(D, N, 0 .. 1)
        PROVE  Weights(d.w, 7, 127)
    <3>1. PICK n \in N, h \in 0 .. 1 : d = D[n][h]
      BY <2>3 DEF Grid2
    <3>2. n \in 0 .. 3 /\ d.w = x64X8_w(L, b, c, n, h)
      BY ONLY <2>2, <3>1
    <3>3. Weights(x64X8_w(L, b, c, n, h), 7, 127)
      BY ONLY XBytes(L, b), c \in 0 .. 7, <3>1, <3>2, x64X8Weights
    <3> QED BY ONLY <3>2, <3>3
  <2> QED BY ONLY <2>1, <2>3
<1>2. \A y, yd : /\ PX64!x64X8Form(L, b, c, y, yd).act \in {127, 128}
                 /\ PX64!x64X8Form(L, b, c, y, yd).words = {}
  <2> TAKE y, yd
  <2>1. CASE PX64!Signed(L)
    BY <2>1 DEF PX64!x64X8Form, PX64!SignedPairs, PX64!UnsignedPairs, PX64!Form
  <2>2. CASE ~PX64!Signed(L)
    BY <2>2 DEF PX64!x64X8Form, PX64!SignedPairs, PX64!UnsignedPairs, PX64!Form
  <2> QED BY <2>1, <2>2
<1>3. ASSUME NEW f, NEW y, NEW yd, f.dots = PX64!x64X8Form(L, b, c, y, yd).dots,
             f.act = PX64!x64X8Form(L, b, c, y, yd).act, f.words = PX64!x64X8Form(L, b, c, y, yd).words
      PROVE  Fits(f)
  <2>1. \A d \in f.dots : \E n \in LastLanes : Weights(d.w, n, 127)
    <3>1. 7 \in LastLanes
      BY DEF LastLanes
    <3> QED BY ONLY <1>1, <1>3, <3>1
  <2>2. \A d \in f.dots : \E n \in LastLanes : Weights(d.w, n, 128)
    <3>1. \A x : x \in -127 .. 127 => x \in -128 .. 128
      OBVIOUS
    <3>2. \A w, n : Weights(w, n, 127) => Weights(w, n, 128)
      BY ONLY <3>1, SMTT(30) DEF Weights
    <3> QED BY ONLY <2>1, <3>2
  <2>3. f.words = {} /\ f.act \in {127, 128}
    BY <1>2, <1>3
  <2>4. Narrow(f, 127, 128) \/ Narrow(f, 128, 127)
    BY ONLY <2>1, <2>2, <2>3 DEF Narrow
  <2> QED BY ONLY <2>4, NarrowFits
<1>4. Fits(PX64!x64GemvX8Kernel(L, b, c))
  <2> DEFINE f == PX64!x64GemvX8Kernel(L, b, c)
             y == PX64!GemvY(PX64!Activations.q8_0)
  <2>1. /\ f.dots = PX64!x64X8Form(L, b, c, y, 0).dots /\ f.act = PX64!x64X8Form(L, b, c, y, 0).act
        /\ f.words = PX64!x64X8Form(L, b, c, y, 0).words
    BY DEF PX64!x64GemvX8Kernel, PX64!x64X8Form, PX64!SignedPairs, PX64!UnsignedPairs, PX64!Form
  <2> HIDE DEF f, y
  <2>2. Fits(f)
    BY ONLY <1>3, <2>1
  <2> QED BY <2>2 DEF f
<1>5. Fits(PX64!x64GemmX8Kernel(L, b, c, r))
  <2> DEFINE f == PX64!x64GemmX8Kernel(L, b, c, r)
             y == PX64!GemmY(PX64!Activations.q8_0x4by8, r)
             yd == 2 * r
  <2>1. /\ f.dots = PX64!x64X8Form(L, b, c, y, yd).dots /\ f.act = PX64!x64X8Form(L, b, c, y, yd).act
        /\ f.words = PX64!x64X8Form(L, b, c, y, yd).words
    BY DEF PX64!x64GemmX8Kernel, PX64!x64X8Form, PX64!SignedPairs, PX64!UnsignedPairs, PX64!Form
  <2> HIDE DEF f, y, yd
  <2>2. Fits(f)
    BY ONLY <1>3, <2>1
  <2> QED BY <2>2 DEF f
<1> QED BY <1>4, <1>5

(* Packing moves bytes: every byte of a run is a byte of a column's block. *)
Columned(in, top) == \A c \in 0 .. 7 : Bytes(in[c], top)
Room(at, last, top) == at \in Nat /\ last \in Nat /\ at + 8 * (last \div 64) + 7 <= top
Grouped(in, at, last) == \A x \in 0 .. last : Group(in, at, x) \in 0 .. 255

(* A group of eight bytes per column, taken from the columns' blocks.      *)
LEMMA GroupBytes ==
    ASSUME NEW in, NEW top \in Nat, NEW at, NEW last, Columned(in, top), Room(at, last, top)
    PROVE  Grouped(in, at, last)
<1> SUFFICES ASSUME NEW x \in 0 .. last
             PROVE  Group(in, at, x) \in 0 .. 255
  BY DEF Grouped
<1> DEFINE c == (x \div 8) % 8
           o == at + 8 * (x \div 64) + (x % 8)
<1>1. at \in Nat /\ last \in Nat /\ at + 8 * (last \div 64) + 7 <= top
  BY DEF Room
<1>2. x \in Nat /\ x <= last
  BY <1>1
<1>3. c \in 0 .. 7 /\ x % 8 \in 0 .. 7
  BY <1>2
<1>4. x \div 64 <= last \div 64 /\ x \div 64 \in Nat
  BY <1>1, <1>2
<1>5. o \in 0 .. top
  BY ONLY <1>1, <1>3, <1>4, <1>2, top \in Nat
<1>6. Group(in, at, x) = in[c][o]
  BY DEF Group
<1> HIDE DEF c, o
<1>7. Bytes(in[c], top)
  BY ONLY <1>3, Columned(in, top) DEF Columned
<1> QED BY ONLY <1>5, <1>6, <1>7, ByteAt

(* A run of the packed block that is such a group.                         *)
Span(from, to, n) == from \in Nat /\ to = from + n
Moves(b, in, at, from, to) == \A o \in from .. to : b[o] = Group(in, at, o - from)

(* A run of packed bytes that only moves bytes is one of bytes.            *)
LEMMA GroupRun ==
    ASSUME NEW b, NEW in, NEW top \in Nat, NEW at, NEW last, Columned(in, top),
           Room(at, last, top), NEW from, NEW to, Span(from, to, last),
           Moves(b, in, at, from, to)
    PROVE  BytesIn(b, from, to)
<1> SUFFICES ASSUME NEW o \in from .. to
             PROVE  b[o] \in 0 .. 255
  BY DEF BytesIn
<1>1. Grouped(in, at, last)
  BY GroupBytes
<1>2. o - from \in 0 .. last
  BY DEF Room, Span
<1>3. b[o] = Group(in, at, o - from)
  BY DEF Moves
<1> QED BY ONLY <1>1, <1>2, <1>3 DEF Grouped

(* A part of a run of bytes.                                               *)
LEMMA PartOf ==
    ASSUME NEW b, NEW from \in Nat, NEW top \in Nat, BytesIn(b, from, top),
           NEW lo \in Nat, NEW hi \in Nat, from <= lo, hi <= top
    PROVE  BytesIn(b, lo, hi)
BY DEF BytesIn

(* Two runs of bytes that meet.                                            *)
LEMMA JoinOf ==
    ASSUME NEW b, NEW from \in Nat, NEW mid \in Nat, NEW top \in Nat, NEW next,
           next = mid + 1, BytesIn(b, from, mid), BytesIn(b, next, top)
    PROVE  BytesIn(b, from, top)
<1> SUFFICES ASSUME NEW o \in from .. top
             PROVE  b[o] \in 0 .. 255
  BY DEF BytesIn
<1>1. o \in from .. mid \/ o \in next .. top
  OBVIOUS
<1> QED BY ONLY <1>1, BytesIn(b, from, mid), BytesIn(b, next, top) DEF BytesIn

(* What the q4_K and q5_K nests read.                                      *)
LEMMA KBytesOf ==
    ASSUME NEW L, NEW b, NEW q, NEW qTop, Span(q, qTop, 1023), BytesIn(b, q, qTop),
           NEW h, NEW hTop, Span(h, hTop, 255), L.qsOff = q, L.fifth \in BOOLEAN,
           ~L.fifth \/ (L.qhOff = h /\ BytesIn(b, h, hTop))
    PROVE  KBytes(L, b)
BY SMTT(30) DEF KBytes, Span

(* What the nests of 32-quant blocks read.                                 *)
LEMMA XBytesOf ==
    ASSUME NEW L, NEW b, NEW q, NEW qTop, Span(q, qTop, 127), BytesIn(b, q, qTop),
           NEW h, NEW hTop, Span(h, hTop, 31), L.qsOff = q, L.fifth \in BOOLEAN,
           L.xor \in BOOLEAN, L.fifth => L.qhOff = h /\ BytesIn(b, h, hTop),
           PX64!Signed(L) => \A v \in 0 .. 15 : L.lut[1 + v] \in -127 .. 127
    PROVE  XBytes(L, b)
BY Zenon DEF XBytes, Span

(* Packing q4_K and q5_K moves the bytes of the quants.                    *)
LEMMA PackedK ==
    ASSUME NEW fm \in {"q4_K", "q5_K"}, NEW in, Columned(in, BlockBytes[fm] - 1)
    PROVE  KBytes(PX64!kx8Layout(fm), Packing(fm, in))
<1> DEFINE b == Packing(fm, in)
           L == PX64!kx8Layout(fm)
<1>1. ASSUME NEW last \in Nat, NEW top, PackedBytes[fm] - 1 = top, top = 128 + last,
             NEW n \in Nat, BlockBytes[fm] - 1 = n, Room(16, last, n)
      PROVE  BytesIn(b, 128, top)
  <2>1. Columned(in, n)
    BY <1>1
  <2>2. Moves(b, in, 16, 128, top)
    <3> SUFFICES ASSUME NEW o \in 128 .. top
                 PROVE  b[o] = Group(in, 16, o - 128)
      BY DEF Moves
    <3>1. b[o] = repackKx8(in, o)
      BY <1>1 DEF Packing
    <3>2. repackKx8(in, o) = Group(in, 16, o - 128)
      BY DEF repackKx8
    <3> QED BY <3>1, <3>2
  <2> HIDE DEF b
  <2>3. Span(128, top, last)
    BY <1>1 DEF Span
  <2> QED BY ONLY <1>1, <2>1, <2>2, <2>3, GroupRun
<1>2. CASE fm = "q4_K"
  <2>1. PackedBytes[fm] - 1 = 1151 /\ BlockBytes[fm] - 1 = 143
    BY <1>2 DEF PackedBytes, BlockBytes
  <2>2. Room(16, 1023, 143) /\ 1151 = 128 + 1023
    BY DEF Room
  <2>3. /\ L.fifth = FALSE /\ L.qsOff = 128
    BY <1>2 DEF PX64!kx8Layout, PX64!q4Kx8Layout
  <2> HIDE DEF b, L
  <2>4. BytesIn(b, 128, 1151)
    BY <1>1, <2>1, <2>2
  <2>5. Span(0, 255, 255) /\ Span(128, 1151, 1023)
    BY DEF Span
  <2>6. L.fifth \in BOOLEAN /\ ~L.fifth
    BY ONLY <2>3
  <2>7. KBytes(L, b)
    <3>1. PICK q, qTop, h, hTop : q = 128 /\ qTop = 1151 /\ h = 0 /\ hTop = 255
      OBVIOUS
    <3>2. Span(q, qTop, 1023) /\ Span(h, hTop, 255) /\ L.qsOff = q /\ BytesIn(b, q, qTop)
      BY ONLY <2>3, <2>4, <2>5, <3>1
    <3> QED BY ONLY <2>6, <3>2, KBytesOf
  <2> QED BY ONLY <2>7 DEF b, L
<1>3. CASE fm = "q5_K"
  <2>1. PackedBytes[fm] - 1 = 1407 /\ BlockBytes[fm] - 1 = 175
    BY <1>3 DEF PackedBytes, BlockBytes
  <2>2. Room(16, 1279, 175) /\ 1407 = 128 + 1279
    BY DEF Room
  <2>3. L.fifth = TRUE /\ L.qsOff = 384 /\ L.qhOff = 128
    BY <1>3 DEF PX64!kx8Layout, PX64!q5Kx8Layout
  <2> HIDE DEF b, L
  <2>4. BytesIn(b, 128, 1407)
    BY <1>1, <2>1, <2>2
  <2>5. /\ 128 <= 384 /\ 383 <= 1407 /\ 128 \in Nat /\ 384 \in Nat /\ 383 \in Nat /\ 1407 \in Nat
        /\ 128 <= 128 /\ 1407 <= 1407
    OBVIOUS
  <2>6. BytesIn(b, 384, 1407)
    BY ONLY <2>4, <2>5, PartOf
  <2>7. BytesIn(b, 128, 383)
    BY ONLY <2>4, <2>5, PartOf
  <2>8. Span(384, 1407, 1023) /\ Span(128, 383, 255)
    BY DEF Span
  <2>9. L.fifth \in BOOLEAN /\ L.qhOff = 128
    BY ONLY <2>3
  <2>10. KBytes(L, b)
    <3>1. PICK q, qTop, h, hTop : q = 384 /\ qTop = 1407 /\ h = 128 /\ hTop = 383
      OBVIOUS
    <3>2. /\ Span(q, qTop, 1023) /\ Span(h, hTop, 255) /\ L.qsOff = q /\ BytesIn(b, q, qTop)
          /\ L.qhOff = h /\ BytesIn(b, h, hTop)
      BY ONLY <2>3, <2>6, <2>7, <2>8, <3>1
    <3> QED BY ONLY <2>9, <3>2, KBytesOf
  <2> QED BY ONLY <2>10 DEF b, L
<1> QED BY <1>2, <1>3

(* Packing q6_K moves the bytes of the quants.                             *)
LEMMA PackedQ6 ==
    ASSUME NEW in, Columned(in, BlockBytes["q6_K"] - 1)
    PROVE  Q6Bytes(Packing("q6_K", in))
<1> DEFINE b == Packing("q6_K", in)
<1>1. Columned(in, 209)
  BY DEF BlockBytes
<1>2. ASSUME NEW o \in 0 .. PackedBytes["q6_K"] - 1
      PROVE  b[o] = repackQ6Kx8(in, o)
  BY <1>2 DEF Packing
<1> HIDE DEF b
<1>3. Moves(b, in, 0, 144, 1167)
  <2> SUFFICES ASSUME NEW o \in 144 .. 1167
               PROVE  b[o] = Group(in, 0, o - 144)
    BY DEF Moves
  <2>1. o \in 0 .. PackedBytes["q6_K"] - 1
    BY DEF PackedBytes
  <2>2. repackQ6Kx8(in, o) = Group(in, 0, o - 144)
    BY DEF repackQ6Kx8
  <2> QED BY <1>2, <2>1, <2>2
<1>4. Moves(b, in, 128, 1168, 1679)
  <2> SUFFICES ASSUME NEW o \in 1168 .. 1679
               PROVE  b[o] = Group(in, 128, o - 1168)
    BY DEF Moves
  <2>1. o \in 0 .. PackedBytes["q6_K"] - 1
    BY DEF PackedBytes
  <2>2. repackQ6Kx8(in, o) = Group(in, 128, o - 1168)
    BY SMTT(30) DEF repackQ6Kx8
  <2> QED BY <1>2, <2>1, <2>2
<1>5. /\ Span(144, 1167, 1023) /\ Span(1168, 1679, 511) /\ 1168 = 1167 + 1 /\ 209 \in Nat
      /\ 144 \in Nat /\ 1167 \in Nat /\ 1168 \in Nat /\ 1679 \in Nat
  BY DEF Span
<1>6. Room(0, 1023, 209) /\ Room(128, 511, 209)
  BY DEF Room
<1>7. BytesIn(b, 144, 1167)
  BY ONLY <1>1, <1>3, <1>5, <1>6, GroupRun
<1>8. BytesIn(b, 1168, 1679)
  BY ONLY <1>1, <1>4, <1>5, <1>6, GroupRun
<1>9. BytesIn(b, 144, 1679)
  BY ONLY <1>5, <1>7, <1>8, JoinOf
<1> QED BY ONLY <1>9 DEF Q6Bytes, b

(* The look-up tables stay inside a signed byte.                           *)
LEMMA LutRange ==
    \A v \in 0 .. 15 : PX64!kvaluesIQ4NL[1 + v] \in -127 .. 127 /\ PX64!kvaluesFP4[1 + v] \in -127 .. 127
<1>1. \A e \in 1 .. 16 : PX64!kvaluesIQ4NL[e] \in -127 .. 127
  BY DEF PX64!kvaluesIQ4NL
<1>2. \A e \in 1 .. 16 : PX64!kvaluesFP4[e] \in -127 .. 127
  BY DEF PX64!kvaluesFP4
<1>3. \A v \in 0 .. 15 : 1 + v \in 1 .. 16
  OBVIOUS
<1> QED BY ONLY <1>1, <1>2, <1>3

(* Packing a 32-quant block moves the bytes of the quants, or flips bits   *)
(* of them.                                                                *)
LEMMA PackedX ==
    ASSUME NEW fm \in {"q5_0", "q4_0", "iq4_nl", "mxfp4"}, NEW in,
           Columned(in, BlockBytes[fm] - 1)
    PROVE  XBytes(PX64!x8Layout(fm), Packing(fm, in))
<1> DEFINE b == Packing(fm, in)
           L == PX64!x8Layout(fm)
<1>1. CASE fm = "q5_0"
  <2>1. Columned(in, 21) /\ PackedBytes[fm] = 176
    BY <1>1 DEF BlockBytes, PackedBytes
  <2>2. Moves(b, in, 6, 48, 175)
    <3> SUFFICES ASSUME NEW o \in 48 .. 175
                 PROVE  b[o] = Group(in, 6, o - 48)
      BY DEF Moves
    <3>1. b[o] = repackQ5_0x8(in, o)
      BY <1>1, <2>1 DEF Packing
    <3>2. repackQ5_0x8(in, o) = Group(in, 6, o - 48)
      BY DEF repackQ5_0x8
    <3> QED BY <3>1, <3>2
  <2>3. BytesIn(b, 16, 47)
    <3> SUFFICES ASSUME NEW o \in 16 .. 47
                 PROVE  b[o] \in 0 .. 255
      BY DEF BytesIn
    <3> DEFINE m == (o - 16) \div 4
               c == 2 * (m % 4) + (o % 2)
               e == 2 + 2 * ((o % 4) \div 2) + m \div 4
    <3>1. b[o] = repackQ5_0x8(in, o)
      BY <1>1, <2>1 DEF Packing
    <3>2. repackQ5_0x8(in, o) = in[c][e]
      BY DEF repackQ5_0x8
    <3>3. m \in 0 .. 7 /\ o % 2 \in 0 .. 1 /\ o % 4 \in 0 .. 3
      OBVIOUS
    <3>4. c \in 0 .. 7 /\ e \in 0 .. 21
      <4> HIDE DEF m
      <4>1. m % 4 \in 0 .. 3 /\ m \div 4 \in 0 .. 1 /\ (o % 4) \div 2 \in 0 .. 1
        BY <3>3
      <4>2. \A x \in 0 .. 3, y, z, u \in 0 .. 1 :
               2 * x + y \in 0 .. 7 /\ 2 + 2 * z + u \in 0 .. 21
        OBVIOUS
      <4> QED BY ONLY <3>3, <4>1, <4>2
    <3> HIDE DEF b, c, e
    <3>5. Bytes(in[c], 21)
      BY ONLY <2>1, <3>4 DEF Columned
    <3>6. in[c][e] \in 0 .. 255
      BY ONLY <3>4, <3>5, ByteAt
    <3> QED BY ONLY <3>1, <3>2, <3>6
  <2>4. L.fifth = TRUE /\ L.xor = FALSE /\ L.qsOff = 48 /\ L.qhOff = 16 /\ ~PX64!Signed(L)
    BY <1>1 DEF PX64!x8Layout, PX64!Signed
  <2> HIDE DEF b, L
  <2>5. Span(48, 175, 127) /\ Span(16, 47, 31) /\ 21 \in Nat /\ Room(6, 127, 21)
    BY DEF Span, Room
  <2>6. BytesIn(b, 48, 175)
    BY ONLY <2>1, <2>2, <2>5, GroupRun
  <2>7. XBytes(L, b)
    <3>1. PICK q, qTop, h, hTop : q = 48 /\ qTop = 175 /\ h = 16 /\ hTop = 47
      OBVIOUS
    <3>2. /\ Span(q, qTop, 127) /\ Span(h, hTop, 31) /\ L.qsOff = q /\ BytesIn(b, q, qTop)
          /\ L.qhOff = h /\ BytesIn(b, h, hTop)
      BY ONLY <2>3, <2>4, <2>5, <2>6, <3>1
    <3>3. L.fifth \in BOOLEAN /\ L.xor \in BOOLEAN /\ ~PX64!Signed(L)
      BY ONLY <2>4
    <3> QED BY ONLY <3>2, <3>3, XBytesOf, Zenon
  <2> QED BY ONLY <2>7 DEF b, L
<1>2. CASE fm \in {"q4_0", "iq4_nl"}
  <2>1. Columned(in, 17) /\ PackedBytes[fm] = 144
    BY <1>2 DEF BlockBytes, PackedBytes
  <2>2. Grouped(in, 2, 127)
    <3>1. Room(2, 127, 17) /\ 17 \in Nat
      BY DEF Room
    <3> QED BY ONLY <2>1, <3>1, GroupBytes
  <2>3. BytesIn(b, 16, 143)
    <3> SUFFICES ASSUME NEW o \in 16 .. 143
                 PROVE  b[o] \in 0 .. 255
      BY ZenonT(30) DEF BytesIn
    <3> DEFINE x == repackX8Plain(in, o)
    <3>1. x \in 0 .. 255
      <4>1. x = Group(in, 2, o - 16)
        BY DEF repackX8Plain
      <4>2. o - 16 \in 0 .. 127
        OBVIOUS
      <4> QED BY ONLY <2>2, <4>1, <4>2 DEF Grouped
    <3>2. repackQ4_0x8(in, o) = ((x + 8) % 16) + 16 * ((x \div 16 + 8) % 16)
      BY DEF repackQ4_0x8
    <3> HIDE DEF x
    <3>3. ((x + 8) % 16) + 16 * ((x \div 16 + 8) % 16) \in 0 .. 255
      BY ONLY <3>1, SMTT(30)
    <3>4. b[o] = repackQ4_0x8(in, o) \/ b[o] = x
      BY <1>2, <2>1 DEF Packing, x
    <3> HIDE DEF b
    <3> QED BY ONLY <3>1, <3>2, <3>3, <3>4
  <2>4. /\ L.fifth = FALSE /\ L.xor \in BOOLEAN /\ L.qsOff = 16
        /\ L.lut = <<>> \/ L.lut = PX64!kvaluesIQ4NL
    <3>1. CASE fm = "q4_0"
      BY <3>1 DEF PX64!x8Layout
    <3>2. CASE fm = "iq4_nl"
      BY <3>2 DEF PX64!x8Layout
    <3> QED BY <1>2, <3>1, <3>2
  <2> HIDE DEF b, L
  <2>5. Span(16, 143, 127) /\ Span(0, 31, 31)
    BY DEF Span
  <2>6. PX64!Signed(L) => \A v \in 0 .. 15 : L.lut[1 + v] \in -127 .. 127
    BY ONLY <2>4, LutRange, ZenonT(60) DEF PX64!Signed
  <2>7. XBytes(L, b)
    BY ONLY <2>3, <2>4, <2>5, <2>6, XBytesOf, Zenon
  <2> QED BY ONLY <2>7 DEF b, L
<1>3. CASE fm = "mxfp4"
  <2>1. Columned(in, 16) /\ PackedBytes[fm] = 136
    BY <1>3 DEF BlockBytes, PackedBytes
  <2>2. Moves(b, in, 1, 8, 135)
    <3> SUFFICES ASSUME NEW o \in 8 .. 135
                 PROVE  b[o] = Group(in, 1, o - 8)
      BY DEF Moves
    <3>1. b[o] = repackMXFP4x8(in, o)
      BY <1>3, <2>1 DEF Packing
    <3>2. repackMXFP4x8(in, o) = Group(in, 1, o - 8)
      BY DEF repackMXFP4x8
    <3> QED BY <3>1, <3>2
  <2>3. L.fifth = FALSE /\ L.xor = FALSE /\ L.qsOff = 8 /\ L.lut = PX64!kvaluesFP4
    BY <1>3 DEF PX64!x8Layout
  <2> HIDE DEF b, L
  <2>4. Span(8, 135, 127) /\ Span(0, 31, 31) /\ 16 \in Nat /\ Room(1, 127, 16)
    BY DEF Span, Room
  <2>5. BytesIn(b, 8, 135)
    BY ONLY <2>1, <2>2, <2>4, GroupRun
  <2>6. PX64!Signed(L) => \A v \in 0 .. 15 : L.lut[1 + v] \in -127 .. 127
    BY ONLY <2>3, LutRange, ZenonT(60)
  <2>7. XBytes(L, b)
    BY ONLY <2>3, <2>4, <2>5, <2>6, XBytesOf
  <2> QED BY ONLY <2>7 DEF b, L
<1> QED BY <1>1, <1>2, <1>3

(* What a pass of each export leaves fits: on arm64 nothing is summed in   *)
(* pairs, on amd64 the weights are narrow.                                *)
LEMMA a64LookupFits ==
    ASSUME NEW b, arch = "arm64", fmt \in {"iq4_nl", "mxfp4", "q4_1", "q5_1", "iq4_xs"}
    PROVE  Fits(LookupBody(b))
<1>1. CASE fmt = "iq4_nl"
  <2>1. LookupBody(b) = A64!a64VecDotLUT32("iq4_nl", b)
    BY arch = "arm64", <1>1 DEF LookupBody
  <2> QED BY ONLY <2>1, a64LookupQuiet, Quiet, Zenon
<1>2. CASE fmt = "mxfp4"
  <2>1. LookupBody(b) = A64!a64VecDotLUT32("mxfp4", b)
    BY arch = "arm64", <1>2 DEF LookupBody
  <2> QED BY ONLY <2>1, a64LookupQuiet, Quiet, Zenon
<1>3. CASE fmt = "q4_1"
  <2>1. (fmt = "q5_1") = FALSE
    BY <1>3
  <2>2. LookupBody(b) = A64!a64VecDotQx1Kernel(fmt = "q5_1", b)
    BY arch = "arm64", <1>3 DEF LookupBody
  <2>3. LookupBody(b) = A64!a64VecDotQx1Kernel(FALSE, b)
    BY ONLY <2>1, <2>2, Zenon
  <2> QED BY ONLY <2>3, a64LookupQuiet, Quiet, Zenon
<1>4. CASE fmt = "q5_1"
  <2>1. (fmt = "q5_1") = TRUE
    BY <1>4
  <2>2. LookupBody(b) = A64!a64VecDotQx1Kernel(fmt = "q5_1", b)
    BY arch = "arm64", <1>4 DEF LookupBody
  <2>3. LookupBody(b) = A64!a64VecDotQx1Kernel(TRUE, b)
    BY ONLY <2>1, <2>2, Zenon
  <2> QED BY ONLY <2>3, a64LookupQuiet, Quiet, Zenon
<1>5. CASE fmt = "iq4_xs"
  <2>1. LookupBody(b) = A64!a64VecDotIQ4XSKernel(b)
    BY arch = "arm64", <1>5 DEF LookupBody
  <2> QED BY ONLY <2>1, a64LookupQuiet, Quiet, Zenon
<1> QED BY <1>1, <1>2, <1>3, <1>4, <1>5

LEMMA x64LookupFits ==
    ASSUME NEW b, arch = "amd64", Bytes(b, BlockBytes[fmt] - 1), fmt \in {"iq4_nl", "mxfp4", "q4_1", "q5_1", "iq4_xs"}
    PROVE  Fits(LookupBody(b))
<1>1. CASE fmt = "iq4_nl"
  <2>1. LookupBody(b) = X64!x64VecDotLUT32("iq4_nl", b)
    BY arch = "amd64", <1>1 DEF LookupBody
  <2>9. Bytes(b, 17)
    BY <1>1, Bytes(b, BlockBytes[fmt] - 1) DEF BlockBytes
  <2> QED BY ONLY <2>1, <2>9, x64IQ4NL_Narrow, NarrowFits, Zenon
<1>2. CASE fmt = "mxfp4"
  <2>1. LookupBody(b) = X64!x64VecDotLUT32("mxfp4", b)
    BY arch = "amd64", <1>2 DEF LookupBody
  <2>9. Bytes(b, 16)
    BY <1>2, Bytes(b, BlockBytes[fmt] - 1) DEF BlockBytes
  <2> QED BY ONLY <2>1, <2>9, x64MXFP4_Narrow, NarrowFits, Zenon
<1>3. CASE fmt = "q4_1"
  <2>1. (fmt = "q5_1") = FALSE
    BY <1>3
  <2>2. LookupBody(b) = X64!x64VecDotQx1Kernel(fmt = "q5_1", b)
    BY arch = "amd64", <1>3 DEF LookupBody
  <2>3. LookupBody(b) = X64!x64VecDotQx1Kernel(FALSE, b)
    BY ONLY <2>1, <2>2, Zenon
  <2>9. Bytes(b, 19)
    BY <1>3, Bytes(b, BlockBytes[fmt] - 1) DEF BlockBytes
  <2> QED BY ONLY <2>3, <2>9, x64Q4_1_Narrow, NarrowFits, Zenon
<1>4. CASE fmt = "q5_1"
  <2>1. (fmt = "q5_1") = TRUE
    BY <1>4
  <2>2. LookupBody(b) = X64!x64VecDotQx1Kernel(fmt = "q5_1", b)
    BY arch = "amd64", <1>4 DEF LookupBody
  <2>3. LookupBody(b) = X64!x64VecDotQx1Kernel(TRUE, b)
    BY ONLY <2>1, <2>2, Zenon
  <2>9. Bytes(b, 23)
    BY <1>4, Bytes(b, BlockBytes[fmt] - 1) DEF BlockBytes
  <2> QED BY ONLY <2>3, <2>9, x64Q5_1_Narrow, NarrowFits, Zenon
<1>5. CASE fmt = "iq4_xs"
  <2>1. LookupBody(b) = X64!x64VecDotIQ4XSKernel(b)
    BY arch = "amd64", <1>5 DEF LookupBody
  <2>9. Bytes(b, 135)
    BY <1>5, Bytes(b, BlockBytes[fmt] - 1) DEF BlockBytes
  <2> QED BY ONLY <2>1, <2>9, x64IQ4XS_Narrow, NarrowFits, Zenon
<1> QED BY <1>1, <1>2, <1>3, <1>4, <1>5

LEMMA a64CodebookFits ==
    ASSUME NEW b, arch = "arm64", fmt \in Codebooks \ {"iq4_xs"}
    PROVE  Fits(CodebookBody(b))
<1>1. CASE fmt = "iq3_xxs"
  <2>1. CodebookBody(b) = A64!a64VecDotIQ3XXSKernel(b)
    BY arch = "arm64", <1>1 DEF CodebookBody
  <2> QED BY ONLY <2>1, a64CodebookQuiet, Quiet, Zenon
<1>2. CASE fmt = "iq3_s"
  <2>1. CodebookBody(b) = A64!a64VecDotIQ3SKernel(b)
    BY arch = "arm64", <1>2 DEF CodebookBody
  <2> QED BY ONLY <2>1, a64CodebookQuiet, Quiet, Zenon
<1>3. CASE fmt = "iq2_xxs"
  <2>1. CodebookBody(b) = A64!a64VecDotIQ2("iq2_xxs", b)
    BY arch = "arm64", <1>3 DEF CodebookBody
  <2> QED BY ONLY <2>1, a64CodebookQuiet, Quiet, Zenon
<1>4. CASE fmt = "iq2_xs"
  <2>1. CodebookBody(b) = A64!a64VecDotIQ2("iq2_xs", b)
    BY arch = "arm64", <1>4 DEF CodebookBody
  <2> QED BY ONLY <2>1, a64CodebookQuiet, Quiet, Zenon
<1>5. CASE fmt = "iq2_s"
  <2>1. CodebookBody(b) = A64!a64VecDotIQ2("iq2_s", b)
    BY arch = "arm64", <1>5 DEF CodebookBody
  <2> QED BY ONLY <2>1, a64CodebookQuiet, Quiet, Zenon
<1>6. CASE fmt = "iq1_s"
  <2>1. CodebookBody(b) = A64!a64VecDotIQ1SKernel(b)
    BY arch = "arm64", <1>6 DEF CodebookBody
  <2> QED BY ONLY <2>1, a64CodebookQuiet, Quiet, Zenon
<1>7. CASE fmt = "iq1_m"
  <2>1. CodebookBody(b) = A64!a64VecDotIQ1MKernel(b)
    BY arch = "arm64", <1>7 DEF CodebookBody
  <2> QED BY ONLY <2>1, a64CodebookQuiet, Quiet, Zenon
<1> QED BY <1>1, <1>2, <1>3, <1>4, <1>5, <1>6, <1>7 DEF Codebooks

LEMMA x64CodebookFits ==
    ASSUME NEW b, arch = "amd64", Bytes(b, BlockBytes[fmt] - 1), fmt \in Codebooks \ {"iq4_xs"}
    PROVE  Fits(CodebookBody(b))
<1>1. CASE fmt = "iq3_xxs"
  <2>1. (fmt = "iq3_s") = FALSE
    BY <1>1
  <2>2. CodebookBody(b) = X64!x64VecDotIQ3(fmt = "iq3_s", b)
    BY arch = "amd64", <1>1 DEF CodebookBody
  <2>3. CodebookBody(b) = X64!x64VecDotIQ3(FALSE, b)
    BY ONLY <2>1, <2>2, Zenon
  <2>9. Bytes(b, 97)
    BY <1>1, Bytes(b, BlockBytes[fmt] - 1) DEF BlockBytes
  <2> QED BY ONLY <2>3, <2>9, x64IQ3XXS_Narrow, NarrowFits, Zenon
<1>2. CASE fmt = "iq3_s"
  <2>1. (fmt = "iq3_s") = TRUE
    BY <1>2
  <2>2. CodebookBody(b) = X64!x64VecDotIQ3(fmt = "iq3_s", b)
    BY arch = "amd64", <1>2 DEF CodebookBody
  <2>3. CodebookBody(b) = X64!x64VecDotIQ3(TRUE, b)
    BY ONLY <2>1, <2>2, Zenon
  <2>9. Bytes(b, 109)
    BY <1>2, Bytes(b, BlockBytes[fmt] - 1) DEF BlockBytes
  <2> QED BY ONLY <2>3, <2>9, x64IQ3S_Narrow, NarrowFits, Zenon
<1>3. CASE fmt = "iq2_xxs"
  <2>1. CodebookBody(b) = X64!x64VecDotIQ2("iq2_xxs", b)
    BY arch = "amd64", <1>3 DEF CodebookBody
  <2>9. Bytes(b, 65)
    BY <1>3, Bytes(b, BlockBytes[fmt] - 1) DEF BlockBytes
  <2> QED BY ONLY <2>1, <2>9, x64IQ2XXS_Narrow, NarrowFits, Zenon
<1>4. CASE fmt = "iq2_xs"
  <2>1. CodebookBody(b) = X64!x64VecDotIQ2("iq2_xs", b)
    BY arch = "amd64", <1>4 DEF CodebookBody
  <2>9. Bytes(b, 73)
    BY <1>4, Bytes(b, BlockBytes[fmt] - 1) DEF BlockBytes
  <2> QED BY ONLY <2>1, <2>9, x64IQ2XS_Narrow, NarrowFits, Zenon
<1>5. CASE fmt = "iq2_s"
  <2>1. CodebookBody(b) = X64!x64VecDotIQ2("iq2_s", b)
    BY arch = "amd64", <1>5 DEF CodebookBody
  <2>9. Bytes(b, 81)
    BY <1>5, Bytes(b, BlockBytes[fmt] - 1) DEF BlockBytes
  <2> QED BY ONLY <2>1, <2>9, x64IQ2S_Narrow, NarrowFits, Zenon
<1>6. CASE fmt = "iq1_s"
  <2>1. (fmt = "iq1_m") = FALSE
    BY <1>6
  <2>2. CodebookBody(b) = X64!x64VecDotIQ1(fmt = "iq1_m", b)
    BY arch = "amd64", <1>6 DEF CodebookBody
  <2>3. CodebookBody(b) = X64!x64VecDotIQ1(FALSE, b)
    BY ONLY <2>1, <2>2, Zenon
  <2>9. Bytes(b, 49)
    BY <1>6, Bytes(b, BlockBytes[fmt] - 1) DEF BlockBytes
  <2> QED BY ONLY <2>3, <2>9, x64IQ1S_Narrow, NarrowFits, Zenon
<1>7. CASE fmt = "iq1_m"
  <2>1. (fmt = "iq1_m") = TRUE
    BY <1>7
  <2>2. CodebookBody(b) = X64!x64VecDotIQ1(fmt = "iq1_m", b)
    BY arch = "amd64", <1>7 DEF CodebookBody
  <2>3. CodebookBody(b) = X64!x64VecDotIQ1(TRUE, b)
    BY ONLY <2>1, <2>2, Zenon
  <2>9. Bytes(b, 55)
    BY <1>7, Bytes(b, BlockBytes[fmt] - 1) DEF BlockBytes
  <2> QED BY ONLY <2>3, <2>9, x64IQ1M_Narrow, NarrowFits, Zenon
<1> QED BY <1>1, <1>2, <1>3, <1>4, <1>5, <1>6, <1>7 DEF Codebooks

LEMMA a64TernaryFits ==
    ASSUME NEW b, arch = "arm64", fmt \in Ternary \cup Packed
    PROVE  Fits(TernaryBody(b))
<1>1. CASE fmt = "tq1_0"
  <2>1. TernaryBody(b) = A64!a64VecDotTQ1_0Kernel(b)
    BY arch = "arm64", <1>1 DEF TernaryBody
  <2> QED BY ONLY <2>1, a64TernaryQuiet, Quiet, Zenon
<1>2. CASE fmt = "tq2_0"
  <2>1. TernaryBody(b) = A64!a64VecDotTQ2_0Kernel(b)
    BY arch = "arm64", <1>2 DEF TernaryBody
  <2> QED BY ONLY <2>1, a64TernaryQuiet, Quiet, Zenon
<1>3. CASE fmt = "q1_0"
  <2>1. TernaryBody(b) = A64!a64VecDotQ1_0Kernel(b)
    BY arch = "arm64", <1>3 DEF TernaryBody
  <2> QED BY ONLY <2>1, a64TernaryQuiet, Quiet, Zenon
<1>4. CASE fmt = "q2_0"
  <2>1. TernaryBody(b) = A64!a64VecDotQ2_0Kernel(b)
    BY arch = "arm64", <1>4 DEF TernaryBody
  <2> QED BY ONLY <2>1, a64TernaryQuiet, Quiet, Zenon
<1>5. CASE fmt = "nvfp4"
  <2>1. TernaryBody(b) = A64!a64VecDotNVFP4Kernel(b)
    BY arch = "arm64", <1>5 DEF TernaryBody
  <2> QED BY ONLY <2>1, a64TernaryQuiet, Quiet, Zenon
<1> QED BY <1>1, <1>2, <1>3, <1>4, <1>5 DEF Ternary, Packed

LEMMA x64TernaryFits ==
    ASSUME NEW b, arch = "amd64", Bytes(b, BlockBytes[fmt] - 1), fmt \in Ternary \cup Packed
    PROVE  Fits(TernaryBody(b))
<1>1. CASE fmt = "tq1_0"
  <2>1. TernaryBody(b) = X64!x64VecDotTQ1_0Kernel(b)
    BY arch = "amd64", <1>1 DEF TernaryBody
  <2> QED BY ONLY <2>1, x64TQ1_Narrow, NarrowFits, Zenon
<1>2. CASE fmt = "tq2_0"
  <2>1. TernaryBody(b) = X64!x64VecDotTQ2_0Kernel(b)
    BY arch = "amd64", <1>2 DEF TernaryBody
  <2>9. Bytes(b, 65)
    BY <1>2, Bytes(b, BlockBytes[fmt] - 1) DEF BlockBytes
  <2> QED BY ONLY <2>1, <2>9, x64TQ2_0_Narrow, NarrowFits, Zenon
<1>3. CASE fmt = "q1_0"
  <2>1. TernaryBody(b) = X64!x64VecDotQ1_0Kernel(b)
    BY arch = "amd64", <1>3 DEF TernaryBody
  <2>9. Bytes(b, 17)
    BY <1>3, Bytes(b, BlockBytes[fmt] - 1) DEF BlockBytes
  <2> QED BY ONLY <2>1, <2>9, x64Q1_0_Narrow, NarrowFits, Zenon
<1>4. CASE fmt = "q2_0"
  <2>1. TernaryBody(b) = X64!x64VecDotQ2_0Kernel(b)
    BY arch = "amd64", <1>4 DEF TernaryBody
  <2>9. Bytes(b, 17)
    BY <1>4, Bytes(b, BlockBytes[fmt] - 1) DEF BlockBytes
  <2> QED BY ONLY <2>1, <2>9, x64Q2_0_Narrow, NarrowFits, Zenon
<1>5. CASE fmt = "nvfp4"
  <2>1. TernaryBody(b) = X64!x64VecDotNVFP4Kernel(b)
    BY arch = "amd64", <1>5 DEF TernaryBody
  <2>9. Bytes(b, 35)
    BY <1>5, Bytes(b, BlockBytes[fmt] - 1) DEF BlockBytes
  <2> QED BY ONLY <2>1, <2>9, x64NVFP4_Narrow, NarrowFits, Zenon
<1> QED BY <1>1, <1>2, <1>3, <1>4, <1>5 DEF Ternary, Packed

LEMMA a64LegacyAndKFits ==
    ASSUME NEW b, arch = "arm64", fmt \in {"q4_0", "q8_0", "q5_0"} \cup KFormats
    PROVE  Fits(LegacyAndKBody(b))
<1>1. CASE fmt = "q4_0"
  <2>1. LegacyAndKBody(b) = A64!a64VecDotLegacy("q4_0", b)
    BY arch = "arm64", <1>1 DEF LegacyAndKBody
  <2> QED BY ONLY <2>1, a64LegacyAndKQuiet, Quiet, Zenon
<1>2. CASE fmt = "q8_0"
  <2>1. LegacyAndKBody(b) = A64!a64VecDotLegacy("q8_0", b)
    BY arch = "arm64", <1>2 DEF LegacyAndKBody
  <2> QED BY ONLY <2>1, a64LegacyAndKQuiet, Quiet, Zenon
<1>3. CASE fmt = "q5_0"
  <2>1. LegacyAndKBody(b) = A64!a64VecDotQ5_0Kernel(b)
    BY arch = "arm64", <1>3 DEF LegacyAndKBody
  <2> QED BY ONLY <2>1, a64LegacyAndKQuiet, Quiet, Zenon
<1>4. CASE fmt = "q2_K"
  <2>1. LegacyAndKBody(b) = A64!a64VecDotQ2_KKernel(b)
    BY arch = "arm64", <1>4 DEF LegacyAndKBody
  <2> QED BY ONLY <2>1, a64LegacyAndKQuiet, Quiet, Zenon
<1>5. CASE fmt = "q3_K"
  <2>1. LegacyAndKBody(b) = A64!a64VecDotQ3_KKernel(b)
    BY arch = "arm64", <1>5 DEF LegacyAndKBody
  <2> QED BY ONLY <2>1, a64LegacyAndKQuiet, Quiet, Zenon
<1>6. CASE fmt = "q4_K"
  <2>1. LegacyAndKBody(b) = A64!a64VecDotQ4_KKernel(b)
    BY arch = "arm64", <1>6 DEF LegacyAndKBody
  <2> QED BY ONLY <2>1, a64LegacyAndKQuiet, Quiet, Zenon
<1>7. CASE fmt = "q5_K"
  <2>1. LegacyAndKBody(b) = A64!a64VecDotQ5_KKernel(b)
    BY arch = "arm64", <1>7 DEF LegacyAndKBody
  <2> QED BY ONLY <2>1, a64LegacyAndKQuiet, Quiet, Zenon
<1>8. CASE fmt = "q6_K"
  <2>1. LegacyAndKBody(b) = A64!a64VecDotQ6_KKernel(b)
    BY arch = "arm64", <1>8 DEF LegacyAndKBody
  <2> QED BY ONLY <2>1, a64LegacyAndKQuiet, Quiet, Zenon
<1> QED BY <1>1, <1>2, <1>3, <1>4, <1>5, <1>6, <1>7, <1>8 DEF KFormats

LEMMA x64LegacyAndKFits ==
    ASSUME NEW b, arch = "amd64", Bytes(b, BlockBytes[fmt] - 1), fmt \in {"q4_0", "q8_0", "q5_0"} \cup KFormats
    PROVE  Fits(LegacyAndKBody(b))
<1>1. CASE fmt = "q4_0"
  <2>1. LegacyAndKBody(b) = X64!x64VecDotLegacy("q4_0", b)
    BY arch = "amd64", <1>1 DEF LegacyAndKBody
  <2>9. Bytes(b, 17)
    BY <1>1, Bytes(b, BlockBytes[fmt] - 1) DEF BlockBytes
  <2> QED BY ONLY <2>1, <2>9, x64Q4_0_Narrow, NarrowFits, Zenon
<1>2. CASE fmt = "q8_0"
  <2>1. LegacyAndKBody(b) = X64!x64VecDotLegacy("q8_0", b)
    BY arch = "amd64", <1>2 DEF LegacyAndKBody
  <2>9. Bytes(b, 33)
    BY <1>2, Bytes(b, BlockBytes[fmt] - 1) DEF BlockBytes
  <2> QED BY ONLY <2>1, <2>9, x64Q8_0_Narrow, NarrowFits, Zenon
<1>3. CASE fmt = "q5_0"
  <2>1. LegacyAndKBody(b) = X64!x64VecDotQ5_0Kernel(b)
    BY arch = "amd64", <1>3 DEF LegacyAndKBody
  <2>9. Bytes(b, 21)
    BY <1>3, Bytes(b, BlockBytes[fmt] - 1) DEF BlockBytes
  <2> QED BY ONLY <2>1, <2>9, x64Q5_0_Narrow, NarrowFits, Zenon
<1>4. CASE fmt = "q2_K"
  <2>1. LegacyAndKBody(b) = X64!x64VecDotQ2_KKernel(b)
    BY arch = "amd64", <1>4 DEF LegacyAndKBody
  <2>9. Bytes(b, 83)
    BY <1>4, Bytes(b, BlockBytes[fmt] - 1) DEF BlockBytes
  <2> QED BY ONLY <2>1, <2>9, x64Q2_K_Narrow, NarrowFits, Zenon
<1>5. CASE fmt = "q3_K"
  <2>1. LegacyAndKBody(b) = X64!x64VecDotQ3_KKernel(b)
    BY arch = "amd64", <1>5 DEF LegacyAndKBody
  <2>9. Bytes(b, 109)
    BY <1>5, Bytes(b, BlockBytes[fmt] - 1) DEF BlockBytes
  <2> QED BY ONLY <2>1, <2>9, x64Q3_K_Narrow, NarrowFits, Zenon
<1>6. CASE fmt = "q4_K"
  <2>1. LegacyAndKBody(b) = X64!x64VecDotQ4_KKernel(b)
    BY arch = "amd64", <1>6 DEF LegacyAndKBody
  <2>9. Bytes(b, 143)
    BY <1>6, Bytes(b, BlockBytes[fmt] - 1) DEF BlockBytes
  <2> QED BY ONLY <2>1, <2>9, x64Q4_K_Narrow, NarrowFits, Zenon
<1>7. CASE fmt = "q5_K"
  <2>1. LegacyAndKBody(b) = X64!x64VecDotQ5_KKernel(b)
    BY arch = "amd64", <1>7 DEF LegacyAndKBody
  <2>9. Bytes(b, 175)
    BY <1>7, Bytes(b, BlockBytes[fmt] - 1) DEF BlockBytes
  <2> QED BY ONLY <2>1, <2>9, x64Q5_K_Narrow, NarrowFits, Zenon
<1>8. CASE fmt = "q6_K"
  <2>1. LegacyAndKBody(b) = X64!x64VecDotQ6_KKernel(b)
    BY arch = "amd64", <1>8 DEF LegacyAndKBody
  <2>9. Bytes(b, 209)
    BY <1>8, Bytes(b, BlockBytes[fmt] - 1) DEF BlockBytes
  <2> QED BY ONLY <2>1, <2>9, x64Q6_K_Narrow, NarrowFits, Zenon
<1> QED BY <1>1, <1>2, <1>3, <1>4, <1>5, <1>6, <1>7, <1>8 DEF KFormats

(* The repacked nests: on arm64, and for q8_0, nothing is summed in pairs. *)
LEMMA a64NestFits ==
    ASSUME NEW feature, NEW b, NEW c, NEW r, arch = "arm64", fmt \in Repacked
    PROVE  Fits(RepackBody(feature, b, c, r))
<1>1. CASE fmt \in {"q4_K", "q5_K"}
  <2> DEFINE L == PA64!kx8Layout(fmt)
  <2>1. /\ GemvBody(feature, b, c) = PA64!a64GemvKx8Kernel(L, b, c)
        /\ GemmBody(feature, b, c, r) = PA64!a64GemmKx8Kernel(L, b, c, r)
    BY arch = "arm64", <1>1 DEF GemvBody, GemmBody
  <2> HIDE DEF L
  <2>2. PA64!a64GemvKx8Kernel(L, b, c).act = 0 /\ PA64!a64GemmKx8Kernel(L, b, c, r).act = 0
    BY ONLY NestsQuiet, Zenon
  <2>3. Fits(GemvBody(feature, b, c)) /\ Fits(GemmBody(feature, b, c, r))
    BY ONLY <2>1, <2>2, Quiet, Zenon
  <2> QED BY ONLY <2>3, Zenon DEF RepackBody
<1>2. CASE fmt = "q6_K"
  <2>1. /\ GemvBody(feature, b, c) = PA64!a64GemvQ6K8x8Kernel(b, c)
        /\ GemmBody(feature, b, c, r) = PA64!a64GemmQ6K8x8Kernel(b, c, r)
    BY arch = "arm64", <1>2 DEF GemvBody, GemmBody
  <2>2. PA64!a64GemvQ6K8x8Kernel(b, c).act = 0 /\ PA64!a64GemmQ6K8x8Kernel(b, c, r).act = 0
    BY ONLY NestsQuiet, Zenon
  <2>3. Fits(GemvBody(feature, b, c)) /\ Fits(GemmBody(feature, b, c, r))
    BY ONLY <2>1, <2>2, Quiet, Zenon
  <2> QED BY ONLY <2>3, Zenon DEF RepackBody
<1>3. CASE fmt = "q8_0"
  <2>1. /\ GemvBody(feature, b, c) = PA64!a64RepackGemvKernel(b, c)
        /\ GemmBody(feature, b, c, r) = PA64!a64RepackGemmKernel(feature, b, c, r)
    BY arch = "arm64", <1>3 DEF GemvBody, GemmBody
  <2>2. /\ PA64!a64RepackGemvKernel(b, c).act = 0
        /\ PA64!a64RepackGemmKernel(feature, b, c, r).act = 0
    BY ONLY NestsQuiet, Zenon
  <2>3. Fits(GemvBody(feature, b, c)) /\ Fits(GemmBody(feature, b, c, r))
    BY ONLY <2>1, <2>2, Quiet, Zenon
  <2> QED BY ONLY <2>3, Zenon DEF RepackBody
<1>4. CASE fmt \in {"q5_0", "q4_0", "iq4_nl", "mxfp4"}
  <2> DEFINE L == PA64!x8Layout(fmt)
  <2>1. /\ GemvBody(feature, b, c) = PA64!a64GemvX8Kernel(L, b, c)
        /\ GemmBody(feature, b, c, r) = PA64!a64GemmX8Kernel(L, b, c, r)
    BY arch = "arm64", <1>4 DEF GemvBody, GemmBody
  <2> HIDE DEF L
  <2>2. PA64!a64GemvX8Kernel(L, b, c).act = 0 /\ PA64!a64GemmX8Kernel(L, b, c, r).act = 0
    BY ONLY NestsQuiet, Zenon
  <2>3. Fits(GemvBody(feature, b, c)) /\ Fits(GemmBody(feature, b, c, r))
    BY ONLY <2>1, <2>2, Quiet, Zenon
  <2> QED BY ONLY <2>3, Zenon DEF RepackBody
<1> QED BY <1>1, <1>2, <1>3, <1>4 DEF Repacked

LEMMA x64NestFits ==
    ASSUME NEW feature, NEW in, NEW c \in 0 .. Columns(fmt) - 1, NEW r, arch = "amd64",
           fmt \in Repacked, fmt # "q8_0" => Columned(in, BlockBytes[fmt] - 1)
    PROVE  Fits(RepackBody(feature, Packing(fmt, in), c, r))
<1> DEFINE b == Packing(fmt, in)
<1>1. CASE fmt \in {"q4_K", "q5_K"}
  <2> DEFINE L == PX64!kx8Layout(fmt)
  <2>1. /\ GemvBody(feature, b, c) = PX64!x64Kx8Body(L, b, c)
        /\ GemmBody(feature, b, c, r) = PX64!x64Kx8GemmTile(L, b, c, r)
    BY arch = "amd64", <1>1 DEF GemvBody, GemmBody
  <2>2. c \in 0 .. 7
    BY <1>1 DEF Columns
  <2>3. Columned(in, BlockBytes[fmt] - 1)
    BY <1>1
  <2>4. KBytes(L, b)
    BY ONLY <1>1, <2>3, PackedK
  <2> HIDE DEF L, b
  <2>5. Fits(PX64!x64Kx8Body(L, b, c)) /\ Fits(PX64!x64Kx8GemmTile(L, b, c, r))
    BY ONLY <2>2, <2>4, x64Kx8Fits, Zenon
  <2>6. Fits(RepackBody(feature, b, c, r))
    BY ONLY <2>1, <2>5, Zenon DEF RepackBody
  <2> QED BY ONLY <2>6 DEF b
<1>2. CASE fmt = "q6_K"
  <2>1. /\ GemvBody(feature, b, c) = PX64!x64Q6K8x8Body(b, c)
        /\ GemmBody(feature, b, c, r) = PX64!x64Q6KGemmTile(b, c, r)
    BY arch = "amd64", <1>2 DEF GemvBody, GemmBody
  <2>2. c \in 0 .. 7
    BY <1>2 DEF Columns
  <2>3. Columned(in, BlockBytes["q6_K"] - 1)
    BY <1>2
  <2>4. Q6Bytes(b)
    BY ONLY <1>2, <2>3, PackedQ6
  <2> HIDE DEF b
  <2>5. Fits(PX64!x64Q6K8x8Body(b, c)) /\ Fits(PX64!x64Q6KGemmTile(b, c, r))
    BY ONLY <2>2, <2>4, x64Q6Fits, Zenon
  <2>6. Fits(RepackBody(feature, b, c, r))
    BY ONLY <2>1, <2>5, Zenon DEF RepackBody
  <2> QED BY ONLY <2>6 DEF b
<1>3. CASE fmt = "q8_0"
  <2>1. /\ GemvBody(feature, b, c) = PX64!x64RepackGemvKernel(feature, b, c)
        /\ GemmBody(feature, b, c, r) = PX64!x64RepackGemmKernel(feature, b, c, r)
    BY arch = "amd64", <1>3 DEF GemvBody, GemmBody
  <2> HIDE DEF b
  <2>2. /\ PX64!x64RepackGemvKernel(feature, b, c).act = 0
        /\ PX64!x64RepackGemmKernel(feature, b, c, r).act = 0
    BY ONLY NestsQuiet, Zenon
  <2>3. Fits(GemvBody(feature, b, c)) /\ Fits(GemmBody(feature, b, c, r))
    BY ONLY <2>1, <2>2, Quiet, Zenon
  <2>4. Fits(RepackBody(feature, b, c, r))
    BY ONLY <2>3, Zenon DEF RepackBody
  <2> QED BY ONLY <2>4 DEF b
<1>4. CASE fmt \in {"q5_0", "q4_0", "iq4_nl", "mxfp4"}
  <2> DEFINE L == PX64!x8Layout(fmt)
  <2>1. /\ GemvBody(feature, b, c) = PX64!x64GemvX8Kernel(L, b, c)
        /\ GemmBody(feature, b, c, r) = PX64!x64GemmX8Kernel(L, b, c, r)
    BY arch = "amd64", <1>4 DEF GemvBody, GemmBody
  <2>2. c \in 0 .. 7
    BY <1>4 DEF Columns
  <2>3. Columned(in, BlockBytes[fmt] - 1)
    BY <1>4
  <2>4. XBytes(L, b)
    BY ONLY <1>4, <2>3, PackedX
  <2> HIDE DEF L, b
  <2>5. Fits(PX64!x64GemvX8Kernel(L, b, c)) /\ Fits(PX64!x64GemmX8Kernel(L, b, c, r))
    BY ONLY <2>2, <2>4, x64X8Fits, Zenon
  <2>6. Fits(RepackBody(feature, b, c, r))
    BY ONLY <2>1, <2>5, Zenon DEF RepackBody
  <2> QED BY ONLY <2>6 DEF b
<1> QED BY <1>1, <1>2, <1>3, <1>4 DEF Repacked

-----------------------------------------------------------------------------
(* Every form of a pass fits, from one pass to the next.                   *)
FormsFit == \A t \in DOMAIN out : Fits(out[t].form)

FInv == Kinds /\ FormsFit

LEMMA BlockLengths == \A fm \in Formats : BlockBytes[fm] - 1 \in 0 .. 209
BY DEF Formats, BlockBytes, Legacy, KFormats, Codebooks, Ternary, Packed

(* A block of a row holds bytes: BlocksAssumption.                         *)
LEMMA BlockIsBytes ==
    ASSUME NEW r \in 0 .. 7, NEW n \in 1 .. NB, fmt \in Formats
    PROVE  Bytes(Block(r, n), BlockBytes[fmt] - 1)
<1> SUFFICES ASSUME NEW o \in 0 .. BlockBytes[fmt] - 1
             PROVE  Block(r, n)[o] \in 0 .. 255
  BY DEF Bytes
<1>1. Block(r, n)[o] = Row(r, n, o)
  BY DEF Block
<1>2. o \in 0 .. 209
  <2>1. BlockBytes[fmt] - 1 \in 0 .. 209
    BY BlockLengths
  <2> DEFINE top == BlockBytes[fmt] - 1
  <2>2. top \in 0 .. 209 /\ o \in 0 .. top
    BY <2>1
  <2> HIDE DEF top
  <2> QED BY ONLY <2>2
<1>3. Row(r, n, o) \in 0 .. 255
  BY ONLY r \in 0 .. 7, n \in 1 .. NB, <1>2, BlocksAssumption, Zenon
<1> QED BY ONLY <1>1, <1>3

(* A pass of one row dot.                                                  *)
LEMMA RowFitStep ==
    ASSUME NEW f, out' = [t \in 0 .. 0 |-> [xrow |-> 0, yrow |-> 0, form |-> f]], Fits(f)
    PROVE  FormsFit'
<1>1. ASSUME NEW t \in DOMAIN out'
      PROVE  Fits(out'[t].form)
  <2>1. out'[t].form = f
    OBVIOUS
  <2> QED BY ONLY <2>1, Fits(f), Zenon
<1> QED BY ONLY <1>1, Zenon DEF FormsFit

LEMMA LookupFitStep == ASSUME Kinds, LookupPass, i' \in 1 .. NB PROVE FormsFit'
<1> DEFINE b == Block(0, i')
<1>1. out' = [t \in 0 .. 0 |-> [xrow |-> 0, yrow |-> 0, form |-> LookupBody(b)]]
  BY DEF LookupPass, Pass
<1>2. arch \in {"arm64", "amd64"} /\ fmt \in {"iq4_nl", "mxfp4", "q4_1", "q5_1", "iq4_xs"}
  BY DEF Kinds, LookupPass
<1>3. Bytes(b, BlockBytes[fmt] - 1)
  <2>1. fmt \in Formats /\ 0 \in 0 .. 7
    BY DEF Kinds
  <2> QED BY ONLY <2>1, i' \in 1 .. NB, BlockIsBytes
<1> HIDE DEF b
<1>4. Fits(LookupBody(b))
  BY ONLY <1>2, <1>3, a64LookupFits, x64LookupFits
<1> QED BY ONLY <1>1, <1>4, RowFitStep

LEMMA CodebookFitStep == ASSUME Kinds, CodebookPass, i' \in 1 .. NB PROVE FormsFit'
<1> DEFINE b == Block(0, i')
<1>1. out' = [t \in 0 .. 0 |-> [xrow |-> 0, yrow |-> 0, form |-> CodebookBody(b)]]
  BY DEF CodebookPass, Pass
<1>2. arch \in {"arm64", "amd64"} /\ fmt \in Codebooks \ {"iq4_xs"}
  BY DEF Kinds, CodebookPass
<1>3. Bytes(b, BlockBytes[fmt] - 1)
  <2>1. fmt \in Formats /\ 0 \in 0 .. 7
    BY DEF Kinds
  <2> QED BY ONLY <2>1, i' \in 1 .. NB, BlockIsBytes
<1> HIDE DEF b
<1>4. Fits(CodebookBody(b))
  BY ONLY <1>2, <1>3, a64CodebookFits, x64CodebookFits
<1> QED BY ONLY <1>1, <1>4, RowFitStep

LEMMA TernaryFitStep == ASSUME Kinds, TernaryPass, i' \in 1 .. NB PROVE FormsFit'
<1> DEFINE b == Block(0, i')
<1>1. out' = [t \in 0 .. 0 |-> [xrow |-> 0, yrow |-> 0, form |-> TernaryBody(b)]]
  BY DEF TernaryPass, Pass
<1>2. arch \in {"arm64", "amd64"} /\ fmt \in Ternary \cup Packed
  BY DEF Kinds, TernaryPass
<1>3. Bytes(b, BlockBytes[fmt] - 1)
  <2>1. fmt \in Formats /\ 0 \in 0 .. 7
    BY DEF Kinds
  <2> QED BY ONLY <2>1, i' \in 1 .. NB, BlockIsBytes
<1> HIDE DEF b
<1>4. Fits(TernaryBody(b))
  BY ONLY <1>2, <1>3, a64TernaryFits, x64TernaryFits
<1> QED BY ONLY <1>1, <1>4, RowFitStep

LEMMA LegacyAndKFitStep == ASSUME Kinds, LegacyAndKPass, i' \in 1 .. NB PROVE FormsFit'
<1> DEFINE b == Block(0, i')
<1>1. out' = [t \in 0 .. 0 |-> [xrow |-> 0, yrow |-> 0, form |-> LegacyAndKBody(b)]]
  BY DEF LegacyAndKPass, Pass
<1>2. arch \in {"arm64", "amd64"} /\ fmt \in {"q4_0", "q8_0", "q5_0"} \cup KFormats
  BY DEF Kinds, LegacyAndKPass
<1>3. Bytes(b, BlockBytes[fmt] - 1)
  <2>1. fmt \in Formats /\ 0 \in 0 .. 7
    BY DEF Kinds
  <2> QED BY ONLY <2>1, i' \in 1 .. NB, BlockIsBytes
<1> HIDE DEF b
<1>4. Fits(LegacyAndKBody(b))
  BY ONLY <1>2, <1>3, a64LegacyAndKFits, x64LegacyAndKFits
<1> QED BY ONLY <1>1, <1>4, RowFitStep

(* A tile runs on arm64 alone, whose row dots take no pairs.               *)
LEMMA TileFitStep == ASSUME Kinds, TilePass, i' \in 1 .. NB PROVE FormsFit'
<1> DEFINE x == [r \in 0 .. 1 |-> Block(r, i')]
<1>1. nest = "tile" /\ arch = "arm64" /\ fmt \in Tiled /\ out' = TileBody(x)
  BY DEF TilePass, Kinds
<1>2. ASSUME NEW t \in 0 .. 3
      PROVE  DOMAIN TileBody(x) = 0 .. 3 /\ Fits(TileBody(x)[t].form)
  <2>1. t % 2 \in 0 .. 1
    OBVIOUS
  <2>2. x[t % 2] = Block(t % 2, i')
    BY <2>1
  <2>3. OfBytes(x[t % 2]) \/ fmt # "q6_K"
    <3>1. ASSUME fmt = "q6_K"
          PROVE  OfBytes(Block(t % 2, i'))
      <4>1. BlockBytes[fmt] - 1 = 209
        BY <3>1 DEF BlockBytes
      <4>2. t % 2 \in 0 .. 7 /\ fmt \in Formats
        BY <2>1 DEF Kinds
      <4>3. Bytes(Block(t % 2, i'), 209)
        <5>1. Bytes(Block(t % 2, i'), BlockBytes[fmt] - 1)
          BY ONLY <4>2, i' \in 1 .. NB, BlockIsBytes
        <5> QED BY ONLY <4>1, <5>1, Zenon
      <4> DEFINE b == Block(t % 2, i')
      <4> HIDE DEF b
      <4>4. Bytes(b, 209)
        BY <4>3, SMTT(30) DEF b
      <4>5. OfBytes(b)
        BY ONLY <4>4, Zenon DEF OfBytes, Bytes
      <4> QED BY ONLY <4>5 DEF b
    <3> QED BY <2>2, <3>1
  <2> HIDE DEF x
  <2>4. /\ DOMAIN TileBody(x) = 0 .. 3
        /\ TileBody(x)[t].form = SingleBody(x[t % 2])
    BY ONLY <1>1, <1>2, <2>3, TileLanes
  <2> DEFINE b == x[t % 2]
  <2>5. SingleBody(b) = LegacyAndKBody(b)
    BY ONLY <1>1 DEF SingleBody, Codebooks, Ternary, Packed, KFormats, Tiled
  <2>6. fmt \in {"q4_0", "q8_0", "q5_0"} \cup KFormats
    BY ONLY <1>1 DEF Tiled, KFormats
  <2> HIDE DEF b
  <2>7. Fits(LegacyAndKBody(b))
    BY ONLY <1>1, <2>6, a64LegacyAndKFits, Zenon
  <2> QED BY ONLY <2>4, <2>5, <2>7, Zenon DEF b
<1> HIDE DEF x
<1>3. ASSUME NEW t \in DOMAIN out'
      PROVE  Fits(out'[t].form)
  <2>1. DOMAIN TileBody(x) = 0 .. 3
    <3>1. 0 \in 0 .. 3
      OBVIOUS
    <3> QED BY ONLY <1>2, <3>1
  <2>2. t \in 0 .. 3
    BY <1>1, <2>1
  <2>3. Fits(TileBody(x)[t].form)
    BY ONLY <1>2, <2>2
  <2> QED BY ONLY <1>1, <2>3, Zenon
<1> QED BY ONLY <1>3, Zenon DEF FormsFit

(* A pass of a nest, over a block the code packed.                         *)
LEMMA RepackFitStep == ASSUME Kinds, RepackPass, i' \in 1 .. NB PROVE FormsFit'
<1> DEFINE in == [c \in 0 .. Columns(fmt) - 1 |-> Block(c, i')]
           b == Packing(fmt, in)
           row(c) == IF nest = "gemm" THEN (c + i') % 4 ELSE 0
<1>1. /\ nest \in Nests
      /\ out' = [t \in (0 .. Columns(fmt) - 1) \X Features |->
                    [xrow |-> t[1], yrow |-> row(t[1]),
                     form |-> RepackBody(t[2], b, t[1], row(t[1]))]]
  BY DEF RepackPass
<1>2. arch \in {"arm64", "amd64"} /\ fmt \in Repacked /\ fmt \in Formats
  BY <1>1 DEF Kinds
<1>3. fmt # "q8_0" => Columned(in, BlockBytes[fmt] - 1)
  <2> SUFFICES ASSUME fmt # "q8_0", NEW c \in 0 .. 7
               PROVE  Bytes(in[c], BlockBytes[fmt] - 1)
    BY DEF Columned
  <2>1. in[c] = Block(c, i')
    BY DEF Columns
  <2>2. Bytes(Block(c, i'), BlockBytes[fmt] - 1)
    BY ONLY <1>2, c \in 0 .. 7, i' \in 1 .. NB, BlockIsBytes
  <2> QED BY ONLY <2>1, <2>2, Zenon
<1> HIDE DEF in
<1>4. ASSUME NEW feature, NEW c \in 0 .. Columns(fmt) - 1, NEW r
      PROVE  Fits(RepackBody(feature, b, c, r))
  <2>1. CASE arch = "arm64"
    <3> HIDE DEF b
    <3> QED BY ONLY <1>2, <2>1, a64NestFits
  <2>2. CASE arch = "amd64"
    BY ONLY <1>2, <1>3, <1>4, <2>2, x64NestFits
  <2> QED BY ONLY <1>2, <2>1, <2>2
<1> HIDE DEF b
<1>5. ASSUME NEW t \in DOMAIN out'
      PROVE  Fits(out'[t].form)
  <2>1. t[1] \in 0 .. Columns(fmt) - 1 /\ out'[t].form = RepackBody(t[2], b, t[1], row(t[1]))
    BY <1>1
  <2> QED BY ONLY <1>4, <2>1, Zenon
<1> QED BY ONLY <1>5, Zenon DEF FormsFit

(* Before the first pass there is no form.                                 *)
LEMMA InitFInv == Init => FInv
<1> SUFFICES ASSUME Init PROVE FInv
  OBVIOUS
<1>1. Kinds
  BY InitQInv DEF QInv
<1>2. DOMAIN out = {}
  BY DEF Init
<1> QED BY <1>1, <1>2 DEF FInv, FormsFit

(* Every pass leaves forms that fit.                                       *)
LEMMA NextFInv == FInv /\ [Next]_vars => FInv'
<1> SUFFICES ASSUME FInv, [Next]_vars PROVE FInv'
  OBVIOUS
<1>0. Kinds
  BY DEF FInv
<1>1. CASE UNCHANGED vars
  <2>1. arch' = arch /\ fmt' = fmt /\ nest' = nest /\ i' = i /\ out' = out
    BY <1>1 DEF vars
  <2>2. Kinds'
    BY ONLY <1>0, <2>1 DEF Kinds
  <2>3. \A t \in DOMAIN out' : Fits(out'[t].form)
    BY <2>1 DEF FInv, FormsFit
  <2>4. FormsFit'
    BY ONLY <2>3, Zenon DEF FormsFit
  <2> QED BY ONLY <2>2, <2>4 DEF FInv
<1>2. CASE Next
  <2>1. i' \in 1 .. NB /\ Kinds'
    BY ONLY <1>0, <1>2, KindsStep
  <2>2. CASE LookupPass
    BY ONLY <1>0, <2>1, <2>2, LookupFitStep DEF FInv
  <2>3. CASE CodebookPass
    BY ONLY <1>0, <2>1, <2>3, CodebookFitStep DEF FInv
  <2>4. CASE TernaryPass
    BY ONLY <1>0, <2>1, <2>4, TernaryFitStep DEF FInv
  <2>5. CASE LegacyAndKPass
    BY ONLY <1>0, <2>1, <2>5, LegacyAndKFitStep DEF FInv
  <2>6. CASE TilePass
    BY ONLY <1>0, <2>1, <2>6, TileFitStep DEF FInv
  <2>7. CASE RepackPass
    BY ONLY <1>0, <2>1, <2>7, RepackFitStep DEF FInv
  <2> QED BY ONLY <1>2, <2>2, <2>3, <2>4, <2>5, <2>6, <2>7 DEF Next
<1> QED BY <1>1, <1>2

(* Whatever the weights and the codebooks hold, no pair of products, and   *)
(* no sum of pairs taken before it is widened, leaves the 16 bits amd64's  *)
(* multiply-add gives it: the q5_K nest's fifth bit included.              *)
THEOREM NoPairSaturatesHolds == Spec => []NoPairSaturates
<1>1. FInv => NoPairSaturates
  <2> SUFFICES ASSUME FInv PROVE NoPairSaturates
    OBVIOUS
  <2>1. ASSUME NEW f \in Forms
        PROVE  Fits(f)
    <3>1. PICK t \in DOMAIN out : f = out[t].form
      BY <2>1 DEF Forms
    <3> QED BY <3>1 DEF FInv, FormsFit
  <2>2. \A f \in Forms : FitsIn(f, 32767)
    BY ONLY <2>1 DEF Fits
  <2> QED BY ONLY <2>2, SMT DEF NoPairSaturates, FitsIn
<1> QED BY <1>1, InitFInv, NextFInv, PTL DEF Spec
=============================================================================
