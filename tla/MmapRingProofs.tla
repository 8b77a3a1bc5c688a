-------------------------- MODULE MmapRingProofs --------------------------
(***************************************************************************)
(* Safety proofs about module MmapRing, for buffers, positions and records *)
(* of any size: what perf_mmap__read_forward() returns from a buffer that  *)
(* is not overwritten, and what record__mmap_read() copies from it, is     *)
(* what the kernel wrote.                                                  *)
(***************************************************************************)
EXTENDS MmapRing, TLAPS

----------------------------------------------------------------------------
(* Remainders.                                                             *)

LEMMA NoMultipleBetween ==
  ASSUME NEW n \in Nat, n > 0, NEW k \in Int, k * n < n, k * n > -n
  PROVE  k = 0
<1>1. CASE k >= 1
  BY <1>1
<1>2. CASE k <= -1
  BY <1>2
<1> QED
  BY <1>1, <1>2

LEMMA DivMod ==
  ASSUME NEW n \in Nat, n > 0, NEW a \in Int
  PROVE  /\ a % n \in 0 .. n - 1
         /\ a \div n \in Int
         /\ a = n * (a \div n) + (a % n)
OBVIOUS

(* A remainder is the only number below the divisor that differs from the  *)
(* dividend by a multiple.                                                 *)
LEMMA ModUnique ==
  ASSUME NEW n \in Nat, n > 0, NEW a \in Int, NEW k \in Int, NEW r \in 0 .. n - 1,
         a = k * n + r
  PROVE  a % n = r
<1> DEFINE d == a \div n
<1> DEFINE m == a % n
<1>1. m \in 0 .. n - 1 /\ d \in Int /\ a = n * d + m
  BY DivMod
<1> HIDE DEF d, m
<1>2. (k - d) * n = m - r
  BY <1>1
<1>3. k - d = 0
  BY <1>1, <1>2, NoMultipleBetween
<1> QED
  BY <1>1, <1>2, <1>3 DEF m

(* Multiples of the divisor do not change a remainder. *)
LEMMA ModShift ==
  ASSUME NEW n \in Nat, n > 0, NEW a \in Int, NEW z \in Int
  PROVE  (a + z * n) % n = a % n
<1> DEFINE d == a \div n
<1> DEFINE m == a % n
<1>1. m \in 0 .. n - 1 /\ d \in Int /\ a = n * d + m
  BY DivMod
<1> HIDE DEF d, m
<1>2. a + z * n = (d + z) * n + m
  BY <1>1
<1>3. (a + z * n) % n = m
  BY <1>1, <1>2, ModUnique
<1> QED
  BY <1>3 DEF m

(* A remainder modulo a multiple of n may be replaced modulo n. *)
LEMMA ModOfMod ==
  ASSUME NEW n \in Nat, n > 0, NEW q \in Nat, q > 0, NEW a \in Int, NEW k \in Int
  PROVE  ((a % (n * q)) + k) % n = (a + k) % n
<1> DEFINE M == n * q
<1> DEFINE d == a \div M
<1> DEFINE m == a % M
<1>0. M \in Nat /\ M > 0
  OBVIOUS
<1> HIDE DEF M
<1>1. m \in 0 .. M - 1 /\ d \in Int /\ a = M * d + m
  BY <1>0, DivMod
<1> HIDE DEF d, m
<1>2. M * d = (q * d) * n /\ q * d \in Int
  BY <1>1 DEF M
<1> DEFINE z == q * d
<1>3. z \in Int /\ a = z * n + m
  BY <1>1, <1>2
<1> HIDE DEF z
<1>4. a + k = (m + k) + z * n /\ m + k \in Int
  BY <1>0, <1>1, <1>3
<1>5. ((m + k) + z * n) % n = (m + k) % n
  BY <1>3, <1>4, ModShift
<1> QED
  BY <1>4, <1>5 DEF m, M

(* Small numbers are their own remainders. *)
LEMMA ModSmall ==
  ASSUME NEW n \in Nat, n > 0, NEW a \in Int
  PROVE  /\ a \in 0 .. n - 1 => a % n = a
         /\ a \in -n .. -1 => a % n = a + n
<1>1. CASE a \in 0 .. n - 1
  <2>1. a = 0 * n + a
    BY <1>1
  <2> QED
    BY <1>1, <2>1, ModUnique
<1>2. CASE a \in -n .. -1
  <2>1. a = (-1) * n + (a + n) /\ a + n \in 0 .. n - 1
    BY <1>2
  <2> QED
    BY <1>2, <2>1, ModUnique
<1> QED
  BY <1>1, <1>2

----------------------------------------------------------------------------
(* Positions.                                                              *)

(* A position that wrapped indexes the same word. *)
LEMMA IndexOfPos ==
  ASSUME ForwardRing, NEW a \in Int, NEW k \in Int
  PROVE  Index(U64(a) + k) = Index(a + k)
<1>1. PICK q \in 1 .. 2 ^ PosBits : 2 ^ PosBits = RingSize * q
  BY DEF ForwardRing
<1> DEFINE M == 2 ^ PosBits
<1>2. RingSize \in Nat /\ RingSize > 0 /\ q \in Nat /\ q > 0 /\ M = RingSize * q
  BY <1>1 DEF ForwardRing
<1>3. ((a % (RingSize * q)) + k) % RingSize = (a + k) % RingSize
  BY <1>2, ModOfMod, Zenon
<1>4. ((a % M) + k) % RingSize = (a + k) % RingSize
  BY <1>2, <1>3, Zenon
<1> QED
  BY <1>4, Zenon DEF Index, U64

LEMMA U64OfSum ==
  ASSUME ForwardRing, NEW a \in Int, NEW k \in Int
  PROVE  U64(U64(a) + k) = U64(a + k)
<1> DEFINE M == 2 ^ PosBits
<1> DEFINE d == a \div M
<1> DEFINE m == a % M
<1>0. M \in Nat /\ M > 0
  BY DEF ForwardRing
<1> HIDE DEF M
<1>1. m \in 0 .. M - 1 /\ d \in Int /\ a = M * d + m
  BY <1>0, DivMod
<1> HIDE DEF d, m
<1>2. a + k = (m + k) + d * M /\ m + k \in Int
  BY <1>0, <1>1
<1>3. ((m + k) + d * M) % M = (m + k) % M
  BY <1>0, <1>1, <1>2, ModShift
<1>4. (m + k) % M = (a + k) % M
  BY <1>2, <1>3
<1> QED
  BY <1>4 DEF U64, M, m

LEMMA PosFacts ==
  ASSUME ForwardRing
  PROVE  /\ 2 ^ PosBits \in Nat /\ 2 ^ PosBits >= RingSize /\ 2 ^ PosBits > 0
         /\ \A a \in Int : U64(a) \in Nat
         /\ \A a \in Int : Index(a) \in 0 .. RingSize - 1
<1>1. PICK q \in 1 .. 2 ^ PosBits : 2 ^ PosBits = RingSize * q
  BY DEF ForwardRing
<1>2. RingSize * q >= RingSize /\ RingSize > 0 /\ RingSize \in Nat
  BY <1>1 DEF ForwardRing
<1>3. 2 ^ PosBits \in Nat
  BY DEF ForwardRing
<1> QED
  BY <1>1, <1>2, <1>3, DivMod DEF U64, Index

(* The distance of two positions, taken with unsigned arithmetic. *)
LEMMA Distance ==
  ASSUME ForwardRing, NEW a \in Int, NEW b \in Int, a - b \in 0 .. RingSize - 1
  PROVE  U64(U64(a) - U64(b)) = a - b
<1> DEFINE M == 2 ^ PosBits
<1> DEFINE d == b \div M
<1> DEFINE m == b % M
<1> DEFINE c == a - b
<1>0. M \in Nat /\ M > 0 /\ M >= RingSize /\ RingSize \in Nat
  BY PosFacts DEF ForwardRing
<1>m. U64(b) = m /\ \A x : U64(x) = x % M
  BY DEF U64
<1>u. U64(a) \in Int
  BY PosFacts
<1> HIDE DEF M
<1>1. m \in 0 .. M - 1 /\ d \in Int /\ b = M * d + m
  BY <1>0, DivMod
<1> HIDE DEF d, m
<1>2. U64(U64(a) - m) = U64(a - m)
  <2>1. -m \in Int /\ U64(a) + (-m) = U64(a) - m /\ a + (-m) = a - m
    BY <1>1, <1>u
  <2>2. U64(U64(a) + (-m)) = U64(a + (-m))
    BY <2>1, U64OfSum
  <2> QED
    BY <2>1, <2>2
<1>4. a - m = c + d * M /\ c \in 0 .. M - 1
  BY <1>0, <1>1
<1>c. c = a - b
  OBVIOUS
<1> HIDE DEF c
<1>5. (c + d * M) % M = c % M
  BY <1>0, <1>1, <1>4, ModShift
<1>6. c % M = c
  BY <1>0, <1>4, ModSmall
<1>7. U64(a - m) = c
  BY <1>4, <1>5, <1>6, <1>m
<1> QED
  BY <1>2, <1>7, <1>m, <1>c

(* The distance of two positions, kept in an int. *)
LEMMA SignedDistance ==
  ASSUME ForwardRing, NEW a \in Int, NEW b \in Int, a - b \in 0 .. RingSize - 1
  PROVE  ToInt(U64(a) - U64(b)) = a - b
<1> DEFINE M == 2 ^ PosBits
<1> DEFINE I == 2 ^ IntBits
<1> DEFINE H == 2 ^ (IntBits - 1)
<1> DEFINE d == b \div M
<1> DEFINE m == b % M
<1> DEFINE c == a - b
<1>0. M \in Nat /\ M > 0 /\ RingSize \in Nat /\ I \in Nat /\ H \in Nat
  BY PosFacts DEF ForwardRing
<1>i. I = 2 * H /\ RingSize <= H /\ RingSize > 0
  BY DEF ForwardRing
<1>q. PICK q \in 1 .. 2 ^ PosBits : M = I * q
  BY DEF ForwardRing
<1>m. /\ U64(b) = m /\ U64(a) = a % M
      /\ \A x : ToInt(x) = IF x % I >= H THEN (x % I) - I ELSE x % I
  BY DEF U64, ToInt
<1>u. U64(a) \in Int
  BY PosFacts
<1> HIDE DEF M, I, H
<1>1. m \in 0 .. M - 1 /\ d \in Int /\ b = M * d + m
  BY <1>0, DivMod
<1> HIDE DEF d, m
<1>2. ((a % M) + (-m)) % I = (a + (-m)) % I
  <2>1. -m \in Int /\ I > 0 /\ q \in Nat /\ q > 0
    BY <1>0, <1>1, <1>i, <1>q
  <2>2. ((a % (I * q)) + (-m)) % I = (a + (-m)) % I
    BY <1>0, <2>1, ModOfMod, ZenonT(30)
  <2> QED
    BY <1>q, <2>2, Zenon
<1>3. U64(a) - m = (a % M) + (-m)
  BY <1>1, <1>m, <1>u
<1> DEFINE z == q * d
<1>4. z \in Int /\ M * d = z * I
  BY <1>0, <1>1, <1>q
<1> HIDE DEF z
<1>5. a + (-m) = c + z * I /\ c \in 0 .. H - 1 /\ c \in 0 .. I - 1
  BY <1>0, <1>1, <1>4, <1>i
<1>c. c = a - b
  OBVIOUS
<1> HIDE DEF c
<1>t. I \in Nat /\ I > 0 /\ c \in Int /\ z \in Int
  BY <1>0, <1>4, <1>5, <1>i
<1>6. (c + z * I) % I = c % I
  BY <1>t, ModShift, Zenon
<1>7. c % I = c
  BY <1>5, <1>t, ModSmall
<1>8. (U64(a) - m) % I = c
  BY <1>2, <1>3, <1>5, <1>6, <1>7
<1> QED
  BY <1>0, <1>5, <1>8, <1>m, <1>c

(* How far a word lies behind a position, around the end of the buffer. *)
LEMMA IndexDistance ==
  ASSUME ForwardRing, NEW o \in Int, NEW p \in Int
  PROVE  Index(Index(o) - U64(p)) = Index(o - p)
<1> DEFINE M == 2 ^ PosBits
<1> DEFINE R == RingSize
<1>0. M \in Nat /\ M > 0 /\ R \in Nat /\ R > 0
  BY PosFacts DEF ForwardRing
<1>q. PICK q \in 1 .. 2 ^ PosBits : M = R * q
  BY DEF ForwardRing
<1>m. U64(p) = p % M /\ \A x : Index(x) = x % R
  BY DEF U64, Index
<1> HIDE DEF M, R
<1> DEFINE d == p \div M
<1> DEFINE m == p % M
<1> DEFINE f == o \div R
<1> DEFINE g == o % R
<1>1. m \in 0 .. M - 1 /\ d \in Int /\ p = M * d + m
  BY <1>0, DivMod
<1>2. g \in 0 .. R - 1 /\ f \in Int /\ o = R * f + g
  BY <1>0, DivMod
<1>3. Index(o) = g /\ U64(p) = m
  BY <1>m
<1> HIDE DEF d, m, f, g
<1> DEFINE z == q * d - f
<1>4. z \in Int /\ g - m = (o - p) + z * R
  <2>1. M * d = (q * d) * R /\ q * d \in Int
    BY <1>0, <1>1, <1>q
  <2> QED
    BY <1>0, <1>1, <1>2, <2>1
<1> HIDE DEF z
<1> DEFINE c == o - p
<1>5. c \in Int /\ g - m = c + z * R
  BY <1>4
<1>6. (c + z * R) % R = c % R
  <2> HIDE DEF c
  <2> QED
    BY <1>0, <1>4, <1>5, ModShift
<1> QED
  BY <1>3, <1>5, <1>6, <1>m

----------------------------------------------------------------------------
(* The invariant.                                                          *)

(* What the invariant says of numbers. *)
LEMMA StoredFacts ==
  ASSUME ForwardRing, NEW off, NEW c, Stored(off, c)
  PROVE  /\ Len(records) \in Nat /\ c \in Nat /\ c <= Len(records)
         /\ RingSize \in Nat /\ RingSize > 0
         /\ \A i \in 1 .. Len(records) : records[i] \in Sizes /\ records[i] \in Nat /\ records[i] >= 1
         /\ \A i \in 1 .. Len(records) + 1 : off[i] \in Nat
         /\ DOMAIN data = 0 .. RingSize - 1
<1>1. records \in Seq(Sizes) /\ c \in 0 .. Len(records)
  BY DEF Stored
<1>2. \A x \in Sizes : x \in Nat /\ x >= 1
  BY DEF ForwardRing
<1>3. off \in [1 .. Len(records) + 1 -> Nat] /\ data \in [0 .. RingSize - 1 -> Words]
  BY DEF Stored, OffsetsInv
<1>4. RingSize \in Nat /\ RingSize > 0
  BY DEF ForwardRing
<1>5. Len(records) \in Nat
  BY <1>1
<1>6. \A i \in 1 .. Len(records) : records[i] \in Sizes
  BY <1>1
<1> QED
  BY <1>1, <1>2, <1>3, <1>4, <1>5, <1>6, SMTT(30)

LEMMA InitStored ==
  ASSUME ForwardRing, Init
  PROVE  /\ Stored([i \in 1 .. 1 |-> 0], 0)
         /\ U64(0) = 0
         /\ Blank \in Words
<1> DEFINE off == [i \in 1 .. 1 |-> 0]
<1>1. records = <<>> /\ tail = 0 /\ khead = 0
  BY DEF Init
<1>2. Len(records) = 0 /\ off \in [1 .. 1 -> Nat] /\ off[1] = 0
  BY <1>1
<1>3. Blank \in Words
  BY DEF Blank, Word, Words
<1>4. records \in Seq(Sizes) /\ data \in [0 .. RingSize - 1 -> Words]
  BY <1>1, <1>3 DEF Init
<1> HIDE DEF off
<1>5. U64(0) = 0
  BY PosFacts, ModSmall DEF U64
<1>6. OffsetsInv(off)
  BY <1>2 DEF OffsetsInv
<1>7. Stored(off, 0)
  BY <1>1, <1>2, <1>4, <1>5, <1>6 DEF Stored, ForwardRing
<1> QED
  BY <1>3, <1>5, <1>7 DEF off

(* The kernel writes a record behind the others, into room that the reader *)
(* has given back.                                                         *)
LEMMA FillStored ==
  ASSUME ForwardRing, NEW off, NEW c, Stored(off, c), NEW size \in Sizes, Fill(size)
  PROVE  \E f \in [1 .. Len(records') + 1 -> Nat] :
           /\ Stored(f, c)'
           /\ \A i \in 1 .. Len(records) + 1 : f[i] = off[i]
           /\ Len(records') = Len(records) + 1
           /\ \A i \in 1 .. Len(records) : records'[i] = records[i]
<1>n. PICK n : n = Len(records)
  OBVIOUS
<1>f. PICK f : f = [i \in 1 .. n + 2 |-> IF i = n + 2 THEN off[n + 1] + size ELSE off[i]]
  OBVIOUS
<1> USE <1>n
<1>k. PICK K : K = off[n + 1]
  OBVIOUS
<1>0. /\ n \in Nat /\ c \in Nat /\ c <= n
      /\ RingSize \in Nat /\ RingSize > 0
      /\ size \in Nat /\ size >= 1
      /\ DOMAIN data = 0 .. RingSize - 1
  <2>1. size \in Nat /\ size >= 1
    BY DEF ForwardRing
  <2> QED
    BY <2>1, StoredFacts
<1>r. /\ \A i \in 1 .. n : records[i] \in Nat /\ records[i] >= 1
      /\ \A i \in 1 .. n + 1 : off[i] \in Nat
  BY StoredFacts
<1>1. /\ records' = Append(records, size)
      /\ tail' = tail
      /\ khead' = U64(khead + size)
      /\ U64(khead - tail) + size < RingSize
      /\ data' = [k \in DOMAIN data |->
                    IF Index(k - khead) < size
                    THEN Word(n + 1, Index(k - khead), size) ELSE data[k]]
  BY DEF Fill, ForwardRing
<1>2. /\ records' \in Seq(Sizes) /\ Len(records') = n + 1
      /\ \A i \in 1 .. n : records'[i] = records[i]
      /\ records'[n + 1] = size
  BY <1>1 DEF Stored
<1>o. /\ off[1] = 0
      /\ \A i \in 1 .. n : off[i + 1] = off[i] + records[i]
      /\ \A i, j \in 1 .. n + 1 : i <= j => off[i] <= off[j]
  BY DEF Stored, OffsetsInv
<1>a. c + 1 \in 1 .. n + 1 /\ n + 1 \in 1 .. n + 1
  BY <1>0
<1>3. khead = U64(K) /\ tail = U64(off[c + 1]) /\ K - off[c + 1] < RingSize /\ off[c + 1] <= K
  <2>1. off[c + 1] <= off[n + 1]
    BY <1>0, <1>a, <1>o
  <2> QED
    BY <1>k, <2>1 DEF Stored
<1>t. PICK T : T = off[c + 1]
  OBVIOUS
<1>4. K \in Nat /\ T \in Nat /\ K - T \in 0 .. RingSize - 1
  BY <1>0, <1>3, <1>a, <1>k, <1>r, <1>t
<1>5. (K - T) + size < RingSize
  <2>1. U64(U64(K) - U64(T)) = K - T
    BY <1>4, Distance
  <2> QED
    BY <1>1, <1>3, <1>t, <2>1
<1>6. khead' = U64(K + size)
  <2>1. U64(U64(K) + size) = U64(K + size)
    BY <1>0, <1>4, U64OfSum
  <2> QED
    BY <1>1, <1>3, <2>1
<1>7. /\ f \in [1 .. n + 2 -> Nat]
      /\ f[n + 2] = K + size
      /\ \A i \in 1 .. n + 1 : f[i] = off[i]
  <2>1. f = [i \in 1 .. n + 2 |-> IF i = n + 2 THEN K + size ELSE off[i]]
    BY <1>f, <1>k
  <2>2. n + 2 \in 1 .. n + 2 /\ \A i \in 1 .. n + 1 : i \in 1 .. n + 2 /\ i # n + 2
    BY <1>0
  <2>3. \A i \in 1 .. n + 2 : i = n + 2 \/ i \in 1 .. n + 1
    BY <1>0
  <2>4. K + size \in Nat
    BY <1>0, <1>4
  <2> QED
    BY <1>r, <2>1, <2>2, <2>3, <2>4
<1>8. OffsetsInv(f)'
  <2>1. f \in [1 .. Len(records') + 1 -> Nat] /\ f[1] = 0
    BY <1>0, <1>2, <1>7, <1>o
  <2>2. \A i \in 1 .. n + 1 : f[i + 1] = f[i] + records'[i]
    BY <1>0, <1>2, <1>7, <1>o, <1>k, SMTT(30)
  <2>3. \A i, j \in 1 .. n + 2 : i <= j => f[i] <= f[j]
    <3>1. \A i \in 1 .. n + 1 : off[i] <= K
      BY <1>0, <1>o, <1>k
    <3> SUFFICES ASSUME NEW i \in 1 .. n + 2, NEW j \in 1 .. n + 2, i <= j PROVE f[i] <= f[j]
      OBVIOUS
    <3>2. CASE j = n + 2
      <4>1. CASE i = n + 2
        BY <1>0, <1>4, <1>7, <3>2, <4>1
      <4>2. CASE i # n + 2
        <5>1. i \in 1 .. n + 1
          BY <1>0, <4>2
        <5>2. f[i] \in Nat /\ f[i] <= K /\ f[j] = K + size
          BY <1>7, <1>r, <3>1, <3>2, <5>1
        <5> QED
          BY <1>0, <1>4, <5>2
      <4> QED
        BY <4>1, <4>2
    <3>3. CASE j # n + 2
      BY <1>0, <1>7, <1>o, <3>3, SMTT(30)
    <3> QED
      BY <3>2, <3>3
  <2>4. Len(records') + 1 = n + 2
    BY <1>0, <1>2
  <2> QED
    BY <1>2, <2>1, <2>2, <2>3, <2>4 DEF OffsetsInv
<1>9. /\ f[(n + 1) + 1] = K + size
      /\ f[c + 1] = off[c + 1]
      /\ (K + size) - off[c + 1] < RingSize
  <2>1. (n + 1) + 1 = n + 2
    BY <1>0
  <2> QED
    BY <1>0, <1>4, <1>5, <1>7, <1>a, <1>t, <2>1, SMTT(30)
<1>i. ASSUME NEW o \in Int
      PROVE  /\ Index(o) \in 0 .. RingSize - 1
             /\ Index(Index(o) - khead) = Index(o - K)
  <2>1. Index(Index(o) - U64(K)) = Index(o - K)
    BY <1>4, IndexDistance
  <2> QED
    BY <1>3, <2>1, PosFacts
<1>10. data' \in [0 .. RingSize - 1 -> Words]
  <2>1. ASSUME NEW k \in 0 .. RingSize - 1 PROVE Index(k - khead) \in Nat
    <3>1. khead \in Int
      BY <1>3, <1>4, PosFacts
    <3>2. k - khead \in Int
      BY <3>1
    <3> QED
      BY <1>0, <3>2, PosFacts
  <2>2. data \in [0 .. RingSize - 1 -> Words]
    BY DEF Stored
  <2>3. ASSUME NEW k \in 0 .. RingSize - 1
        PROVE  Word(n + 1, Index(k - khead), size) \in Words
    BY <1>0, <2>1 DEF Word, Words
  <2> QED
    BY <1>0, <1>1, <2>2, <2>3
<1>11. \A i \in c + 1 .. n + 1 : \A k \in 0 .. records'[i] - 1 :
         data'[Index(f[i] + k)] = Word(i, k, records'[i])
  <2>2. ASSUME NEW i \in c + 1 .. n, NEW k \in 0 .. records[i] - 1
        PROVE  data'[Index(f[i] + k)] = Word(i, k, records[i])
    <3>1. /\ i \in 1 .. n /\ i \in 1 .. n + 1 /\ i + 1 \in 1 .. n + 1
          /\ c + 1 <= i /\ i + 1 <= n + 1
      BY <1>0
    <3>a. off[i] \in Nat /\ records[i] \in Nat /\ f[i] = off[i]
      BY <1>7, <1>r, <3>1
    <3>2. T <= off[i] /\ off[i] + records[i] <= K
      BY <1>a, <1>k, <1>o, <1>t, <3>1
    <3>o. PICK o : o = off[i] + k
      OBVIOUS
    <3>b. k \in Nat /\ k < records[i]
      BY <3>a
    <3>c. o \in Nat /\ T <= o /\ o < K
      BY <1>4, <3>2, <3>a, <3>b, <3>o, SMTT(30)
    <3>3. o \in Nat /\ T <= o /\ o < K /\ o - K \in -RingSize .. -1 /\ o - K \in Int
      BY <1>0, <1>4, <3>c
    <3>4. Index(o - K) = (o - K) + RingSize
      BY <1>0, <3>3, ModSmall DEF Index
    <3>5. ~(Index(o - K) < size)
      BY <1>0, <1>4, <1>5, <3>3, <3>4
    <3>6. Index(o) \in DOMAIN data /\ ~(Index(Index(o) - khead) < size)
      BY <1>0, <1>i, <3>3, <3>5
    <3>7. data'[Index(o)] = data[Index(o)]
      BY <1>1, <3>6
    <3>8. data[Index(off[i] + k)] = Word(i, k, records[i])
      BY DEF Stored
    <3> QED
      BY <3>7, <3>8, <3>a, <3>o
  <2>3. ASSUME NEW k \in 0 .. size - 1
        PROVE  data'[Index(f[n + 1] + k)] = Word(n + 1, k, size)
    <3>1. f[n + 1] = K /\ K + k \in Int /\ (K + k) - K = k /\ k \in 0 .. RingSize - 1
      <4>1. k \in Nat /\ k < size
        BY <1>0
      <4>2. f[n + 1] = K
        BY <1>7, <1>a, <1>k
      <4> QED
        BY <1>0, <1>4, <1>5, <4>1, <4>2
    <3>2. Index(k) = k
      BY <1>0, <3>1, ModSmall DEF Index
    <3>o. PICK o : o = K + k
      OBVIOUS
    <3>3. Index(Index(o) - khead) = k /\ Index(o) \in DOMAIN data
      BY <1>0, <1>i, <3>1, <3>2, <3>o
    <3>4. k < size
      BY <1>0
    <3> QED
      BY <1>1, <3>1, <3>3, <3>4, <3>o
  <2>4. ASSUME NEW i \in c + 1 .. n + 1, NEW k \in 0 .. records'[i] - 1
        PROVE  data'[Index(f[i] + k)] = Word(i, k, records'[i])
    <3>1. CASE i = n + 1
      BY <1>2, <2>3, <3>1
    <3>2. CASE i # n + 1
      <4>1. i \in c + 1 .. n /\ records'[i] = records[i]
        BY <1>0, <1>2, <3>2
      <4> QED
        BY <2>2, <4>1
    <3> QED
      BY <3>1, <3>2
  <2> QED
    BY <2>4
<1>12. Stored(f, c)'
  <2>1. c \in 0 .. n + 1
    BY <1>0
  <2> QED
    BY <1>1, <1>2, <1>3, <1>6, <1>8, <1>9, <1>10, <1>11, <2>1 DEF Stored, U64, Index, Word
<1>13. f \in [1 .. Len(records') + 1 -> Nat]
  BY <1>0, <1>2, <1>7
<1> QED
  BY <1>2, <1>7, <1>12, <1>13

----------------------------------------------------------------------------
(* Event by event.                                                         *)

(* The reader moves the tail to the start of a later record. *)
LEMMA GiveBackStored ==
  ASSUME ForwardRing, NEW off, NEW c, Stored(off, c), NEW e \in c .. Len(records),
         tail' = U64(off[e + 1]), UNCHANGED <<data, khead, records>>
  PROVE  Stored(off, e)'
<1>n. PICK n : n = Len(records)
  OBVIOUS
<1>0. n \in Nat /\ c \in Nat /\ e \in Nat /\ c <= e /\ e <= n /\ RingSize \in Nat
  BY <1>n, StoredFacts DEF Stored, ForwardRing
<1>a. c + 1 \in 1 .. n + 1 /\ e + 1 \in 1 .. n + 1 /\ n + 1 \in 1 .. n + 1 /\ c + 1 <= e + 1
  BY <1>0
<1>1. off[n + 1] - off[e + 1] < RingSize
  <2>1. off[c + 1] <= off[e + 1] /\ off[n + 1] - off[c + 1] < RingSize
    BY <1>a, <1>n DEF Stored, OffsetsInv
  <2>2. off[c + 1] \in Nat /\ off[e + 1] \in Nat /\ off[n + 1] \in Nat
    BY <1>a, <1>n DEF Stored, OffsetsInv
  <2> QED
    BY <1>0, <2>1, <2>2
<1>2. \A i \in e + 1 .. n : \A k \in 0 .. records[i] - 1 :
         data[Index(off[i] + k)] = Word(i, k, records[i])
  <2>1. \A i \in e + 1 .. n : i \in c + 1 .. n
    BY <1>0
  <2> QED
    BY <1>n, <2>1 DEF Stored
<1>3. OffsetsInv(off)'
  BY DEF Stored, OffsetsInv
<1> QED
  BY <1>0, <1>1, <1>2, <1>3, <1>n, SMTT(30) DEF Stored, Index, U64, Word

LEMMA RingFacts ==
  ASSUME EventReader, NEW off, Placed(off)
  PROVE  /\ Stored(off, Len(out)) /\ ReaderInv(off) /\ EventsIntact
         /\ Len(records) \in Nat /\ Len(out) \in Nat /\ Len(out) <= Len(records)
         /\ RingSize \in Nat /\ RingSize > 0
         /\ \A i \in 1 .. Len(records) : records[i] \in Sizes /\ records[i] \in Nat /\ records[i] >= 1
         /\ \A i \in 1 .. Len(records) + 1 : off[i] \in Nat
<1>1. Stored(off, Len(out)) /\ ForwardRing
  BY DEF Placed, EventReader
<1> QED
  BY <1>1, StoredFacts DEF Placed

LEMMA InitPlaced ==
  ASSUME EventReader, Init
  PROVE  Placed([i \in 1 .. 1 |-> 0])
<1> DEFINE off == [i \in 1 .. 1 |-> 0]
<1>1. Stored(off, 0) /\ U64(0) = 0 /\ Blank \in Words
  BY InitStored DEF EventReader
<1>2. records = <<>> /\ out = <<>> /\ pc = "idle" /\ paused = FALSE /\ prev = 0 /\ head = 0
  BY DEF Init
<1>3. Len(records) = 0 /\ Len(out) = 0 /\ off[1] = 0
  BY <1>2
<1>4. event_copy \in Seq(Words) /\ Len(event_copy) = RingSize
  <2>1. event_copy = [k \in 1 .. RingSize |-> Blank] /\ RingSize \in Nat
    BY DEF Init, EventReader, ForwardRing
  <2> QED
    BY <1>1, <2>1
<1>5. ReaderInv(off)
  <2> HIDE DEF off
  <2> QED
    BY <1>1, <1>2, <1>3 DEF ReaderInv
<1>6. EventsIntact
  BY <1>2, <1>3 DEF EventsIntact
<1>7. out \in Seq(Seq(Words)) /\ Stored(off, Len(out))
  BY <1>1, <1>2, <1>3
<1> QED
  BY <1>4, <1>5, <1>6, <1>7 DEF Placed

LEMMA FillPlaced ==
  ASSUME EventReader, NEW off, Placed(off), NEW size \in Sizes, Fill(size)
  PROVE  \E f \in [1 .. Len(records') + 1 -> Nat] : Placed(f)'
<1>n. PICK n : n = Len(records)
  OBVIOUS
<1>d. PICK d : d = Len(out)
  OBVIOUS
<1>0. n \in Nat /\ d \in Nat /\ d <= n /\ Stored(off, d) /\ ForwardRing
  BY <1>n, <1>d, RingFacts DEF EventReader
<1>p. ReaderInv(off) /\ EventsIntact
  BY RingFacts
<1>1. UNCHANGED <<head, paused, out, pc, prev, start, end, event, event_copy>>
  BY DEF Fill, readerVars
<1>2. PICK f \in [1 .. Len(records') + 1 -> Nat] :
        /\ Stored(f, d)'
        /\ \A i \in 1 .. n + 1 : f[i] = off[i]
        /\ Len(records') = n + 1
        /\ \A i \in 1 .. n : records'[i] = records[i]
  BY <1>0, <1>n, FillStored
<1>3. Len(out') = d
  BY <1>1, <1>d
<1>4. ReaderInv(f)'
  <2>1. PICK h \in d .. n :
           /\ head = U64(off[h + 1])
           /\ pc = "read" => \E e \in d .. h : end = U64(off[e + 1])
           /\ pc = "event" => h > d
    BY <1>n, <1>d, <1>p DEF ReaderInv
  <2>2. /\ h \in d .. n + 1
        /\ \A e \in d .. h : f[e + 1] = off[e + 1]
        /\ f[h + 1] = off[h + 1]
        /\ f[d + 1] = off[d + 1]
        /\ pc = "event" => f[d + 2] = off[d + 2] /\ records'[d + 1] = records[d + 1]
    <3>1. \A e \in d .. n : e + 1 \in 1 .. n + 1
      BY <1>0
    <3>2. pc = "event" => d + 2 \in 1 .. n + 1 /\ d + 1 \in 1 .. n
      BY <1>0, <2>1
    <3>3. h \in d .. n + 1 /\ d \in d .. n /\ \A e \in d .. h : e \in d .. n
      BY <1>0
    <3> QED
      BY <1>2, <3>1, <3>2, <3>3
  <2>3. \E x \in d .. n + 1 :
           /\ head' = U64(f[x + 1])
           /\ pc' = "read" => \E e \in d .. x : end' = U64(f[e + 1])
           /\ pc' = "event" => x > d
    BY <1>1, <2>1, <2>2
  <2>4. /\ pc' \in {"idle", "read", "event"}
        /\ ~paused'
        /\ pc' # "event" => prev' = U64(f[d + 1])
        /\ pc' = "read" => start' = U64(f[d + 1])
        /\ pc' = "event" =>
             /\ prev' = U64(f[d + 2])
             /\ event'.at = U64(f[d + 1])
             /\ event'.size = records'[d + 1]
             /\ event'.copied =>
                  \A k \in 1 .. event'.size : event_copy'[k] = Word(d + 1, k - 1, event'.size)
    BY <1>1, <1>d, <1>p, <2>2 DEF ReaderInv
  <2> QED
    BY <1>2, <1>3, <2>3, <2>4 DEF ReaderInv, U64, Word
<1>5. EventsIntact'
  <2>1. ASSUME NEW i \in 1 .. d PROVE RecordWords(i)' = RecordWords(i)
    <3>1. i \in 1 .. n
      BY <1>0
    <3> QED
      BY <1>2, <3>1 DEF RecordWords, Word
  <2> QED
    BY <1>0, <1>1, <1>2, <1>d, <1>p, <2>1 DEF EventsIntact
<1>6. Stored(f, Len(out))'
  BY <1>2, <1>3
<1>7. Placed(f)'
  BY <1>1, <1>4, <1>5, <1>6 DEF Placed
<1> QED
  BY <1>2, <1>7

(* The kernel publishes what it wrote, and the reader loads the head. *)
LEMMA PublishPlaced ==
  ASSUME EventReader, NEW off, Placed(off), Publish
  PROVE  Placed(off)'
<1>1. /\ head' = khead
      /\ UNCHANGED <<data, tail, khead, paused, records, prev, event_copy, pc, start, end,
                     event, out>>
  BY DEF Publish, readerVars
<1>2. ReaderInv(off)'
  <2>1. /\ ReaderInv(off) /\ Len(records) \in Nat /\ Len(out) \in Nat /\ Len(out) <= Len(records)
        /\ khead = U64(off[Len(records) + 1])
    BY RingFacts DEF Stored
  <2>2. /\ Len(records) \in Len(out) .. Len(records)
        /\ pc = "event" => Len(records) > Len(out)
        /\ pc = "read" => \E e \in Len(out) .. Len(records) : end = U64(off[e + 1])
    BY <2>1 DEF ReaderInv
  <2> QED
    BY <1>1, <2>1, <2>2 DEF ReaderInv, U64, Word
<1>3. Stored(off, Len(out))' /\ EventsIntact'
  BY <1>1, RingFacts DEF Stored, OffsetsInv, EventsIntact, RecordWords, Index, U64, Word
<1> QED
  BY <1>1, <1>2, <1>3 DEF Placed

LEMMA ForwardPlaced ==
  ASSUME EventReader, NEW off, Placed(off), perf_mmap__read_forward
  PROVE  Placed(off)'
<1>1. /\ pc = "idle" /\ pc' = "read" /\ start' = prev /\ end' = head
      /\ UNCHANGED <<data, head, tail, khead, paused, records, prev, event_copy, event, out>>
  BY DEF perf_mmap__read_forward, kernelVars
<1>2. ReaderInv(off)'
  <2>1. ReaderInv(off) /\ Len(out) \in Nat
    BY RingFacts
  <2>2. PICK h \in Len(out) .. Len(records) : head = U64(off[h + 1])
    BY <2>1 DEF ReaderInv
  <2>3. h \in Len(out) .. h
    BY <2>1
  <2>4. \E e \in Len(out) .. h : end' = U64(off[e + 1])
    BY <1>1, <2>2, <2>3
  <2> QED
    BY <1>1, <2>1, <2>2, <2>4 DEF ReaderInv, U64, Word
<1>3. Stored(off, Len(out))' /\ EventsIntact'
  BY <1>1, RingFacts DEF Stored, OffsetsInv, EventsIntact, RecordWords, Index, U64, Word
<1> QED
  BY <1>1, <1>2, <1>3 DEF Placed

(* perf_mmap__read() returns the first record that was not given back, or  *)
(* nothing if the head it was given is the old position.                   *)
LEMMA ReadPlaced ==
  ASSUME EventReader, NEW off, Placed(off), perf_mmap__read
  PROVE  Placed(off)'
<1>n. PICK n : n = Len(records)
  OBVIOUS
<1>d. PICK d : d = Len(out)
  OBVIOUS
<1>0. /\ n \in Nat /\ d \in Nat /\ d <= n
      /\ RingSize \in Nat /\ RingSize > 0
  BY <1>n, <1>d, RingFacts
<1>r. /\ \A i \in 1 .. n : records[i] \in Sizes /\ records[i] \in Nat /\ records[i] >= 1
      /\ \A i \in 1 .. n + 1 : off[i] \in Nat
  BY <1>n, RingFacts
<1>p. ReaderInv(off) /\ Stored(off, d) /\ EventsIntact /\ ForwardRing
  BY <1>d, RingFacts DEF EventReader
<1>o. /\ \A i \in 1 .. n : off[i + 1] = off[i] + records[i]
      /\ \A i, j \in 1 .. n + 1 : i <= j => off[i] <= off[j]
  BY <1>n, <1>p DEF Stored, OffsetsInv
<1>1. /\ pc = "read"
      /\ UNCHANGED <<data, head, tail, khead, paused, records, start, end, out>>
  BY DEF perf_mmap__read, kernelVars
<1>t. PICK T : T = off[d + 1]
  OBVIOUS
<1>2. start = U64(T)
  BY <1>1, <1>d, <1>p, <1>t DEF ReaderInv
<1>h. PICK h \in d .. n :
        head = U64(off[h + 1]) /\ \E e \in d .. h : end = U64(off[e + 1])
  BY <1>1, <1>d, <1>n, <1>p DEF ReaderInv
<1>3. PICK e \in d .. h : end = U64(off[e + 1])
  BY <1>h
<1>e. PICK E : E = off[e + 1]
  OBVIOUS
<1>4. T \in Nat /\ E \in Nat /\ E - T \in 0 .. RingSize - 1
  <2>1. d + 1 \in 1 .. n + 1 /\ e + 1 \in 1 .. n + 1 /\ n + 1 \in 1 .. n + 1 /\ d + 1 <= e + 1 /\ e + 1 <= n + 1
    BY <1>0
  <2>2. off[n + 1] \in Nat /\ off[d + 1] <= off[e + 1] /\ off[e + 1] <= off[n + 1] /\ T \in Nat /\ E \in Nat
    BY <1>e, <1>o, <1>r, <1>t, <2>1
  <2>3. off[n + 1] - off[d + 1] < RingSize
    BY <1>d, <1>n, <1>p DEF Stored
  <2> QED
    BY <1>0, <1>e, <1>t, <2>2, <2>3
<1>5. ToInt(end - start) = E - T
  BY <1>p, <1>2, <1>3, <1>4, <1>e, SignedDistance
<1>6. PICK size \in HeaderSize(start) :
        \/ /\ E - T >= 1 /\ size >= 1 /\ E - T >= size
           /\ prev' = U64(start + size)
           /\ event' = [copied |-> Straddles(start, size), at |-> start, size |-> size]
           /\ event_copy' = IF Straddles(start, size) THEN CopyEvent(start, size)
                            ELSE event_copy
           /\ pc' = "event"
        \/ /\ prev' = start
           /\ pc' = "idle"
           /\ UNCHANGED <<event, event_copy>>
  <2>1. ~Restart(E - T) /\ Kind # "backward"
    BY <1>p DEF Restart, ForwardRing
  <2> QED
    BY <1>5, <2>1 DEF perf_mmap__read
<1>7. CASE /\ prev' = start
           /\ pc' = "idle"
           /\ UNCHANGED <<event, event_copy>>
  <2>1. ReaderInv(off)'
    BY <1>1, <1>2, <1>7, <1>d, <1>p, <1>t DEF ReaderInv, U64
  <2>2. Stored(off, Len(out))' /\ EventsIntact'
    BY <1>1, <1>d, <1>p DEF Stored, OffsetsInv, EventsIntact, RecordWords, Index, U64, Word
  <2> QED
    BY <1>1, <1>7, <2>1, <2>2 DEF Placed
<1>8. CASE /\ E - T >= 1 /\ size >= 1 /\ E - T >= size
           /\ prev' = U64(start + size)
           /\ event' = [copied |-> Straddles(start, size), at |-> start, size |-> size]
           /\ event_copy' = IF Straddles(start, size) THEN CopyEvent(start, size)
                            ELSE event_copy
           /\ pc' = "event"
  <2>1. d < e /\ d < n
    <3>1. d # e
      BY <1>4, <1>8, <1>e, <1>t
    <3> QED
      BY <1>0, <3>1
  <2>a. d + 1 \in 1 .. n /\ (d + 1) + 1 = d + 2 /\ d + 1 \in d + 1 .. n
    BY <1>0, <2>1
  <2>s. PICK sz : sz = records[d + 1]
    OBVIOUS
  <2>2. sz \in Nat /\ sz >= 1 /\ sz \in Sizes /\ sz <= EventMax /\ EventMax \in Nat
    BY <1>r, <2>a, <2>s DEF EventReader
  <2>3. \A k \in 0 .. sz - 1 : data[Index(start + k)] = Word(d + 1, k, sz)
    <3> SUFFICES ASSUME NEW k \in 0 .. sz - 1 PROVE data[Index(start + k)] = Word(d + 1, k, sz)
      OBVIOUS
    <3>1. Index(U64(T) + k) = Index(T + k)
      BY <1>p, <1>4, IndexOfPos
    <3>2. data[Index(off[d + 1] + k)] = Word(d + 1, k, records[d + 1])
      BY <1>d, <1>n, <1>p, <2>a, <2>s DEF Stored
    <3> QED
      BY <1>2, <1>t, <2>s, <3>1, <3>2
  <2>4. size = sz
    <3>1. 0 \in 0 .. sz - 1 /\ start \in Nat
      BY <1>p, <1>2, <1>4, <2>2, PosFacts
    <3>2. start + 0 = start
      BY <3>1
    <3>3. At(start) = Word(d + 1, 0, sz)
      BY <2>3, <3>1, <3>2 DEF At
    <3> QED
      BY <1>6, <3>3 DEF HeaderSize, Word
  <2>5. prev' = U64(off[d + 2])
    <3>1. off[d + 2] = T + sz
      BY <1>o, <1>t, <2>a, <2>s
    <3>2. U64(U64(T) + sz) = U64(T + sz)
      BY <1>p, <1>4, <2>2, U64OfSum
    <3> QED
      BY <1>2, <1>8, <2>4, <3>1, <3>2
  <2>6. event'.at = U64(off[d + 1]) /\ event'.size = sz
    BY <1>2, <1>8, <1>t, <2>4
  <2>h. h > d
    BY <1>0, <2>1
  <2>8. event_copy' \in Seq(Words) /\ Len(event_copy') = RingSize
    <3>1. event_copy \in Seq(Words) /\ Len(event_copy) = RingSize
      BY DEF Placed
    <3>2. CASE ~Straddles(start, size)
      BY <1>8, <3>1, <3>2
    <3>3. CASE Straddles(start, size)
      <4>1. \A x \in Int : At(x) \in Words
        <5>1. data \in [0 .. RingSize - 1 -> Words]
          BY <1>p DEF Stored
        <5> QED
          BY <1>p, <5>1, PosFacts DEF At
      <4>2. start \in Nat
        BY <1>p, <1>2, <1>4, PosFacts
      <4>3. event_copy' = [k \in 1 .. RingSize |->
                             IF k <= size /\ k <= EventMax THEN At(start + k - 1)
                             ELSE event_copy[k]]
        BY <1>8, <3>1, <3>3 DEF CopyEvent
      <4>4. \A k \in 1 .. RingSize : start + k - 1 \in Int /\ event_copy[k] \in Words
        BY <1>0, <3>1, <4>2
      <4>5. \A k \in 1 .. RingSize :
               (IF k <= size /\ k <= EventMax THEN At(start + k - 1) ELSE event_copy[k]) \in Words
        BY <4>1, <4>4
      <4> HIDE DEF Words
      <4> QED
        BY <1>0, <4>3, <4>5
    <3> QED
      BY <3>2, <3>3
  <2>9. event'.copied => \A k \in 1 .. sz : event_copy'[k] = Word(d + 1, k - 1, sz)
    <3> SUFFICES ASSUME Straddles(start, size), NEW k \in 1 .. sz
                 PROVE  event_copy'[k] = Word(d + 1, k - 1, sz)
      BY <1>8
    <3>1. DOMAIN event_copy = 1 .. RingSize
      BY DEF Placed
    <3>2. sz < RingSize
      BY <1>0, <1>4, <1>8, <2>2, <2>4
    <3>3. k \in 1 .. RingSize /\ k <= size /\ k <= EventMax /\ k - 1 \in 0 .. sz - 1
      BY <1>0, <2>2, <2>4, <3>2
    <3>4. event_copy'[k] = At(start + k - 1)
      BY <1>8, <3>1, <3>3 DEF CopyEvent
    <3>5. start + k - 1 = start + (k - 1)
      BY <1>2, <1>4, PosFacts
    <3> QED
      BY <2>3, <3>3, <3>4, <3>5 DEF At
  <2>7. ReaderInv(off)'
    <3>1. \E x \in d .. n : head' = U64(off[x + 1]) /\ x > d
      BY <1>1, <1>h, <2>h
    <3>2. Len(records') = n /\ Len(out') = d
      BY <1>1, <1>d, <1>n
    <3> QED
      BY <1>1, <1>8, <1>d, <1>n, <1>p, <2>1, <2>5, <2>6, <2>9, <2>s, <3>1, <3>2, SMTT(30) DEF ReaderInv, U64, Word
  <2>10. Stored(off, Len(out))' /\ EventsIntact'
    BY <1>1, <1>d, <1>p DEF Stored, OffsetsInv, EventsIntact, RecordWords, Index, U64, Word
  <2> QED
    BY <1>1, <2>7, <2>8, <2>10 DEF Placed
<1> QED
  BY <1>6, <1>7, <1>8

(* The tool sees the record, whole, and gives it back. *)
LEMMA UsePlaced ==
  ASSUME EventReader, NEW off, Placed(off), UseEvent
  PROVE  Placed(off)'
<1>n. PICK n : n = Len(records)
  OBVIOUS
<1>d. PICK d : d = Len(out)
  OBVIOUS
<1>0. n \in Nat /\ d \in Nat /\ RingSize \in Nat
  BY <1>n, <1>d, RingFacts
<1>r. /\ \A i \in 1 .. n : records[i] \in Nat /\ records[i] >= 1
      /\ \A i \in 1 .. n + 1 : off[i] \in Nat
  BY <1>n, RingFacts
<1>p. ReaderInv(off) /\ Stored(off, d) /\ EventsIntact /\ ForwardRing
  BY <1>d, RingFacts DEF EventReader
<1>1. /\ pc = "event" /\ pc' = "idle" /\ prev' = prev /\ tail' = prev
      /\ out' = Append(out, EventWords)
      /\ UNCHANGED <<data, head, khead, paused, records, event_copy, start, end, event>>
  BY <1>p DEF UseEvent, perf_mmap__consume, ForwardRing
<1>2. /\ d < n /\ prev = U64(off[d + 2]) /\ event.at = U64(off[d + 1])
      /\ event.size = records[d + 1]
  BY <1>1, <1>d, <1>n, <1>p DEF ReaderInv
<1>a. /\ d + 1 \in 1 .. n /\ d + 1 \in 1 .. n + 1 /\ d + 2 \in 1 .. n + 1 /\ d + 1 <= d + 2
      /\ (d + 1) + 1 = d + 2 /\ d + 1 \in d + 1 .. n /\ n + 1 \in 1 .. n + 1
  BY <1>0, <1>2
<1>t. PICK T : T = off[d + 1]
  OBVIOUS
<1>s. PICK sz : sz = records[d + 1]
  OBVIOUS
<1>3. T \in Nat /\ sz \in Nat /\ sz >= 1
  BY <1>a, <1>r, <1>s, <1>t
<1>4. ASSUME NEW k \in 1 .. sz PROVE At(event.at + k - 1) = Word(d + 1, k - 1, sz)
  <2>1. Index(U64(T) + (k - 1)) = Index(T + (k - 1))
    BY <1>p, <1>3, IndexOfPos
  <2>2. k - 1 \in 0 .. sz - 1 /\ event.at + k - 1 = U64(T) + (k - 1)
    BY <1>2, <1>3, <1>t, PosFacts
  <2>3. data[Index(off[d + 1] + (k - 1))] = Word(d + 1, k - 1, records[d + 1])
    BY <1>a, <1>d, <1>n, <1>p, <1>s, <2>2 DEF Stored
  <2> QED
    BY <1>s, <1>t, <2>1, <2>2, <2>3 DEF At
<1>5. EventWords = RecordWords(d + 1)
  <2>1. CASE event.copied
    <3>1. event_copy \in Seq(Words) /\ Len(event_copy) = RingSize
      BY DEF Placed
    <3>2. EventWords = SubSeq(event_copy, 1, sz)
      BY <1>2, <1>s, <2>1 DEF EventWords
    <3>3. SubSeq(event_copy, 1, sz) = [k \in 1 .. sz |-> event_copy[k]]
      BY <1>3, <3>1
    <3>4. \A k \in 1 .. sz : event_copy[k] = Word(d + 1, k - 1, sz)
      BY <1>1, <1>2, <1>d, <1>p, <1>s, <2>1 DEF ReaderInv
    <3> QED
      BY <1>s, <3>2, <3>3, <3>4 DEF RecordWords
  <2>2. CASE ~event.copied
    <3>1. EventWords = [k \in 1 .. sz |-> At(event.at + k - 1)]
      BY <1>2, <1>s, <2>2 DEF EventWords, ReadWords
    <3> QED
      BY <1>4, <1>s, <3>1 DEF RecordWords
  <2> QED
    BY <2>1, <2>2
<1>6. RecordWords(d + 1) \in Seq(Words)
  <2>1. \A k \in 1 .. sz : Word(d + 1, k - 1, sz) \in Words
    BY <1>0, <1>3 DEF Word, Words
  <2>2. RecordWords(d + 1) = [k \in 1 .. sz |-> Word(d + 1, k - 1, sz)]
    BY <1>s DEF RecordWords
  <2> QED
    BY <1>3, <2>1, <2>2
<1>7. /\ out' \in Seq(Seq(Words)) /\ Len(out') = d + 1
      /\ \A i \in 1 .. d : out'[i] = out[i]
      /\ out'[d + 1] = RecordWords(d + 1)
  <2>1. out \in Seq(Seq(Words)) /\ out' = Append(out, RecordWords(d + 1))
    BY <1>1, <1>5 DEF Placed
  <2> QED
    BY <1>6, <1>d, <2>1
<1>8. EventsIntact'
  <2>1. \A i \in 1 .. d : out[i] = RecordWords(i)
    BY <1>d, <1>p DEF EventsIntact
  <2>2. \A i \in 1 .. d + 1 : out'[i] = RecordWords(i)
    BY <1>0, <1>7, <2>1
  <2>3. \A i : RecordWords(i)' = RecordWords(i)
    BY <1>1 DEF RecordWords, Word
  <2>4. Len(out') <= Len(records')
    BY <1>0, <1>1, <1>2, <1>7, <1>n
  <2> QED
    BY <1>7, <2>2, <2>3, <2>4 DEF EventsIntact
<1>9. ReaderInv(off)'
  <2>1. PICK h \in d .. n : head = U64(off[h + 1]) /\ h > d
    BY <1>1, <1>d, <1>n, <1>p DEF ReaderInv
  <2>2. h \in d + 1 .. n
    BY <1>0, <2>1
  <2>3. Len(records') = n /\ Len(out') = d + 1 /\ d + 1 <= n
    BY <1>0, <1>1, <1>2, <1>7, <1>n
  <2>4. ~paused
    BY <1>p DEF ReaderInv
  <2> QED
    BY <1>1, <1>2, <1>a, <2>1, <2>2, <2>3, <2>4 DEF ReaderInv, U64
<1>10. Stored(off, Len(out))'
  <2>1. Stored(off, d + 1)'
    BY <1>1, <1>2, <1>a, <1>d, <1>n, <1>p, GiveBackStored
  <2> QED
    BY <1>7, <2>1
<1> QED
  BY <1>1, <1>7, <1>8, <1>9, <1>10 DEF Placed

LEMMA NextRing ==
  ASSUME EventReader, RingInv, [Next]_vars
  PROVE  RingInv'
<1>1. PICK off \in [1 .. Len(records) + 1 -> Nat] : Placed(off)
  BY DEF RingInv
<1>2. CASE \E size \in Sizes : Fill(size)
  BY <1>1, <1>2, FillPlaced DEF RingInv
<1>3. ASSUME UNCHANGED records, Placed(off)'
      PROVE  RingInv'
  BY <1>3 DEF RingInv
<1>4. CASE Publish
  <2>1. UNCHANGED records
    BY <1>4 DEF Publish
  <2> QED
    BY <1>1, <1>3, <1>4, <2>1, PublishPlaced
<1>5. CASE perf_mmap__read_forward \/ perf_mmap__read \/ UseEvent
  <2>1. UNCHANGED records
    BY <1>5 DEF perf_mmap__read_forward, perf_mmap__read, UseEvent, kernelVars
  <2> QED
    BY <1>1, <1>3, <1>5, <2>1, ForwardPlaced, ReadPlaced, UsePlaced
<1>6. CASE \/ Pause \/ perf_mmap__read_catchup \/ perf_mmap__read_backward \/ Resume
           \/ FindRange \/ WriteFirst \/ WriteSecond \/ WriteFails \/ FinishRead
  <2>1. pc \in {"idle", "read", "event"} /\ Kind = "forward" /\ Reader = "read"
    BY <1>1 DEF Placed, ReaderInv, EventReader, ForwardRing
  <2> QED
    BY <1>6, <2>1 DEF Pause, perf_mmap__read_catchup, perf_mmap__read_backward, Resume,
       FindRange, WriteFirst, WriteSecond, WriteFails, FinishRead
<1>7. CASE UNCHANGED vars
  <2>1. UNCHANGED <<data, head, tail, khead, paused, records, prev, event_copy, pc, start, end,
                    event, out>>
    BY <1>7 DEF vars, kernelVars, readerVars
  <2>2. Placed(off)'
    BY <1>1, <2>1 DEF Placed, Stored, OffsetsInv, ReaderInv, EventsIntact, RecordWords,
                      Index, Word, U64
  <2> QED
    BY <1>3, <2>1, <2>2
<1> QED
  BY <1>2, <1>4, <1>5, <1>6, <1>7 DEF Next, ReadStep

(* perf_mmap__read_forward(), perf_mmap__read() and perf_mmap__consume()   *)
(* show the tool every record of a buffer that is not overwritten, each    *)
(* once, in order and whole: also where positions wrap, where a record     *)
(* straddles the end of the buffer, and while the kernel goes on writing.  *)
THEOREM ForwardReadsIntact == ASSUME EventReader PROVE Spec => []EventsIntact
<1>1. Init => RingInv
  <2> SUFFICES ASSUME Init PROVE RingInv
    OBVIOUS
  <2>1. Placed([i \in 1 .. 1 |-> 0])
    BY InitPlaced
  <2>2. [i \in 1 .. 1 |-> 0] \in [1 .. Len(records) + 1 -> Nat]
    BY DEF Init
  <2> QED
    BY <2>1, <2>2 DEF RingInv
<1>2. RingInv /\ [Next]_vars => RingInv'
  BY NextRing
<1>3. RingInv => EventsIntact
  BY DEF RingInv, Placed
<1> QED
  BY <1>1, <1>2, <1>3, PTL DEF Spec

----------------------------------------------------------------------------
(* All at once.                                                            *)

LEMMA IndexOf ==
  ASSUME ForwardRing, NEW a \in Nat
  PROVE  Index(U64(a)) = Index(a) /\ Index(a) \in 0 .. RingSize - 1
<1>1. Index(U64(a) + 0) = Index(a + 0)
  BY IndexOfPos
<1>2. U64(a) + 0 = U64(a) /\ a + 0 = a /\ Index(a) \in 0 .. RingSize - 1
  BY PosFacts
<1> QED
  BY <1>1, <1>2

(* Words that lie together in the buffer. *)
LEMMA IndexOfSum ==
  ASSUME ForwardRing, NEW a \in Nat, NEW k \in Nat
  PROVE  /\ Index(a) + k < RingSize => Index(a + k) = Index(a) + k
         /\ Index(a + (RingSize - Index(a))) = 0
<1> DEFINE q == a \div RingSize
<1> DEFINE r == a % RingSize
<1>0. RingSize \in Nat /\ RingSize > 0
  BY DEF ForwardRing
<1>1. r \in 0 .. RingSize - 1 /\ q \in Int /\ a = RingSize * q + r /\ Index(a) = r
  BY <1>0, DivMod DEF Index
<1> HIDE DEF q, r
<1>2. ASSUME r + k < RingSize PROVE Index(a + k) = r + k
  <2>1. a + k = q * RingSize + (r + k) /\ r + k \in 0 .. RingSize - 1
    BY <1>0, <1>1, <1>2
  <2> QED
    BY <1>0, <1>1, <2>1, ModUnique DEF Index
<1>3. Index(a + (RingSize - r)) = 0
  <2>1. a + (RingSize - r) = (q + 1) * RingSize + 0
    BY <1>0, <1>1
  <2> QED
    BY <1>0, <1>1, <2>1, ModUnique DEF Index
<1> QED
  BY <1>1, <1>2, <1>3

(* What the invariant says of the numbers between two records. *)
LEMMA Between ==
  ASSUME ForwardRing, NEW off, NEW c, Stored(off, c),
         NEW e \in c .. Len(records)
  PROVE  /\ off[c + 1] \in Nat /\ off[e + 1] \in Nat /\ off[Len(records) + 1] \in Nat
         /\ off[c + 1] <= off[e + 1] /\ off[e + 1] <= off[Len(records) + 1]
         /\ off[e + 1] - off[c + 1] \in 0 .. RingSize - 1
<1>0. /\ Len(records) \in Nat /\ c \in Nat /\ c <= Len(records) /\ RingSize \in Nat
      /\ \A i \in 1 .. Len(records) + 1 : off[i] \in Nat
  BY StoredFacts
<1>a. /\ c + 1 \in 1 .. Len(records) + 1 /\ e + 1 \in 1 .. Len(records) + 1
      /\ Len(records) + 1 \in 1 .. Len(records) + 1
      /\ c + 1 <= e + 1 /\ e + 1 <= Len(records) + 1
  BY <1>0
<1>1. /\ off[c + 1] <= off[e + 1] /\ off[e + 1] <= off[Len(records) + 1]
      /\ off[Len(records) + 1] - off[c + 1] < RingSize
  BY <1>a DEF Stored, OffsetsInv
<1>2. off[c + 1] \in Nat /\ off[e + 1] \in Nat /\ off[Len(records) + 1] \in Nat
  BY <1>0, <1>a
<1> QED
  BY <1>0, <1>1, <1>2

LEMMA ConcatFacts ==
  ASSUME NEW s \in Seq(Words), NEW t \in Seq(Words)
  PROVE  /\ s \o t \in Seq(Words) /\ Len(s \o t) = Len(s) + Len(t)
         /\ \A x \in 1 .. Len(s) : (s \o t)[x] = s[x]
         /\ \A x \in 1 .. Len(t) : (s \o t)[Len(s) + x] = t[x]
<1>1. Len(s) \in Nat /\ Len(t) \in Nat
  OBVIOUS
<1> QED
  BY <1>1

LEMMA ReadFacts ==
  ASSUME ForwardRing, NEW off, NEW c, Stored(off, c), NEW P \in Nat, NEW size \in Nat
  PROVE  /\ ReadWords(U64(P), size) \in Seq(Words)
         /\ Len(ReadWords(U64(P), size)) = size
         /\ \A x \in 1 .. size : ReadWords(U64(P), size)[x] = At(U64(P) + (x - 1))
<1>p. PICK p : p = U64(P)
  OBVIOUS
<1>w. PICK w : w = [k \in 1 .. size |-> At(p + k - 1)]
  OBVIOUS
<1>0. p \in Nat /\ data \in [0 .. RingSize - 1 -> Words]
  BY <1>p, PosFacts DEF Stored
<1>1. ASSUME NEW k \in 1 .. size PROVE At(p + k - 1) \in Words /\ p + k - 1 = p + (k - 1)
  <2>1. p + k - 1 \in Int /\ p + k - 1 = p + (k - 1)
    BY <1>0
  <2>2. Index(p + k - 1) \in 0 .. RingSize - 1
    BY <2>1, PosFacts
  <2> QED
    BY <1>0, <2>1, <2>2 DEF At
<1>2. w \in Seq(Words) /\ Len(w) = size
  <2> HIDE DEF Words
  <2> QED
    BY <1>1, <1>w
<1>3. \A x \in 1 .. size : w[x] = At(p + (x - 1))
  BY <1>1, <1>w
<1>4. ReadWords(U64(P), size) = w
  BY <1>p, <1>w DEF ReadWords
<1> QED
  BY <1>2, <1>3, <1>4, <1>p

(* A word that was not given back is read from its place. *)
LEMMA WordRead ==
  ASSUME ForwardRing, NEW off, NEW c, Stored(off, c),
         NEW P \in Nat, off[c + 1] <= P
  PROVE  \A i \in 1 .. Len(records) : \A k \in 0 .. records[i] - 1 :
           P <= off[i] + k => At(U64(P) + ((off[i] + k) - P)) = Word(i, k, records[i])
<1> SUFFICES ASSUME NEW i \in 1 .. Len(records), NEW k \in 0 .. records[i] - 1,
                    NEW o, o = off[i] + k, P <= o
             PROVE  At(U64(P) + (o - P)) = Word(i, k, records[i])
  OBVIOUS
<1>n. PICK n : n = Len(records)
  OBVIOUS
<1>0. /\ n \in Nat /\ c \in Nat /\ c <= n
      /\ \A j \in 1 .. n : records[j] \in Nat
      /\ \A j \in 1 .. n + 1 : off[j] \in Nat
  BY <1>n, StoredFacts
<1>a. i \in 1 .. n /\ i \in 1 .. n + 1 /\ i + 1 \in 1 .. n + 1 /\ c + 1 \in 1 .. n + 1
  BY <1>0, <1>n
<1>1. off[i] \in Nat /\ off[i + 1] \in Nat /\ off[c + 1] \in Nat /\ records[i] \in Nat
  BY <1>0, <1>a
<1>2. k \in Nat /\ k < records[i] /\ o \in Nat
  BY <1>1
<1>3. off[i + 1] = off[i] + records[i]
  BY <1>a, <1>n DEF Stored, OffsetsInv
<1>4. i > c
  <2> SUFFICES ASSUME i <= c PROVE FALSE
    BY <1>0, <1>a
  <2>1. i + 1 <= c + 1
    BY <1>0, <1>a
  <2>2. off[i + 1] <= off[c + 1]
    BY <1>a, <1>n, <2>1 DEF Stored, OffsetsInv
  <2> QED
    BY <1>1, <1>2, <1>3, <2>2, SMTT(30)
<1>5. i \in c + 1 .. n
  BY <1>0, <1>4, <1>a
<1>6. data[Index(o)] = Word(i, k, records[i])
  BY <1>5, <1>n DEF Stored
<1>7. P \in Int /\ o - P \in Int /\ P + (o - P) = o
  BY <1>2
<1>8. Index(U64(P) + (o - P)) = Index(P + (o - P))
  BY <1>7, IndexOfPos, Zenon
<1> QED
  BY <1>6, <1>7, <1>8 DEF At

(* A write behind the words that are in the file appends the next words of *)
(* those the kernel wrote.                                                 *)
LEMMA WriteCopied ==
  ASSUME ForwardRing, NEW off, NEW c, Stored(off, c), Copied(off), out \in Seq(Words),
         NEW size \in Nat,
         off[c + 1] <= Len(out), Len(out) + size <= off[Len(records) + 1],
         out' = out \o ReadWords(U64(Len(out)), size), UNCHANGED records
  PROVE  /\ out' \in Seq(Words) /\ Len(out') = Len(out) + size
         /\ Copied(off)'
<1>n. PICK n : n = Len(records)
  OBVIOUS
<1>p. PICK P : P = Len(out)
  OBVIOUS
<1>w. PICK w : w = ReadWords(U64(P), size)
  OBVIOUS
<1>0. /\ P \in Nat /\ n \in Nat
      /\ \A i \in 1 .. n : records[i] \in Nat
      /\ \A i \in 1 .. n + 1 : off[i] \in Nat
  BY <1>n, <1>p, StoredFacts
<1>1. w \in Seq(Words) /\ Len(w) = size /\ \A x \in 1 .. size : w[x] = At(U64(P) + (x - 1))
  BY <1>0, <1>w, ReadFacts
<1>2. /\ out' \in Seq(Words) /\ Len(out') = P + size
      /\ \A x \in 1 .. P : out'[x] = out[x]
      /\ \A x \in 1 .. size : out'[P + x] = w[x]
  <2>1. out' = out \o w
    BY <1>p, <1>w
  <2>2. /\ out \o w \in Seq(Words) /\ Len(out \o w) = Len(out) + Len(w)
        /\ \A x \in 1 .. Len(out) : (out \o w)[x] = out[x]
        /\ \A x \in 1 .. Len(w) : (out \o w)[Len(out) + x] = w[x]
    BY <1>1, ConcatFacts, Zenon
  <2> QED
    BY <1>1, <1>p, <2>1, <2>2, Zenon
<1>3. ASSUME NEW i \in 1 .. n, NEW k \in 0 .. records[i] - 1, off[i] + k < P + size
      PROVE  out'[off[i] + k + 1] = Word(i, k, records[i])
  <2>0. PICK o : o = off[i] + k
    OBVIOUS
  <2>1. o \in Nat /\ o < P + size
    BY <1>0, <1>3, <2>0
  <2>2. CASE o < P
    <3>1. o + 1 \in 1 .. P
      BY <1>0, <2>1, <2>2
    <3>2. out[o + 1] = Word(i, k, records[i])
      BY <1>n, <1>p, <2>0, <2>2 DEF Copied
    <3> QED
      BY <1>2, <2>0, <3>1, <3>2
  <2>3. CASE P <= o
    <3>1. At(U64(P) + (o - P)) = Word(i, k, records[i])
      <4>1. i \in 1 .. Len(records) /\ off[c + 1] <= P
        BY <1>n, <1>p, Zenon
      <4>2. \A j \in 1 .. Len(records) : \A l \in 0 .. records[j] - 1 :
              P <= off[j] + l => At(U64(P) + ((off[j] + l) - P)) = Word(j, l, records[j])
        BY <1>0, <4>1, WordRead, Zenon
      <4> QED
        BY <1>3, <2>0, <2>3, <4>1, <4>2
    <3>2. PICK x : x = (o - P) + 1
      OBVIOUS
    <3>3. x \in 1 .. size /\ P + x = o + 1 /\ x - 1 = o - P
      BY <1>0, <2>1, <2>3, <3>2
    <3> QED
      BY <1>1, <1>2, <2>0, <3>1, <3>3
  <2>4. o < P \/ P <= o
    BY <1>0, <2>1
  <2> QED
    BY <2>2, <2>3, <2>4, Zenon
<1>4. Len(out') <= off[Len(records') + 1] /\ Len(records') = n
  BY <1>2, <1>n, <1>p
<1> QED
  BY <1>2, <1>3, <1>4, <1>n, <1>p DEF Copied, Word

LEMMA FileFacts ==
  ASSUME FileReader, NEW off, NEW c, FilePlaced(off, c)
  PROVE  /\ ForwardRing /\ Kind = "forward" /\ Reader = "record"
         /\ out \in Seq(Words) /\ Stored(off, c) /\ CopierInv(off, c) /\ Copied(off)
         /\ Len(records) \in Nat /\ Len(out) \in Nat /\ c \in Nat /\ c <= Len(records)
         /\ RingSize \in Nat
<1>1. ForwardRing /\ Kind = "forward" /\ Reader = "record"
  BY DEF FileReader, ForwardRing
<1>2. Stored(off, c) /\ out \in Seq(Words) /\ CopierInv(off, c) /\ Copied(off)
  BY DEF FilePlaced
<1> QED
  BY <1>1, <1>2, StoredFacts

LEMMA InitFile ==
  ASSUME FileReader, Init
  PROVE  FilePlaced([i \in 1 .. 1 |-> 0], 0)
<1> DEFINE off == [i \in 1 .. 1 |-> 0]
<1>1. Stored(off, 0) /\ U64(0) = 0
  BY InitStored DEF FileReader
<1>2. records = <<>> /\ out = <<>> /\ pc = "idle" /\ paused = FALSE /\ prev = 0 /\ head = 0
  BY DEF Init
<1>3. Len(records) = 0 /\ Len(out) = 0 /\ off[1] = 0
  BY <1>2
<1> HIDE DEF off
<1>4. CopierInv(off, 0)
  BY <1>1, <1>2, <1>3 DEF CopierInv
<1>5. Copied(off)
  BY <1>3 DEF Copied
<1>6. out \in Seq(Words)
  BY <1>2
<1>7. FilePlaced(off, 0)
  BY <1>1, <1>4, <1>5, <1>6 DEF FilePlaced
<1> QED
  BY <1>7 DEF off

LEMMA FillFile ==
  ASSUME FileReader, NEW off, NEW c, FilePlaced(off, c), NEW size \in Sizes, Fill(size)
  PROVE  \E f \in [1 .. Len(records') + 1 -> Nat] : FilePlaced(f, c)'
<1>n. PICK n : n = Len(records)
  OBVIOUS
<1>0. /\ n \in Nat /\ c \in Nat /\ c <= n /\ Len(out) \in Nat
      /\ Stored(off, c) /\ ForwardRing
      /\ out \in Seq(Words) /\ CopierInv(off, c) /\ Copied(off)
  BY <1>n, FileFacts
<1>1. UNCHANGED <<head, paused, out, pc, prev, start, end, loaded>>
  BY DEF Fill, readerVars
<1>2. PICK f \in [1 .. Len(records') + 1 -> Nat] :
        /\ Stored(f, c)'
        /\ \A i \in 1 .. n + 1 : f[i] = off[i]
        /\ Len(records') = n + 1
        /\ \A i \in 1 .. n : records'[i] = records[i]
  BY <1>0, <1>n, FillStored
<1>3. CopierInv(f, c)'
  <2>1. PICK h \in c .. n :
          /\ head = U64(off[h + 1])
          /\ pc \in {"first", "second", "finish"} => \E e \in c .. h : Copying(off, c, e)
    BY <1>0, <1>n DEF CopierInv
  <2>a. /\ h \in Nat /\ h + 1 \in 1 .. n + 1 /\ c + 1 \in 1 .. n + 1 /\ h \in c .. n + 1
        /\ \A e \in c .. h : e + 1 \in 1 .. n + 1
    BY <1>0
  <2>2. /\ h \in c .. Len(records') /\ f[h + 1] = off[h + 1] /\ f[c + 1] = off[c + 1]
        /\ \A e \in c .. h : f[e + 1] = off[e + 1]
    BY <1>2, <2>a
  <2>3. pc \in {"first", "second", "finish"} => \E e \in c .. h : Copying(f, c, e)'
    BY <1>1, <2>1, <2>2 DEF Copying, U64, Index
  <2>4. /\ pc \in {"idle", "first", "second", "finish", "error"} /\ ~paused
        /\ prev = U64(f[c + 1])
        /\ pc = "idle" => Len(out) = f[c + 1]
    BY <1>0, <2>2 DEF CopierInv
  <2> QED
    BY <1>1, <2>1, <2>2, <2>3, <2>4 DEF CopierInv, U64
<1>4. Copied(f)'
  <2>1. PICK P : P = Len(out)
    OBVIOUS
  <2>2. /\ P <= off[n + 1]
        /\ \A i \in 1 .. n : \A k \in 0 .. records[i] - 1 :
             off[i] + k < P => out[off[i] + k + 1] = Word(i, k, records[i])
    BY <1>0, <1>n, <2>1 DEF Copied
  <2>3. /\ f[n + 1] = off[n + 1] /\ off[n + 1] \in Nat /\ f[(n + 1) + 1] \in Nat
        /\ f[n + 1] <= f[(n + 1) + 1]
    <3>1. n + 1 \in 1 .. n + 1 /\ n + 1 \in 1 .. (n + 1) + 1 /\ (n + 1) + 1 \in 1 .. (n + 1) + 1
          /\ n + 1 <= (n + 1) + 1
      BY <1>0
    <3>2. \A i, j \in 1 .. (n + 1) + 1 : i <= j => f[i] <= f[j]
      BY <1>2 DEF Stored, OffsetsInv
    <3>3. f \in [1 .. (n + 1) + 1 -> Nat]
      BY <1>2
    <3> QED
      BY <1>2, <3>1, <3>2, <3>3
  <2>4. P <= f[(n + 1) + 1] /\ P \in Nat
    BY <1>0, <2>1, <2>2, <2>3
  <2>5. ASSUME NEW i \in 1 .. n + 1, NEW k \in 0 .. records'[i] - 1, f[i] + k < P
        PROVE  out[f[i] + k + 1] = Word(i, k, records'[i])
    <3>1. i # n + 1
      <4> SUFFICES ASSUME i = n + 1 PROVE FALSE
        OBVIOUS
      <4>1. k \in Nat
        OBVIOUS
      <4> QED
        BY <2>2, <2>3, <2>4, <2>5, <4>1
    <3>2. i \in 1 .. n /\ i \in 1 .. n + 1
      BY <1>0, <3>1
    <3> QED
      BY <1>2, <2>2, <2>5, <3>2
  <2> QED
    BY <1>1, <1>2, <2>1, <2>4, <2>5 DEF Copied, Word
<1>5. FilePlaced(f, c)'
  BY <1>0, <1>1, <1>2, <1>3, <1>4 DEF FilePlaced
<1> QED
  BY <1>2, <1>5

LEMMA PublishFile ==
  ASSUME FileReader, NEW off, NEW c, FilePlaced(off, c), Publish
  PROVE  FilePlaced(off, c)'
<1>n. PICK n : n = Len(records)
  OBVIOUS
<1>0. /\ n \in Nat /\ c \in Nat /\ c <= n
      /\ Stored(off, c) /\ out \in Seq(Words) /\ CopierInv(off, c) /\ Copied(off)
  BY <1>n, FileFacts
<1>1. /\ head' = khead
      /\ UNCHANGED <<data, tail, khead, paused, records, prev, pc, start, end, loaded, out>>
  BY DEF Publish, readerVars
<1>2. Stored(off, c)' /\ Copied(off)' /\ out' \in Seq(Words)
  BY <1>0, <1>1 DEF Stored, OffsetsInv, Copied, Index, U64, Word
<1>3. CopierInv(off, c)'
  <2>1. khead = U64(off[n + 1]) /\ n \in c .. n
    BY <1>0, <1>n DEF Stored
  <2>2. PICK h \in c .. n :
          pc \in {"first", "second", "finish"} => \E e \in c .. h : Copying(off, c, e)
    BY <1>0, <1>n DEF CopierInv
  <2>3. \A e \in c .. h : e \in c .. n
    BY <1>0
  <2>4. /\ pc \in {"idle", "first", "second", "finish", "error"} /\ ~paused
        /\ prev = U64(off[c + 1])
        /\ pc = "idle" => Len(out) = off[c + 1]
    BY <1>0 DEF CopierInv
  <2>5. pc \in {"first", "second", "finish"} => \E e \in c .. n : Copying(off, c, e)'
    BY <1>1, <2>2, <2>3 DEF Copying, U64, Index
  <2> QED
    BY <1>1, <1>n, <2>1, <2>4, <2>5 DEF CopierInv, U64
<1> QED
  BY <1>2, <1>3 DEF FilePlaced

(* record__mmap_read() finds what was written since the last read, and     *)
(* whether it lies across the end of the buffer.                           *)
LEMMA FindFile ==
  ASSUME FileReader, NEW off, NEW c, FilePlaced(off, c), FindRange
  PROVE  FilePlaced(off, c)'
<1>n. PICK n : n = Len(records)
  OBVIOUS
<1>p. PICK P : P = Len(out)
  OBVIOUS
<1>0. /\ n \in Nat /\ c \in Nat /\ c <= n /\ P \in Nat /\ RingSize \in Nat
      /\ Stored(off, c) /\ out \in Seq(Words) /\ CopierInv(off, c) /\ Copied(off)
      /\ ForwardRing /\ Kind = "forward"
  BY <1>n, <1>p, FileFacts
<1>1. /\ pc = "idle" /\ start' = prev /\ end' = head /\ loaded' = head
      /\ UNCHANGED <<data, head, khead, paused, records, out>>
      /\ \/ /\ prev = head \/ U64(head - prev) > RingSize
            /\ prev' = IF prev = head THEN prev ELSE head
            /\ IF prev = head THEN UNCHANGED tail ELSE perf_mmap__consume(FALSE)
            /\ pc' = "idle"
         \/ /\ prev # head
            /\ pc' = IF Index(prev) + U64(head - prev) # Index(head) THEN "first" ELSE "second"
            /\ UNCHANGED <<prev, tail>>
  BY <1>0 DEF FindRange
<1>2. /\ prev = U64(P) /\ P = off[c + 1] /\ ~paused
  BY <1>0, <1>1, <1>p DEF CopierInv
<1>h. PICK h \in c .. n : head = U64(off[h + 1])
  BY <1>0, <1>n DEF CopierInv
<1>e. PICK E : E = off[h + 1]
  OBVIOUS
<1>3. E \in Nat /\ E - P \in 0 .. RingSize - 1 /\ P <= E
  BY <1>0, <1>2, <1>e, <1>n, Between
<1>4. U64(head - prev) = E - P
  BY <1>0, <1>2, <1>3, <1>e, <1>h, Distance
<1>5. ~(U64(head - prev) > RingSize)
  BY <1>0, <1>3, <1>4
<1>6. Index(prev) = Index(P) /\ Index(head) = Index(E) /\ Index(P) \in 0 .. RingSize - 1
      /\ Index(E) \in 0 .. RingSize - 1
  <2>1. Index(U64(P)) = Index(P) /\ Index(U64(E)) = Index(E)
    BY <1>0, <1>3, IndexOf, Zenon
  <2>2. Index(P) \in 0 .. RingSize - 1 /\ Index(E) \in 0 .. RingSize - 1
    BY <1>0, <1>3, IndexOf, Zenon
  <2> QED
    BY <1>2, <1>e, <1>h, <2>1, <2>2, Zenon
<1>7. UNCHANGED <<prev, tail>> /\ pc' \in {"idle", "first", "second"}
  BY <1>1, <1>5
<1>8. /\ pc' = "first" => Index(P) + (E - P) >= RingSize
      /\ pc' = "second" => Index(P) + (E - P) < RingSize
  <2>1. Index(P) + (E - P) < RingSize => Index(E) = Index(P) + (E - P)
    <3>1. E - P \in Nat /\ P + (E - P) = E
      BY <1>0, <1>3
    <3>2. Index(P) + (E - P) < RingSize => Index(P + (E - P)) = Index(P) + (E - P)
      BY <1>0, <3>1, IndexOfSum, Zenon
    <3> QED
      BY <3>1, <3>2
  <2>2. pc' = "first" => Index(P) + (E - P) # Index(E)
    BY <1>1, <1>4, <1>6
  <2>3. pc' = "second" => Index(P) + (E - P) = Index(E)
    BY <1>1, <1>4, <1>6
  <2> QED
    BY <1>0, <1>3, <1>6, <2>1, <2>2, <2>3
<1>9. Copying(off, c, h)'
  <2>1. P \in off[c + 1] .. off[h + 1]
    BY <1>0, <1>2, <1>3, <1>e
  <2> QED
    BY <1>1, <1>2, <1>7, <1>8, <1>e, <1>h, <1>p, <2>1 DEF Copying, U64, Index
<1>10. CopierInv(off, c)'
  <2>1. h \in c .. h /\ h \in c .. Len(records')
    BY <1>0, <1>1, <1>n
  <2> QED
    BY <1>1, <1>2, <1>7, <1>9, <1>h, <1>p, <2>1 DEF CopierInv, U64
<1>11. Stored(off, c)' /\ Copied(off)' /\ out' \in Seq(Words)
  BY <1>0, <1>1, <1>7 DEF Stored, OffsetsInv, Copied, Index, U64, Word
<1> QED
  BY <1>10, <1>11 DEF FilePlaced

(* Both writes copy words up to the end of what was found, and no more. *)
LEMMA WriteFile ==
  ASSUME FileReader, NEW off, NEW c, FilePlaced(off, c), WriteFirst \/ WriteSecond
  PROVE  FilePlaced(off, c)'
<1>n. PICK n : n = Len(records)
  OBVIOUS
<1>p. PICK P : P = Len(out)
  OBVIOUS
<1>0. /\ n \in Nat /\ c \in Nat /\ c <= n /\ P \in Nat /\ RingSize \in Nat
      /\ Stored(off, c) /\ out \in Seq(Words) /\ CopierInv(off, c) /\ Copied(off)
      /\ ForwardRing
  BY <1>n, <1>p, FileFacts
<1>1. /\ pc \in {"first", "second"}
      /\ UNCHANGED <<data, head, tail, khead, paused, records, prev, end, loaded>>
  BY DEF WriteFirst, WriteSecond, kernelVars
<1>h. PICK h \in c .. n : head = U64(off[h + 1]) /\ \E e \in c .. h : Copying(off, c, e)
  BY <1>0, <1>1, <1>n DEF CopierInv
<1>e. PICK e \in c .. h : Copying(off, c, e)
  BY <1>h
<1>E. PICK E : E = off[e + 1]
  OBVIOUS
<1>a. e \in c .. n /\ e \in c .. Len(records)
  BY <1>0, <1>n
<1>2. /\ end = U64(E) /\ loaded = end /\ start = U64(P)
      /\ pc = "first" => Index(P) + (E - P) >= RingSize
      /\ pc = "second" => Index(P) + (E - P) < RingSize
  BY <1>e, <1>p, <1>E DEF Copying
<1>3. /\ off[c + 1] \in Nat /\ E \in Nat /\ E - off[c + 1] \in 0 .. RingSize - 1
      /\ E <= off[n + 1] /\ off[n + 1] \in Nat
  BY <1>0, <1>a, <1>n, <1>E, Between
<1>4. off[c + 1] <= P /\ P <= E
  <2>1. P \in off[c + 1] .. E
    BY <1>e, <1>p, <1>E DEF Copying
  <2> QED
    BY <1>0, <1>3, <2>1
<1>5. E - P \in 0 .. RingSize - 1 /\ Index(P) \in 0 .. RingSize - 1 /\ Index(start) = Index(P)
  <2>1. Index(U64(P)) = Index(P) /\ Index(P) \in 0 .. RingSize - 1
    BY <1>0, IndexOf, Zenon
  <2>2. E - P \in 0 .. RingSize - 1
    BY <1>0, <1>3, <1>4
  <2> QED
    BY <1>2, <2>1, <2>2, Zenon
<1>6. U64(end - start) = E - P
  BY <1>0, <1>2, <1>3, <1>5, Distance
<1>7. PICK size \in Nat :
        /\ P + size <= E
        /\ out' = out \o ReadWords(start, size)
        /\ start' = U64(start + size)
        /\ \/ pc = "first" /\ pc' = "second" /\ size = RingSize - Index(P)
           \/ pc = "second" /\ pc' = "finish" /\ size = E - P
  <2>1. CASE WriteFirst
    <3>1. RingSize - Index(P) \in Nat /\ P + (RingSize - Index(P)) <= E
      <4>1. pc = "first"
        BY <2>1 DEF WriteFirst
      <4> QED
        BY <1>0, <1>2, <1>3, <1>5, <4>1, SMTT(30)
    <3> QED
      BY <1>5, <2>1, <3>1 DEF WriteFirst
  <2>2. CASE WriteSecond
    <3>1. E - P \in Nat /\ P + (E - P) <= E
      BY <1>0, <1>3, <1>4
    <3> QED
      BY <1>6, <2>2, <3>1 DEF WriteSecond
  <2> QED
    BY <2>1, <2>2
<1>8. out' \in Seq(Words) /\ Len(out') = P + size /\ Copied(off)'
  <2>1. /\ off[c + 1] <= Len(out) /\ Len(out) + size <= off[Len(records) + 1]
        /\ out' = out \o ReadWords(U64(Len(out)), size)
    BY <1>0, <1>2, <1>3, <1>4, <1>7, <1>n, <1>p, SMTT(30)
  <2> QED
    BY <1>0, <1>1, <1>p, <2>1, WriteCopied
<1>9. start' = U64(P + size)
  BY <1>0, <1>2, <1>7, U64OfSum
<1>10. /\ P + size \in off[c + 1] .. E
       /\ pc' = "second" => Index(P + size) + (E - (P + size)) < RingSize
       /\ pc' = "finish" => P + size = E
  <2>1. P + size \in off[c + 1] .. E
    BY <1>0, <1>3, <1>4, <1>7
  <2>2. ASSUME pc' = "second"
        PROVE  Index(P + size) + (E - (P + size)) < RingSize
    <3>1. size = RingSize - Index(P)
      BY <1>7, <2>2
    <3>2. Index(P + size) = 0
      BY <1>0, <3>1, IndexOfSum
    <3> QED
      BY <1>0, <1>3, <1>5, <1>7, <3>2
  <2>3. pc' = "finish" => P + size = E
    BY <1>0, <1>3, <1>7
  <2> QED
    BY <2>1, <2>2, <2>3
<1>11. Copying(off, c, e)'
  <2>1. pc' \in {"second", "finish"}
    BY <1>7
  <2> QED
    BY <1>1, <1>2, <1>8, <1>9, <1>10, <1>E, <2>1 DEF Copying, U64, Index
<1>12. CopierInv(off, c)'
  <2>1. ~paused /\ prev = U64(off[c + 1]) /\ pc' \in {"second", "finish"}
    BY <1>0, <1>7 DEF CopierInv
  <2>2. h \in c .. Len(records')
    BY <1>1, <1>n
  <2> QED
    BY <1>1, <1>11, <1>h, <2>1, <2>2 DEF CopierInv, U64
<1>13. Stored(off, c)'
  BY <1>0, <1>1 DEF Stored, OffsetsInv, Index, U64, Word
<1> QED
  BY <1>8, <1>12, <1>13 DEF FilePlaced

LEMMA FailFile ==
  ASSUME FileReader, NEW off, NEW c, FilePlaced(off, c), WriteFails
  PROVE  FilePlaced(off, c)'
<1>0. Stored(off, c) /\ out \in Seq(Words) /\ CopierInv(off, c) /\ Copied(off)
  BY FileFacts
<1>1. /\ pc' = "error"
      /\ UNCHANGED <<data, head, tail, khead, paused, records, prev, out>>
  BY DEF WriteFails, kernelVars
<1>2. Stored(off, c)' /\ Copied(off)' /\ out' \in Seq(Words)
  BY <1>0, <1>1 DEF Stored, OffsetsInv, Copied, Index, U64, Word
<1>3. CopierInv(off, c)'
  BY <1>0, <1>1 DEF CopierInv, U64
<1> QED
  BY <1>2, <1>3 DEF FilePlaced

(* What was copied is given back: the head as it was when it was loaded,   *)
(* not what the kernel published meanwhile.                                *)
LEMMA FinishFile ==
  ASSUME FileReader, NEW off, NEW c, FilePlaced(off, c), FinishRead
  PROVE  \E e \in 0 .. Len(records') : FilePlaced(off, e)'
<1>n. PICK n : n = Len(records)
  OBVIOUS
<1>0. /\ n \in Nat /\ c \in Nat /\ c <= n
      /\ Stored(off, c) /\ out \in Seq(Words) /\ CopierInv(off, c) /\ Copied(off)
      /\ ForwardRing /\ Kind = "forward"
  BY <1>n, FileFacts
<1>1. /\ pc = "finish" /\ pc' = "idle" /\ prev' = loaded /\ tail' = loaded
      /\ UNCHANGED <<data, head, khead, paused, records, out>>
  BY <1>0 DEF FinishRead, perf_mmap__consume
<1>h. PICK h \in c .. n : head = U64(off[h + 1]) /\ \E e \in c .. h : Copying(off, c, e)
  BY <1>0, <1>1, <1>n DEF CopierInv
<1>e. PICK e \in c .. h : Copying(off, c, e)
  BY <1>h
<1>2. loaded = U64(off[e + 1]) /\ Len(out) = off[e + 1]
  BY <1>1, <1>e DEF Copying
<1>3. e \in c .. n /\ h \in e .. n /\ e \in 0 .. n /\ e \in c .. Len(records)
  BY <1>0, <1>n
<1>4. Stored(off, e)'
  BY <1>0, <1>1, <1>2, <1>3, GiveBackStored
<1>5. CopierInv(off, e)'
  <2>1. ~paused /\ Len(records') = n
    BY <1>0, <1>1, <1>n DEF CopierInv
  <2> QED
    BY <1>1, <1>2, <1>3, <1>h, <2>1 DEF CopierInv, U64
<1>6. Copied(off)' /\ out' \in Seq(Words)
  BY <1>0, <1>1 DEF Copied, Word
<1>7. FilePlaced(off, e)' /\ e \in 0 .. Len(records')
  BY <1>1, <1>3, <1>4, <1>5, <1>6, <1>n DEF FilePlaced
<1> QED
  BY <1>7

LEMMA NextFile ==
  ASSUME FileReader, FileInv, [Next]_vars
  PROVE  FileInv'
<1>1. PICK off \in [1 .. Len(records) + 1 -> Nat], c \in 0 .. Len(records) : FilePlaced(off, c)
  BY DEF FileInv
<1>2. CASE \E size \in Sizes : Fill(size)
  <2>1. PICK f \in [1 .. Len(records') + 1 -> Nat] : FilePlaced(f, c)'
    BY <1>1, <1>2, FillFile
  <2>2. c \in 0 .. Len(records')
    BY <2>1 DEF FilePlaced, Stored
  <2> QED
    BY <2>1, <2>2 DEF FileInv
<1>3. ASSUME UNCHANGED records, NEW e \in 0 .. Len(records'), FilePlaced(off, e)'
      PROVE  FileInv'
  BY <1>3 DEF FileInv
<1>4. CASE Publish \/ FindRange \/ WriteFirst \/ WriteSecond \/ WriteFails
  <2>1. UNCHANGED records
    BY <1>4 DEF Publish, FindRange, WriteFirst, WriteSecond, WriteFails, kernelVars
  <2>2. c \in 0 .. Len(records')
    BY <2>1
  <2>3. FilePlaced(off, c)'
    BY <1>1, <1>4, PublishFile, FindFile, WriteFile, FailFile
  <2> QED
    BY <1>3, <2>1, <2>2, <2>3
<1>5. CASE FinishRead
  <2>1. UNCHANGED records
    BY <1>5 DEF FinishRead
  <2> QED
    BY <1>1, <1>3, <1>5, <2>1, FinishFile
<1>6. CASE \/ perf_mmap__read_forward \/ perf_mmap__read \/ UseEvent
           \/ Pause \/ perf_mmap__read_catchup \/ perf_mmap__read_backward \/ Resume
  <2>1. /\ pc \in {"idle", "first", "second", "finish", "error"}
        /\ Kind = "forward" /\ Reader = "record"
    BY <1>1 DEF FilePlaced, CopierInv, FileReader, ForwardRing
  <2> QED
    BY <1>6, <2>1 DEF Pause, perf_mmap__read_catchup, perf_mmap__read_backward, Resume,
       perf_mmap__read_forward, perf_mmap__read, UseEvent
<1>7. CASE UNCHANGED vars
  <2>1. UNCHANGED <<data, head, tail, khead, paused, records, prev, pc, start, end, loaded, out>>
    BY <1>7 DEF vars, kernelVars, readerVars
  <2>2. FilePlaced(off, c)'
    BY <1>1, <2>1 DEF FilePlaced, Stored, OffsetsInv, CopierInv, Copying, Copied, Index, Word, U64
  <2>3. c \in 0 .. Len(records')
    BY <2>1
  <2> QED
    BY <1>3, <2>1, <2>2, <2>3
<1> QED
  BY <1>2, <1>4, <1>5, <1>6, <1>7 DEF Next, ReadStep

(* What is to be copied is in the buffer, in one piece or in two. *)
LEMMA InvInside ==
  ASSUME FileReader, FileInv
  PROVE  FileIsPrefix /\ CopyInside
<1>1. PICK off \in [1 .. Len(records) + 1 -> Nat], c \in 0 .. Len(records) : FilePlaced(off, c)
  BY DEF FileInv
<1>2. FileIsPrefix
  BY <1>1 DEF FilePlaced, Stored, CopierInv, FileIsPrefix, FilePrefix
<1>3. CopyInside
  <2> SUFFICES ASSUME pc \in {"first", "second"}
               PROVE  /\ pc = "first" => RingSize - Index(start) <= U64(end - start)
                      /\ pc = "second" => Index(start) + U64(end - start) < RingSize
    BY DEF CopyInside
  <2>p. PICK P : P = Len(out)
    OBVIOUS
  <2>0. /\ P \in Nat /\ RingSize \in Nat /\ c \in Nat /\ Len(records) \in Nat
        /\ Stored(off, c) /\ CopierInv(off, c) /\ ForwardRing
    BY <1>1, <2>p, FileFacts
  <2>1. PICK h \in c .. Len(records) : \E e \in c .. h : Copying(off, c, e)
    BY <2>0 DEF CopierInv
  <2>2. PICK e \in c .. h : Copying(off, c, e)
    BY <2>1
  <2>E. PICK E : E = off[e + 1]
    OBVIOUS
  <2>a. e \in c .. Len(records)
    BY <2>0
  <2>3. off[c + 1] \in Nat /\ E \in Nat /\ E - off[c + 1] \in 0 .. RingSize - 1
    BY <2>0, <2>a, <2>E, Between
  <2>4. /\ end = U64(E) /\ start = U64(P) /\ P \in off[c + 1] .. E
        /\ pc = "first" => Index(P) + (E - P) >= RingSize
        /\ pc = "second" => Index(P) + (E - P) < RingSize
    BY <2>2, <2>p, <2>E DEF Copying
  <2>5. E - P \in 0 .. RingSize - 1
    BY <2>0, <2>3, <2>4
  <2>6. U64(end - start) = E - P
    BY <2>0, <2>3, <2>4, <2>5, Distance
  <2>7. Index(start) = Index(P) /\ Index(P) \in 0 .. RingSize - 1
    BY <2>0, <2>4, IndexOf, PosFacts
  <2> QED
    BY <2>0, <2>3, <2>4, <2>5, <2>6, <2>7
<1> QED
  BY <1>2, <1>3

(* record__mmap_read() of a buffer that is not overwritten: the file holds *)
(* a beginning of the words the kernel wrote, whole records between reads, *)
(* and neither copy runs past the buffer; positions may wrap, the kernel   *)
(* may write meanwhile, and record__write() may fail.                      *)
THEOREM FileReadsIntact == ASSUME FileReader PROVE Spec => [](FileIsPrefix /\ CopyInside)
<1>1. Init => FileInv
  <2> SUFFICES ASSUME Init PROVE FileInv
    OBVIOUS
  <2>1. FilePlaced([i \in 1 .. 1 |-> 0], 0)
    BY InitFile
  <2>2. [i \in 1 .. 1 |-> 0] \in [1 .. Len(records) + 1 -> Nat] /\ 0 \in 0 .. Len(records)
    BY DEF Init
  <2> QED
    BY <2>1, <2>2 DEF FileInv
<1>2. FileInv /\ [Next]_vars => FileInv'
  BY NextFile
<1>3. FileInv => FileIsPrefix /\ CopyInside
  BY InvInside
<1> QED
  BY <1>1, <1>2, <1>3, PTL DEF Spec
=============================================================================
