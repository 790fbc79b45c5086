--------------------------- MODULE ConsoleProofs ----------------------------
(***************************************************************************)
(* Proofs about Console: the handshakes between processes, handler and     *)
(* UART, the reading of ends of file, and that the ring is a Terminal.     *)
(***************************************************************************)
EXTENDS Console, TLAPS

USE ConsoleAssumption

Index == 0..(UIntMod - 1)

-----------------------------------------------------------------------------
(* Sequences.                                                              *)

\* What the sequences of the model are made of, for any entries.
LEMMA SeqElement ==
  ASSUME NEW S, NEW s \in Seq(S), NEW i \in 1..Len(s)
  PROVE  s[i] \in S
OBVIOUS

LEMMA SeqLength ==
  ASSUME NEW S, NEW s \in Seq(S)
  PROVE  Len(s) \in Nat /\ DOMAIN s = 1..Len(s) /\ s \in [1..Len(s) -> S]
OBVIOUS

LEMMA SeqEmpty ==
  ASSUME NEW S
  PROVE  /\ <<>> \in Seq(S) /\ Len(<<>>) = 0
         /\ \A s \in Seq(S) : s # <<>> => Len(s) \in Nat \ {0}
OBVIOUS

LEMMA SeqSame ==
  ASSUME NEW S, NEW s \in Seq(S), NEW t \in Seq(S), Len(s) = Len(t), \A i \in 1..Len(s) : s[i] = t[i]
  PROVE  s = t
<1>1. /\ DOMAIN s = 1..Len(s) /\ s = [i \in DOMAIN s |-> s[i]]
      /\ DOMAIN t = 1..Len(t) /\ t = [i \in DOMAIN t |-> t[i]]
  BY SMT
<1> QED
  BY <1>1, Zenon

LEMMA SeqAppend ==
  ASSUME NEW S, NEW s \in Seq(S), NEW c \in S
  PROVE  /\ Append(s, c) \in Seq(S) /\ Append(s, c) # <<>> /\ Len(Append(s, c)) = Len(s) + 1
         /\ \A i \in 1..Len(s) : Append(s, c)[i] = s[i]
         /\ Append(s, c)[Len(s) + 1] = c
<1>1. Append(s, c) \in Seq(S) /\ Append(s, c) # <<>> /\ Len(Append(s, c)) = Len(s) + 1
  OBVIOUS
<1>2. \A i \in 1..Len(s) : Append(s, c)[i] = s[i]
  OBVIOUS
<1>3. Append(s, c)[Len(s) + 1] = c
  OBVIOUS
<1> QED
  BY <1>1, <1>2, <1>3, Zenon

LEMMA SeqConcat ==
  ASSUME NEW S, NEW s \in Seq(S), NEW t \in Seq(S)
  PROVE  /\ s \o t \in Seq(S) /\ Len(s \o t) = Len(s) + Len(t)
         /\ \A i \in 1..(Len(s) + Len(t)) : (s \o t)[i] = IF i <= Len(s) THEN s[i] ELSE t[i - Len(s)]
OBVIOUS

LEMMA SeqPart ==
  ASSUME NEW S, NEW s, NEW m \in Int, NEW n \in Int, \A i \in m..n : s[i] \in S
  PROVE  /\ SubSeq(s, m, n) \in Seq(S)
         /\ Len(SubSeq(s, m, n)) = IF m <= n THEN n - m + 1 ELSE 0
         /\ \A i \in 1..(n - m + 1) : SubSeq(s, m, n)[i] = s[m + i - 1]
OBVIOUS

LEMMA SeqNoPart ==
  ASSUME NEW S, NEW s \in Seq(S), NEW m \in Int, NEW n \in Int, n < m
  PROVE  SubSeq(s, m, n) = <<>>
<1>1. SubSeq(s, m, n) \in Seq(S) /\ Len(SubSeq(s, m, n)) = 0
  <2>1. \A i \in m..n : s[i] \in S
    OBVIOUS
  <2> QED
    BY <2>1, SeqPart
<1> QED
  BY <1>1, SeqEmpty

LEMMA SeqWhole ==
  ASSUME NEW S, NEW s \in Seq(S)
  PROVE  SubSeq(s, 1, Len(s)) = s
<1> DEFINE t == SubSeq(s, 1, Len(s))
<1>1. t \in Seq(S) /\ Len(t) = Len(s) /\ \A i \in 1..Len(s) : t[i] = s[i]
  <2>1. \A i \in 1..Len(s) : s[i] \in S
    OBVIOUS
  <2>2. Len(s) \in Nat /\ 1 \in Int
    OBVIOUS
  <2>3. t \in Seq(S) /\ Len(t) = (IF 1 <= Len(s) THEN Len(s) - 1 + 1 ELSE 0) /\ \A i \in 1..(Len(s) - 1 + 1) : t[i] = s[1 + i - 1]
    BY <2>1, <2>2, SeqPart
  <2> HIDE DEF t
  <2> QED
    BY <2>2, <2>3
<1> HIDE DEF t
<1>2. t = s
  BY <1>1, SeqSame
<1> QED
  BY <1>2 DEF t

LEMMA SeqTail ==
  ASSUME NEW S, NEW s \in Seq(S), s # <<>>
  PROVE  Head(s) \in S /\ Tail(s) \in Seq(S) /\ Len(Tail(s)) = Len(s) - 1
OBVIOUS

-----------------------------------------------------------------------------
(* uint indices, and the entries of the ring they stand for.               *)

\* A uint in range is itself, and one beyond it wraps around once.
LEMMA ModCases ==
  ASSUME NEW M \in Nat \ {0}, NEW x \in Int
  PROVE  /\ x % M \in 0..M - 1
         /\ 0 <= x /\ x < M => x % M = x
         /\ -M <= x /\ x < 0 => x % M = x + M
         /\ M <= x /\ x < M + M => x % M = x - M
BY SMT

\* A multiple of a size that lies between -size and size is 0.
LEMMA SmallMultiple ==
  ASSUME NEW S \in Nat \ {0}, NEW d \in Int, -S < S * d, S * d < S
  PROVE  S * d = 0
<1>1. ~(d >= 1)
  BY SMT
<1>2. ~(d <= -1)
  BY SMT
<1>3. d = 0
  BY <1>1, <1>2
<1> QED
  BY <1>3

\* Division with remainder.
LEMMA Division ==
  ASSUME NEW S \in Nat \ {0}, NEW x \in Int
  PROVE  x \div S \in Int /\ x = S * (x \div S) + (x % S) /\ x % S \in 0..S - 1
BY SMT

\* Multiples of the divisor do not change the remainder.
LEMMA ModMultiple ==
  ASSUME NEW S \in Nat \ {0}, NEW x \in Int, NEW y \in Int, NEW j \in Int, y = x + S * j
  PROVE  y % S = x % S
<1>1. PICK a \in Int : x = S * a + (x % S)
  BY Division, Zenon
<1>2. PICK b \in Int : y = S * b + (y % S)
  BY Division, Zenon
<1>3. x % S \in 0..S - 1 /\ y % S \in 0..S - 1
  BY Division, Zenon
<1>4. S * (a + j - b) = S * a + S * j - S * b
  BY SMT
<1>5. S * a \in Int /\ S * b \in Int /\ S * j \in Int /\ a + j - b \in Int
  BY SMT
<1>6. ASSUME NEW sa \in Int, NEW sb \in Int, NEW sj \in Int, NEW m \in 0..S - 1, NEW n \in 0..S - 1,
             x = sa + m, y = x + sj, y = sb + n
      PROVE  /\ sa + sj - sb = n - m /\ -S < sa + sj - sb /\ sa + sj - sb < S
             /\ sa + sj - sb = 0 => n = m
  BY <1>6
<1>7. /\ -S < S * a + S * j - S * b /\ S * a + S * j - S * b < S
      /\ S * a + S * j - S * b = 0 => y % S = x % S
  BY <1>1, <1>2, <1>3, <1>5, SMT
<1>8. S * (a + j - b) = 0
  BY <1>4, <1>5, <1>7, SmallMultiple, Zenon
<1> QED
  BY <1>4, <1>7, <1>8, Zenon

\* Going round the range of uint leads to the same entry of the ring.
LEMMA SlotWraps ==
  ASSUME NEW x \in Int
  PROVE  Slot(x + UIntMod) = Slot(x) /\ Slot(x - UIntMod) = Slot(x)
<1>1. PICK k \in Int : UIntMod = INPUT_BUF_SIZE * k
  <2>1. INPUT_BUF_SIZE \in Nat \ {0} /\ UIntMod \in Int
    OBVIOUS
  <2>2. PICK k \in Int : UIntMod = INPUT_BUF_SIZE * k + (UIntMod % INPUT_BUF_SIZE)
    BY <2>1, Division, Zenon
  <2>3. UIntMod = INPUT_BUF_SIZE * k
    BY <2>2
  <2> QED
    BY <2>3
<1>2. /\ -k \in Int /\ INPUT_BUF_SIZE \in Nat \ {0}
      /\ x + UIntMod \in Int /\ x - UIntMod \in Int
      /\ x + UIntMod = x + INPUT_BUF_SIZE * k
      /\ x - UIntMod = x + INPUT_BUF_SIZE * (-k)
  BY <1>1
<1> QED
  BY <1>1, <1>2, ModMultiple, Zenon DEF Slot

\* Entries less than a ring apart are different ones.
LEMMA SlotsApart ==
  ASSUME NEW x \in Int, NEW y \in Int, x < y, y - x < INPUT_BUF_SIZE
  PROVE  Slot(x) # Slot(y)
<1> DEFINE S == INPUT_BUF_SIZE
<1>1. PICK a \in Int : x = S * a + (x % S)
  BY Division, Zenon
<1>2. PICK b \in Int : y = S * b + (y % S)
  BY Division, Zenon
<1> SUFFICES ASSUME x % S = y % S
             PROVE  FALSE
  BY DEF Slot
<1>3. S * (b - a) = y - x
  BY <1>1, <1>2
<1> QED
  BY <1>3, SmallMultiple

-----------------------------------------------------------------------------
(* Distances between uint indices.                                         *)

\* The unsigned difference of two indices.
LEMMA MinusIs ==
  ASSUME NEW a \in Index, NEW b \in Index
  PROVE  /\ Minus(a, b) \in Index
         /\ b <= a => Minus(a, b) = a - b
         /\ a < b => Minus(a, b) = a - b + UIntMod
<1>1. /\ UIntMod \in Nat \ {0} /\ a - b \in Int /\ -UIntMod <= a - b /\ a - b < UIntMod
      /\ b <= a <=> 0 <= a - b
      /\ a < b <=> a - b < 0
  BY DEF Index
<1>2. /\ (a - b) % UIntMod \in 0..(UIntMod - 1)
      /\ 0 <= a - b /\ a - b < UIntMod => (a - b) % UIntMod = a - b
      /\ -UIntMod <= a - b /\ a - b < 0 => (a - b) % UIntMod = a - b + UIntMod
  BY <1>1, ModCases, Zenon
<1> QED
  BY <1>1, <1>2, Zenon DEF Minus, Index

\* The unsigned sum of two indices.
LEMMA PlusIs ==
  ASSUME NEW a \in Index, NEW b \in Index
  PROVE  /\ Plus(a, b) \in Index
         /\ a + b < UIntMod => Plus(a, b) = a + b
         /\ UIntMod <= a + b => Plus(a, b) = a + b - UIntMod
<1>1. UIntMod \in Nat \ {0} /\ a + b \in Int /\ 0 <= a + b /\ a + b < UIntMod + UIntMod
  BY DEF Index
<1>2. \A x \in Int : /\ x % UIntMod \in 0..(UIntMod - 1)
                     /\ 0 <= x /\ x < UIntMod => x % UIntMod = x
                     /\ UIntMod <= x /\ x < UIntMod + UIntMod => x % UIntMod = x - UIntMod
  BY <1>1, ModCases, Zenon
<1>3. /\ (a + b) % UIntMod \in 0..(UIntMod - 1)
      /\ a + b < UIntMod => (a + b) % UIntMod = a + b
  BY <1>1, <1>2, Zenon
<1>4. UIntMod <= a + b => (a + b) % UIntMod = (a + b) - UIntMod
  BY <1>1, <1>2, Zenon
<1>5. (a + b) - UIntMod = a + b - UIntMod
  BY <1>1 DEF Index
<1> QED
  BY <1>3, <1>4, <1>5, Zenon DEF Plus, Index

\* An index that goes forward gets away from what is behind it and nearer to
\* what is ahead.
LEMMA Forward ==
  ASSUME NEW a \in Index, NEW b \in Index, NEW n \in 0..Minus(b, a)
  PROVE  /\ n \in Index /\ Plus(a, n) \in Index
         /\ Minus(Plus(a, n), a) = n
         /\ Minus(b, Plus(a, n)) = Minus(b, a) - n
<1>1. Minus(b, a) \in Index /\ n \in Index
  BY MinusIs DEF Index
<1>2. Plus(a, n) \in Index
  BY <1>1, PlusIs, Zenon
<1>3. CASE a <= b
  <2>1. Minus(b, a) = b - a /\ Plus(a, n) = a + n /\ a <= a + n /\ a + n <= b
    BY <1>1, <1>3, MinusIs, PlusIs DEF Index
  <2> QED
    BY <1>1, <1>2, <2>1, MinusIs DEF Index
<1>4. CASE b < a
  <2>1. Minus(b, a) = b - a + UIntMod
    BY <1>4, MinusIs, Zenon
  <2>2. CASE a + n < UIntMod
    <3>1. Plus(a, n) = a + n /\ a <= a + n /\ b < a + n
      BY <1>1, <1>4, <2>2, PlusIs DEF Index
    <3> QED
      BY <1>1, <1>2, <2>1, <3>1, MinusIs DEF Index
  <2>3. CASE UIntMod <= a + n
    <3>1. Plus(a, n) = a + n - UIntMod /\ a + n - UIntMod < a /\ a + n - UIntMod <= b
      BY <1>1, <1>4, <2>1, <2>3, PlusIs DEF Index
    <3> QED
      BY <1>1, <1>2, <2>1, <3>1, MinusIs DEF Index
  <2> QED
    BY <1>1, <2>2, <2>3 DEF Index
<1> QED
  BY <1>1, <1>2, <1>3, <1>4 DEF Index

\* Going back, likewise.
LEMMA Backward ==
  ASSUME NEW a \in Index, NEW b \in Index, NEW n \in 0..Minus(b, a)
  PROVE  n \in Index /\ Minus(b, n) \in Index /\ Minus(Minus(b, n), a) = Minus(b, a) - n
<1>1. Minus(b, a) \in Index /\ n \in Index
  BY MinusIs DEF Index
<1>2. Minus(b, n) \in Index
  BY <1>1, MinusIs, Zenon
<1>3. CASE a <= b
  <2>1. Minus(b, a) = b - a /\ Minus(b, n) = b - n /\ a <= b - n
    BY <1>1, <1>3, MinusIs DEF Index
  <2> QED
    BY <1>1, <1>2, <2>1, MinusIs DEF Index
<1>4. CASE b < a
  <2>1. Minus(b, a) = b - a + UIntMod
    BY <1>4, MinusIs, Zenon
  <2>2. CASE n <= b
    <3>1. Minus(b, n) = b - n /\ b - n < a
      BY <1>1, <1>4, <2>2, MinusIs DEF Index
    <3> QED
      BY <1>1, <1>2, <2>1, <3>1, MinusIs DEF Index
  <2>3. CASE b < n
    <3>1. Minus(b, n) = b - n + UIntMod /\ a <= b - n + UIntMod
      BY <1>1, <1>4, <2>1, <2>3, MinusIs DEF Index
    <3> QED
      BY <1>1, <1>2, <2>1, <3>1, MinusIs DEF Index
  <2> QED
    BY <1>1, <2>2, <2>3 DEF Index
<1> QED
  BY <1>1, <1>2, <1>3, <1>4 DEF Index

\* One more character.
LEMMA OneMore ==
  ASSUME NEW a \in Index, NEW b \in Index, Minus(b, a) + 1 < UIntMod
  PROVE  Plus(b, 1) \in Index /\ Minus(Plus(b, 1), a) = Minus(b, a) + 1
<1>1. Minus(b, a) \in Index /\ 1 \in Index
  BY MinusIs DEF Index
<1>2. Plus(b, 1) \in Index
  BY <1>1, PlusIs, Zenon
<1>3. CASE b + 1 < UIntMod
  <2>1. Plus(b, 1) = b + 1
    BY <1>1, <1>3, PlusIs, Zenon
  <2>2. /\ a <= Plus(b, 1) => Minus(Plus(b, 1), a) = Plus(b, 1) - a
        /\ Plus(b, 1) < a => Minus(Plus(b, 1), a) = Plus(b, 1) - a + UIntMod
    BY <1>2, MinusIs, Zenon
  <2>3. /\ a <= b => Minus(b, a) = b - a
        /\ b < a => Minus(b, a) = b - a + UIntMod
    BY MinusIs, Zenon
  <2> QED
    BY <1>2, <2>1, <2>2, <2>3 DEF Index
<1>4. CASE UIntMod <= b + 1
  <2>1. Plus(b, 1) = b + 1 - UIntMod /\ b + 1 = UIntMod
    BY <1>1, <1>4, PlusIs DEF Index
  <2> QED
    BY <1>1, <1>2, <2>1, MinusIs DEF Index
<1> QED
  BY <1>1, <1>2, <1>3, <1>4 DEF Index

\* h, m and t follow one another round the ring, within its size.
InRing(h, m, t) == Minus(m, h) + Minus(t, m) <= INPUT_BUF_SIZE

\* The two parts make up the whole.
LEMMA Parts ==
  ASSUME NEW h \in Index, NEW m \in Index, NEW t \in Index, InRing(h, m, t)
  PROVE  /\ Minus(t, h) = Minus(m, h) + Minus(t, m)
         /\ Minus(m, h) \in Nat /\ Minus(t, m) \in Nat
<1>1. Minus(m, h) \in Index /\ Minus(t, m) \in Index /\ Minus(t, h) \in Index
  BY MinusIs, Zenon
<1>2. /\ (h <= m => Minus(m, h) = m - h) /\ (m < h => Minus(m, h) = m - h + UIntMod)
      /\ (m <= t => Minus(t, m) = t - m) /\ (t < m => Minus(t, m) = t - m + UIntMod)
      /\ (h <= t => Minus(t, h) = t - h) /\ (t < h => Minus(t, h) = t - h + UIntMod)
  BY MinusIs, Zenon
<1> QED
  BY <1>1, <1>2 DEF Index, InRing

-----------------------------------------------------------------------------
(* The entries of the ring between two indices.                            *)

LEMMA Sizes ==
  INPUT_BUF_SIZE \in Nat \ {0} /\ UIntMod \in Nat \ {0} /\ INPUT_BUF_SIZE < UIntMod
OBVIOUS

HIDE ConsoleAssumption

Buffers == [0..(INPUT_BUF_SIZE - 1) -> Stored]

\* Segment, of any buffer.
Entries(B, a, b) == [i \in 1..Minus(b, a) |-> B[Slot(a + i - 1)]]

\* An index stands for an entry.
LEMMA SlotIn ==
  ASSUME NEW x \in Int
  PROVE  Slot(x) \in 0..(INPUT_BUF_SIZE - 1)
<1>1. INPUT_BUF_SIZE \in Nat \ {0}
  BY Sizes
<1> QED
  BY <1>1, ModCases, Zenon DEF Slot

\* An entry counted from another index.
LEMMA SlotFrom ==
  ASSUME NEW a \in Index, NEW b \in Index, NEW k \in Int
  PROVE  Slot(b + k) = Slot(a + Minus(b, a) + k)
<1>1. Minus(b, a) \in Index
  BY MinusIs, Zenon
<1>2. CASE a <= b
  <2>1. a + Minus(b, a) + k = b + k
    BY <1>1, <1>2, MinusIs DEF Index
  <2> QED
    BY <2>1, Zenon
<1>3. CASE b < a
  <2>1. a + Minus(b, a) + k = (b + k) + UIntMod /\ b + k \in Int
    BY <1>1, <1>3, MinusIs, Sizes DEF Index
  <2> QED
    BY <2>1, SlotWraps, Zenon
<1> QED
  BY <1>2, <1>3 DEF Index

\* The entry k before an index.
LEMMA SlotBefore ==
  ASSUME NEW b \in Index, NEW k \in Index
  PROVE  Slot(Minus(b, k)) = Slot(b - k)
<1>1. CASE k <= b
  <2>1. Minus(b, k) = b - k
    BY <1>1, MinusIs, Zenon
  <2> QED
    BY <2>1, Zenon
<1>2. CASE b < k
  <2>1. Minus(b, k) = (b - k) + UIntMod /\ b - k \in Int
    BY <1>2, MinusIs DEF Index
  <2> QED
    BY <2>1, SlotWraps, Zenon
<1> QED
  BY <1>1, <1>2 DEF Index

\* Within the size of the ring, different places are different entries.
LEMMA SlotsDiffer ==
  ASSUME NEW x \in Int, NEW i \in Int, NEW j \in Int, 0 <= i, i < INPUT_BUF_SIZE,
         0 <= j, j < INPUT_BUF_SIZE, Slot(x + i) = Slot(x + j)
  PROVE  i = j
<1>1. CASE i < j
  <2>1. x + i \in Int /\ x + j \in Int /\ x + i < x + j /\ (x + j) - (x + i) < INPUT_BUF_SIZE
    BY <1>1, Sizes
  <2> QED
    BY <2>1, SlotsApart, Zenon
<1>2. CASE j < i
  <2>1. x + i \in Int /\ x + j \in Int /\ x + j < x + i /\ (x + i) - (x + j) < INPUT_BUF_SIZE
    BY <1>2, Sizes
  <2> QED
    BY <2>1, SlotsApart, Zenon
<1> QED
  BY <1>1, <1>2

\* The entries are a sequence of stored characters.
LEMMA EntriesAre ==
  ASSUME NEW B \in Buffers, NEW a \in Index, NEW b \in Index
  PROVE  /\ Entries(B, a, b) \in Seq(Stored)
         /\ Len(Entries(B, a, b)) = Minus(b, a)
         /\ \A i \in 1..Minus(b, a) : Entries(B, a, b)[i] = B[Slot(a + i - 1)]
         /\ Minus(b, a) \in Nat
<1>1. Minus(b, a) \in Nat
  BY MinusIs DEF Index
<1>2. \A i \in 1..Minus(b, a) : a + i - 1 \in Int
  BY <1>1 DEF Index
<1>3. \A i \in 1..Minus(b, a) : B[Slot(a + i - 1)] \in Stored
  BY <1>2, SlotIn, Zenon DEF Buffers
<1> DEFINE n == Minus(b, a)
<1> HIDE DEF n
<1>4. ASSUME n \in Nat, \A i \in 1..n : B[Slot(a + i - 1)] \in Stored
      PROVE  /\ [i \in 1..n |-> B[Slot(a + i - 1)]] \in Seq(Stored)
             /\ Len([i \in 1..n |-> B[Slot(a + i - 1)]]) = n
  BY <1>4
<1>5. Entries(B, a, b) = [i \in 1..n |-> B[Slot(a + i - 1)]] /\ n = Minus(b, a)
  BY Zenon DEF Entries, n
<1>6. Entries(B, a, b) \in Seq(Stored) /\ Len(Entries(B, a, b)) = Minus(b, a)
  BY <1>1, <1>3, <1>4, <1>5, Zenon
<1>7. \A i \in 1..Minus(b, a) : Entries(B, a, b)[i] = B[Slot(a + i - 1)]
  BY Zenon DEF Entries
<1> QED
  BY <1>1, <1>6, <1>7, Zenon

\* Buffers that agree on the entries give the same sequence, also when it is
\* counted from another index.
LEMMA EntriesSame ==
  ASSUME NEW B \in Buffers, NEW C \in Buffers, NEW a \in Index, NEW b \in Index,
         \A i \in 1..Minus(b, a) : C[Slot(a + i - 1)] = B[Slot(a + i - 1)]
  PROVE  Entries(C, a, b) = Entries(B, a, b)
BY Zenon DEF Entries

\* Two buffers agree but for the n entries from an index, or before one, on.
SameButFrom(B, C, a, n) ==
  \A x \in 0..(INPUT_BUF_SIZE - 1) : (\A k \in 1..n : x # Slot(a + k - 1)) => C[x] = B[x]
SameButBefore(B, C, b, n) ==
  \A x \in 0..(INPUT_BUF_SIZE - 1) : (\A k \in 1..n : x # Slot(Minus(b, k))) => C[x] = B[x]

\* Reading n entries and resetting them.
Reading(B, C, h, m, t, n) ==
  /\ B \in Buffers /\ C \in Buffers /\ h \in Index /\ m \in Index /\ t \in Index
  /\ InRing(h, m, t) /\ n \in 0..Minus(m, h) /\ SameButFrom(B, C, h, n)

LEMMA EntriesRead ==
  ASSUME NEW B, NEW C, NEW h, NEW m, NEW t, NEW n, Reading(B, C, h, m, t, n)
  PROVE  /\ Plus(h, n) \in Index /\ InRing(Plus(h, n), m, t)
         /\ Entries(C, m, t) = Entries(B, m, t)
         /\ Entries(C, Plus(h, n), m) = SubSeq(Entries(B, h, m), n + 1, Minus(m, h))
<1> USE DEF Reading
<1>1. /\ Minus(t, h) = Minus(m, h) + Minus(t, m)
      /\ Minus(m, h) \in Nat /\ Minus(t, m) \in Nat /\ n \in Nat /\ n <= Minus(m, h)
      /\ Minus(m, h) + Minus(t, m) <= INPUT_BUF_SIZE
  BY Parts DEF InRing
<1>2. /\ Plus(h, n) \in Index /\ Minus(m, Plus(h, n)) = Minus(m, h) - n
      /\ Minus(Plus(h, n), h) = n
  BY Forward
<1>3. InRing(Plus(h, n), m, t)
  BY <1>1, <1>2, Sizes DEF InRing
\* Entries from n on are kept.
<1>4. ASSUME NEW j \in Int, n <= j, j < Minus(m, h) + Minus(t, m)
      PROVE  C[Slot(h + j)] = B[Slot(h + j)]
  <2>1. h + j \in Int /\ h \in Int /\ 0 <= j /\ j < INPUT_BUF_SIZE
    BY <1>1, <1>4, Sizes DEF Index
  <2>2. ASSUME NEW k \in 1..n, Slot(h + j) = Slot(h + k - 1)
        PROVE  FALSE
    <3>1. /\ k - 1 \in Int /\ 0 <= k - 1 /\ k - 1 < INPUT_BUF_SIZE /\ j # k - 1
          /\ h + k - 1 = h + (k - 1)
      BY <1>1, <1>4, <2>1, Sizes
    <3> QED
      BY <2>1, <2>2, <3>1, SlotsDiffer, Zenon
  <2> QED
    BY <2>1, <2>2, SlotIn, Zenon DEF SameButFrom
<1>5. ASSUME NEW i \in 1..Minus(t, m)
      PROVE  C[Slot(m + i - 1)] = B[Slot(m + i - 1)]
  <2>1. /\ i - 1 \in Int /\ m + i - 1 = m + (i - 1) /\ Minus(m, h) + (i - 1) \in Int
        /\ n <= Minus(m, h) + (i - 1) /\ Minus(m, h) + (i - 1) < Minus(m, h) + Minus(t, m)
        /\ h + Minus(m, h) + (i - 1) = h + (Minus(m, h) + (i - 1))
    BY <1>1 DEF Index
  <2>2. Slot(m + i - 1) = Slot(h + (Minus(m, h) + (i - 1)))
    <3>1. Slot(m + (i - 1)) = Slot(h + Minus(m, h) + (i - 1))
      BY <2>1, SlotFrom, Zenon
    <3> QED
      BY <2>1, <3>1, Zenon
  <2> QED
    BY <1>4, <2>1, <2>2, Zenon
<1>6. Entries(C, m, t) = Entries(B, m, t)
  BY <1>5, EntriesSame, Zenon
<1> DEFINE u == Entries(C, Plus(h, n), m)
           v == Entries(B, h, m)
           s == SubSeq(v, n + 1, Minus(m, h))
<1>7. /\ v \in Seq(Stored) /\ Len(v) = Minus(m, h)
      /\ \A i \in 1..Minus(m, h) : v[i] = B[Slot(h + i - 1)] /\ v[i] \in Stored
  <2>1. v \in Seq(Stored) /\ Len(v) = Minus(m, h) /\ \A i \in 1..Minus(m, h) : v[i] = B[Slot(h + i - 1)]
    BY EntriesAre, Zenon
  <2> QED
    BY <2>1, SeqElement, Zenon
<1>8. /\ u \in Seq(Stored) /\ Len(u) = Minus(m, h) - n
      /\ \A i \in 1..(Minus(m, h) - n) : u[i] = C[Slot(Plus(h, n) + i - 1)]
  <2>1. /\ u \in Seq(Stored) /\ Len(u) = Minus(m, Plus(h, n))
        /\ \A i \in 1..Minus(m, Plus(h, n)) : u[i] = C[Slot(Plus(h, n) + i - 1)]
    BY <1>2, EntriesAre, Zenon
  <2> QED
    BY <1>2, <2>1, Zenon
<1>9. /\ s \in Seq(Stored) /\ Len(s) = Minus(m, h) - n
      /\ \A i \in 1..(Minus(m, h) - n) : s[i] = v[n + i]
  <2>1. n + 1 \in Int /\ Minus(m, h) \in Int /\ \A i \in (n + 1)..Minus(m, h) : i \in 1..Minus(m, h)
    BY <1>1
  <2>2. \A i \in (n + 1)..Minus(m, h) : v[i] \in Stored
    BY <1>7, <2>1, Zenon
  <2>3. /\ s \in Seq(Stored)
        /\ Len(s) = IF n + 1 <= Minus(m, h) THEN Minus(m, h) - (n + 1) + 1 ELSE 0
        /\ \A i \in 1..(Minus(m, h) - (n + 1) + 1) : s[i] = v[n + 1 + i - 1]
    BY <2>1, <2>2, SeqPart
  <2> HIDE DEF s, v
  <2>4. Len(s) = Minus(m, h) - n
    BY <1>1, <2>3
  <2>5. ASSUME NEW i \in 1..(Minus(m, h) - n)
        PROVE  s[i] = v[n + i]
    <3>1. i \in 1..(Minus(m, h) - (n + 1) + 1) /\ n + 1 + i - 1 = n + i
      BY <1>1
    <3> QED
      BY <2>3, <3>1, Zenon
  <2> QED
    BY <2>3, <2>4, <2>5, Zenon
<1>10. ASSUME NEW i \in 1..(Minus(m, h) - n)
       PROVE  u[i] = s[i]
  <2>1. /\ i - 1 \in Int /\ Plus(h, n) + i - 1 = Plus(h, n) + (i - 1)
        /\ h + n + (i - 1) = h + (n + (i - 1)) /\ n + (i - 1) \in Int /\ n <= n + (i - 1)
        /\ n + (i - 1) < Minus(m, h) + Minus(t, m) /\ n + i \in 1..Minus(m, h)
        /\ h + (n + i) - 1 = h + (n + (i - 1))
    BY <1>1, <1>2 DEF Index
  <2>2. Slot(Plus(h, n) + i - 1) = Slot(h + (n + (i - 1)))
    <3>1. Slot(Plus(h, n) + (i - 1)) = Slot(h + Minus(Plus(h, n), h) + (i - 1))
      BY <1>2, <2>1, SlotFrom, Zenon
    <3> QED
      BY <1>2, <2>1, <3>1, Zenon
  <2>3. C[Slot(h + (n + (i - 1)))] = B[Slot(h + (n + (i - 1)))]
    BY <1>4, <2>1, Zenon
  <2>4. v[n + i] = B[Slot(h + (n + (i - 1)))]
    BY <1>7, <2>1, Zenon
  <2> QED
    BY <1>8, <1>9, <2>2, <2>3, <2>4, Zenon
<1> HIDE DEF u, s
<1>11. u = s
  BY <1>8, <1>9, <1>10, SeqSame, Zenon
<1> QED
  BY <1>2, <1>3, <1>6, <1>11, Zenon DEF u, s

\* Taking back the last n entries and resetting them.
Erasing(B, C, h, m, t, n) ==
  /\ B \in Buffers /\ C \in Buffers /\ h \in Index /\ m \in Index /\ t \in Index
  /\ InRing(h, m, t) /\ n \in 0..Minus(t, m) /\ SameButBefore(B, C, t, n)

LEMMA EntriesErased ==
  ASSUME NEW B, NEW C, NEW h, NEW m, NEW t, NEW n, Erasing(B, C, h, m, t, n)
  PROVE  /\ Minus(t, n) \in Index /\ InRing(h, m, Minus(t, n))
         /\ Entries(C, h, m) = Entries(B, h, m)
         /\ Entries(C, m, Minus(t, n)) = SubSeq(Entries(B, m, t), 1, Minus(t, m) - n)
<1> USE DEF Erasing
<1>1. /\ Minus(t, h) = Minus(m, h) + Minus(t, m)
      /\ Minus(m, h) \in Nat /\ Minus(t, m) \in Nat /\ n \in Nat /\ n <= Minus(t, m)
      /\ Minus(m, h) + Minus(t, m) <= INPUT_BUF_SIZE
  BY Parts DEF InRing
<1>2. Minus(t, n) \in Index /\ Minus(Minus(t, n), m) = Minus(t, m) - n
  BY Backward, Zenon
<1>3. InRing(h, m, Minus(t, n))
  BY <1>1, <1>2, Sizes DEF InRing
\* Entries before the last n are kept.
<1>4. ASSUME NEW j \in Int, 0 <= j, j < Minus(t, h) - n
      PROVE  C[Slot(h + j)] = B[Slot(h + j)]
  <2>1. h + j \in Int /\ h \in Int /\ j < INPUT_BUF_SIZE
    BY <1>1, <1>4, Sizes DEF Index
  <2>2. ASSUME NEW k \in 1..n, Slot(h + j) = Slot(Minus(t, k))
        PROVE  FALSE
    <3>1. /\ k \in Index /\ -k \in Int /\ t - k = t + (-k)
          /\ Minus(t, h) - k \in Int /\ 0 <= Minus(t, h) - k /\ Minus(t, h) - k < INPUT_BUF_SIZE
          /\ h + Minus(t, h) + (-k) = h + (Minus(t, h) - k) /\ j # Minus(t, h) - k
      BY <1>1, <1>4, <2>1, Sizes DEF Index
    <3>2. Slot(Minus(t, k)) = Slot(h + (Minus(t, h) - k))
      <4>1. Slot(Minus(t, k)) = Slot(t - k)
        BY <3>1, SlotBefore, Zenon
      <4>2. Slot(t + (-k)) = Slot(h + Minus(t, h) + (-k))
        BY <3>1, SlotFrom, Zenon
      <4> QED
        BY <3>1, <4>1, <4>2, Zenon
    <3> QED
      BY <1>4, <2>1, <2>2, <3>1, <3>2, SlotsDiffer, Zenon
  <2> QED
    BY <2>1, <2>2, SlotIn, Zenon DEF SameButBefore
<1>5. ASSUME NEW i \in 1..Minus(m, h)
      PROVE  C[Slot(h + i - 1)] = B[Slot(h + i - 1)]
  <2>1. i - 1 \in Int /\ h + i - 1 = h + (i - 1) /\ 0 <= i - 1 /\ i - 1 < Minus(t, h) - n
    BY <1>1 DEF Index
  <2> QED
    BY <1>4, <2>1, Zenon
<1>6. Entries(C, h, m) = Entries(B, h, m)
  BY <1>5, EntriesSame, Zenon
<1> DEFINE u == Entries(C, m, Minus(t, n))
           v == Entries(B, m, t)
           s == SubSeq(v, 1, Minus(t, m) - n)
<1>7. /\ v \in Seq(Stored) /\ Len(v) = Minus(t, m)
      /\ \A i \in 1..Minus(t, m) : v[i] = B[Slot(m + i - 1)] /\ v[i] \in Stored
  <2>1. v \in Seq(Stored) /\ Len(v) = Minus(t, m) /\ \A i \in 1..Minus(t, m) : v[i] = B[Slot(m + i - 1)]
    BY EntriesAre, Zenon
  <2> QED
    BY <2>1, SeqElement, Zenon
<1>8. /\ u \in Seq(Stored) /\ Len(u) = Minus(t, m) - n
      /\ \A i \in 1..(Minus(t, m) - n) : u[i] = C[Slot(m + i - 1)]
  <2>1. /\ u \in Seq(Stored) /\ Len(u) = Minus(Minus(t, n), m)
        /\ \A i \in 1..Minus(Minus(t, n), m) : u[i] = C[Slot(m + i - 1)]
    BY <1>2, EntriesAre, Zenon
  <2> QED
    BY <1>2, <2>1, Zenon
<1>9. /\ s \in Seq(Stored) /\ Len(s) = Minus(t, m) - n
      /\ \A i \in 1..(Minus(t, m) - n) : s[i] = v[i]
  <2>1. 1 \in Int /\ Minus(t, m) - n \in Int /\ \A i \in 1..(Minus(t, m) - n) : i \in 1..Minus(t, m)
    BY <1>1
  <2>2. \A i \in 1..(Minus(t, m) - n) : v[i] \in Stored
    BY <1>7, <2>1, Zenon
  <2>3. /\ s \in Seq(Stored)
        /\ Len(s) = IF 1 <= Minus(t, m) - n THEN Minus(t, m) - n - 1 + 1 ELSE 0
        /\ \A i \in 1..(Minus(t, m) - n - 1 + 1) : s[i] = v[1 + i - 1]
    BY <2>1, <2>2, SeqPart
  <2> HIDE DEF s, v
  <2>4. Len(s) = Minus(t, m) - n
    BY <1>1, <2>3
  <2>5. ASSUME NEW i \in 1..(Minus(t, m) - n)
        PROVE  s[i] = v[i]
    <3>1. i \in 1..(Minus(t, m) - n - 1 + 1) /\ 1 + i - 1 = i
      BY <1>1
    <3> QED
      BY <2>3, <3>1, Zenon
  <2> QED
    BY <2>3, <2>4, <2>5, Zenon
<1>10. ASSUME NEW i \in 1..(Minus(t, m) - n)
       PROVE  u[i] = s[i]
  <2>1. /\ i - 1 \in Int /\ m + i - 1 = m + (i - 1) /\ Minus(m, h) + (i - 1) \in Int
        /\ 0 <= Minus(m, h) + (i - 1) /\ Minus(m, h) + (i - 1) < Minus(t, h) - n
        /\ h + Minus(m, h) + (i - 1) = h + (Minus(m, h) + (i - 1)) /\ i \in 1..Minus(t, m)
    BY <1>1 DEF Index
  <2>2. Slot(m + i - 1) = Slot(h + (Minus(m, h) + (i - 1)))
    <3>1. Slot(m + (i - 1)) = Slot(h + Minus(m, h) + (i - 1))
      BY <2>1, SlotFrom, Zenon
    <3> QED
      BY <2>1, <3>1, Zenon
  <2>3. C[Slot(m + i - 1)] = B[Slot(m + i - 1)]
    BY <1>4, <2>1, <2>2, Zenon
  <2> QED
    BY <1>7, <1>8, <1>9, <2>1, <2>3, Zenon
<1> HIDE DEF u, s
<1>11. u = s
  BY <1>8, <1>9, <1>10, SeqSame, Zenon
<1> QED
  BY <1>2, <1>3, <1>6, <1>11, Zenon DEF u, s

\* Storing a character, in the line or to hand the line over.
Storing(B, C, h, m, t, u, c) ==
  /\ B \in Buffers /\ h \in Index /\ m \in Index /\ t \in Index
  /\ InRing(h, m, t) /\ Minus(t, h) < INPUT_BUF_SIZE /\ c \in Stored
  /\ C = [B EXCEPT ![Slot(t)] = c] /\ u = Plus(t, 1)

LineWith(B, m, t, c) == Append(Entries(B, m, t), c)
ReadyWith(B, h, m, t, c) == Entries(B, h, m) \o Append(Entries(B, m, t), c)

LEMMA EntriesStored ==
  ASSUME NEW B, NEW C, NEW h, NEW m, NEW t, NEW u, NEW c, Storing(B, C, h, m, t, u, c)
  PROVE  /\ C \in Buffers /\ u \in Index
         /\ InRing(h, m, u) /\ InRing(h, u, u)
         /\ Entries(C, h, m) = Entries(B, h, m)
         /\ Entries(C, m, u) = LineWith(B, m, t, c)
         /\ Entries(C, h, u) = ReadyWith(B, h, m, t, c)
         /\ Entries(C, u, u) = <<>>
<1>0. /\ B \in Buffers /\ h \in Index /\ m \in Index /\ t \in Index
      /\ InRing(h, m, t) /\ Minus(t, h) < INPUT_BUF_SIZE /\ c \in Stored
  BY Zenon DEF Storing
<1> USE <1>0
<1> DEFINE ready == Entries(B, h, m)
           line == Entries(B, m, t)
           more == Append(line, c)
           L == Minus(m, h)
           K == Minus(t, m)
<1>1. L \in Nat /\ K \in Nat /\ Minus(t, h) = L + K /\ L + K < INPUT_BUF_SIZE
  BY Parts, Zenon
<1>2. u \in Index /\ Minus(u, h) = L + K + 1 /\ Minus(u, m) = K + 1 /\ Minus(u, u) = 0
  <2>1. Minus(t, h) + 1 < UIntMod /\ Minus(t, m) + 1 < UIntMod
    BY <1>1, Sizes
  <2>2. u \in Index /\ Minus(u, h) = Minus(t, h) + 1 /\ Minus(u, m) = Minus(t, m) + 1
    <3>1. /\ Plus(t, 1) \in Index
          /\ Minus(Plus(t, 1), h) = Minus(t, h) + 1 /\ Minus(Plus(t, 1), m) = Minus(t, m) + 1
      BY <2>1, OneMore, Zenon
    <3> QED
      BY <3>1, Zenon DEF Storing
  <2>3. ASSUME NEW x \in Index
        PROVE  Minus(x, x) = 0
    BY MinusIs DEF Index
  <2> QED
    BY <1>1, <2>2, <2>3, Zenon
<1>3. Slot(t) \in 0..(INPUT_BUF_SIZE - 1) /\ Slot(t) = Slot(h + (L + K))
  <2>1. t \in Int /\ t + 0 = t /\ h + Minus(t, h) + 0 = h + (L + K) /\ 0 \in Int
    BY <1>1 DEF Index
  <2>2. Slot(t + 0) = Slot(h + Minus(t, h) + 0)
    BY <2>1, SlotFrom, Zenon
  <2>3. Slot(t) = Slot(h + (L + K))
    BY <2>1, <2>2, Zenon
  <2> QED
    BY <2>1, <2>3, SlotIn, Zenon
<1>4. C \in Buffers /\ C[Slot(t)] = c /\ \A x \in 0..(INPUT_BUF_SIZE - 1) : x # Slot(t) => C[x] = B[x]
  BY <1>3, Zenon DEF Buffers, Storing
<1> HIDE DEF L, K
<1>5. InRing(h, m, u) /\ InRing(h, u, u)
  <2>1. Minus(m, h) = L
    BY Zenon DEF L
  <2> QED
    BY <1>1, <1>2, <2>1, Sizes DEF InRing
\* The entries that are there already are kept.
<1>6. ASSUME NEW j \in Int, 0 <= j, j < L + K
      PROVE  C[Slot(h + j)] = B[Slot(h + j)]
  <2>1. /\ h + j \in Int /\ h \in Int /\ j < INPUT_BUF_SIZE /\ j # L + K
        /\ L + K \in Int /\ 0 <= L + K /\ L + K < INPUT_BUF_SIZE
    BY <1>1, <1>6, Sizes DEF Index
  <2> QED
    BY <1>3, <1>4, <1>6, <2>1, SlotIn, SlotsDiffer, Zenon
<1>7. \A i \in 1..L : C[Slot(h + i - 1)] = B[Slot(h + i - 1)]
  <2>1. \A i \in 1..L : i - 1 \in Int /\ h + i - 1 = h + (i - 1) /\ 0 <= i - 1 /\ i - 1 < L + K
    BY <1>1 DEF Index
  <2> QED
    BY <1>6, <2>1, Zenon
<1>8. Entries(C, h, m) = ready
  BY <1>4, <1>7, EntriesSame, Zenon DEF L
<1>9. /\ ready \in Seq(Stored) /\ Len(ready) = L /\ \A i \in 1..L : ready[i] = B[Slot(h + i - 1)]
      /\ line \in Seq(Stored) /\ Len(line) = K /\ \A i \in 1..K : line[i] = B[Slot(m + i - 1)]
  BY EntriesAre, Zenon DEF L, K
<1> HIDE DEF line, ready
<1>10. /\ more \in Seq(Stored) /\ Len(more) = K + 1 /\ \A i \in 1..K : more[i] = line[i]
       /\ more[K + 1] = c
  <2>1. /\ more \in Seq(Stored) /\ Len(more) = Len(line) + 1
        /\ \A i \in 1..Len(line) : more[i] = line[i]
        /\ more[Len(line) + 1] = c
    BY <1>9, SeqAppend
  <2> QED
    BY <1>9, <2>1, Zenon
<1> HIDE DEF more
\* The entries of the line, counted from the first that is ready.
<1>11. ASSUME NEW i \in 1..(K + 1)
       PROVE  C[Slot(h + (L + (i - 1)))] = more[i] /\ Slot(m + i - 1) = Slot(h + (L + (i - 1)))
  <2>1. /\ i - 1 \in Int /\ m + i - 1 = m + (i - 1) /\ h + L + (i - 1) = h + (L + (i - 1))
        /\ L + (i - 1) \in Int /\ 0 <= L + (i - 1)
    BY <1>1 DEF Index
  <2>2. Slot(m + i - 1) = Slot(h + (L + (i - 1)))
    <3>1. Slot(m + (i - 1)) = Slot(h + L + (i - 1))
      BY <2>1, SlotFrom, Zenon DEF L
    <3> QED
      BY <2>1, <3>1, Zenon
  <2>3. CASE i \in 1..K
    <3>1. L + (i - 1) < L + K
      BY <1>1, <2>3
    <3>2. C[Slot(h + (L + (i - 1)))] = B[Slot(h + (L + (i - 1)))]
      BY <1>6, <2>1, <3>1, Zenon
    <3>3. more[i] = B[Slot(m + i - 1)]
      BY <1>9, <1>10, <2>3, Zenon
    <3> QED
      BY <2>2, <3>2, <3>3, Zenon
  <2>4. CASE i = K + 1
    <3>1. L + (i - 1) = L + K
      BY <1>1, <2>4
    <3> QED
      BY <1>3, <1>4, <1>10, <2>2, <2>4, <3>1, Zenon
  <2>5. i \in 1..K \/ i = K + 1
    BY <1>1
  <2> QED
    BY <2>2, <2>3, <2>4, <2>5, Zenon
<1>12. Entries(C, m, u) = more
  <2>1. /\ Entries(C, m, u) \in Seq(Stored) /\ Len(Entries(C, m, u)) = K + 1
        /\ \A i \in 1..(K + 1) : Entries(C, m, u)[i] = C[Slot(m + i - 1)]
    <3>1. /\ Entries(C, m, u) \in Seq(Stored) /\ Len(Entries(C, m, u)) = Minus(u, m)
          /\ \A i \in 1..Minus(u, m) : Entries(C, m, u)[i] = C[Slot(m + i - 1)]
      BY <1>2, <1>4, EntriesAre, Zenon
    <3> QED
      BY <1>2, <3>1, Zenon
  <2>2. \A i \in 1..(K + 1) : Entries(C, m, u)[i] = more[i]
    <3> SUFFICES ASSUME NEW i \in 1..(K + 1)
                 PROVE  Entries(C, m, u)[i] = more[i]
      BY Zenon
    <3>1. C[Slot(h + (L + (i - 1)))] = more[i] /\ Slot(m + i - 1) = Slot(h + (L + (i - 1)))
      BY <1>11, Zenon
    <3> QED
      BY <2>1, <3>1, Zenon
  <2> QED
    BY <1>10, <2>1, <2>2, SeqSame, Zenon
<1>13. Entries(C, h, u) = ready \o more
  <2>1. /\ Entries(C, h, u) \in Seq(Stored) /\ Len(Entries(C, h, u)) = L + K + 1
        /\ \A i \in 1..(L + K + 1) : Entries(C, h, u)[i] = C[Slot(h + i - 1)]
    <3>1. /\ Entries(C, h, u) \in Seq(Stored) /\ Len(Entries(C, h, u)) = Minus(u, h)
          /\ \A i \in 1..Minus(u, h) : Entries(C, h, u)[i] = C[Slot(h + i - 1)]
      BY <1>2, <1>4, EntriesAre, ZenonT(30)
    <3> QED
      BY <1>2, <3>1, Zenon
  <2>2. /\ ready \o more \in Seq(Stored) /\ Len(ready \o more) = L + (K + 1)
        /\ \A i \in 1..(L + (K + 1)) : (ready \o more)[i] = IF i <= L THEN ready[i] ELSE more[i - L]
    <3>1. /\ ready \o more \in Seq(Stored) /\ Len(ready \o more) = Len(ready) + Len(more)
          /\ \A i \in 1..(Len(ready) + Len(more)) :
               (ready \o more)[i] = IF i <= Len(ready) THEN ready[i] ELSE more[i - Len(ready)]
      BY <1>9, <1>10, SeqConcat, Zenon
    <3> QED
      BY <1>9, <1>10, <3>1, Zenon
  <2>3. L + (K + 1) = L + K + 1
    BY <1>1
  <2>4. ASSUME NEW i \in 1..(L + K + 1)
        PROVE  Entries(C, h, u)[i] = (ready \o more)[i]
    <3>1. CASE i <= L
      <4>1. i \in 1..L
        BY <1>1, <3>1
      <4> QED
        <5>1. Entries(C, h, u)[i] = ready[i]
          BY <1>7, <1>9, <2>1, <4>1, Zenon
        <5>2. (ready \o more)[i] = ready[i]
          BY <2>2, <2>3, <3>1, Zenon
        <5> QED
          BY <5>1, <5>2, Zenon
    <3>2. CASE ~(i <= L)
      <4>1. i - L \in 1..(K + 1) /\ h + i - 1 = h + (L + ((i - L) - 1))
        BY <1>1, <3>2 DEF Index
      <4> QED
        BY <1>11, <2>1, <2>2, <2>3, <3>2, <4>1, Zenon
    <3> QED
      BY <3>1, <3>2, Zenon
  <2> QED
    BY <2>1, <2>2, <2>3, <2>4, SeqSame, Zenon
<1>14. Entries(C, u, u) = <<>>
  <2>1. Entries(C, u, u) \in Seq(Stored) /\ Len(Entries(C, u, u)) = 0
    BY <1>2, <1>4, EntriesAre, Zenon
  <2>2. 0 \notin Nat \ {0}
    OBVIOUS
  <2> QED
    BY <2>1, <2>2, SeqEmpty, Zenon
<1> QED
  BY <1>2, <1>4, <1>5, <1>8, <1>12, <1>13, <1>14, Zenon DEF more, line, ready, LineWith, ReadyWith

-----------------------------------------------------------------------------
(* The inductive invariant.                                                *)

\* The indices are in order, and the line being edited has no end in it, which
\* is why ^U takes all of it back.
RingInv ==
  /\ buf \in Buffers /\ r \in Index /\ w \in Index /\ e \in Index
  /\ InRing(r, w, e)
  /\ \A i \in 1..Minus(e, w) : Segment(w, e)[i] \notin {"LF", EOF}

ReadersInv ==
  /\ rd \in [Readers -> [at : {"idle", "lock", "sleep"}, n : Nat, got : Nat, killed : BOOLEAN]]
  /\ ReaderHasCause

\* In uartwrite() there is something to write.
WritersInv ==
  /\ wr \in [Writers -> [at : {"idle", "batch", "put", "sleep"}, n : Nat, i : Nat, put : Nat]]
  /\ \A p \in Writers : wr[p].i <= wr[p].n /\ (wr[p].at \in {"put", "sleep"} => wr[p].i < wr[p].n)

\* The echo waits until the transmitter is empty, and uartwrite() until no
\* character of its own is in it.
UartInv ==
  /\ tx_busy \in BOOLEAN /\ thre \in BOOLEAN
  /\ tx \in {<<>>, <<"user">>, <<"echo">>, <<"echo", "user">>}
  /\ tx \in {<<"user">>, <<"echo", "user">>} => tx_busy

HandlerInv ==
  /\ intr \in [at : {"idle", "tx", "rx", "echo"}, echo : Nat]
  /\ intr.at = "echo" => intr.echo > 0
  /\ rx \in Seq(Keys)

ConsoleInv == RingInv /\ ReadersInv /\ WritersInv /\ UartInv /\ HandlerInv /\ WriterSignalled

\* A step that leaves the variables of a part alone keeps the part's invariant.
LEMMA PartsKept ==
  ASSUME ConsoleInv
  PROVE  /\ UNCHANGED cons => RingInv'
         /\ UNCHANGED <<rd, r, w>> => ReadersInv'
         /\ UNCHANGED wr => WritersInv'
         /\ UNCHANGED <<tx_busy, thre, tx>> => UartInv'
         /\ UNCHANGED <<intr, rx>> => HandlerInv'
         /\ UNCHANGED <<tx_busy, thre, tx, wr, intr>> => WriterSignalled'
<1> USE DEF ConsoleInv
<1>1. UNCHANGED cons => RingInv'
  BY Zenon DEF cons, RingInv, Segment
<1>2. UNCHANGED <<rd, r, w>> => ReadersInv'
  BY Zenon DEF ReadersInv, ReaderHasCause
<1>3. UNCHANGED wr => WritersInv'
  BY Zenon DEF WritersInv
<1>4. UNCHANGED <<tx_busy, thre, tx>> => UartInv'
  BY DEF UartInv
<1>5. UNCHANGED <<intr, rx>> => HandlerInv'
  BY Zenon DEF HandlerInv
<1>6. UNCHANGED <<tx_busy, thre, tx, wr, intr>> => WriterSignalled'
  BY DEF WriterSignalled
<1> QED
  BY <1>1, <1>2, <1>3, <1>4, <1>5, <1>6, Zenon

-----------------------------------------------------------------------------
(* consolewrite() and uartwrite()                                          *)

WriteRecord == [at : {"idle", "batch", "put", "sleep"}, n : Nat, i : Nat, put : Nat]

\* What a writer's record must be.
WriteOK(x) == x \in WriteRecord /\ x.i <= x.n /\ (x.at \in {"put", "sleep"} => x.i < x.n)

\* A step of one writer.
LEMMA WriterMoves ==
  ASSUME ConsoleInv, NEW p \in Writers, NEW x, WriteOK(x), wr' = [wr EXCEPT ![p] = x]
  PROVE  WritersInv'
BY Zenon DEF ConsoleInv, WritersInv, WriteOK, WriteRecord

\* A call of consolewrite(), and the next batch, preserve the invariant.
LEMMA Inv_consolewrite ==
  ASSUME ConsoleInv, NEW p \in Writers, consolewrite(p) \/ \E bad \in BOOLEAN : consolewrite_batch(p, bad)
  PROVE  ConsoleInv'
<1>1. UNCHANGED <<buf, r, w, e, tx_busy, rd, intr, rx, tx, thre>>
  BY Zenon DEF consolewrite, consolewrite_batch, uart, cons
<1>2. WriteOK(wr[p])
  BY Zenon DEF ConsoleInv, WritersInv, WriteOK, WriteRecord
<1>3. \E x : WriteOK(x) /\ x.at # "sleep" /\ wr' = [wr EXCEPT ![p] = x]
  <2>1. CASE consolewrite(p)
    <3>1. PICK n \in WriteSizes : wr' = [wr EXCEPT ![p] = [NoWrite EXCEPT !.at = "batch", !.n = n]]
      BY <2>1, Zenon DEF consolewrite
    <3>2. WriteOK([NoWrite EXCEPT !.at = "batch", !.n = n]) /\ [NoWrite EXCEPT !.at = "batch", !.n = n].at # "sleep"
      <4>1. n \in Nat
        BY ConsoleAssumption
      <4> QED
        <5> DEFINE z == [NoWrite EXCEPT !.at = "batch", !.n = n]
        <5>1. z \in WriteRecord
          BY <4>1, Zenon DEF NoWrite, WriteRecord
        <5>2. z.at = "batch" /\ z.n = n /\ z.i = 0
          BY DEF NoWrite
        <5> HIDE DEF z
        <5>3. WriteOK(z) /\ z.at # "sleep"
          BY <4>1, <5>1, <5>2 DEF WriteOK
        <5> QED
          BY <5>3, Zenon DEF z
    <3> QED
      BY <3>1, <3>2, Zenon
  <2>2. CASE wr[p].at = "batch" /\ wr' = [wr EXCEPT ![p] = NoWrite]
    <3>1. WriteOK(NoWrite) /\ NoWrite.at # "sleep"
      BY DEF NoWrite, WriteOK, WriteRecord
    <3> QED
      BY <2>2, <3>1, Zenon
  <2>3. CASE wr[p].i # wr[p].n /\ wr' = [wr EXCEPT ![p] = [wr[p] EXCEPT !.at = "put"]]
    <3>1. WriteOK([wr[p] EXCEPT !.at = "put"]) /\ [wr[p] EXCEPT !.at = "put"].at # "sleep"
      BY <1>2, <2>3 DEF WriteOK, WriteRecord
    <3> QED
      BY <2>3, <3>1, Zenon
  <2> QED
    BY <2>1, <2>2, <2>3, Zenon DEF consolewrite_batch
<1>4. PICK x : WriteOK(x) /\ x.at # "sleep" /\ wr' = [wr EXCEPT ![p] = x]
  BY <1>3, Zenon
<1>5. WritersInv'
  BY <1>4, WriterMoves, Zenon
<1>6. WriterSignalled'
  BY <1>1, <1>4, Zenon DEF ConsoleInv, WriterSignalled, WritersInv
<1> QED
  BY <1>1, <1>5, <1>6, PartsKept, Zenon DEF ConsoleInv, cons

\* Going to sleep on tx_chan preserves the invariant.
LEMMA Inv_uartwrite_sleep ==
  ASSUME ConsoleInv, NEW p \in Writers, uartwrite_sleep(p)
  PROVE  ConsoleInv'
<1>1. UNCHANGED <<buf, r, w, e, tx_busy, rd, intr, rx, tx, thre>> /\ tx_busy /\ wr[p].at = "put"
  BY Zenon DEF uartwrite_sleep, uart, cons
<1>2. WriteOK(wr[p])
  BY Zenon DEF ConsoleInv, WritersInv, WriteOK, WriteRecord
<1>3. WriteOK([wr[p] EXCEPT !.at = "sleep"])
  BY <1>1, <1>2 DEF WriteOK, WriteRecord
<1>4. wr' = [wr EXCEPT ![p] = [wr[p] EXCEPT !.at = "sleep"]]
  BY Zenon DEF uartwrite_sleep
<1>5. WritersInv'
  BY <1>3, <1>4, WriterMoves, Zenon
<1>6. WriterSignalled'
  BY <1>1, Zenon DEF ConsoleInv, WriterSignalled
<1> QED
  BY <1>1, <1>5, <1>6, PartsKept, Zenon DEF ConsoleInv, cons

\* The size of a batch.
LEMMA BatchIs ==
  ASSUME NEW p \in Writers, WriteOK(wr[p]), wr[p].at = "put"
  PROVE  Batch(p) \in Nat /\ Batch(p) <= wr[p].n - wr[p].i
<1> DEFINE d == wr[p].n - wr[p].i
<1>1. BATCH \in Nat /\ d \in Nat
  BY ConsoleAssumption DEF WriteOK, WriteRecord
<1> HIDE DEF d
<1>2. \E x \in {BATCH, d} : \A y \in {BATCH, d} : x <= y
  BY <1>1
<1>3. Min({BATCH, d}) \in {BATCH, d} /\ \A y \in {BATCH, d} : Min({BATCH, d}) <= y
  BY <1>2, Zenon DEF Min
<1> QED
  BY <1>1, <1>3, Zenon DEF Batch, d

\* Append leaves the entries that are there alone.
LEMMA AppendKeeps ==
  ASSUME NEW S, NEW s \in Seq(S), NEW x \in S, NEW i \in 1..Len(s)
  PROVE  Append(s, x)[i] = s[i]
BY SMT

\* A character of uartwrite() after one that is echoed.
LEMMA UserAfterEcho == Append(<<"echo">>, "user") = <<"echo", "user">>
<1> DEFINE S == {"echo", "user"}
           v == <<"echo">>
           t == <<"echo", "user">>
           a == Append(v, "user")
<1>1. v \in Seq(S) /\ Len(v) = 1 /\ v[1] = "echo"
  OBVIOUS
<1>2. t \in Seq(S) /\ Len(t) = 2 /\ t[1] = "echo" /\ t[2] = "user"
  OBVIOUS
<1>3. "user" \in S
  BY Zenon
<1>4. 1 + 1 = 2 /\ 1 \in 1..1 /\ \A i \in 1..2 : i = 1 \/ i = 2
  OBVIOUS
<1> HIDE DEF S, v, t
<1>5. a \in Seq(S)
  BY <1>1, <1>3, SeqAppend, Zenon
<1>6. Len(a) = Len(v) + 1
  BY <1>1, <1>3, SeqAppend, Zenon
<1>7. a[Len(v) + 1] = "user"
  BY <1>1, <1>3, SeqAppend, ZenonT(30)
<1>8. a[1] = v[1]
  <2>1. 1 \in 1..Len(v)
    BY <1>1, <1>4, Zenon
  <2> QED
    BY <1>1, <1>3, <2>1, AppendKeeps, Zenon
<1> HIDE DEF a
<1>9. Len(a) = 2 /\ a[1] = "echo" /\ a[2] = "user"
  BY <1>1, <1>4, <1>6, <1>7, <1>8, Zenon
<1>10. \A i \in 1..2 : a[i] = t[i]
  BY <1>2, <1>4, <1>9, Zenon
<1>11. a = t
  BY <1>2, <1>5, <1>9, <1>10, SeqSame, Zenon
<1> QED
  BY <1>11, Zenon DEF a, t, v

\* Sending a character preserves the invariant.
LEMMA Inv_uartwrite ==
  ASSUME ConsoleInv, NEW p \in Writers, uartwrite(p)
  PROVE  ConsoleInv'
<1>1. /\ UNCHANGED <<buf, r, w, e, rd, intr, rx>> /\ wr[p].at = "put" /\ ~tx_busy /\ tx_busy' = TRUE
      /\ tx' = Append(tx, "user") /\ thre' = FALSE
  BY Zenon DEF uartwrite, cons, Thr
<1>2. WriteOK(wr[p])
  BY Zenon DEF ConsoleInv, WritersInv, WriteOK, WriteRecord
<1>3. Batch(p) \in Nat /\ Batch(p) <= wr[p].n - wr[p].i
  BY <1>1, <1>2, BatchIs, Zenon
<1>4. WritersInv'
  <2>1. CASE wr' = [wr EXCEPT ![p] = [wr[p] EXCEPT !.at = "batch", !.i = wr[p].i + Batch(p), !.put = 0]]
    <3>1. WriteOK([wr[p] EXCEPT !.at = "batch", !.i = wr[p].i + Batch(p), !.put = 0])
      <4>1. ASSUME NEW x, WriteOK(x), NEW b \in Nat, b <= x.n - x.i
            PROVE  WriteOK([x EXCEPT !.at = "batch", !.i = x.i + b, !.put = 0])
        <5> DEFINE i == x.i + b
        <5>1. x \in WriteRecord /\ i \in Nat /\ i <= x.n
          BY <4>1 DEF WriteOK, WriteRecord
        <5> HIDE DEF i
        <5>2. WriteOK([x EXCEPT !.at = "batch", !.i = i, !.put = 0])
          BY <5>1, Zenon DEF WriteOK, WriteRecord
        <5> QED
          BY <5>2, Zenon DEF i
      <4> QED
        BY <1>2, <1>3, <4>1, Zenon
    <3> QED
      BY <2>1, <3>1, WriterMoves, Zenon
  <2>2. CASE wr' = [wr EXCEPT ![p] = [wr[p] EXCEPT !.at = "sleep", !.put = wr[p].put + 1]]
    <3>1. WriteOK([wr[p] EXCEPT !.at = "sleep", !.put = wr[p].put + 1])
      <4>1. ASSUME NEW x, WriteOK(x), x.at = "put"
            PROVE  WriteOK([x EXCEPT !.at = "sleep", !.put = x.put + 1])
        <5> DEFINE k == x.put + 1
        <5>1. x \in WriteRecord /\ k \in Nat /\ x.i < x.n /\ x.i <= x.n
          BY <4>1 DEF WriteOK, WriteRecord
        <5> HIDE DEF k
        <5>2. WriteOK([x EXCEPT !.at = "sleep", !.put = k])
          BY <5>1, Zenon DEF WriteOK, WriteRecord
        <5> QED
          BY <5>2, Zenon DEF k
      <4> QED
        BY <1>1, <1>2, <4>1, Zenon
    <3> QED
      BY <2>2, <3>1, WriterMoves, Zenon
  <2> QED
    BY <2>1, <2>2, Zenon DEF uartwrite
<1>5. tx' \in {<<"user">>, <<"echo", "user">>}
  <2>1. tx = <<>> \/ tx = <<"echo">>
    BY <1>1, Zenon DEF ConsoleInv, UartInv
  <2>2. Append(<<>>, "user") = <<"user">>
    OBVIOUS
  <2>3. Append(<<"echo">>, "user") = <<"echo", "user">>
    BY UserAfterEcho, Zenon
  <2> QED
    BY <1>1, <2>1, <2>2, <2>3, Zenon
<1>6. UartInv'
  BY <1>1, <1>5, Zenon DEF UartInv
<1>7. WriterSignalled'
  <2>1. tx' # <<>>
    BY <1>5
  <2> QED
    BY <1>1, <2>1, Zenon DEF WriterSignalled
<1> QED
  BY <1>1, <1>4, <1>6, <1>7, PartsKept, Zenon DEF ConsoleInv, cons

-----------------------------------------------------------------------------
(* The handler and the UART                                                *)

\* Taking the interrupt preserves the invariant.
LEMMA Inv_uartintr ==
  ASSUME ConsoleInv, uartintr
  PROVE  ConsoleInv'
<1>1. /\ UNCHANGED <<buf, r, w, e, tx_busy, rd, wr, rx, tx>> /\ intr' = [intr EXCEPT !.at = "tx"]
      /\ thre' = (thre /\ rx # <<>>)
  BY Zenon DEF uartintr, cons
<1>2. intr \in [at : {"idle", "tx", "rx", "echo"}, echo : Nat]
  BY Zenon DEF ConsoleInv, HandlerInv
<1>3. intr' \in [at : {"idle", "tx", "rx", "echo"}, echo : Nat] /\ intr'.at = "tx"
  BY <1>1, <1>2
<1>4. HandlerInv'
  BY <1>1, <1>3, Zenon DEF ConsoleInv, HandlerInv
<1>5. UartInv'
  BY <1>1, Zenon DEF ConsoleInv, UartInv
<1>6. WriterSignalled'
  BY <1>1, <1>3, Zenon DEF ConsoleInv, WriterSignalled
<1> QED
  BY <1>1, <1>4, <1>5, <1>6, PartsKept, Zenon DEF ConsoleInv, cons

\* Clearing tx_busy and waking up the writers preserves the invariant.
LEMMA Inv_uartintr_tx ==
  ASSUME ConsoleInv, uartintr_tx
  PROVE  ConsoleInv'
<1>1. /\ UNCHANGED <<buf, r, w, e, rd, rx, tx, thre>> /\ intr' = [intr EXCEPT !.at = "rx"]
      /\ \/ tx = <<>> /\ tx_busy' = FALSE /\ wr' = WokenWriters
         \/ tx # <<>> /\ UNCHANGED <<tx_busy, wr>>
  BY Zenon DEF uartintr_tx, cons, uart, Sent
<1>2. intr \in [at : {"idle", "tx", "rx", "echo"}, echo : Nat]
  BY Zenon DEF ConsoleInv, HandlerInv
<1>3. intr' \in [at : {"idle", "tx", "rx", "echo"}, echo : Nat] /\ intr'.at = "rx"
  BY <1>1, <1>2
<1>4. HandlerInv'
  BY <1>1, <1>3, Zenon DEF ConsoleInv, HandlerInv
<1>5. CASE tx = <<>> /\ tx_busy' = FALSE /\ wr' = WokenWriters
  <2>1. \A q \in Writers : WriteOK(wr[q])
    BY Zenon DEF ConsoleInv, WritersInv, WriteOK, WriteRecord
  <2>2. ASSUME NEW x, WriteOK(x)
        PROVE  WriteOK([x EXCEPT !.at = IF x.at = "sleep" THEN "put" ELSE x.at])
               /\ [x EXCEPT !.at = IF x.at = "sleep" THEN "put" ELSE x.at].at # "sleep"
    BY <2>2 DEF WriteOK, WriteRecord
  <2>3. wr' = [q \in Writers |-> [wr[q] EXCEPT !.at = IF wr[q].at = "sleep" THEN "put" ELSE wr[q].at]]
    BY <1>5, Zenon DEF WokenWriters
  <2>4. WritersInv' /\ \A q \in Writers : wr'[q].at # "sleep"
    BY <2>1, <2>2, <2>3, Zenon DEF WritersInv, WriteOK, WriteRecord
  <2>5. UartInv'
    <3>1. <<>> # <<"user">> /\ <<>> # <<"echo", "user">>
      OBVIOUS
    <3> QED
      BY <1>1, <1>5, <3>1, Zenon DEF ConsoleInv, UartInv
  <2>6. WriterSignalled'
    BY <1>5, <2>4, Zenon DEF WriterSignalled
  <2> QED
    BY <1>1, <1>4, <2>4, <2>5, <2>6, PartsKept, Zenon DEF ConsoleInv, cons
<1>6. CASE tx # <<>> /\ UNCHANGED <<tx_busy, wr>>
  <2>1. WriterSignalled'
    BY <1>1, <1>6, Zenon DEF ConsoleInv, WriterSignalled
  <2> QED
    BY <1>1, <1>4, <1>6, <2>1, PartsKept, Zenon DEF ConsoleInv, cons
<1> QED
  BY <1>1, <1>5, <1>6, Zenon

\* Returning from the interrupt preserves the invariant.
LEMMA Inv_uartintr_end ==
  ASSUME ConsoleInv, uartintr_end
  PROVE  ConsoleInv'
<1>1. /\ UNCHANGED <<buf, r, w, e, tx_busy, rd, wr, rx, tx, thre>> /\ intr' = [intr EXCEPT !.at = "idle"]
      /\ intr.at = "rx"
  BY Zenon DEF uartintr_end, cons, uart
<1>2. intr \in [at : {"idle", "tx", "rx", "echo"}, echo : Nat]
  BY Zenon DEF ConsoleInv, HandlerInv
<1>3. intr' \in [at : {"idle", "tx", "rx", "echo"}, echo : Nat] /\ intr'.at = "idle" /\ intr.at # "tx"
  BY <1>1, <1>2
<1>4. HandlerInv'
  BY <1>1, <1>3, Zenon DEF ConsoleInv, HandlerInv
<1>5. WriterSignalled'
  BY <1>1, <1>3, Zenon DEF ConsoleInv, WriterSignalled
<1> QED
  BY <1>1, <1>4, <1>5, PartsKept, Zenon DEF ConsoleInv, cons

\* Echo() leaves the handler in order.
LEMMA Echoes ==
  ASSUME NEW n \in Nat, Echo(n)
  PROVE  /\ intr' \in [at : {"idle", "tx", "rx", "echo"}, echo : Nat]
         /\ intr'.at = "echo" => intr'.echo > 0
BY DEF Echo

\* Echoing a character preserves the invariant.
LEMMA Inv_uartputc_sync ==
  ASSUME ConsoleInv, uartputc_sync
  PROVE  ConsoleInv'
<1>1. /\ UNCHANGED <<buf, r, w, e, tx_busy, rd, wr, rx>> /\ Echo(intr.echo - 1) /\ intr.at = "echo"
      /\ tx = <<>> /\ tx' = Append(tx, "echo") /\ thre' = FALSE
  BY Zenon DEF uartputc_sync, cons, Sent, Thr
<1>2. tx' = <<"echo">>
  BY <1>1
<1>3. intr.echo - 1 \in Nat
  BY <1>1 DEF ConsoleInv, HandlerInv
<1>4. HandlerInv'
  BY <1>1, <1>3, Echoes, Zenon DEF ConsoleInv, HandlerInv
<1>5. <<"echo">> # <<"user">> /\ <<"echo">> # <<"echo", "user">> /\ <<"echo">> # <<>>
  OBVIOUS
<1>6. UartInv'
  BY <1>1, <1>2, <1>5, Zenon DEF ConsoleInv, UartInv
<1>7. WriterSignalled'
  BY <1>1, <1>2, <1>5, Zenon DEF ConsoleInv, WriterSignalled
<1> QED
  BY <1>1, <1>4, <1>6, <1>7, PartsKept, Zenon DEF ConsoleInv, cons

\* A character that leaves the UART preserves the invariant.
LEMMA Inv_transmit ==
  ASSUME ConsoleInv, transmit
  PROVE  ConsoleInv'
<1>1. /\ UNCHANGED <<buf, r, w, e, tx_busy, rd, wr, intr, rx>>
      /\ tx # <<>> /\ tx' = Tail(tx) /\ thre' = (thre \/ Len(tx) = 1)
  BY Zenon DEF transmit, cons
<1>2. \/ tx = <<"user">> /\ tx' = <<>> /\ Len(tx) = 1
      \/ tx = <<"echo">> /\ tx' = <<>> /\ Len(tx) = 1
      \/ tx = <<"echo", "user">> /\ tx' = <<"user">>
  <2>1. /\ Tail(<<"user">>) = <<>> /\ Len(<<"user">>) = 1
        /\ Tail(<<"echo">>) = <<>> /\ Len(<<"echo">>) = 1
        /\ Tail(<<"echo", "user">>) = <<"user">>
    OBVIOUS
  <2> QED
    BY <1>1, <2>1, Zenon DEF ConsoleInv, UartInv
<1>3. <<>> # <<"user">> /\ <<>> # <<"echo", "user">>
  OBVIOUS
<1>4. UartInv'
  BY <1>1, <1>2, <1>3, Zenon DEF ConsoleInv, UartInv
<1>5. WriterSignalled'
  BY <1>1, <1>2, <1>3, Zenon DEF ConsoleInv, WriterSignalled
<1> QED
  BY <1>1, <1>4, <1>5, PartsKept, Zenon DEF ConsoleInv, cons

\* A character that is typed preserves the invariant.
LEMMA Inv_receive ==
  ASSUME ConsoleInv, NEW c \in Keys, receive(c)
  PROVE  ConsoleInv'
<1>1. UNCHANGED <<buf, r, w, e, tx_busy, rd, wr, intr, tx, thre>> /\ rx' = Append(rx, c)
  BY Zenon DEF receive, cons
<1>2. rx' \in Seq(Keys)
  BY <1>1, SeqAppend DEF ConsoleInv, HandlerInv
<1>3. HandlerInv'
  BY <1>1, <1>2, Zenon DEF ConsoleInv, HandlerInv
<1> QED
  BY <1>1, <1>3, PartsKept, Zenon DEF ConsoleInv, cons

-----------------------------------------------------------------------------
(* consoleintr()                                                           *)

\* ^U takes back the whole line: there is no newline in it.
LEMMA KilledIs ==
  ASSUME ConsoleInv
  PROVE  Killed = Minus(e, w)
<1> DEFINE K == Minus(e, w)
           ends == {i \in 0..K : i = K \/ buf[Slot(Minus(e, i + 1))] = "LF"}
<1>0. buf \in Buffers /\ w \in Index /\ e \in Index
  BY Zenon DEF ConsoleInv, RingInv
<1>1. K \in Nat /\ K \in Index
  BY <1>0, MinusIs DEF Index
<1>2. ASSUME NEW i \in 0..K, i # K, buf[Slot(Minus(e, i + 1))] = "LF"
      PROVE  FALSE
  <2>1. /\ i + 1 \in Index /\ -(i + 1) \in Int /\ e - (i + 1) = e + (-(i + 1))
        /\ w + K + (-(i + 1)) = w + (K - i) - 1 /\ K - i \in 1..K
    BY <1>0, <1>1, <1>2, Sizes DEF Index
  <2>2. Slot(Minus(e, i + 1)) = Slot(e - (i + 1))
    BY <1>0, <2>1, SlotBefore, Zenon
  <2>3. Slot(e + (-(i + 1))) = Slot(w + K + (-(i + 1)))
    BY <1>0, <2>1, SlotFrom, Zenon
  <2>4. Segment(w, e)[K - i] = buf[Slot(w + (K - i) - 1)]
    BY <2>1, Zenon DEF Segment
  <2>5. Segment(w, e)[K - i] # "LF"
    BY <2>1, Zenon DEF ConsoleInv, RingInv
  <2> QED
    BY <1>2, <2>1, <2>2, <2>3, <2>4, <2>5, Zenon
<1>3. ends = {K}
  <2>1. K \in 0..K
    BY <1>1
  <2> QED
    BY <1>2, <2>1, Zenon
<1>4. K <= K
  BY <1>1
<1>5. Killed = CHOOSE i \in ends : \A j \in ends : i <= j
  BY Zenon DEF Killed
<1> HIDE DEF ends, K
<1>6. (CHOOSE i \in ends : \A j \in ends : i <= j) = K
  BY <1>3, <1>4, Zenon
<1> QED
  BY <1>5, <1>6, Zenon DEF K

\* Erase(n), of entries of the line.
Erased(n) ==
  /\ e' = Minus(e, n) /\ w' = w /\ rd' = rd
  /\ buf' = [b \in DOMAIN buf |-> IF \E k \in 1..n : b = Slot(Minus(e, k)) THEN "LF" ELSE buf[b]]

\* What a key does: it erases entries of the line, stores a character, or nothing.
LEMMA Keystroke ==
  ASSUME ConsoleInv, consoleintr
  PROVE  /\ UNCHANGED <<r, tx_busy, wr, tx, thre>> /\ rx' \in Seq(Keys) /\ intr.at = "rx"
         /\ \E n \in Nat : Echo(n)
         /\ \/ \E n \in 0..Minus(e, w) : Erased(n) /\ (n = 1 \/ n = Minus(e, w))
            \/ \E c \in Stored : Fits /\ Store(c)
            \/ UNCHANGED <<buf, w, e, rd>>
<1> DEFINE c == Head(rx)
<1>0. w \in Index /\ e \in Index /\ rx \in Seq(Keys)
  BY Zenon DEF ConsoleInv, RingInv, HandlerInv
<1>1. /\ UNCHANGED <<r, tx_busy, wr, tx, thre>> /\ rx # <<>> /\ rx' = Tail(rx) /\ intr.at = "rx"
  BY Zenon DEF consoleintr
<1>2. c \in Keys /\ rx' \in Seq(Keys)
  BY <1>0, <1>1, SeqTail, Zenon
<1>3. \/ c = "^U" /\ Erase(Killed) /\ Echo(3 * Killed)
      \/ c = "^H" /\ e # w /\ Erase(1) /\ Echo(3)
      \/ c \notin {"^U", "^H", "^P", "NUL"} /\ Fits /\ Store(Translated(c)) /\ Echo(1)
      \/ UNCHANGED <<buf, w, e, rd>> /\ Echo(0)
  BY DEF consoleintr
<1> HIDE DEF c
<1>4. Minus(e, w) \in Nat
  BY <1>0, MinusIs DEF Index
<1>5. CASE c = "^U" /\ Erase(Killed) /\ Echo(3 * Killed)
  <2>1. Killed = Minus(e, w)
    BY KilledIs, Zenon
  <2>2. Erased(Minus(e, w)) /\ Echo(3 * Minus(e, w))
    BY <1>5, <2>1, Zenon DEF Erase, Erased
  <2>3. Minus(e, w) \in 0..Minus(e, w) /\ 3 * Minus(e, w) \in Nat
    BY <1>4
  <2> QED
    BY <1>1, <1>2, <2>2, <2>3, Zenon
<1>6. CASE c = "^H" /\ e # w /\ Erase(1) /\ Echo(3)
  <2>1. 1 \in 0..Minus(e, w) /\ 3 \in Nat
    <3>1. (w <= e => Minus(e, w) = e - w) /\ (e < w => Minus(e, w) = e - w + UIntMod)
      BY <1>0, MinusIs, Zenon
    <3> QED
      BY <1>0, <1>4, <1>6, <3>1, Sizes DEF Index
  <2>2. Erased(1)
    BY <1>6, Zenon DEF Erase, Erased
  <2> QED
    BY <1>1, <1>2, <1>6, <2>1, <2>2, Zenon
<1>7. CASE c \notin {"^U", "^H", "^P", "NUL"} /\ Fits /\ Store(Translated(c)) /\ Echo(1)
  <2>1. Translated(c) \in Stored /\ 1 \in Nat
    BY <1>2, <1>7, ConsoleAssumption DEF Translated, Stored
  <2> QED
    BY <1>1, <1>2, <1>7, <2>1, Zenon
<1>8. CASE UNCHANGED <<buf, w, e, rd>> /\ Echo(0)
  <2>1. 0 \in Nat
    OBVIOUS
  <2> QED
    BY <1>1, <1>2, <1>8, <2>1, Zenon
<1> QED
  BY <1>3, <1>5, <1>6, <1>7, <1>8, Zenon

\* The ring after characters are erased.
LEMMA RingErased ==
  ASSUME ConsoleInv, NEW n \in 0..Minus(e, w), Erased(n), r' = r
  PROVE  /\ RingInv'
         /\ Segment(r, w)' = Segment(r, w)
         /\ Segment(w, e)' = SubSeq(Segment(w, e), 1, Len(Segment(w, e)) - n)
         /\ Len(Segment(w, e)) = Minus(e, w)
<1>0. buf \in Buffers /\ r \in Index /\ w \in Index /\ e \in Index /\ InRing(r, w, e)
  BY Zenon DEF ConsoleInv, RingInv
<1>1. buf' \in Buffers /\ SameButBefore(buf, buf', e, n)
  BY <1>0, Zenon DEF Erased, Buffers, Stored, SameButBefore
<1>2. e' = Minus(e, n) /\ w' = w
  BY Zenon DEF Erased
<1>3. /\ e' \in Index /\ InRing(r, w, e')
      /\ Entries(buf', r, w) = Entries(buf, r, w)
      /\ Entries(buf', w, e') = SubSeq(Entries(buf, w, e), 1, Minus(e, w) - n)
  <2>1. /\ Minus(e, n) \in Index /\ InRing(r, w, Minus(e, n))
        /\ Entries(buf', r, w) = Entries(buf, r, w)
        /\ Entries(buf', w, Minus(e, n)) = SubSeq(Entries(buf, w, e), 1, Minus(e, w) - n)
    <3>1. Erasing(buf, buf', r, w, e, n)
      BY <1>0, <1>1, Zenon DEF Erasing
    <3> QED
      BY <3>1, EntriesErased
  <2> QED
    BY <1>2, <2>1, Zenon
<1>4. /\ Segment(r, w)' = Entries(buf', r, w) /\ Segment(r, w) = Entries(buf, r, w)
      /\ Segment(w, e)' = Entries(buf', w, e') /\ Segment(w, e) = Entries(buf, w, e)
  BY <1>2, Zenon DEF Segment, Entries
<1>5. Len(Segment(w, e)) = Minus(e, w) /\ Segment(w, e) \in Seq(Stored)
  BY <1>0, <1>4, EntriesAre, Zenon
<1>6. Segment(w, e)' = SubSeq(Segment(w, e), 1, Len(Segment(w, e)) - n)
  BY <1>3, <1>4, <1>5, Zenon
<1>7. \A i \in 1..Minus(e', w') : Segment(w, e)'[i] \notin {"LF", EOF}
  <2>1. Minus(e', w') = Minus(e, w) - n
    BY <1>0, <1>2, Backward, Zenon
  <2>2. \A i \in 1..(Minus(e, w) - n) : i \in 1..Minus(e, w) /\ Slot(w + i - 1) = Slot(w + i - 1)
    <3>1. Minus(e, w) \in Nat
      BY <1>0, MinusIs DEF Index
    <3> QED
      BY <3>1
  <2>3. \A i \in 1..(Minus(e, w) - n) : Segment(w, e)'[i] = Segment(w, e)[i]
    <3> DEFINE s == Segment(w, e)
               L == Minus(e, w)
    <3>1. L \in Nat /\ n \in Nat /\ n <= L
      BY <1>0, MinusIs DEF Index
    <3>2. s \in Seq(Stored) /\ Len(s) = L
      BY <1>5, Zenon
    <3>3. s' = SubSeq(s, 1, L - n)
      BY <1>5, <1>6, Zenon
    <3> HIDE DEF s, L
    <3>4. \A i \in 1..(L - n) : SubSeq(s, 1, L - n)[i] = s[i]
      BY <3>1, <3>2
    <3> QED
      BY <3>3, <3>4, Zenon DEF s, L
  <2>4. \A i \in 1..Minus(e, w) : Segment(w, e)[i] \notin {"LF", EOF}
    BY Zenon DEF ConsoleInv, RingInv
  <2> QED
    BY <2>1, <2>2, <2>3, <2>4, Zenon
<1>8. RingInv'
  BY <1>0, <1>1, <1>2, <1>3, <1>7, Zenon DEF RingInv
<1> QED
  BY <1>4, <1>3, <1>5, <1>6, <1>8, Zenon

\* The ring after a character is stored.
LEMMA RingStored ==
  ASSUME ConsoleInv, NEW c \in Stored, Fits, Store(c), r' = r
  PROVE  /\ RingInv'
         /\ Len(Segment(r, w)) + Len(Segment(w, e)) < INPUT_BUF_SIZE
         /\ Commits(c) <=> \/ c \in {"LF", EOF}
                           \/ Len(Segment(r, w)) + Len(Segment(w, e)) + 1 = INPUT_BUF_SIZE
         /\ Commits(c) => /\ Segment(r, w)' = Segment(r, w) \o Append(Segment(w, e), c)
                          /\ Segment(w, e)' = <<>> /\ rd' = WokenReaders
         /\ ~Commits(c) => /\ Segment(r, w)' = Segment(r, w) /\ UNCHANGED <<w, rd>>
                           /\ Segment(w, e)' = Append(Segment(w, e), c)
<1>0. buf \in Buffers /\ r \in Index /\ w \in Index /\ e \in Index /\ InRing(r, w, e)
  BY Zenon DEF ConsoleInv, RingInv
<1>1. /\ Minus(e, r) = Minus(w, r) + Minus(e, w) /\ Minus(w, r) \in Nat /\ Minus(e, w) \in Nat
      /\ Minus(e, r) < INPUT_BUF_SIZE
  BY <1>0, Parts, Zenon DEF Fits
<1>2. Plus(Minus(e, r), 1) = Minus(e, r) + 1
  <2>1. Minus(e, r) \in Index /\ 1 \in Index /\ Minus(e, r) + 1 < UIntMod
    BY <1>1, Sizes DEF Index
  <2> QED
    BY <2>1, PlusIs, Zenon
<1> DEFINE C == [buf EXCEPT ![Slot(e)] = c]
           u == Plus(e, 1)
<1>c. C = [buf EXCEPT ![Slot(e)] = c] /\ u = Plus(e, 1)
  BY Zenon
<1>4. buf' = C /\ e' = u
  BY Zenon DEF Store
<1> HIDE DEF C, u
<1>3. /\ C \in Buffers /\ u \in Index
      /\ InRing(r, w, u) /\ InRing(r, u, u)
      /\ Entries(C, r, w) = Entries(buf, r, w)
      /\ Entries(C, w, u) = Append(Entries(buf, w, e), c)
      /\ Entries(C, r, u) = Entries(buf, r, w) \o Append(Entries(buf, w, e), c)
      /\ Entries(C, u, u) = <<>>
  <2>1. Storing(buf, C, r, w, e, u, c)
    BY <1>0, <1>1, <1>c, Zenon DEF Storing
  <2>2. /\ C \in Buffers /\ u \in Index /\ InRing(r, w, u) /\ InRing(r, u, u)
        /\ Entries(C, r, w) = Entries(buf, r, w)
        /\ Entries(C, w, u) = LineWith(buf, w, e, c)
        /\ Entries(C, r, u) = ReadyWith(buf, r, w, e, c)
        /\ Entries(C, u, u) = <<>>
    BY <2>1, EntriesStored
  <2> QED
    BY <2>2, Zenon DEF LineWith, ReadyWith
<1>5. /\ Commits(c) => w' = u /\ rd' = WokenReaders
      /\ ~Commits(c) => UNCHANGED <<w, rd>>
  BY <1>c, Zenon DEF Store
<1>6. /\ Segment(r, w) = Entries(buf, r, w) /\ Segment(w, e) = Entries(buf, w, e)
      /\ Segment(r, w)' = Entries(C, r, w') /\ Segment(w, e)' = Entries(C, w', u)
  BY <1>4, Zenon DEF Segment, Entries
<1>7. /\ Len(Segment(r, w)) = Minus(w, r) /\ Len(Segment(w, e)) = Minus(e, w)
      /\ Segment(w, e) \in Seq(Stored)
  BY <1>0, <1>6, EntriesAre, Zenon
<1>8. Commits(c) <=> \/ c \in {"LF", EOF}
                     \/ Len(Segment(r, w)) + Len(Segment(w, e)) + 1 = INPUT_BUF_SIZE
  BY <1>1, <1>2, <1>7, Zenon DEF Commits
<1>9. Len(Segment(r, w)) + Len(Segment(w, e)) < INPUT_BUF_SIZE
  BY <1>1, <1>7, Zenon
<1>10. CASE Commits(c)
  <2>1. w' = u /\ rd' = WokenReaders
    BY <1>5, <1>10, Zenon
  <2>2. Segment(r, w)' = Segment(r, w) \o Append(Segment(w, e), c) /\ Segment(w, e)' = <<>>
    BY <1>3, <1>6, <2>1, Zenon
  <2>3. 1..Minus(e', w') = {}
    <3>1. Minus(u, u) = 0
      BY <1>3, MinusIs DEF Index
    <3> QED
      BY <1>4, <2>1, <3>1
  <2>4. RingInv'
    BY <1>0, <1>3, <1>4, <2>1, <2>3, Zenon DEF RingInv
  <2> QED
    BY <1>8, <1>9, <1>10, <2>1, <2>2, <2>4, Zenon
<1>11. CASE ~Commits(c)
  <2>1. w' = w /\ rd' = rd
    BY <1>5, <1>11, Zenon
  <2>2. Segment(r, w)' = Segment(r, w) /\ Segment(w, e)' = Append(Segment(w, e), c)
    BY <1>3, <1>6, <2>1, Zenon
  <2>3. ASSUME NEW i \in 1..Minus(e', w')
        PROVE  Segment(w, e)'[i] \notin {"LF", EOF}
    <3>1. Minus(u, w) = Minus(e, w) + 1
      <4>1. Minus(e, w) + 1 < UIntMod
        BY <1>1, Sizes
      <4> QED
        BY <1>0, <1>c, <4>1, OneMore, Zenon
    <3>2. i \in 1..Minus(e, w) \/ i = Minus(e, w) + 1
      BY <1>1, <1>4, <2>1, <3>1
    <3>3. CASE i \in 1..Minus(e, w)
      <4>1. Segment(w, e)'[i] = Segment(w, e)[i]
        BY <1>7, <2>2, <3>3, SeqAppend
      <4> QED
        BY <3>3, <4>1, Zenon DEF ConsoleInv, RingInv
    <3>4. CASE i = Minus(e, w) + 1
      <4>1. Segment(w, e)'[i] = c
        BY <1>7, <2>2, <3>4, SeqAppend
      <4> QED
        BY <1>8, <1>11, <4>1, Zenon
    <3> QED
      BY <3>2, <3>3, <3>4, Zenon
  <2>4. RingInv'
    BY <1>0, <1>3, <1>4, <2>1, <2>3, Zenon DEF RingInv
  <2> QED
    BY <1>8, <1>9, <1>11, <2>1, <2>2, <2>4, Zenon
<1> QED
  BY <1>10, <1>11, Zenon

\* Waking up the readers leaves none asleep.
LEMMA ReadersWoken ==
  ASSUME ConsoleInv, rd' = WokenReaders
  PROVE  ReadersInv'
<1>1. ASSUME NEW q \in Readers
      PROVE  /\ rd'[q] \in [at : {"idle", "lock", "sleep"}, n : Nat, got : Nat, killed : BOOLEAN]
             /\ rd'[q].at # "sleep"
  <2>1. rd[q] \in [at : {"idle", "lock", "sleep"}, n : Nat, got : Nat, killed : BOOLEAN]
    BY Zenon DEF ConsoleInv, ReadersInv
  <2>2. rd'[q] = [rd[q] EXCEPT !.at = IF rd[q].at = "sleep" THEN "lock" ELSE rd[q].at]
    BY Zenon DEF WokenReaders
  <2> QED
    BY <2>1, <2>2
<1>2. rd' = [q \in Readers |-> rd'[q]]
  BY Zenon DEF WokenReaders
<1> QED
  BY <1>1, <1>2, Zenon DEF ReadersInv, ReaderHasCause

\* A key preserves the invariant.
LEMMA Inv_consoleintr ==
  ASSUME ConsoleInv, consoleintr
  PROVE  ConsoleInv'
<1>1. UNCHANGED <<r, tx_busy, wr, tx, thre>> /\ rx' \in Seq(Keys) /\ intr.at = "rx"
  BY Keystroke, Zenon
<1>2. PICK n \in Nat : Echo(n)
  BY Keystroke, Zenon
<1>3. HandlerInv'
  BY <1>1, <1>2, Echoes, Zenon DEF HandlerInv
<1>4. WriterSignalled'
  <2>1. intr.at # "tx"
    BY <1>1
  <2> QED
    BY <1>1, <2>1, Zenon DEF ConsoleInv, WriterSignalled
<1>5. RingInv' /\ ReadersInv'
  <2>1. CASE \E k \in 0..Minus(e, w) : Erased(k) /\ (k = 1 \/ k = Minus(e, w))
    BY <1>1, <2>1, RingErased, PartsKept, Zenon DEF Erased
  <2>2. CASE \E c \in Stored : Fits /\ Store(c)
    <3>1. PICK c \in Stored : Fits /\ Store(c)
      BY <2>2, Zenon
    <3>2. RingInv' /\ (rd' = WokenReaders \/ UNCHANGED <<w, rd>>)
      BY <1>1, <3>1, RingStored, Zenon
    <3> QED
      BY <1>1, <3>2, ReadersWoken, PartsKept, Zenon
  <2>3. CASE UNCHANGED <<buf, w, e, rd>>
    BY <1>1, <2>3, PartsKept, Zenon DEF cons
  <2> QED
    BY <2>1, <2>2, <2>3, Keystroke, Zenon
<1> QED
  BY <1>1, <1>3, <1>4, <1>5, PartsKept, Zenon DEF ConsoleInv

\* Steps that leave the ring alone leave the terminal alone.
LEMMA TerminalKept ==
  ASSUME UNCHANGED cons
  PROVE  UNCHANGED <<Segment(w, e), Segment(r, w)>>
BY Zenon DEF Segment, cons

\* A key edits the line, finishes it, or does nothing.
LEMMA Refines_consoleintr ==
  ASSUME ConsoleInv, consoleintr
  PROVE  T!Next \/ UNCHANGED <<Segment(w, e), Segment(r, w)>>
<1>0. r' = r
  BY Keystroke, Zenon
<1>s. Segment(w, e) \in Seq(Stored) /\ Len(Segment(w, e)) = Minus(e, w) /\ Minus(e, w) \in Nat /\ Segment(r, w) \in Seq(Stored)
  BY EntriesAre, ZenonT(30) DEF ConsoleInv, RingInv, Segment, Entries
<1>1. CASE \E n \in 0..Minus(e, w) : Erased(n) /\ (n = 1 \/ n = Minus(e, w))
  <2>1. PICK n \in 0..Minus(e, w) : Erased(n) /\ (n = 1 \/ n = Minus(e, w))
    BY <1>1, Zenon
  <2>2. /\ Segment(r, w)' = Segment(r, w)
        /\ Segment(w, e)' = SubSeq(Segment(w, e), 1, Len(Segment(w, e)) - n)
    BY <1>0, <2>1, RingErased, Zenon
  <2>3. CASE Segment(w, e) = <<>>
    <3>1. Minus(e, w) = 0
      BY <1>s, <2>3
    <3>2. Len(Segment(w, e)) - n < 1 /\ Len(Segment(w, e)) - n \in Int /\ 1 \in Int
      BY <1>s, <3>1
    <3> QED
      BY <1>s, <2>2, <2>3, <3>2, SeqNoPart, Zenon
  <2>4. CASE Segment(w, e) # <<>> /\ n = 1
    BY <2>2, <2>4, Zenon DEF T!Next, T!Erase
  <2>5. CASE Segment(w, e) # <<>> /\ n = Minus(e, w)
    <3>1. Len(Segment(w, e)) - n < 1 /\ Len(Segment(w, e)) - n \in Int /\ 1 \in Int
      BY <1>s, <2>5
    <3>2. Segment(w, e)' = <<>>
      BY <1>s, <2>2, <3>1, SeqNoPart, Zenon
    <3> QED
      BY <2>2, <2>5, <3>2, Zenon DEF T!Next, T!Kill
  <2> QED
    BY <2>1, <2>3, <2>4, <2>5, Zenon
<1>2. CASE \E c \in Stored : Fits /\ Store(c)
  <2>1. PICK c \in Stored : Fits /\ Store(c)
    BY <1>2, Zenon
  <2> DEFINE line == Segment(w, e)
             ready == Segment(r, w)
  <2>2. /\ Len(ready) + Len(line) < INPUT_BUF_SIZE
        /\ Commits(c) <=> c \in {"LF", EOF} \/ Len(ready) + Len(line) + 1 = INPUT_BUF_SIZE
        /\ Commits(c) => ready' = ready \o Append(line, c) /\ line' = <<>>
        /\ ~Commits(c) => ready' = ready /\ line' = Append(line, c)
    BY <1>0, <2>1, RingStored, Zenon
  <2>3. /\ INPUT_BUF_SIZE - Len(line) - Len(ready) > 0
        /\ INPUT_BUF_SIZE - Len(line) - Len(ready) = 1 <=> Len(ready) + Len(line) + 1 = INPUT_BUF_SIZE
    <3>1. Len(ready) \in Nat /\ Len(line) \in Nat
      BY <1>s, SeqLength, Zenon
    <3> HIDE DEF ready, line
    <3> QED
      BY <2>2, <3>1, Sizes
  <2>4. T!Insert(c)
    BY <2>2, <2>3, Zenon DEF T!Insert, T!Room
  <2> QED
    BY <2>4, Zenon DEF T!Next
<1>3. CASE UNCHANGED <<buf, w, e, rd>>
  BY <1>0, <1>3, TerminalKept, Zenon DEF cons
<1> QED
  BY <1>1, <1>2, <1>3, Keystroke, Zenon

-----------------------------------------------------------------------------
(* consoleread()                                                           *)

\* What one hold of cons.lock takes: n entries that are ready, all of them when
\* the process goes to sleep, and an end of file only by itself.
Takes(p, n) ==
  /\ n \in 0..Minus(w, r) /\ rd[p].at = "lock"
  /\ r' = Plus(r, n) /\ w' = w /\ e' = e
  /\ buf' = [b \in DOMAIN buf |-> IF \E k \in 1..n : b = Slot(r + k - 1) THEN "LF" ELSE buf[b]]
  /\ \/ rd' = [rd EXCEPT ![p] = Idle]
     \/ /\ n = Minus(w, r) /\ ~rd[p].killed
        /\ rd' = [rd EXCEPT ![p] = [rd[p] EXCEPT !.at = "sleep", !.got = rd[p].got + Minus(w, r)]]
  /\ \A k \in 1..n : buf[Slot(r + k - 1)] = EOF =>
       n = 1 /\ rd[p].got = 0 /\ rd' = [rd EXCEPT ![p] = Idle]

\* A set of naturals has a least element, and Min is it.
MinIsLeast ==
  \A S \in SUBSET Nat : S # {} => Min(S) \in S /\ \A j \in S : Min(S) <= j

\* consoleread_loop() takes what Takes says, up to the first place it stops at.
LEMMA TakenBefore ==
  ASSUME MinIsLeast, ConsoleInv, NEW p \in Readers, NEW bad \in BOOLEAN, consoleread_loop(p, bad)
  PROVE  \E n : Takes(p, n)
<1> DEFINE here == Minus(w, r)
           char(i) == buf[Slot(r + i - 1)]
           stops == {i \in 1..here : \/ char(i) \in {"LF", EOF} \/ bad
                                     \/ rd[p].got + i = rd[p].n}
           i == Min(stops)
           taken == CASE rd[p].n = 0 -> 0
                      [] rd[p].n > 0 /\ stops = {} -> here
                      [] OTHER -> IF char(i) = EOF /\ Unread(rd[p].got + i - 1) THEN i - 1 ELSE i
<1>1. /\ rd[p].at = "lock"
      /\ r' = Plus(r, taken) /\ w' = w /\ e' = e
      /\ buf' = [b \in DOMAIN buf |-> IF \E k \in 1..taken : b = Slot(r + k - 1) THEN "LF" ELSE buf[b]]
      /\ rd' = [rd EXCEPT ![p] = IF stops = {} /\ rd[p].n > 0 /\ ~rd[p].killed
                                   THEN [rd[p] EXCEPT !.at = "sleep", !.got = rd[p].got + here]
                                   ELSE Idle]
  <2>1. rd[p].at = "lock" /\ w' = w /\ e' = e
    BY Zenon DEF consoleread_loop
  <2>2. r' = Plus(r, taken)
    BY Zenon DEF consoleread_loop
  <2>3. buf' = [b \in DOMAIN buf |-> IF \E k \in 1..taken : b = Slot(r + k - 1) THEN "LF" ELSE buf[b]]
    BY Zenon DEF consoleread_loop
  <2>4. rd' = [rd EXCEPT ![p] = IF stops = {} /\ rd[p].n > 0 /\ ~rd[p].killed
                                  THEN [rd[p] EXCEPT !.at = "sleep", !.got = rd[p].got + here]
                                  ELSE Idle]
    BY Zenon DEF consoleread_loop
  <2> QED
    BY <2>1, <2>2, <2>3, <2>4, Zenon
<1>2. here \in Nat /\ rd[p].got \in Nat /\ rd[p].n \in Nat
  <2>1. here \in Nat
    BY MinusIs DEF ConsoleInv, RingInv, Index
  <2> QED
    BY <2>1, Zenon DEF ConsoleInv, ReadersInv
<1> HIDE DEF here
<1>3. stops # {} => i \in stops /\ i \in 1..here /\ \A j \in stops : i <= j
  <2>1. stops \subseteq Nat
    BY <1>2
  <2> QED
    BY <2>1, Zenon DEF MinIsLeast
<1>4. \A k \in 1..here : char(k) = EOF => k \in stops
  BY Zenon
<1> HIDE DEF char, stops, i
<1>5. taken \in 0..here /\ (stops = {} /\ rd[p].n > 0 => taken = here)
  BY <1>2, <1>3
<1>6. \A k \in 1..taken : char(k) = EOF => taken = 1 /\ rd[p].got = 0 /\ stops # {}
  <2> SUFFICES ASSUME NEW k \in 1..taken, char(k) = EOF
               PROVE  taken = 1 /\ rd[p].got = 0 /\ stops # {}
    BY Zenon
  <2>1. k \in stops /\ stops # {} /\ i \in 1..here /\ i <= k
    <3>1. k \in 1..here
      BY <1>2, <1>5
    <3> QED
      BY <1>3, <1>4, <3>1, Zenon
  <2>2. rd[p].n # 0
    BY <1>2, <2>1
  <2>3. taken = IF char(i) = EOF /\ Unread(rd[p].got + i - 1) THEN i - 1 ELSE i
    BY <1>2, <2>1, <2>2
  <2> HIDE DEF taken
  <2>4. taken = i /\ k = i
    BY <1>2, <2>1, <2>3
  <2>5. ~(rd[p].got + i - 1 > 0)
    BY <1>2, <2>1, <2>3, <2>4 DEF Unread
  <2> QED
    BY <1>2, <2>1, <2>4, <2>5
<1> HIDE DEF taken
<1>7. \/ rd' = [rd EXCEPT ![p] = Idle]
      \/ /\ taken = Minus(w, r) /\ ~rd[p].killed
         /\ rd' = [rd EXCEPT ![p] = [rd[p] EXCEPT !.at = "sleep", !.got = rd[p].got + Minus(w, r)]]
  BY <1>1, <1>5, Zenon DEF here
<1>8. stops # {} => rd' = [rd EXCEPT ![p] = Idle]
  BY <1>1, Zenon
<1>9. Takes(p, taken)
  BY <1>1, <1>5, <1>6, <1>7, <1>8, Zenon DEF Takes, here, char
<1> QED
  BY <1>9, Zenon

\* The ring after a read.
LEMMA RingRead ==
  ASSUME ConsoleInv, NEW p \in Readers, NEW n, Takes(p, n)
  PROVE  /\ RingInv' /\ ReadersInv'
         /\ Segment(w, e)' = Segment(w, e)
         /\ n \in 0..Len(Segment(r, w))
         /\ Segment(r, w)' = SubSeq(Segment(r, w), n + 1, Len(Segment(r, w)))
<1> USE DEF ConsoleInv
<1>0. buf \in Buffers /\ r \in Index /\ w \in Index /\ e \in Index /\ InRing(r, w, e)
  BY Zenon DEF RingInv
<1>n. n \in 0..Minus(w, r)
  BY Zenon DEF Takes
<1> USE <1>n
<1>1. /\ r' = Plus(r, n) /\ w' = w /\ e' = e
      /\ buf' = [b \in DOMAIN buf |-> IF \E k \in 1..n : b = Slot(r + k - 1) THEN "LF" ELSE buf[b]]
      /\ \/ rd' = [rd EXCEPT ![p] = Idle]
         \/ /\ n = Minus(w, r) /\ ~rd[p].killed
            /\ rd' = [rd EXCEPT ![p] = [rd[p] EXCEPT !.at = "sleep", !.got = rd[p].got + Minus(w, r)]]
  BY Zenon DEF Takes
<1>2. buf' \in Buffers /\ SameButFrom(buf, buf', r, n)
  BY <1>0, <1>1, Zenon DEF Buffers, Stored, SameButFrom
<1>3. /\ r' \in Index /\ InRing(r', w, e)
      /\ Entries(buf', w, e) = Entries(buf, w, e)
      /\ Entries(buf', r', w) = SubSeq(Entries(buf, r, w), n + 1, Minus(w, r))
  <2>1. /\ Plus(r, n) \in Index /\ InRing(Plus(r, n), w, e)
        /\ Entries(buf', w, e) = Entries(buf, w, e)
        /\ Entries(buf', Plus(r, n), w) = SubSeq(Entries(buf, r, w), n + 1, Minus(w, r))
    <3>1. Reading(buf, buf', r, w, e, n)
      BY <1>0, <1>2, Zenon DEF Reading
    <3> QED
      BY <3>1, EntriesRead
  <2> QED
    BY <1>1, <2>1, Zenon
<1>4. Segment(w, e)' = Segment(w, e)
  <2>1. Segment(w, e)' = Entries(buf', w', e') /\ Segment(w, e) = Entries(buf, w, e)
    BY Zenon DEF Segment, Entries
  <2> QED
    BY <1>1, <1>3, <2>1, Zenon
<1>5. Len(Segment(r, w)) = Minus(w, r)
  BY <1>0, EntriesAre, Zenon DEF Segment, Entries
<1>6. Segment(r, w)' = SubSeq(Segment(r, w), n + 1, Len(Segment(r, w)))
  <2>1. Segment(r, w)' = Entries(buf', r', w) /\ Segment(r, w) = Entries(buf, r, w)
    BY <1>1, Zenon DEF Segment, Entries
  <2> QED
    BY <1>3, <1>5, <2>1, Zenon
<1>7. RingInv'
  BY <1>0, <1>1, <1>2, <1>3, <1>4, Zenon DEF RingInv
<1>8. ReadersInv'
  <2>1. Minus(w, r) \in Nat /\ Plus(r, Minus(w, r)) = w /\ (r = w => Plus(r, n) = w)
    <3>1. Minus(w, r) \in Index
      BY <1>0, MinusIs, Zenon
    <3>2. Plus(r, Minus(w, r)) = w
      <4> DEFINE d == Minus(w, r)
      <4>1. (r <= w => d = w - r) /\ (w < r => d = w - r + UIntMod)
        BY <1>0, MinusIs, Zenon
      <4>2. (r + d < UIntMod => Plus(r, d) = r + d) /\ (UIntMod <= r + d => Plus(r, d) = r + d - UIntMod)
        BY <1>0, <3>1, PlusIs, Zenon
      <4> HIDE DEF d
      <4> QED
        BY <1>0, <4>1, <4>2, Sizes DEF Index, d
    <3>3. r = w => n = Minus(w, r)
      BY <1>0, <3>1, MinusIs DEF Index
    <3> QED
      BY <3>1, <3>2, <3>3 DEF Index
  <2>2. CASE rd' = [rd EXCEPT ![p] = Idle]
    <3>1. Idle \in [at : {"idle", "lock", "sleep"}, n : Nat, got : Nat, killed : BOOLEAN] /\ Idle.at = "idle"
      BY DEF Idle
    <3> HIDE DEF Idle
    <3>2. rd' \in [Readers -> [at : {"idle", "lock", "sleep"}, n : Nat, got : Nat, killed : BOOLEAN]]
      BY <2>2, <3>1, Zenon DEF ReadersInv
    <3>3. ReaderHasCause'
      BY <1>1, <2>1, <2>2, <3>1, Zenon DEF ReadersInv, ReaderHasCause
    <3> QED
      BY <3>2, <3>3, Zenon DEF ReadersInv
  <2>3. CASE /\ n = Minus(w, r) /\ ~rd[p].killed
             /\ rd' = [rd EXCEPT ![p] = [rd[p] EXCEPT !.at = "sleep", !.got = rd[p].got + Minus(w, r)]]
    <3> DEFINE z == [rd[p] EXCEPT !.at = "sleep", !.got = rd[p].got + Minus(w, r)]
    <3>1. rd[p] \in [at : {"idle", "lock", "sleep"}, n : Nat, got : Nat, killed : BOOLEAN]
      BY Zenon DEF ReadersInv
    <3>2. z \in [at : {"idle", "lock", "sleep"}, n : Nat, got : Nat, killed : BOOLEAN] /\ ~z.killed
      <4>1. ASSUME NEW x \in [at : {"idle", "lock", "sleep"}, n : Nat, got : Nat, killed : BOOLEAN], NEW d \in Nat
            PROVE  /\ [x EXCEPT !.at = "sleep", !.got = x.got + d]
                        \in [at : {"idle", "lock", "sleep"}, n : Nat, got : Nat, killed : BOOLEAN]
                   /\ [x EXCEPT !.at = "sleep", !.got = x.got + d].killed = x.killed
        <5>1. x.got + d \in Nat
          OBVIOUS
        <5> DEFINE g == x.got + d
        <5> HIDE DEF g
        <5>2. g \in Nat
          BY <5>1 DEF g
        <5>3. /\ [x EXCEPT !.at = "sleep", !.got = g]
                   \in [at : {"idle", "lock", "sleep"}, n : Nat, got : Nat, killed : BOOLEAN]
              /\ [x EXCEPT !.at = "sleep", !.got = g].killed = x.killed
          BY <5>2, Zenon
        <5> QED
          BY <5>3, Zenon DEF g
      <4> QED
        BY <2>1, <2>3, <3>1, <4>1, Zenon
    <3> HIDE DEF z
    <3>3. rd' = [rd EXCEPT ![p] = z]
      BY <2>3, Zenon DEF z
    <3>4. rd' \in [Readers -> [at : {"idle", "lock", "sleep"}, n : Nat, got : Nat, killed : BOOLEAN]]
      BY <3>2, <3>3, Zenon DEF ReadersInv
    <3>5. ReaderHasCause'
      BY <1>1, <2>1, <2>3, <3>2, <3>3, Zenon DEF ReadersInv, ReaderHasCause
    <3> QED
      BY <3>4, <3>5, Zenon DEF ReadersInv
  <2> QED
    BY <1>1, <2>2, <2>3, Zenon
<1>9. n \in 0..Len(Segment(r, w))
  BY <1>5, Zenon
<1> QED
  BY <1>4, <1>6, <1>7, <1>8, <1>9, Zenon

\* A read takes characters off the front of what is ready.
LEMMA Refines_Takes ==
  ASSUME ConsoleInv, NEW p \in Readers, NEW n, Takes(p, n)
  PROVE  T!Next \/ UNCHANGED <<Segment(w, e), Segment(r, w)>>
<1>1. Segment(w, e)' = Segment(w, e)
  BY RingRead, Zenon
<1>2. /\ n \in 0..Len(Segment(r, w))
      /\ Segment(r, w)' = SubSeq(Segment(r, w), n + 1, Len(Segment(r, w)))
  BY RingRead, Zenon
<1>3. Segment(r, w) \in Seq(Stored)
  BY EntriesAre, Zenon DEF ConsoleInv, RingInv, Segment, Entries
<1>4. n = 0 \/ n \in 1..Len(Segment(r, w))
  BY <1>2
<1>5. CASE n = 0
  <2>1. Segment(r, w)' = SubSeq(Segment(r, w), 1, Len(Segment(r, w)))
    BY <1>2, <1>5
  <2> QED
    BY <1>1, <1>3, <2>1, SeqWhole, Zenon
<1>6. CASE n \in 1..Len(Segment(r, w))
  BY <1>1, <1>2, <1>6, Zenon DEF T!Next, T!Read
<1> QED
  BY <1>4, <1>5, <1>6, Zenon

\* An end of file that is taken.
LEMMA EofTaken ==
  ASSUME ConsoleInv, NEW p \in Readers, NEW n, Takes(p, n), EOF \in Range(Segment(r, r'))
  PROVE  Segment(r, r') = <<EOF>> /\ rd[p].got = 0 /\ rd'[p] # rd[p]
<1>1. PICK k \in 1..Minus(r', r) : buf[Slot(r + k - 1)] = EOF
  BY Zenon DEF Range, Segment
<1>2. /\ n \in 0..Minus(w, r) /\ r' = Plus(r, n) /\ rd[p].at = "lock"
      /\ \A j \in 1..n : buf[Slot(r + j - 1)] = EOF => n = 1 /\ rd[p].got = 0 /\ rd' = [rd EXCEPT ![p] = Idle]
  BY Zenon DEF Takes
<1>3. Minus(r', r) = n
  <2>1. r \in Index /\ w \in Index
    BY Zenon DEF ConsoleInv, RingInv
  <2>2. Minus(Plus(r, n), r) = n
    BY <1>2, <2>1, Forward, Zenon
  <2> QED
    BY <1>2, <2>2, Zenon
<1>4. n = 1 /\ rd[p].got = 0 /\ rd' = [rd EXCEPT ![p] = Idle]
  BY <1>1, <1>2, <1>3, Zenon
<1>5. k = 1
  BY <1>1, <1>3, <1>4
<1>6. Segment(r, r') = <<EOF>>
  <2>1. Segment(r, r') = [i \in 1..1 |-> buf[Slot(r + i - 1)]] /\ buf[Slot(r + 1 - 1)] = EOF
    BY <1>1, <1>3, <1>4, <1>5, Zenon DEF Segment
  <2> QED
    BY <2>1
<1>7. rd'[p] # rd[p]
  <2>1. rd'[p] = Idle
    BY <1>4, Zenon DEF ConsoleInv, ReadersInv
  <2>2. Idle.at = "idle" /\ "idle" # "lock"
    BY DEF Idle
  <2> QED
    BY <1>2, <2>1, <2>2, Zenon
<1> QED
  BY <1>4, <1>6, <1>7, Zenon

\* What can change the ring.
LEMMA RingSteps ==
  ASSUME [Next]_vars
  PROVE  consoleintr \/ (\E p \in Readers : \E bad \in BOOLEAN : consoleread_loop(p, bad)) \/ UNCHANGED cons
BY Zenon DEF Next, Interrupt, Writing, vars, uartintr, uartintr_tx, uartintr_end, uartputc_sync, transmit,
   receive, consoleread, kkill, consolewrite, uartwrite, uartwrite_sleep, consolewrite_batch

\* No end of file is taken where nothing is.
LEMMA NothingTaken ==
  ASSUME ConsoleInv, r' = r
  PROVE  EOF \notin Range(Segment(r, r'))
<1>1. 1..Minus(r', r) = {}
  <2>1. r \in Index
    BY Zenon DEF ConsoleInv, RingInv
  <2> QED
    BY <2>1, MinusIs DEF Index
<1> QED
  BY <1>1, Zenon DEF Range, Segment

\* A call of consoleread() preserves the invariant.
LEMMA Inv_consoleread ==
  ASSUME ConsoleInv, NEW p \in Readers, consoleread(p)
  PROVE  ConsoleInv'
<1>1. UNCHANGED <<buf, r, w, e, tx_busy, wr, intr, rx, tx, thre>>
  BY Zenon DEF consoleread, uart, cons
<1>2. PICK n \in ReadSizes : rd' = [rd EXCEPT ![p] = [Idle EXCEPT !.at = "lock", !.n = n]]
  BY Zenon DEF consoleread
<1> DEFINE z == [Idle EXCEPT !.at = "lock", !.n = n]
<1>3. z \in [at : {"idle", "lock", "sleep"}, n : Nat, got : Nat, killed : BOOLEAN] /\ z.at # "sleep"
  BY ConsoleAssumption, Zenon DEF Idle
<1>4. rd' = [rd EXCEPT ![p] = z]
  BY <1>2, Zenon
<1> HIDE DEF z
<1>5. ReadersInv'
  BY <1>1, <1>3, <1>4, Zenon DEF ConsoleInv, ReadersInv, ReaderHasCause
<1> QED
  BY <1>1, <1>5, PartsKept, Zenon DEF ConsoleInv, cons

\* Killing a reader preserves the invariant.
LEMMA Inv_kkill ==
  ASSUME ConsoleInv, NEW p \in Readers, kkill(p)
  PROVE  ConsoleInv'
<1>1. UNCHANGED <<buf, r, w, e, tx_busy, wr, intr, rx, tx, thre>>
  BY Zenon DEF kkill, uart, cons
<1>2. rd[p] \in [at : {"idle", "lock", "sleep"}, n : Nat, got : Nat, killed : BOOLEAN]
  BY Zenon DEF ConsoleInv, ReadersInv
<1> DEFINE z == [rd[p] EXCEPT !.killed = TRUE, !.at = IF rd[p].at = "sleep" THEN "lock" ELSE rd[p].at]
<1>3. z \in [at : {"idle", "lock", "sleep"}, n : Nat, got : Nat, killed : BOOLEAN] /\ z.at # "sleep"
  BY <1>2, Zenon
<1>4. rd' = [rd EXCEPT ![p] = z]
  BY <1>2, Zenon DEF kkill, ConsoleInv, ReadersInv
<1> HIDE DEF z
<1>5. ReadersInv'
  BY <1>1, <1>3, <1>4, Zenon DEF ConsoleInv, ReadersInv, ReaderHasCause
<1> QED
  BY <1>1, <1>5, PartsKept, Zenon DEF ConsoleInv, cons

-----------------------------------------------------------------------------
(* The initial state, and the UART.                                        *)

\* The initial state satisfies the invariant.
LEMMA Inv_Init ==
  ASSUME Init
  PROVE  ConsoleInv
<1> USE DEF Init
<1>1. 0 \in Index /\ Minus(0, 0) = 0 /\ 0 + 0 <= INPUT_BUF_SIZE /\ 1..0 = {}
  <2>1. 0 \in Index
    BY Sizes DEF Index
  <2> QED
    BY <2>1, MinusIs, Sizes DEF Index
<1>2. buf \in Buffers
  BY Zenon DEF Buffers, Stored
<1>3. RingInv
  BY <1>1, <1>2, Zenon DEF RingInv, InRing
<1>4. ReadersInv
  BY DEF ReadersInv, ReaderHasCause, Idle
<1>5. WritersInv
  BY DEF WritersInv, NoWrite
<1>6. UartInv
  <2>1. <<>> # <<"user">> /\ <<>> # <<"echo", "user">>
    OBVIOUS
  <2> QED
    BY <2>1, Zenon DEF UartInv
<1>7. HandlerInv
  <2>1. intr \in [at : {"idle", "tx", "rx", "echo"}, echo : Nat] /\ intr.at # "echo"
    BY SMT
  <2>2. rx \in Seq(Keys)
    BY SeqEmpty, Zenon
  <2> QED
    BY <2>1, <2>2, Zenon DEF HandlerInv
<1>8. WriterSignalled
  BY DEF WriterSignalled, NoWrite
<1> QED
  BY <1>3, <1>4, <1>5, <1>6, <1>7, <1>8, Zenon DEF ConsoleInv

\* The initial ring is an initial terminal.
LEMMA Terminal_Init ==
  ASSUME Init
  PROVE  T!Init
<1>1. Minus(0, 0) = 0
  <2>1. 0 \in Index
    BY Sizes DEF Index
  <2> QED
    BY <2>1, MinusIs DEF Index
<1>2. Entries(buf, 0, 0) \in Seq(Stored) /\ Len(Entries(buf, 0, 0)) = 0
  <2>1. 0 \in Index
    BY Sizes DEF Index
  <2>2. buf \in Buffers
    BY Zenon DEF Init, Buffers, Stored
  <2> QED
    BY <1>1, <2>1, <2>2, EntriesAre, Zenon
<1>3. 0 \notin Nat \ {0}
  OBVIOUS
<1>4. Entries(buf, 0, 0) = <<>>
  BY <1>2, <1>3, SeqEmpty, Zenon
<1>5. Segment(w, e) = Entries(buf, 0, 0) /\ Segment(r, w) = Entries(buf, 0, 0)
  <2>1. w = 0 /\ e = 0 /\ r = 0
    BY Zenon DEF Init
  <2>2. Segment(w, e) = Entries(buf, w, e) /\ Segment(r, w) = Entries(buf, r, w)
    BY Zenon DEF Segment, Entries
  <2> QED
    BY <2>1, <2>2, Zenon
<1> QED
  BY <1>4, <1>5, Zenon DEF T!Init

\* The characters of uartwrite() in the UART.
SentByUser == {i \in DOMAIN tx : tx[i] = "user"}

LEMMA InUart ==
  ASSUME ConsoleInv
  PROVE  /\ SentByUser \in {{}, {1}, {2}} /\ (SentByUser # {} => tx_busy)
         /\ tx \in Seq({"user", "echo"}) /\ Len(tx) <= 2
<1>1. \/ tx = <<>> /\ SentByUser = {}
      \/ tx = <<"user">> /\ SentByUser = {1}
      \/ tx = <<"echo">> /\ SentByUser = {}
      \/ tx = <<"echo", "user">> /\ SentByUser = {2}
  <2>1. tx = <<>> => SentByUser = {}
    BY DEF SentByUser
  <2>2. tx = <<"user">> => SentByUser = {1}
    BY DEF SentByUser
  <2>3. tx = <<"echo">> => SentByUser = {}
    BY DEF SentByUser
  <2>4. tx = <<"echo", "user">> => SentByUser = {2}
    BY DEF SentByUser
  <2> QED
    BY <2>1, <2>2, <2>3, <2>4, Zenon DEF ConsoleInv, UartInv
<1>2. tx \in Seq({"user", "echo"}) /\ Len(tx) <= 2
  <2>1. tx = <<>> => tx \in Seq({"user", "echo"}) /\ Len(tx) <= 2
    OBVIOUS
  <2>2. tx = <<"user">> => tx \in Seq({"user", "echo"}) /\ Len(tx) <= 2
    OBVIOUS
  <2>3. tx = <<"echo">> => tx \in Seq({"user", "echo"}) /\ Len(tx) <= 2
    OBVIOUS
  <2>4. tx = <<"echo", "user">> => tx \in Seq({"user", "echo"}) /\ Len(tx) <= 2
    OBVIOUS
  <2> QED
    BY <1>1, <2>1, <2>2, <2>3, <2>4, Zenon
<1>3. SentByUser # {} => tx_busy
  BY <1>1, Zenon DEF ConsoleInv, UartInv
<1> QED
  BY <1>1, <1>2, <1>3, Zenon

-----------------------------------------------------------------------------
(* What a read takes.                                                      *)

Sets == INSTANCE FiniteSetTheorems

\* IsFiniteSet and Cardinality are those of the library's theorems.
LEMMA SameSets ==
  \A S : (IsFiniteSet(S) <=> Sets!IsFiniteSet(S)) /\ Cardinality(S) = Sets!Cardinality(S)
BY Zenon DEF IsFiniteSet, Sets!IsFiniteSet, Cardinality, Sets!Cardinality

\* Min of a set of naturals is the least of them.
LEMMA MinOfNaturals == MinIsLeast
<1> SUFFICES ASSUME NEW S \in SUBSET Nat, S # {}
             PROVE  Min(S) \in S /\ \A y \in S : Min(S) <= y
  BY Zenon DEF MinIsLeast
<1>1. PICK x \in S : \A y \in S : <<y, x>> \notin Sets!OpToRel(<, Nat)
  BY Sets!NatLessThanWellFounded, Sets!WFMin, Zenon
<1>2. ASSUME NEW y \in S
      PROVE  x <= y
  <2>1. ~(y < x)
    BY <1>1, Zenon DEF Sets!OpToRel
  <2> QED
    BY <2>1
<1> QED
  BY <1>2, Zenon DEF Min

\* Taken, from what Min is.
LEMMA Taken ==
  ASSUME ConsoleInv, NEW p \in Readers, NEW bad \in BOOLEAN, consoleread_loop(p, bad)
  PROVE  \E n : Takes(p, n)
BY TakenBefore, MinOfNaturals, Zenon

\* A read preserves the invariant.
LEMMA Inv_consoleread_loop ==
  ASSUME ConsoleInv, NEW p \in Readers, NEW bad \in BOOLEAN, consoleread_loop(p, bad)
  PROVE  ConsoleInv'
<1>1. UNCHANGED <<tx_busy, wr, intr, rx, tx, thre>>
  BY Zenon DEF consoleread_loop, uart
<1>2. PICK n : Takes(p, n)
  BY Taken, Zenon
<1>3. RingInv' /\ ReadersInv'
  BY <1>2, RingRead, Zenon
<1> QED
  BY <1>1, <1>3, PartsKept, Zenon DEF ConsoleInv

-----------------------------------------------------------------------------
(* The invariant, and what follows from it.                                *)

\* Every step, and every step that changes nothing, preserves the invariant.
LEMMA Inv_Next ==
  ASSUME ConsoleInv, [Next]_vars
  PROVE  ConsoleInv'
<1>1. CASE Interrupt
  BY <1>1, Inv_uartintr, Inv_uartintr_tx, Inv_uartintr_end, Inv_consoleintr, Inv_uartputc_sync, Zenon DEF Interrupt
<1>2. CASE transmit \/ \E c \in Keys : receive(c)
  BY <1>2, Inv_transmit, Inv_receive, Zenon
<1>3. CASE \E p \in Readers : consoleread(p) \/ kkill(p) \/ \E bad \in BOOLEAN : consoleread_loop(p, bad)
  BY <1>3, Inv_consoleread, Inv_kkill, Inv_consoleread_loop, Zenon
<1>4. CASE \E p \in Writers : consolewrite(p) \/ Writing(p)
  BY <1>4, Inv_consolewrite, Inv_uartwrite_sleep, Inv_uartwrite, Zenon DEF Writing
<1>5. CASE UNCHANGED vars
  BY <1>5, PartsKept, Zenon DEF vars, cons, uart, ConsoleInv
<1> QED
  BY <1>1, <1>2, <1>3, <1>4, <1>5, Zenon DEF Next

\* The invariant holds throughout.
THEOREM ConsoleInvariant == Spec => []ConsoleInv
BY Inv_Init, Inv_Next, PTL DEF Spec

\* The ring of console.c, of any size and with uint indices that wrap around at
\* any multiple of it, is a line editor: it implements Terminal.
THEOREM ConsoleIsTerminal == Spec => TerminalInput
<1>1. Init => T!Init
  BY Terminal_Init, Zenon
<1>2. ConsoleInv /\ [Next]_vars => [T!Next]_<<Segment(w, e), Segment(r, w)>>
  <2> SUFFICES ASSUME ConsoleInv, [Next]_vars
               PROVE  T!Next \/ UNCHANGED <<Segment(w, e), Segment(r, w)>>
    BY Zenon
  <2> QED
    BY RingSteps, Taken, Refines_consoleintr, Refines_Takes, TerminalKept, Zenon
<1> QED
  BY <1>1, <1>2, ConsoleInvariant, PTL DEF Spec, TerminalInput, T!Spec

\* An end of file is used up only by a read that returns nothing: consoleread()
\* leaves it where it is after other characters, whatever the sizes of the reads.
THEOREM EndOfFileRead == Spec => EofIsZeroRead
<1>1. ConsoleInv /\ [Next]_vars =>
        [(EOF \in Range(Segment(r, r'))) =>
            \E p \in Readers : Segment(r, r') = <<EOF>> /\ rd[p].got = 0 /\ rd'[p] # rd[p]]_vars
  <2> SUFFICES ASSUME ConsoleInv, [Next]_vars, EOF \in Range(Segment(r, r'))
               PROVE  \E p \in Readers : Segment(r, r') = <<EOF>> /\ rd[p].got = 0 /\ rd'[p] # rd[p]
    BY Zenon
  <2>1. r' # r
    BY NothingTaken, Zenon
  <2>2. PICK p \in Readers : \E bad \in BOOLEAN : consoleread_loop(p, bad)
    BY <2>1, RingSteps, Zenon DEF consoleintr, cons
  <2>3. PICK n : Takes(p, n)
    BY <2>2, Taken, Zenon
  <2> QED
    BY <2>3, EofTaken, Zenon
<1> QED
  BY <1>1, ConsoleInvariant, PTL DEF Spec, EofIsZeroRead

\* What is in the UART when the invariant holds.
LEMMA TxIs ==
  ASSUME ConsoleInv
  PROVE  TxBusyKnown /\ tx \in Seq({"user", "echo"})
<1>1. Cardinality({}) = 0 /\ Cardinality({1}) = 1 /\ Cardinality({2}) = 1
  BY SameSets, Sets!FS_EmptySet, Sets!FS_Singleton, Zenon
<1>2. 0 <= 1 /\ 1 <= 1
  OBVIOUS
<1>3. Cardinality(SentByUser) <= 1
  BY <1>1, <1>2, InUart, Zenon
<1> QED
  BY <1>3, InUart, Zenon DEF TxBusyKnown, SentByUser

\* tx_busy, tx_chan and the interrupts of the UART, and cons.r and the readers
\* that sleep on it, fit together: for rings, batches and writes of any size,
\* any number of processes and any typing, no wakeup is lost and the transmitter
\* never has two characters of uartwrite().
THEOREM ConsoleHandshakes == Spec => []HandshakesKept
<1>1. ConsoleInv => HandshakesKept
  <2> SUFFICES ASSUME ConsoleInv
               PROVE  HandshakesKept
    BY Zenon
  <2>1. TxBusyKnown /\ tx \in Seq({"user", "echo"})
    BY TxIs, Zenon
  <2>2. TypeOK
    BY <2>1, Zenon DEF TypeOK, ConsoleInv, RingInv, ReadersInv, WritersInv, UartInv, HandlerInv, Buffers, Index
  <2> QED
    BY <2>1, <2>2, Zenon DEF HandshakesKept, ConsoleInv, ReadersInv
<1> QED
  BY <1>1, ConsoleInvariant, PTL
=============================================================================
