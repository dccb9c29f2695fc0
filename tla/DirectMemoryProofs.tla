------------------------- MODULE DirectMemoryProofs -------------------------
(***************************************************************************)
(* The free list of DirectMemory never loses a page nor hands one out      *)
(* twice until a length is read wrong, and implements the pool of pages    *)
(* so far, for any size, any requests and any number of threads, whole     *)
(* releases or not; it refuses and counts rightly; every release mends the *)
(* list, damaged or not; and DirectMap leaves all that as it is.           *)
(* A mapping, an unmapping and a batch of any length move exactly the      *)
(* virtual addresses they name to the physical ones they name.             *)
(***************************************************************************)
EXTENDS DirectMap, TLAPS, FiniteSetTheorems, WellFoundedInduction

IInv == TypeOK /\ PoolIsPartitioned /\ (~misread => InOrder(free))

PagesIn(list) == UNION {PagesOf(list[i]) : i \in DOMAIN list}

(* The pages of a range are those from its start to before its end.        *)
LEMMA PagesOfRange ==
  ASSUME NEW f, f.start \in Int, f.len \in Int, NEW n
  PROVE  n \in PagesOf(f) <=> n \in Int /\ f.start <= n /\ n < f.start + f.len
  BY DEF PagesOf, End

(* What a range of the list is, in numbers.                                *)
LEMMA ListedNumbers ==
  ASSUME NEW f \in DmemRange
  PROVE  /\ f.start \in Nat /\ f.len \in Nat \ {0} /\ End(f) \in Nat
         /\ End(f) = f.start + f.len /\ f.start < End(f)
         /\ f = [start |-> f.start, len |-> f.len]
  BY DEF DmemRange, End

(* What a range of existing memory is, in numbers.                         *)
LEMMA RangeNumbers ==
  ASSUME NEW f \in PageRange
  PROVE  /\ f.start \in Nat /\ f.len \in Nat \ {0}
         /\ End(f) = f.start + f.len /\ End(f) \in Nat /\ End(f) <= Limit
         /\ PagesOf(f) \subseteq Pages
         /\ f = [start |-> f.start, len |-> f.len] /\ f \in DmemRange
  BY SizesAssumption DEF PageRange, Pages, End, PagesOf, DmemRange

(* How a range is made.                                                    *)
LEMMA MakeRange ==
  ASSUME NEW a \in Nat, NEW n \in Nat \ {0}, a + n <= Limit
  PROVE  [start |-> a, len |-> n] \in PageRange
  BY SizesAssumption DEF PageRange, Pages

(* The pages of a list, one by one.                                        *)
LEMMA ListPages ==
  ASSUME NEW list \in Seq(DmemRange), NEW n
  PROVE  n \in PagesIn(list) <=>
           n \in Int /\ \E i \in 1 .. Len(list) : list[i].start <= n /\ n < End(list[i])
<1>1. DOMAIN list = 1 .. Len(list) /\ \A i \in 1 .. Len(list) : list[i] \in DmemRange
  OBVIOUS
<1>2. \A i \in 1 .. Len(list) :
        n \in PagesOf(list[i]) <=> n \in Int /\ list[i].start <= n /\ n < End(list[i])
  BY <1>1, ListedNumbers DEF PagesOf
<1>3. n \in PagesIn(list) <=> \E i \in 1 .. Len(list) : n \in PagesOf(list[i])
  BY <1>1 DEF PagesIn
<1> QED  BY <1>2, <1>3

(* The free list is such a list.                                           *)
LEMMA UnusedPages == Unused = PagesIn(free)
  BY DEF Unused, PagesIn

-----------------------------------------------------------------------------
(* What is where in two lists put together.                                *)
LEMMA BothParts ==
  ASSUME NEW S, NEW a \in Seq(S), NEW b \in Seq(S)
  PROVE  /\ a \o b \in Seq(S) /\ Len(a \o b) = Len(a) + Len(b)
         /\ \A j \in 1 .. Len(a) : (a \o b)[j] = a[j]
         /\ \A j \in 1 .. Len(b) : (a \o b)[Len(a) + j] = b[j]
         /\ \A j \in Len(a) + 1 .. Len(a) + Len(b) : (a \o b)[j] = b[j - Len(a)]
<1>1. /\ a \o b \in Seq(S) /\ Len(a \o b) = Len(a) + Len(b)
      /\ Len(a) \in Nat /\ Len(b) \in Nat
      /\ \A j \in 1 .. Len(a) : (a \o b)[j] = a[j]
      /\ \A j \in 1 .. Len(b) : (a \o b)[Len(a) + j] = b[j]
  OBVIOUS
<1>2. ASSUME NEW j \in Len(a) + 1 .. Len(a) + Len(b) PROVE (a \o b)[j] = b[j - Len(a)]
  <2>1. j - Len(a) \in 1 .. Len(b) /\ Len(a) + (j - Len(a)) = j
    BY <1>1
  <2> QED  BY <1>1, <2>1
<1> QED  BY <1>1, <1>2

(* The list with one of its ranges replaced by others.                     *)
LEMMA ReplacedIs ==
  ASSUME free \in Seq(DmemRange), NEW i \in 1 .. Len(free), NEW parts \in Seq(DmemRange)
  PROVE  LET k == Len(parts)  n == Len(free) IN
         /\ Replaced(i, parts) \in Seq(DmemRange)
         /\ Len(Replaced(i, parts)) = n - 1 + k
         /\ \A j \in 1 .. n - 1 + k : Replaced(i, parts)[j] =
              IF j < i THEN free[j] ELSE IF j < i + k THEN parts[j - i + 1] ELSE free[j - k + 1]
<1> DEFINE k == Len(parts)
           n == Len(free)
           before == SubSeq(free, 1, i - 1)
           behind == SubSeq(free, i + 1, n)
           both == before \o parts
<1>1. k \in Nat /\ n \in Nat /\ i \in Int /\ 1 <= i /\ i <= n
  OBVIOUS
<1>2. /\ before \in Seq(DmemRange) /\ Len(before) = i - 1
      /\ \A j \in 1 .. i - 1 : before[j] = free[j]
  BY <1>1
<1>3. /\ behind \in Seq(DmemRange) /\ Len(behind) = n - i
      /\ \A j \in 1 .. n - i : behind[j] = free[i + j]
  BY <1>1
<1> HIDE DEF before, behind
<1>4. /\ both \in Seq(DmemRange) /\ Len(both) = i - 1 + k
      /\ \A j \in 1 .. i - 1 + k : both[j] = IF j < i THEN free[j] ELSE parts[j - i + 1]
  <2>1. /\ both \in Seq(DmemRange) /\ Len(both) = i - 1 + k
        /\ \A j \in 1 .. i - 1 : both[j] = before[j]
        /\ \A j \in i - 1 + 1 .. i - 1 + k : both[j] = parts[j - (i - 1)]
    <3>1. /\ both \in Seq(DmemRange) /\ Len(both) = Len(before) + k
          /\ \A j \in 1 .. Len(before) : both[j] = before[j]
          /\ \A j \in Len(before) + 1 .. Len(before) + k : both[j] = parts[j - Len(before)]
      BY <1>2, BothParts
    <3> HIDE DEF both, k
    <3> QED  BY <1>2, <3>1
  <2>2. ASSUME NEW j \in 1 .. i - 1 + k
        PROVE  both[j] = IF j < i THEN free[j] ELSE parts[j - i + 1]
    <3>1. CASE j < i
      <4>1. j \in 1 .. i - 1  BY <1>1, <3>1
      <4> QED  BY <1>2, <2>1, <3>1, <4>1
    <3>2. CASE ~ (j < i)
      <4>1. j \in i - 1 + 1 .. i - 1 + k /\ j - (i - 1) = j - i + 1  BY <1>1, <3>2
      <4> QED  BY <2>1, <3>2, <4>1
    <3> QED  BY <3>1, <3>2
  <2> QED  BY <2>1, <2>2
<1>5. Replaced(i, parts) = both \o behind
  BY DEF Replaced, before, behind
<1> HIDE DEF both
<1>6. /\ both \o behind \in Seq(DmemRange) /\ Len(both \o behind) = n - 1 + k
      /\ \A j \in 1 .. n - 1 + k : (both \o behind)[j] =
           IF j < i + k THEN both[j] ELSE behind[j - (i - 1 + k)]
  <2>1. /\ both \o behind \in Seq(DmemRange) /\ Len(both \o behind) = i - 1 + k + (n - i)
        /\ \A j \in 1 .. i - 1 + k : (both \o behind)[j] = both[j]
        /\ \A j \in i - 1 + k + 1 .. i - 1 + k + (n - i) :
             (both \o behind)[j] = behind[j - (i - 1 + k)]
    <3> DEFINE all == both \o behind
    <3>1. /\ all \in Seq(DmemRange) /\ Len(all) = Len(both) + Len(behind)
          /\ \A j \in 1 .. Len(both) : all[j] = both[j]
          /\ \A j \in Len(both) + 1 .. Len(both) + Len(behind) : all[j] = behind[j - Len(both)]
      <4>1. both \in Seq(DmemRange) /\ behind \in Seq(DmemRange)
        BY <1>3, <1>4
      <4> QED  BY <4>1, BothParts
    <3> HIDE DEF all, k, n
    <3>2. /\ all \in Seq(DmemRange) /\ Len(all) = i - 1 + k + (n - i)
          /\ \A j \in 1 .. i - 1 + k : all[j] = both[j]
          /\ \A j \in i - 1 + k + 1 .. i - 1 + k + (n - i) : all[j] = behind[j - (i - 1 + k)]
      BY <1>3, <1>4, <3>1
    <3> QED  BY <3>2 DEF all
  <2>2. i - 1 + k + (n - i) = n - 1 + k
    BY <1>1
  <2>3. ASSUME NEW j \in 1 .. n - 1 + k
        PROVE  (both \o behind)[j] = IF j < i + k THEN both[j] ELSE behind[j - (i - 1 + k)]
    <3>1. CASE j < i + k
      <4>1. j \in 1 .. i - 1 + k  BY <1>1, <3>1
      <4> QED  BY <2>1, <3>1, <4>1
    <3>2. CASE ~ (j < i + k)
      <4>1. j \in i - 1 + k + 1 .. i - 1 + k + (n - i)  BY <1>1, <3>2
      <4> QED  BY <2>1, <3>2, <4>1
    <3> QED  BY <3>1, <3>2
  <2> QED  BY <2>1, <2>2, <2>3
<1>7. ASSUME NEW j \in 1 .. n - 1 + k
      PROVE  (both \o behind)[j] =
               IF j < i THEN free[j] ELSE IF j < i + k THEN parts[j - i + 1] ELSE free[j - k + 1]
  <2>1. CASE j < i + k
    <3>1. j \in 1 .. i - 1 + k  BY <1>1, <2>1
    <3> QED  BY <1>1, <1>4, <1>6, <2>1, <3>1
  <2>2. CASE ~ (j < i + k)
    <3>1. j - (i - 1 + k) \in 1 .. n - i /\ i + (j - (i - 1 + k)) = j - k + 1 /\ ~ (j < i)
      BY <1>1, <2>2
    <3> QED  BY <1>3, <1>6, <2>2, <3>1
  <2> QED  BY <2>1, <2>2
<1> QED  BY <1>5, <1>6, <1>7

(* A piece of a range, or none.                                            *)
LEMMA PieceIs ==
  ASSUME NEW a \in Nat, NEW n \in Int
  PROVE  /\ Piece(a, n) \in Seq(DmemRange)
         /\ n > 0 => /\ Len(Piece(a, n)) = 1 /\ Piece(a, n)[1].start = a
                     /\ End(Piece(a, n)[1]) = a + n
         /\ ~ (n > 0) => Piece(a, n) = <<>>
<1> DEFINE r == [start |-> a, len |-> n]
<1>1. CASE n > 0
  <2>1. r \in DmemRange /\ r.start = a /\ End(r) = a + n  BY <1>1 DEF DmemRange, End
  <2>2. Piece(a, n) = <<r>>  BY <1>1 DEF Piece
  <2> HIDE DEF r
  <2> QED  BY <1>1, <2>1, <2>2
<1>2. CASE ~ (n > 0)
  BY <1>2 DEF Piece
<1> QED  BY <1>1, <1>2

(* What Fits says, in numbers.                                             *)
LEMMA FitsNumbers ==
  ASSUME NEW f \in DmemRange, NEW p \in Pages, NEW q \in Requests, Fits(f, p, q)
  PROVE  /\ q.len \in Nat \ {0} /\ p \in Nat
         /\ f.start <= p /\ p + q.len <= End(f) /\ p + q.len <= Limit
<1>1. q.len \in Nat \ {0} /\ p \in Nat /\ Limit \in Nat
  BY SizesAssumption, RequestsAssumption DEF Pages
<1>2. Hi(q) \in Nat /\ Hi(q) <= Limit
  BY <1>1, RequestsAssumption DEF Hi
<1> QED  BY <1>1, <1>2, ListedNumbers DEF Fits, Lesser

(* Cutting the pages asked for out of a range leaves ranges, however its   *)
(* length is read.                                                         *)
LEMMA LeftIsListed ==
  ASSUME NEW f \in DmemRange, NEW p \in Nat, NEW len \in Nat \ {0}, f.start <= p,
         NEW seen \in Int
  PROVE  Left(f, p, len, seen) \in Seq(DmemRange)
<1>1. f.start \in Nat /\ p - f.start \in Int /\ p + len \in Nat /\ seen - len \in Int
  BY ListedNumbers
<1>2. /\ Piece(f.start, p - f.start) \in Seq(DmemRange)
      /\ Piece(p + len, seen - len) \in Seq(DmemRange)
  BY <1>1, PieceIs
<1> QED  BY <1>2 DEF Left

(* Read rightly, it leaves the other pages, in order.                      *)
LEMMA LeftPages ==
  ASSUME NEW f \in DmemRange, NEW p \in Nat, NEW len \in Nat \ {0}, f.start <= p,
         p + len <= End(f)
  PROVE  LET parts == Left(f, p, len, End(f) - p) IN
         /\ parts \in Seq(DmemRange)
         /\ \A n \in Int : (\E i \in 1 .. Len(parts) : parts[i].start <= n /\ n < End(parts[i]))
                             <=> f.start <= n /\ n < End(f) /\ ~ (p <= n /\ n < p + len)
         /\ \A i \in 1 .. Len(parts) : f.start <= parts[i].start /\ End(parts[i]) <= End(f)
         /\ \A i, j \in 1 .. Len(parts) : i < j => End(parts[i]) < parts[j].start
<1> DEFINE a == Piece(f.start, p - f.start)
           b == Piece(p + len, (End(f) - p) - len)
           parts == Left(f, p, len, End(f) - p)
           Good(s) ==
             /\ \A n \in Int : (\E i \in 1 .. Len(s) : s[i].start <= n /\ n < End(s[i]))
                                 <=> f.start <= n /\ n < End(f) /\ ~ (p <= n /\ n < p + len)
             /\ \A i \in 1 .. Len(s) : f.start <= s[i].start /\ End(s[i]) <= End(f)
             /\ \A i, j \in 1 .. Len(s) : i < j => End(s[i]) < s[j].start
<1>1. /\ f.start \in Nat /\ End(f) \in Nat /\ p - f.start \in Int /\ p + len \in Nat
      /\ End(f) - p \in Int /\ (End(f) - p) - len \in Int
      /\ f.start + (p - f.start) = p /\ p + len + ((End(f) - p) - len) = End(f)
  BY ListedNumbers
<1>0. f.start \in Int /\ End(f) \in Int /\ p \in Int /\ len \in Int /\ 0 < len /\ p + len <= End(f)
  BY <1>1
<1>2. parts = a \o b
  BY DEF Left
<1>3. /\ a \in Seq(DmemRange)
      /\ f.start < p => Len(a) = 1 /\ a[1].start = f.start /\ End(a[1]) = p
      /\ ~ (f.start < p) => a = <<>>
  <2>1. p - f.start > 0 <=> f.start < p
    BY <1>1
  <2> QED  BY <1>1, <2>1, PieceIs
<1>4. /\ b \in Seq(DmemRange)
      /\ p + len < End(f) => Len(b) = 1 /\ b[1].start = p + len /\ End(b[1]) = End(f)
      /\ ~ (p + len < End(f)) => b = <<>>
  <2>1. (End(f) - p) - len > 0 <=> p + len < End(f)
    BY <1>1
  <2> QED  BY <1>1, <2>1, PieceIs
<1> HIDE DEF a, b, parts
<1>5. parts \in Seq(DmemRange)
  BY <1>2, <1>3, <1>4
<1>6. CASE f.start < p /\ p + len < End(f)
  <2>1. Len(parts) = 2 /\ parts[1] = a[1] /\ parts[2] = b[1]
    BY <1>2, <1>3, <1>4, <1>6
  <2>2. \A i : i \in 1 .. 2 <=> i = 1 \/ i = 2
    OBVIOUS
  <2>3. /\ parts[1].start = f.start /\ End(parts[1]) = p
        /\ parts[2].start = p + len /\ End(parts[2]) = End(f)
    BY <1>3, <1>4, <1>6, <2>1
  <2>4. Good(parts)
    <3>1. \A n : (\E i \in 1 .. Len(parts) : parts[i].start <= n /\ n < End(parts[i]))
                   <=> \/ parts[1].start <= n /\ n < End(parts[1])
                       \/ parts[2].start <= n /\ n < End(parts[2])
      BY <2>1, <2>2
    <3>2. \A i, j \in 1 .. Len(parts) : i < j => i = 1 /\ j = 2
      BY <2>1, <2>2
    <3> QED  BY <1>1, <1>6, <2>1, <2>2, <2>3, <3>1, <3>2
  <2> QED  BY <1>5, <2>4 DEF parts
<1>7. CASE f.start < p /\ ~ (p + len < End(f))
  <2>1. Len(parts) = 1 /\ parts[1] = a[1]
    BY <1>2, <1>3, <1>4, <1>7
  <2>2. \A i : i \in 1 .. 1 <=> i = 1
    OBVIOUS
  <2>3. parts[1].start = f.start /\ End(parts[1]) = p
    BY <1>3, <1>7, <2>1
  <2>4. Good(parts)
    <3>1. \A n : (\E i \in 1 .. Len(parts) : parts[i].start <= n /\ n < End(parts[i]))
                   <=> parts[1].start <= n /\ n < End(parts[1])
      BY <2>1, <2>2
    <3>2. \A n \in Int : (parts[1].start <= n /\ n < End(parts[1]))
                           <=> f.start <= n /\ n < End(f) /\ ~ (p <= n /\ n < p + len)
      <4>1. \A n \in Int : n < p <=> n < End(f) /\ ~ (p <= n /\ n < p + len)
        BY <1>0, <1>7
      <4> QED  BY <2>3, <4>1
    <3>3. f.start <= parts[1].start /\ End(parts[1]) <= End(f)
      <4>1. f.start <= f.start /\ p <= End(f)
        BY <1>0
      <4> QED  BY <2>3, <4>1
    <3>4. \A i, j \in 1 .. Len(parts) : ~ (i < j)
      BY <2>1
    <3> QED  BY <2>1, <2>2, <3>1, <3>2, <3>3, <3>4
  <2> QED  BY <1>5, <2>4 DEF parts
<1>8. CASE ~ (f.start < p) /\ p + len < End(f)
  <2>1. Len(parts) = 1 /\ parts[1] = b[1]
    <3>1. a = <<>> /\ b \in Seq(DmemRange) /\ Len(b) = 1  BY <1>3, <1>4, <1>8
    <3>2. <<>> \o b = b  BY <3>1
    <3> QED  BY <1>2, <3>1, <3>2
  <2>2. \A i : i \in 1 .. 1 <=> i = 1
    OBVIOUS
  <2>3. parts[1].start = p + len /\ End(parts[1]) = End(f)
    BY <1>4, <1>8, <2>1
  <2>4. Good(parts)
    <3>1. \A n : (\E i \in 1 .. Len(parts) : parts[i].start <= n /\ n < End(parts[i]))
                   <=> parts[1].start <= n /\ n < End(parts[1])
      BY <2>1, <2>2
    <3>2. \A n \in Int : (parts[1].start <= n /\ n < End(parts[1]))
                           <=> f.start <= n /\ n < End(f) /\ ~ (p <= n /\ n < p + len)
      BY <1>1, <1>8, <2>3
    <3>3. f.start <= parts[1].start /\ End(parts[1]) <= End(f)
      BY <1>1, <1>8, <2>3
    <3>4. \A i, j \in 1 .. Len(parts) : ~ (i < j)
      BY <2>1
    <3> QED  BY <2>1, <2>2, <3>1, <3>2, <3>3, <3>4
  <2> QED  BY <1>5, <2>4 DEF parts
<1>9. CASE ~ (f.start < p) /\ ~ (p + len < End(f))
  <2>1. Len(parts) = 0
    BY <1>2, <1>3, <1>4, <1>9
  <2>2. \A i : ~ (i \in 1 .. 0)
    OBVIOUS
  <2>3. Good(parts)
    <3>1. \A n \in Int : ~ (f.start <= n /\ n < End(f) /\ ~ (p <= n /\ n < p + len))
      BY <1>1, <1>9
    <3> QED  BY <2>1, <2>2, <3>1
  <2> QED  BY <1>5, <2>3 DEF parts
<1> QED  BY <1>6, <1>7, <1>8, <1>9

(* A range in order replaced by parts of it in order: the list loses the   *)
(* pages between the parts and stays in order.                             *)
LEMMA ReplacedPages ==
  ASSUME free \in Seq(DmemRange), InOrder(free), NEW i \in 1 .. Len(free),
         NEW parts \in Seq(DmemRange),
         \A m \in 1 .. Len(parts) : free[i].start <= parts[m].start /\ End(parts[m]) <= End(free[i]),
         \A l, m \in 1 .. Len(parts) : l < m => End(parts[l]) < parts[m].start
  PROVE  /\ InOrder(Replaced(i, parts))
         /\ \A n \in Int : n \in PagesIn(Replaced(i, parts)) <=>
              \/ n \in Unused /\ ~ (free[i].start <= n /\ n < End(free[i]))
              \/ \E m \in 1 .. Len(parts) : parts[m].start <= n /\ n < End(parts[m])
<1> DEFINE k == Len(parts)
           N == Len(free)
           R == Replaced(i, parts)
           M == N - 1 + k
<1>1. /\ R \in Seq(DmemRange) /\ Len(R) = M
      /\ \A j \in 1 .. M : R[j] =
           IF j < i THEN free[j] ELSE IF j < i + k THEN parts[j - i + 1] ELSE free[j - k + 1]
  BY ReplacedIs
<1>2. /\ k \in Nat /\ N \in Nat /\ M \in Int /\ i \in 1 .. N /\ M = N - 1 + k
      /\ DOMAIN R = 1 .. M /\ DOMAIN free = 1 .. N
      /\ \A j \in 1 .. N : free[j] \in DmemRange
      /\ \A m \in 1 .. k : parts[m] \in DmemRange
  BY <1>1
<1>3. /\ \A j \in 1 .. N : free[j].start \in Nat /\ End(free[j]) \in Nat /\ free[j].start < End(free[j])
      /\ \A m \in 1 .. k : parts[m].start \in Nat /\ End(parts[m]) \in Nat
      /\ \A j, l \in 1 .. N : j < l => End(free[j]) < free[l].start
  BY <1>2, ListedNumbers DEF InOrder
<1> HIDE DEF k, N, M, R
<1>4. ASSUME NEW j \in 1 .. M
      PROVE  \/ j < i /\ j \in 1 .. N /\ R[j] = free[j]
             \/ i <= j /\ j < i + k /\ j - i + 1 \in 1 .. k /\ R[j] = parts[j - i + 1]
             \/ i + k <= j /\ j - k + 1 \in 1 .. N /\ j - k + 1 > i /\ R[j] = free[j - k + 1]
  <2>1. R[j] = IF j < i THEN free[j] ELSE IF j < i + k THEN parts[j - i + 1] ELSE free[j - k + 1]
    BY <1>1
  <2>2. CASE j < i
    <3>1. j \in 1 .. N  BY <1>2, <2>2
    <3> QED  BY <2>1, <2>2, <3>1
  <2>3. CASE ~ (j < i) /\ j < i + k
    <3>1. i <= j /\ j - i + 1 \in 1 .. k  BY <1>2, <2>3
    <3> QED  BY <2>1, <2>3, <3>1
  <2>4. CASE ~ (j < i) /\ ~ (j < i + k)
    <3>1. i + k <= j /\ j - k + 1 \in 1 .. N /\ j - k + 1 > i  BY <1>2, <2>4
    <3> QED  BY <2>1, <2>4, <3>1
  <2> QED  BY <2>2, <2>3, <2>4
<1>5. ASSUME NEW j \in 1 .. M, NEW l \in 1 .. M, j < l PROVE End(R[j]) < R[l].start
  <2>1. CASE j < i /\ j \in 1 .. N /\ R[j] = free[j]
    <3>1. CASE l < i /\ l \in 1 .. N /\ R[l] = free[l]
      BY <1>3, <1>5, <2>1, <3>1
    <3>2. CASE i <= l /\ l < i + k /\ l - i + 1 \in 1 .. k /\ R[l] = parts[l - i + 1]
      <4>1. End(free[j]) < free[i].start /\ free[i].start <= parts[l - i + 1].start
        BY <1>2, <1>3, <2>1, <3>2 DEF k
      <4> QED  BY <1>2, <1>3, <2>1, <3>2, <4>1
    <3>3. CASE i + k <= l /\ l - k + 1 \in 1 .. N /\ l - k + 1 > i /\ R[l] = free[l - k + 1]
      <4>1. j < l - k + 1  BY <1>2, <2>1, <3>3
      <4> QED  BY <1>3, <2>1, <3>3, <4>1
    <3> QED  BY <1>4, <3>1, <3>2, <3>3
  <2>2. CASE i <= j /\ j < i + k /\ j - i + 1 \in 1 .. k /\ R[j] = parts[j - i + 1]
    <3>1. CASE l < i + k
      <4>1. l - i + 1 \in 1 .. k /\ R[l] = parts[l - i + 1] /\ j - i + 1 < l - i + 1
        BY <1>2, <1>4, <1>5, <2>2, <3>1
      <4> QED  BY <2>2, <4>1 DEF k
    <3>2. CASE ~ (l < i + k)
      <4>1. l - k + 1 \in 1 .. N /\ l - k + 1 > i /\ R[l] = free[l - k + 1]
        BY <1>2, <1>4, <2>2, <3>2
      <4>2. End(free[i]) < free[l - k + 1].start /\ End(parts[j - i + 1]) <= End(free[i])
        BY <1>2, <1>3, <2>2, <4>1 DEF k
      <4> QED  BY <1>2, <1>3, <2>2, <4>1, <4>2
    <3> QED  BY <3>1, <3>2
  <2>3. CASE i + k <= j /\ j - k + 1 \in 1 .. N /\ j - k + 1 > i /\ R[j] = free[j - k + 1]
    <3>1. l - k + 1 \in 1 .. N /\ R[l] = free[l - k + 1] /\ j - k + 1 < l - k + 1
      BY <1>2, <1>4, <1>5, <2>3
    <3> QED  BY <1>3, <2>3, <3>1
  <2> QED  BY <1>4, <2>1, <2>2, <2>3
<1>6. InOrder(R)
  BY <1>2, <1>5 DEF InOrder
<1> DEFINE In(r, n) == r.start <= n /\ n < End(r)
<1>7. \A n \in Int : n \in PagesIn(R) <=> \E j \in 1 .. M : In(R[j], n)
  BY <1>1, ListPages
<1>8. \A n \in Int : n \in Unused <=> \E j \in 1 .. N : In(free[j], n)
  BY <1>2, ListPages, UnusedPages DEF N
<1>9. ASSUME NEW n \in Int, NEW j \in 1 .. N, j # i, In(free[j], n) PROVE ~In(free[i], n)
  BY <1>2, <1>3, <1>9
<1>10. ASSUME NEW n \in Int, NEW j \in 1 .. M, In(R[j], n)
       PROVE  \/ n \in Unused /\ ~In(free[i], n)
              \/ \E m \in 1 .. k : In(parts[m], n)
  <2>1. (\E l \in 1 .. N : l # i /\ R[j] = free[l]) \/ \E m \in 1 .. k : R[j] = parts[m]
    <3>1. j < i => j # i  BY <1>2
    <3>2. j - k + 1 > i => j - k + 1 # i  BY <1>2
    <3> QED  BY <1>4, <3>1, <3>2
  <2> HIDE DEF In
  <2> QED  BY <1>8, <1>9, <1>10, <2>1
<1>11. ASSUME NEW n \in Int, n \in Unused, ~In(free[i], n) PROVE \E j \in 1 .. M : In(R[j], n)
  <2>1. PICK l \in 1 .. N : In(free[l], n) /\ l # i
    BY <1>8, <1>11
  <2>2. CASE l < i
    <3>1. l \in 1 .. M /\ R[l] = free[l]  BY <1>1, <1>2, <2>2
    <3> QED  BY <2>1, <3>1
  <2>3. CASE ~ (l < i)
    <3>1. l + k - 1 \in 1 .. M /\ R[l + k - 1] = free[(l + k - 1) - k + 1] /\ (l + k - 1) - k + 1 = l
      BY <1>1, <1>2, <2>1, <2>3
    <3> QED  BY <2>1, <3>1
  <2> QED  BY <2>2, <2>3
<1>12. ASSUME NEW n \in Int, NEW m \in 1 .. k, In(parts[m], n) PROVE \E j \in 1 .. M : In(R[j], n)
  <2>1. i + m - 1 \in 1 .. M /\ R[i + m - 1] = parts[(i + m - 1) - i + 1] /\ (i + m - 1) - i + 1 = m
    BY <1>1, <1>2
  <2> QED  BY <1>12, <2>1
<1>13. ASSUME NEW n \in Int
       PROVE  n \in PagesIn(R) <=> \/ n \in Unused /\ ~In(free[i], n)
                                   \/ \E m \in 1 .. k : In(parts[m], n)
  <2> HIDE DEF In
  <2> QED  BY <1>7, <1>10, <1>11, <1>12
<1> QED  BY <1>6, <1>13 DEF R, k

-----------------------------------------------------------------------------
(* Induction over the steps of a loop, from the least counterexample: a    *)
(* non-empty set of numbers has a least element.                           *)
Less == {p \in Nat \X Nat : p[1] < p[2]}

(* The library states well-foundedness for a relation: less-than on Nat. *)
LEMMA LessIsWellFounded == IsWellFoundedOn(Less, Nat)
<1>1. OpToRel(<, Nat) = Less
  BY Zenon DEF OpToRel, Less
<1> QED  BY <1>1, NatLessThanWellFounded, Zenon

(* A non-empty set of numbers has a least element. *)
LEMMA LeastElement ==
  ASSUME NEW S \in SUBSET Nat, S # {}
  PROVE  \E m \in S : \A k \in S : m <= k
<1>1. PICK m \in S : \A k \in S : ~ (<<k, m>> \in Less)
  BY LessIsWellFounded, WFMin
<1>2. \A a, b \in Nat : a < b => <<a, b>> \in Less
  BY DEF Less
<1>3. \A k \in S : k \in Nat /\ m \in Nat /\ ~ (k < m)
  BY <1>1, <1>2
<1>4. \A k \in S : m <= k
  BY <1>3
<1> QED  BY <1>4

(* What is so before a loop and after each of its steps is so at its end.  *)
LEMMA UpTo ==
  ASSUME NEW n \in Nat, NEW S, 0 \in S, \A i \in 0 .. n - 1 : i \in S => i + 1 \in S
  PROVE  0 .. n \subseteq S
<1> DEFINE missing == {k \in 0 .. n : k \notin S}
<1> SUFFICES ASSUME missing # {} PROVE FALSE
  OBVIOUS
<1>1. PICK m \in missing : \A k \in missing : m <= k
  <2>1. missing \in SUBSET Nat  OBVIOUS
  <2> HIDE DEF missing
  <2> QED  BY <2>1, LeastElement
<1>2. m - 1 \in 0 .. n - 1 /\ m - 1 \in S
  BY <1>1
<1> QED  BY <1>1, <1>2

(* A loop has its states: f[i] is the one after i steps.                   *)
Iterates(f, n, S, base, step) ==
  f \in [0 .. n -> S] /\ f[0] = base /\ \A i \in 1 .. n : f[i] = step[i][f[i - 1]]

(* A loop of any number of steps runs: by the least step it would not       *)
(* reach.                                                                   *)
LEMMA LoopRuns ==
  ASSUME NEW n \in Nat, NEW S, NEW base \in S, NEW step \in [1 .. n -> [S -> S]]
  PROVE  \E f : Iterates(f, n, S, base, step)
<1> DEFINE reached == {k \in 0 .. n : \E f : Iterates(f, k, S, base, step)}
<1>1. 0 \in reached
  <2> DEFINE f == [i \in 0 .. 0 |-> base]
  <2>1. Iterates(f, 0, S, base, step)  BY DEF Iterates
  <2> HIDE DEF f
  <2>2. 0 \in 0 .. n  OBVIOUS
  <2> QED  BY <2>1, <2>2
<1>2. ASSUME NEW k \in 0 .. n - 1, k \in reached PROVE k + 1 \in reached
  <2>1. PICK f : Iterates(f, k, S, base, step)
    BY <1>2
  <2>2. f \in [0 .. k -> S] /\ f[0] = base /\ \A i \in 1 .. k : f[i] = step[i][f[i - 1]]
    BY <2>1 DEF Iterates
  <2> DEFINE g == [i \in 0 .. k + 1 |-> IF i <= k THEN f[i] ELSE step[k + 1][f[k]]]
  <2>3. f[k] \in S /\ k + 1 \in 1 .. n /\ k + 1 \in 0 .. n
    BY <2>2
  <2>4. step[k + 1][f[k]] \in S
    BY <2>3
  <2>5. g \in [0 .. k + 1 -> S]
    BY <2>2, <2>4
  <2>6. g[0] = base
    BY <2>2
  <2>7. ASSUME NEW i \in 1 .. k + 1 PROVE g[i] = step[i][g[i - 1]]
    BY <2>2, <2>7
  <2>8. Iterates(g, k + 1, S, base, step)
    BY <2>5, <2>6, <2>7 DEF Iterates
  <2> HIDE DEF g
  <2> QED  BY <2>3, <2>8
<1> HIDE DEF reached
<1>3. 0 .. n \subseteq reached
  BY <1>1, <1>2, UpTo
<1>4. n \in reached
  BY <1>3
<1> QED  BY <1>4 DEF reached

-----------------------------------------------------------------------------
(* A range put at the end of a list, or into its last range, leaves a list *)
(* of ranges.                                                              *)
LEMMA JoinedIs ==
  ASSUME NEW m \in Seq(DmemRange), NEW r \in DmemRange
  PROVE  LET n == Len(m)  j == Joined(m, r) IN
         /\ j \in Seq(DmemRange)
         /\ \/ /\ Len(j) = n + 1 /\ j[n + 1] = r
               /\ \A i \in 1 .. n : j[i] = m[i]
               /\ n > 0 => End(m[n]) < r.start
            \/ /\ n > 0 /\ Len(j) = n
               /\ \A i \in 1 .. n : i # n => j[i] = m[i]
               /\ j[n].start = m[n].start /\ r.start <= End(m[n])
               /\ End(j[n]) = Greater(End(m[n]), End(r))
<1> DEFINE n == Len(m)
           j == Joined(m, r)
<1>1. n \in Nat /\ \A i \in 1 .. n : m[i] \in DmemRange
  OBVIOUS
<1>2. r.start \in Nat /\ End(r) \in Nat
  BY ListedNumbers
<1>3. CASE n > 0 /\ End(m[n]) >= r.start
  <2> DEFINE last == m[n]
             len == Greater(End(last), End(r)) - last.start
             g == [last EXCEPT !.len = len]
  <2>1. /\ n \in 1 .. n /\ last \in DmemRange
        /\ last.start \in Nat /\ End(last) \in Nat /\ last.start < End(last)
        /\ last = [start |-> last.start, len |-> last.len]
    <3>1. n \in 1 .. n  BY <1>1, <1>3
    <3> QED  BY <1>1, <3>1, ListedNumbers
  <2>2. /\ Greater(End(last), End(r)) \in Nat
        /\ End(last) <= Greater(End(last), End(r))
    <3> HIDE DEF last
    <3> QED  BY <1>2, <2>1 DEF Greater
  <2>3. len \in Nat \ {0} /\ last.start + len = Greater(End(last), End(r))
    <3> HIDE DEF last
    <3> QED  BY <2>1, <2>2
  <2>4. j = [m EXCEPT ![n] = g]
    BY <1>3 DEF Joined
  <2>5. g \in DmemRange /\ g.start = last.start /\ g.len = len
    <3> HIDE DEF last, len
    <3>1. g = [start |-> last.start, len |-> len]
      BY <2>1
    <3> QED  BY <2>1, <2>3, <3>1 DEF DmemRange
  <2>6. End(g) = Greater(End(last), End(r))
    <3> HIDE DEF g, len, last
    <3> QED  BY <2>3, <2>5 DEF End
  <2>7. /\ j \in Seq(DmemRange) /\ Len(j) = n
        /\ \A i \in 1 .. n : j[i] = IF i = n THEN g ELSE m[i]
    <3> HIDE DEF g
    <3>1. /\ [m EXCEPT ![n] = g] \in Seq(DmemRange) /\ Len([m EXCEPT ![n] = g]) = n
          /\ \A i \in 1 .. n : [m EXCEPT ![n] = g][i] = IF i = n THEN g ELSE m[i]
      BY <2>1, <2>5
    <3> QED  BY <2>4, <3>1
  <2>8. j[n] = g
    BY <2>1, <2>7
  <2>9. r.start <= End(last)
    BY <1>2, <1>3, <2>1
  <2> HIDE DEF g, j
  <2>10. j[n].start = m[n].start /\ End(j[n]) = Greater(End(m[n]), End(r))
    BY <2>5, <2>6, <2>8
  <2>11. \A i \in 1 .. n : i # n => j[i] = m[i]
    BY <2>7
  <2> QED  BY <1>3, <2>7, <2>9, <2>10, <2>11 DEF j
<1>4. CASE ~ (n > 0 /\ End(m[n]) >= r.start)
  <2>1. j = Append(m, r)
    BY <1>4 DEF Joined
  <2>2. /\ j \in Seq(DmemRange) /\ Len(j) = n + 1 /\ j[n + 1] = r
        /\ \A i \in 1 .. n : j[i] = m[i]
    <3>1. /\ Append(m, r) \in Seq(DmemRange) /\ Len(Append(m, r)) = n + 1
          /\ Append(m, r)[n + 1] = r
          /\ \A i \in 1 .. n : Append(m, r)[i] = m[i]
      OBVIOUS
    <3> QED  BY <2>1, <3>1
  <2>3. n > 0 => End(m[n]) < r.start
    <3> SUFFICES ASSUME n > 0 PROVE End(m[n]) < r.start
      OBVIOUS
    <3>1. n \in 1 .. n  BY <1>1
    <3>2. End(m[n]) \in Nat  BY <1>1, <3>1, ListedNumbers
    <3> QED  BY <1>2, <1>4, <3>2
  <2> QED  BY <2>2, <2>3
<1> QED  BY <1>3, <1>4

(* Of a list in order, by a range that starts no sooner than its last one, *)
(* it makes one in order, with the pages of both.                          *)
LEMMA JoinedPages ==
  ASSUME NEW m \in Seq(DmemRange), InOrder(m), NEW r \in DmemRange,
         Len(m) > 0 => m[Len(m)].start <= r.start
  PROVE  LET j == Joined(m, r) IN
         /\ InOrder(j) /\ Len(j) > 0 /\ j[Len(j)].start <= r.start
         /\ \A k \in Int : k \in PagesIn(j) <=> k \in PagesIn(m) \/ (r.start <= k /\ k < End(r))
<1> DEFINE n == Len(m)
           j == Joined(m, r)
           In(x, k) == x.start <= k /\ k < End(x)
<1>1. /\ n \in Nat /\ \A i \in 1 .. n : m[i] \in DmemRange
      /\ DOMAIN m = 1 .. n
  OBVIOUS
<1>2. /\ r.start \in Nat /\ End(r) \in Nat /\ r.start < End(r)
      /\ \A i \in 1 .. n : m[i].start \in Nat /\ End(m[i]) \in Nat /\ m[i].start < End(m[i])
      /\ \A i, l \in 1 .. n : i < l => End(m[i]) < m[l].start
  BY <1>1, ListedNumbers DEF InOrder
<1>3. j \in Seq(DmemRange) /\ DOMAIN j = 1 .. Len(j)
  BY JoinedIs
<1>4. /\ \A k \in Int : k \in PagesIn(j) <=> \E i \in 1 .. Len(j) : In(j[i], k)
      /\ \A k \in Int : k \in PagesIn(m) <=> \E i \in 1 .. n : In(m[i], k)
  BY <1>3, ListPages
<1>5. n > 0 => m[n].start <= r.start /\ n \in 1 .. n
  BY <1>1
<1>6. CASE /\ Len(j) = n + 1 /\ j[n + 1] = r
           /\ \A i \in 1 .. n : j[i] = m[i]
           /\ n > 0 => End(m[n]) < r.start
  <2> HIDE DEF n, j
  <2>1. \A i : i \in 1 .. n + 1 <=> i \in 1 .. n \/ i = n + 1
    BY <1>1
  <2>2. ASSUME NEW i \in 1 .. n + 1, NEW l \in 1 .. n + 1, i < l PROVE End(j[i]) < j[l].start
    <3>1. i \in 1 .. n  BY <1>1, <2>2
    <3>2. CASE l \in 1 .. n
      BY <1>2, <1>6, <2>2, <3>1, <3>2
    <3>3. CASE l = n + 1
      <4>1. n > 0 /\ n \in 1 .. n  BY <1>1, <3>1
      <4>2. i = n \/ (i < n /\ End(m[i]) < m[n].start /\ m[n].start < End(m[n]))
        BY <1>1, <1>2, <3>1, <4>1
      <4>3. End(m[i]) < r.start
        BY <1>2, <1>6, <3>1, <4>1, <4>2
      <4> QED  BY <1>6, <3>1, <3>3, <4>3
    <3> QED  BY <2>1, <3>2, <3>3
  <2>3. InOrder(j)
    BY <1>3, <1>6, <2>2 DEF InOrder
  <2>4. Len(j) > 0 /\ j[Len(j)].start <= r.start
    BY <1>1, <1>2, <1>6
  <2>5. ASSUME NEW k \in Int PROVE k \in PagesIn(j) <=> k \in PagesIn(m) \/ In(r, k)
    <3> HIDE DEF In
    <3> QED  BY <1>4, <1>6, <2>1
  <2> QED  BY <2>3, <2>4, <2>5 DEF j
<1>7. CASE /\ n > 0 /\ Len(j) = n
           /\ \A i \in 1 .. n : i # n => j[i] = m[i]
           /\ j[n].start = m[n].start /\ r.start <= End(m[n])
           /\ End(j[n]) = Greater(End(m[n]), End(r))
  <2> HIDE DEF n, j
  <2>1. n \in 1 .. n /\ m[n].start <= r.start
    BY <1>5, <1>7
  <2>2. ASSUME NEW i \in 1 .. n, NEW l \in 1 .. n, i < l PROVE End(j[i]) < j[l].start
    <3>1. i # n /\ End(m[i]) < m[l].start  BY <1>1, <1>2, <2>2
    <3>2. j[i] = m[i] /\ j[l].start = m[l].start
      BY <1>7, <3>1
    <3> QED  BY <3>1, <3>2
  <2>3. InOrder(j)
    BY <1>3, <1>7, <2>2 DEF InOrder
  <2>4. Len(j) > 0 /\ j[Len(j)].start <= r.start
    BY <1>7, <2>1
  <2>5. ASSUME NEW k \in Int PROVE In(j[n], k) <=> In(m[n], k) \/ In(r, k)
    <3>1. /\ m[n].start \in Nat /\ End(m[n]) \in Nat /\ m[n].start <= r.start
          /\ r.start <= End(m[n])
      BY <1>2, <1>7, <2>1
    <3>2. In(j[n], k) <=> m[n].start <= k /\ k < Greater(End(m[n]), End(r))
      BY <1>7
    <3> QED  BY <1>2, <3>1, <3>2 DEF Greater
  <2>6. ASSUME NEW k \in Int PROVE k \in PagesIn(j) <=> k \in PagesIn(m) \/ In(r, k)
    <3>1. k \in PagesIn(m) <=> In(m[n], k) \/ \E i \in 1 .. n : i # n /\ In(m[i], k)
      <4> HIDE DEF In
      <4> QED  BY <1>4, <2>1
    <3>2. k \in PagesIn(j) <=> In(j[n], k) \/ \E i \in 1 .. n : i # n /\ In(m[i], k)
      <4> HIDE DEF In
      <4> QED  BY <1>4, <1>7, <2>1
    <3> QED  BY <2>5, <3>1, <3>2
  <2> QED  BY <2>3, <2>4, <2>6 DEF j
<1> QED  BY <1>6, <1>7, JoinedIs

(* Joining the ranges of a list sorted by their starts, one after the      *)
(* other, puts them in order and keeps their pages.                        *)
LEMMA MergedPages ==
  ASSUME NEW list \in Seq(DmemRange),
         \A i, l \in 1 .. Len(list) : i < l => list[i].start <= list[l].start
  PROVE  /\ Merged(list) \in Seq(DmemRange) /\ InOrder(Merged(list))
         /\ \A k \in Int : k \in PagesIn(Merged(list)) <=> k \in PagesIn(list)
<1> DEFINE n == Len(list)
           S == Seq(DmemRange)
           step == [i \in 1 .. n |-> [x \in S |-> Joined(x, list[i])]]
           start == <<>>
           P(g) == g = [i \in 0 .. n |-> IF i = 0 THEN start ELSE Joined(g[i - 1], list[i])]
           h == CHOOSE g : P(g)
           In(x, k) == x.start <= k /\ k < End(x)
<1>1. n \in Nat /\ \A i \in 1 .. n : list[i] \in DmemRange
  OBVIOUS
<1>2. \A i \in 1 .. n, x \in S : Joined(x, list[i]) \in S
  BY <1>1, JoinedIs
<1>3. PICK f : Iterates(f, n, S, start, step)
  <2>1. step \in [1 .. n -> [S -> S]] /\ start \in S
    BY <1>2
  <2> HIDE DEF step, S
  <2> QED  BY <1>1, <2>1, LoopRuns
<1>4. P(f)
  <2>1. /\ f \in [0 .. n -> S] /\ f[0] = start
        /\ \A i \in 1 .. n : f[i - 1] \in S /\ f[i] = step[i][f[i - 1]]
    <3> HIDE DEF step, n, start, S
    <3> QED  BY <1>1, <1>3 DEF Iterates
  <2>2. \A i \in 1 .. n : \A x \in S : step[i][x] = Joined(x, list[i])
    OBVIOUS
  <2> HIDE DEF step, S
  <2>3. \A i \in 1 .. n : f[i] = Joined(f[i - 1], list[i])
    BY <2>1, <2>2
  <2> HIDE DEF n, start
  <2> QED  BY <1>1, <2>1, <2>3
<1>5. P(h)
  BY <1>4, Zenon
<1>6. Merged(list) = h[n]
  BY DEF Merged
<1> HIDE DEF h, n
<1>7. h[0] = <<>> /\ \A i \in 0 .. n - 1 : h[i + 1] = Joined(h[i], list[i + 1])
  BY <1>1, <1>5
<1> DEFINE Last(x) == x[Len(x)]
           T == {i \in 0 .. n :
                   /\ h[i] \in S /\ InOrder(h[i])
                   /\ Len(h[i]) > 0 => i > 0 /\ Last(h[i]).start <= list[i].start
                   /\ \A k \in Int : k \in PagesIn(h[i]) <=> \E l \in 1 .. i : In(list[l], k)}
<1>8. 0 \in T
  <2>1. h[0] \in S /\ Len(h[0]) = 0 /\ DOMAIN h[0] = {}
    BY <1>7
  <2>2. InOrder(h[0]) /\ PagesIn(h[0]) = {}
    BY <2>1 DEF InOrder, PagesIn
  <2>3. 0 \in 0 .. n /\ \A l : ~ (l \in 1 .. 0)
    BY <1>1
  <2> HIDE DEF In, Last, S
  <2> QED  BY <2>1, <2>2, <2>3
<1>9. ASSUME NEW i \in 0 .. n - 1, i \in T PROVE i + 1 \in T
  <2>1. i + 1 \in 1 .. n /\ i + 1 \in 0 .. n /\ i + 1 > 0
    BY <1>1
  <2>2. list[i + 1] \in DmemRange /\ h[i + 1] = Joined(h[i], list[i + 1])
    BY <1>1, <1>7, <2>1
  <2>3. Len(h[i]) > 0 => Last(h[i]).start <= list[i + 1].start
    <3> SUFFICES ASSUME Len(h[i]) > 0 PROVE Last(h[i]).start <= list[i + 1].start
      OBVIOUS
    <3>1. i > 0 /\ Last(h[i]).start <= list[i].start
      BY <1>9
    <3>2. i \in 1 .. n /\ i < i + 1
      BY <1>1, <3>1
    <3>3. list[i].start <= list[i + 1].start /\ list[i].start \in Nat /\ list[i + 1].start \in Nat
      BY <1>1, <2>1, <3>2, ListedNumbers DEF n
    <3>4. Last(h[i]).start \in Nat
      <4>1. h[i] \in S /\ Len(h[i]) \in 1 .. Len(h[i])
        BY <1>9
      <4>2. Last(h[i]) \in DmemRange
        BY <4>1
      <4> QED  BY <4>2, ListedNumbers
    <3> HIDE DEF Last
    <3> QED  BY <3>1, <3>3, <3>4
  <2>4. h[i] \in S /\ InOrder(h[i])
    BY <1>9
  <2>5. /\ h[i + 1] \in S /\ InOrder(h[i + 1])
        /\ Len(h[i + 1]) > 0 /\ Last(h[i + 1]).start <= list[i + 1].start
        /\ \A k \in Int : k \in PagesIn(h[i + 1]) <=> k \in PagesIn(h[i]) \/ In(list[i + 1], k)
    BY <2>2, <2>3, <2>4, JoinedIs, JoinedPages
  <2>6. \A l : l \in 1 .. i + 1 <=> l \in 1 .. i \/ l = i + 1
    BY <1>1
  <2>7. \A k \in Int : k \in PagesIn(h[i + 1]) <=> \E l \in 1 .. i + 1 : In(list[l], k)
    <3> HIDE DEF In
    <3> QED  BY <1>9, <2>5, <2>6
  <2> HIDE DEF In, Last, S
  <2> QED  BY <2>1, <2>5, <2>7
<1> HIDE DEF T
<1>10. n \in T
  <2>1. 0 .. n \subseteq T
    BY <1>1, <1>8, <1>9, UpTo
  <2> QED  BY <1>1, <2>1
<1>11. \A k \in Int : k \in PagesIn(list) <=> \E l \in 1 .. n : In(list[l], k)
  BY ListPages DEF n
<1> QED  BY <1>6, <1>10, <1>11 DEF T

(* Sorting a list, stably or not, keeps its ranges.                        *)
LEMMA SortedIs ==
  ASSUME NEW list \in Seq(DmemRange), NEW s \in Sorted(list)
  PROVE  /\ s \in Seq(DmemRange)
         /\ \A i, l \in 1 .. Len(s) : i < l => s[i].start <= s[l].start
         /\ PagesIn(s) = PagesIn(list)
<1> DEFINE D == 1 .. Len(list)
<1>1. Len(list) \in Nat /\ DOMAIN list = D /\ \A i \in D : list[i] \in DmemRange
  OBVIOUS
<1>2. PICK p \in Bijection(D, D) : s = [i \in D |-> list[p[i]]]
  BY <1>1 DEF Sorted
<1>3. \A i, l \in D : i < l => s[i].start <= s[l].start
  BY <1>1 DEF Sorted
<1>4. p \in [D -> D] /\ \A i \in D : \E l \in D : p[l] = i
  BY <1>2 DEF Bijection, Injection, Surjection
<1>5. /\ s \in [D -> DmemRange] /\ DOMAIN s = D
      /\ \A i \in D : s[i] = list[p[i]]
  BY <1>1, <1>2, <1>4
<1>6. s \in Seq(DmemRange) /\ Len(s) = Len(list)
  BY <1>1, <1>5
<1> HIDE DEF D
<1>7. PagesIn(s) = PagesIn(list)
  <2>1. \A k : k \in PagesIn(s) <=> \E i \in D : k \in PagesOf(s[i])
    BY <1>5 DEF PagesIn
  <2>2. \A k : k \in PagesIn(list) <=> \E i \in D : k \in PagesOf(list[i])
    BY <1>1 DEF PagesIn
  <2>3. ASSUME NEW k, NEW i \in D, k \in PagesOf(s[i]) PROVE \E l \in D : k \in PagesOf(list[l])
    BY <1>4, <1>5, <2>3
  <2>4. ASSUME NEW k, NEW i \in D, k \in PagesOf(list[i]) PROVE \E l \in D : k \in PagesOf(s[l])
    <3>1. PICK l \in D : p[l] = i  BY <1>4
    <3> QED  BY <1>5, <2>4, <3>1
  <2> QED  BY <2>1, <2>2, <2>3, <2>4
<1> QED  BY <1>3, <1>6, <1>7 DEF D

(* A release, whatever the list holds: it has the pages released besides,  *)
(* and is in order.                                                        *)
LEMMA ReleaseMerges ==
  ASSUME TypeOK, NEW t \in Threads, NEW r \in PageRange, DmemFreeRange(t, r)
  PROVE  /\ free' \in Seq(DmemRange) /\ InOrder(free')
         /\ Unused' = Unused \cup PagesOf(r)
<1> DEFINE list == Append(free, r)
           n == Len(free)
<1>1. r \in DmemRange /\ free \in Seq(DmemRange) /\ n \in Nat
  BY RangeNumbers DEF TypeOK
<1>2. /\ list \in Seq(DmemRange) /\ Len(list) = n + 1 /\ list[n + 1] = r
      /\ \A i \in 1 .. n : list[i] = free[i]
  BY <1>1
<1>3. PICK s \in Sorted(list) : free' = Merged(s)
  BY DEF DmemFreeRange
<1> HIDE DEF list, n
<1>4. /\ s \in Seq(DmemRange) /\ PagesIn(s) = PagesIn(list)
      /\ \A i, l \in 1 .. Len(s) : i < l => s[i].start <= s[l].start
  BY <1>2, SortedIs
<1>5. /\ free' \in Seq(DmemRange) /\ InOrder(free')
      /\ \A k \in Int : k \in PagesIn(free') <=> k \in PagesIn(list)
  BY <1>3, <1>4, MergedPages
<1>6. Unused' = PagesIn(free')
  BY DEF Unused, PagesIn
<1>7. \A k : k \in PagesIn(list) <=> k \in Unused \/ k \in PagesOf(r)
  <2>1. DOMAIN list = 1 .. n + 1 /\ DOMAIN free = 1 .. n
    BY <1>1, <1>2 DEF n
  <2>2. \A i : i \in 1 .. n + 1 <=> i \in 1 .. n \/ i = n + 1
    BY <1>1
  <2>3. \A k : k \in PagesIn(list) <=> \E i \in 1 .. n + 1 : k \in PagesOf(list[i])
    BY <2>1 DEF PagesIn
  <2>4. \A k : k \in Unused <=> \E i \in 1 .. n : k \in PagesOf(free[i])
    BY <2>1 DEF Unused
  <2> QED  BY <1>2, <2>2, <2>3, <2>4
<1>8. \A k : k \in PagesIn(free') \/ k \in PagesIn(list) => k \in Int
  BY <1>2, <1>5, ListPages
<1>9. \A k : k \in Unused' <=> k \in Unused \cup PagesOf(r)
  BY <1>5, <1>6, <1>7, <1>8
<1> QED  BY <1>5, <1>9

-----------------------------------------------------------------------------
(* The range no call is about exists.                                      *)
LEMMA IdleIsRange == Idle \in PageRange
<1>1. 0 \in Nat /\ 1 \in Nat \ {0} /\ 0 + 1 <= Limit
  BY SizesAssumption
<1> QED  BY <1>1, MakeRange DEF Idle

(* Before the first call all of the memory is one free range.              *)
LEMMA InitHolds == Init => IInv /\ Unused = Pages
<1> SUFFICES ASSUME Init PROVE IInv /\ Unused = Pages
  OBVIOUS
<1> DEFINE all == [start |-> 0, len |-> Limit]
<1>1. all \in DmemRange /\ PagesOf(all) = Pages
  BY SizesAssumption DEF DmemRange, PagesOf, End, Pages
<1>2. free = <<all>>
  BY DEF Init
<1> HIDE DEF all
<1>3. free \in Seq(DmemRange) /\ DOMAIN free = {1} /\ free[1] = all
  <2>1. DOMAIN <<all>> = 1 .. 1 /\ \A i : i \in 1 .. 1 <=> i = 1
    OBVIOUS
  <2> QED  BY <1>1, <1>2, <2>1
<1>4. Unused = Pages
  BY <1>1, <1>3 DEF Unused
<1>5. TypeOK
  BY <1>3, IdleIsRange DEF Init, TypeOK
<1>6. PoolIsPartitioned
  BY <1>4 DEF Init, PoolIsPartitioned, InTransit, Taken
<1>7. InOrder(free)
  BY <1>3 DEF InOrder
<1> QED  BY <1>4, <1>5, <1>6, <1>7 DEF IInv

(* Nothing that leaves the list, what is held and what is taken alone      *)
(* disturbs the division of the pages.                                     *)
LEMMA SameDivision ==
  ASSUME IInv, TypeOK', UNCHANGED <<free, held, misread>>,
         \A t \in Threads : Taken(t)' = Taken(t)
  PROVE  IInv' /\ UNCHANGED <<Unused, InTransit>>
<1>1. Unused' = Unused  BY DEF Unused
<1>2. InTransit' = InTransit
  BY DEF InTransit
<1> QED  BY <1>1, <1>2 DEF IInv, PoolIsPartitioned, InOrder

(* When a call takes a range, and reads its length as the list says, the   *)
(* pages it gives leave the list and no others do.                         *)
LEMMA TakeStep ==
  ASSUME IInv, NEW t \in Threads, pc[t] = "take", NEW i \in DOMAIN free, NEW p \in Pages,
         NEW seen \in Lengths(free[i], p), Take(t, i, p, seen),
         UNCHANGED <<allocated, blocks, held, whole>>
  PROVE  LET first == p  last == p + req[t].len - 1 IN
         /\ IInv'
         /\ ~misread' => /\ ~misread /\ last \in Pages /\ first .. last \subseteq Unused
                         /\ Unused' = Unused \ (first .. last)
                         /\ InTransit' = InTransit \cup (first .. last)
<1> DEFINE q == req[t]
           f == free[i]
           k == [start |-> p, len |-> q.len]
           new == p .. p + q.len - 1
           parts == Left(f, p, q.len, seen)
<1>1. /\ q \in Requests /\ free \in Seq(DmemRange) /\ i \in 1 .. Len(free) /\ f \in DmemRange
      /\ DOMAIN free = 1 .. Len(free)
  BY DEF IInv, TypeOK
<1>2. Fits(f, p, q)
  BY DEF Take, BestFit, Place
<1>3. /\ q.len \in Nat \ {0} /\ p \in Nat
      /\ f.start <= p /\ p + q.len <= End(f) /\ p + q.len <= Limit
  BY <1>1, <1>2, FitsNumbers
<1>4. /\ free' = Replaced(i, parts)
      /\ misread' = (misread \/ parts # Left(f, p, q.len, End(f) - p))
      /\ pc' = [pc EXCEPT ![t] = "count"] /\ req' = [req EXCEPT ![t] = k]
      /\ capacity' = IF p > f.start /\ Len(free) = capacity THEN NewCapacity(capacity) ELSE capacity
  BY DEF Take
<1>5. k \in PageRange /\ PagesOf(k) = new
  <2>1. k \in PageRange
    BY <1>3, MakeRange
  <2>2. k.start = p /\ k.len = q.len
    OBVIOUS
  <2> HIDE DEF k
  <2>3. \A n : n \in PagesOf(k) <=> n \in Int /\ p <= n /\ n < p + q.len
    BY <1>3, <2>2, PagesOfRange
  <2>4. \A n : n \in new <=> n \in Int /\ p <= n /\ n < p + q.len
    BY <1>3
  <2>5. PagesOf(k) = new
    <3> HIDE DEF new, q
    <3> QED  BY <2>3, <2>4
  <2> QED  BY <2>1, <2>5
<1>6. p + q.len - 1 \in Pages /\ p + q.len - 1 \in Int
  BY <1>3, SizesAssumption DEF Pages
<1>7. seen \in Int
  <2>1. f.len \in Int /\ f.start \in Int /\ End(f) \in Int /\ p \in Int
    BY <1>1, <1>3, ListedNumbers
  <2>2. Lengths(f, p) \subseteq Int
    <3>1. \/ Lengths(f, p) = {f.len} \/ Lengths(f, p) = {p - f.start}
          \/ Lengths(f, p) = {End(f) - p} \cup Stale
      BY Zenon DEF Lengths
    <3> HIDE DEF f
    <3>2. p - f.start \in Int /\ End(f) - p \in Int /\ Stale \subseteq Int
      BY <2>1, SizesAssumption
    <3> QED  BY <2>1, <3>1, <3>2
  <2> QED  BY <2>2
<1>8. parts \in Seq(DmemRange)
  <2> HIDE DEF f, q
  <2> QED  BY <1>1, <1>3, <1>7, LeftIsListed
<1>9. TypeOK'
  <2>1. free' \in Seq(DmemRange)
    <3> HIDE DEF parts
    <3> QED  BY <1>1, <1>4, <1>8, ReplacedIs
  <2>2. capacity' \in Nat
    <3>1. capacity \in Nat  BY DEF IInv, TypeOK
    <3>2. NewCapacity(capacity) \in Nat
      BY <3>1 DEF NewCapacity, Greater
    <3> QED  BY <1>4, <3>1, <3>2
  <2>3. misread' \in BOOLEAN
    BY <1>4, Zenon
  <2> HIDE DEF k, parts, q, f
  <2>4. /\ req' \in [Threads -> Requests \cup PageRange]
        /\ pc' \in [Threads -> {"out", "take", "count", "unmap"}]
    BY <1>4, <1>5 DEF IInv, TypeOK
  <2>5. \A u \in Threads : /\ pc'[u] = "take" => req'[u] \in Requests
                           /\ pc'[u] \in {"count", "unmap"} => req'[u] \in PageRange
    BY <1>4, <1>5 DEF IInv, TypeOK
  <2> QED  BY <2>1, <2>2, <2>3, <2>4, <2>5 DEF IInv, TypeOK
<1> HIDE DEF k, new
<1>10. Taken(t) = {} /\ Taken(t)' = new /\ \A u \in Threads \ {t} : Taken(u)' = Taken(u)
  <2>1. pc'[t] = "count" /\ req'[t] = k
    BY <1>4 DEF IInv, TypeOK
  <2>2. \A u \in Threads \ {t} : pc'[u] = pc[u] /\ req'[u] = req[u]
    BY <1>4 DEF IInv, TypeOK
  <2>3. Taken(t)' = PagesOf(k)
    BY <2>1 DEF Taken, PagesOf, End
  <2> QED  BY <2>2, <2>3, <1>5 DEF Taken, PagesOf, End
<1>11. InTransit' = InTransit \cup new
  <2>1. \A n : n \in InTransit <=> \E u \in Threads : n \in Taken(u)
    BY DEF InTransit
  <2>2. \A n : n \in InTransit' <=> \E u \in Threads : n \in Taken(u)'
    BY DEF InTransit
  <2>3. \A n : (\E u \in Threads : n \in Taken(u)') <=> n \in new \/ \E u \in Threads : n \in Taken(u)
    BY <1>10
  <2> QED  BY <2>1, <2>2, <2>3
<1>12. ASSUME ~misread'
       PROVE  /\ ~misread /\ new \subseteq Unused /\ Unused' = Unused \ new
              /\ InOrder(free') /\ PoolIsPartitioned'
  <2>1. ~misread /\ parts = Left(f, p, q.len, End(f) - p)
    BY <1>4, <1>12
  <2>2. InOrder(free) /\ PoolIsPartitioned
    BY <2>1 DEF IInv
  <2> HIDE DEF parts, q
  <2>3. /\ \A n \in Int : (\E m \in 1 .. Len(parts) : parts[m].start <= n /\ n < End(parts[m]))
                            <=> f.start <= n /\ n < End(f) /\ ~ (p <= n /\ n < p + q.len)
        /\ \A m \in 1 .. Len(parts) : f.start <= parts[m].start /\ End(parts[m]) <= End(f)
        /\ \A l, m \in 1 .. Len(parts) : l < m => End(parts[l]) < parts[m].start
    <3> HIDE DEF f
    <3> QED  BY <1>1, <1>3, <2>1, LeftPages
  <2>4. /\ InOrder(free')
        /\ \A n \in Int : n \in PagesIn(free') <=>
             \/ n \in Unused /\ ~ (f.start <= n /\ n < End(f))
             \/ \E m \in 1 .. Len(parts) : parts[m].start <= n /\ n < End(parts[m])
    BY <1>1, <1>4, <1>8, <2>2, <2>3, ReplacedPages
  <2>5. Unused' = PagesIn(free')
    BY DEF Unused, PagesIn
  <2>6. /\ \A n : n \in PagesIn(free') \/ n \in Unused => n \in Int
        /\ \A n \in Int : f.start <= n /\ n < End(f) => n \in Unused
    <3>1. free' \in Seq(DmemRange)  BY <1>9 DEF TypeOK
    <3> QED  BY <1>1, <3>1, ListPages, UnusedPages
  <2>7. \A n : n \in new <=> n \in Int /\ p <= n /\ n < p + q.len
    BY <1>3, <1>6 DEF new, q
  <2>8. f.start \in Int /\ End(f) \in Int
    BY <1>1, ListedNumbers
  <2> HIDE DEF f
  <2>9. \A n : n \in new => n \in Int /\ f.start <= n /\ n < End(f)
    <3> SUFFICES ASSUME NEW n \in new PROVE n \in Int /\ f.start <= n /\ n < End(f)
      OBVIOUS
    <3>1. n \in Int /\ p <= n /\ n < p + q.len  BY <2>7
    <3> QED  BY <1>3, <2>8, <3>1
  <2>10. new \subseteq Unused
    BY <2>6, <2>9
  <2>11. Unused' = Unused \ new
    <3>1. \A n : n \in Unused' <=> n \in Unused /\ n \notin new
      BY <2>3, <2>4, <2>5, <2>6, <2>7, <2>9
    <3> QED  BY <3>1
  <2>12. held' = held
    OBVIOUS
  <2>13. ASSUME NEW u \in Threads
         PROVE  /\ Taken(u)' \cap (Unused' \cup held') = {}
                /\ \A w \in Threads : w # u => Taken(u)' \cap Taken(w)' = {}
    <3>1. CASE u = t
      BY <3>1, <1>10, <2>1, <2>2, <2>10, <2>11, <2>12 DEF PoolIsPartitioned
    <3>2. CASE u # t
      BY <3>2, <1>10, <2>1, <2>2, <2>10, <2>11, <2>12 DEF PoolIsPartitioned
    <3> QED  BY <3>1, <3>2
  <2>14. PoolIsPartitioned'
    BY <1>11, <2>1, <2>2, <2>10, <2>11, <2>12, <2>13 DEF PoolIsPartitioned
  <2> QED  BY <2>1, <2>4, <2>10, <2>11, <2>14
<1>13. IInv'
  BY <1>9, <1>12 DEF IInv, PoolIsPartitioned
<1> QED  BY <1>6, <1>11, <1>12, <1>13 DEF new

(* What was taken becomes held.                                            *)
LEMMA CountStep ==
  ASSUME IInv, NEW t \in Threads, CountAllocated(t)
  PROVE  /\ IInv' /\ Unused' = Unused
         /\ ~misread => held' \cup InTransit' = held \cup InTransit
<1>1. pc[t] = "count" /\ req[t] \in PageRange /\ Taken(t) = PagesOf(req[t])
  BY DEF CountAllocated, IInv, TypeOK, Taken
<1>2. Taken(t) \subseteq Pages
  BY <1>1, RangeNumbers
<1>3. Unused' = Unused /\ misread' = misread
  BY DEF CountAllocated, Unused
<1>4. Taken(t)' = {} /\ \A u \in Threads \ {t} : Taken(u)' = Taken(u)
  <2>1. pc'[t] = "out"
    BY DEF CountAllocated, IInv, TypeOK
  <2>2. \A u \in Threads \ {t} : pc'[u] = pc[u] /\ req'[u] = req[u]
    BY DEF CountAllocated, IInv, TypeOK
  <2> QED  BY <2>1, <2>2 DEF Taken, PagesOf, End
<1>5. held' = held \cup Taken(t)
  BY <1>1 DEF CountAllocated
<1>6. TypeOK'
  <2>1. allocated' \in Nat
    BY <1>1, RangeNumbers DEF CountAllocated, IInv, TypeOK
  <2>2. /\ blocks' \subseteq PageRange /\ free' \in Seq(DmemRange) /\ held' \subseteq Pages
        /\ capacity' \in Nat /\ misread' \in BOOLEAN /\ whole' \in BOOLEAN
    BY <1>1, <1>2, <1>5 DEF CountAllocated, IInv, TypeOK
  <2>3. req' \in [Threads -> Requests \cup PageRange] /\ pc' \in [Threads -> {"out", "take", "count", "unmap"}]
    BY IdleIsRange DEF CountAllocated, IInv, TypeOK
  <2>4. \A u \in Threads : /\ pc'[u] = "take" => req'[u] \in Requests
                           /\ pc'[u] \in {"count", "unmap"} => req'[u] \in PageRange
    BY DEF CountAllocated, IInv, TypeOK
  <2> QED  BY <2>1, <2>2, <2>3, <2>4 DEF TypeOK
<1>7. InTransit' \cup Taken(t) = InTransit
  <2>1. \A n : n \in InTransit <=> \E u \in Threads : n \in Taken(u)
    BY DEF InTransit
  <2>2. \A n : n \in InTransit' <=> \E u \in Threads : n \in Taken(u)'
    BY DEF InTransit
  <2>3. \A n : (\E u \in Threads : n \in Taken(u)) <=> n \in Taken(t) \/ \E u \in Threads : n \in Taken(u)'
    BY <1>4
  <2> QED  BY <2>1, <2>2, <2>3
<1>8. ASSUME ~misread PROVE PoolIsPartitioned'
  <2>1. PoolIsPartitioned
    BY DEF IInv
  <2>2. Unused' \cup held' \cup InTransit' = Pages
    BY <1>3, <1>5, <1>7, <1>8, <2>1 DEF PoolIsPartitioned
  <2>3. Unused' \cap held' = {}
    BY <1>3, <1>5, <1>8, <2>1 DEF PoolIsPartitioned
  <2>4. ASSUME NEW u \in Threads
        PROVE  /\ Taken(u)' \cap (Unused' \cup held') = {}
               /\ \A w \in Threads : w # u => Taken(u)' \cap Taken(w)' = {}
    <3>1. CASE u = t
      BY <3>1, <1>4
    <3>2. CASE u # t
      BY <3>2, <1>3, <1>4, <1>5, <1>8, <2>1 DEF PoolIsPartitioned
    <3> QED  BY <3>1, <3>2
  <2> QED  BY <2>2, <2>3, <2>4 DEF PoolIsPartitioned
<1>9. IInv'
  <2>1. ~misread => InOrder(free')
    BY DEF CountAllocated, IInv, InOrder
  <2> QED  BY <1>3, <1>6, <1>8, <2>1 DEF IInv, PoolIsPartitioned
<1> QED
  BY <1>3, <1>5, <1>7, <1>9

(* The counter stays a number, whatever is released.                       *)
LEMMA CountedNat ==
  ASSUME TypeOK, NEW r \in PageRange
  PROVE  Counted(r) \in Nat
<1>1. CASE BlockAt(r) # {}
  <2> DEFINE b == CHOOSE b \in BlockAt(r) : TRUE
  <2>1. b \in BlockAt(r)  BY <1>1
  <2>2. b.len \in Nat  BY <2>1, RangeNumbers DEF BlockAt, TypeOK
  <2>3. Counted(r) = IF allocated >= b.len THEN allocated - b.len ELSE 0
    BY <1>1 DEF Counted
  <2> HIDE DEF b
  <2> QED  BY <2>2, <2>3 DEF TypeOK
<1>2. CASE BlockAt(r) = {}
  BY <1>2, RangeNumbers DEF Counted, TypeOK
<1> QED
  BY <1>1, <1>2

(* What is released becomes unused.                                        *)
LEMMA FreeStep ==
  ASSUME IInv, NEW t \in Threads, NEW r \in PageRange, DmemFreeRange(t, r)
  PROVE  /\ IInv'
         /\ PagesOf(r) \subseteq held /\ Unused' = Unused \cup PagesOf(r)
         /\ misread' = misread /\ InTransit' = InTransit /\ held' = held \ PagesOf(r)
         /\ ~misread => PagesOf(r) \cap InTransit = {}
<1>1. /\ PagesOf(r) \subseteq held /\ PagesOf(r) \subseteq Pages
      /\ held' = held \ PagesOf(r) /\ misread' = misread
  BY DEF DmemFreeRange, IInv, TypeOK
<1>2. /\ free' \in Seq(DmemRange) /\ InOrder(free')
      /\ Unused' = Unused \cup PagesOf(r)
  BY ReleaseMerges DEF IInv
<1>3. \A u \in Threads : Taken(u)' = Taken(u)
  <2>1. /\ pc[t] = "out" /\ pc'[t] = "unmap"
        /\ \A u \in Threads \ {t} : pc'[u] = pc[u] /\ req'[u] = req[u]
    BY DEF DmemFreeRange, IInv, TypeOK
  <2> QED  BY <2>1 DEF Taken, PagesOf, End
<1>4. TypeOK'
  <2>1. allocated' \in Nat
    BY CountedNat DEF DmemFreeRange, IInv
  <2>2. blocks' \subseteq PageRange /\ held' \subseteq Pages /\ misread' \in BOOLEAN
    BY <1>1 DEF DmemFreeRange, IInv, TypeOK
  <2>3. capacity' \in Nat
    <3>1. Len(free) \in Nat  BY DEF IInv, TypeOK
    <3> QED  BY <3>1 DEF DmemFreeRange
  <2>4. whole' \in BOOLEAN
    <3>1. whole' = (whole /\ r \in blocks)  BY DEF DmemFreeRange
    <3> QED  BY <3>1, Zenon
  <2>5. /\ req' = [req EXCEPT ![t] = r] /\ pc' = [pc EXCEPT ![t] = "unmap"]
        /\ req \in [Threads -> Requests \cup PageRange]
        /\ pc \in [Threads -> {"out", "take", "count", "unmap"}]
        /\ \A u \in Threads : /\ pc[u] = "take" => req[u] \in Requests
                              /\ pc[u] \in {"count", "unmap"} => req[u] \in PageRange
    BY DEF DmemFreeRange, IInv, TypeOK
  <2>6. req' \in [Threads -> Requests \cup PageRange] /\ pc' \in [Threads -> {"out", "take", "count", "unmap"}]
    BY <2>5
  <2>7. \A u \in Threads : /\ pc'[u] = "take" => req'[u] \in Requests
                           /\ pc'[u] \in {"count", "unmap"} => req'[u] \in PageRange
    BY <2>5
  <2> QED  BY <1>2, <2>1, <2>2, <2>3, <2>4, <2>6, <2>7 DEF TypeOK
<1>5. InTransit' = InTransit
  BY <1>3 DEF InTransit
<1>6. ASSUME ~misread PROVE PoolIsPartitioned' /\ PagesOf(r) \cap InTransit = {}
  <2>1. PoolIsPartitioned
    BY DEF IInv
  <2>2. \A u \in Threads : Taken(u) \cap PagesOf(r) = {}
    BY <1>1, <1>6, <2>1 DEF PoolIsPartitioned
  <2>3. PagesOf(r) \cap InTransit = {}
    BY <2>2 DEF InTransit
  <2> QED  BY <1>1, <1>2, <1>3, <1>5, <1>6, <2>1, <2>2, <2>3 DEF PoolIsPartitioned
<1>7. IInv'
  BY <1>1, <1>2, <1>4, <1>6 DEF IInv, PoolIsPartitioned
<1> QED
  BY <1>1, <1>2, <1>5, <1>6, <1>7

(* What the pool's steps are about.                                        *)
poolVars == <<Unused, held \cup InTransit, ~misread>>

(* A step keeps the invariant, and is one of the pool's or none.           *)
LEMMA StepHolds ==
  ASSUME IInv, [Next]_vars
  PROVE  IInv' /\ [Pool!Next]_poolVars
<1>0. misread \in BOOLEAN
  BY DEF IInv, TypeOK
<1>1. ASSUME NEW t \in Threads, NEW q \in Requests, Allocate(t, q)
      PROVE  IInv' /\ UNCHANGED poolVars
  <2>1. \A u \in Threads : Taken(u)' = Taken(u)
    BY <1>1 DEF Allocate, IInv, TypeOK, Taken, PagesOf, End
  <2>2. TypeOK'
    BY <1>1 DEF Allocate, IInv, TypeOK
  <2>3. UNCHANGED <<free, held, misread>>
    BY <1>1 DEF Allocate
  <2> QED  BY <2>1, <2>2, <2>3, SameDivision DEF poolVars
<1>2. ASSUME NEW t \in Threads, DmemAllocRange(t)
      PROVE  IInv' /\ [Pool!Next]_poolVars
  <2>1. pc[t] = "take" /\ UNCHANGED <<allocated, blocks, held, whole>>
    BY <1>2 DEF DmemAllocRange
  <2>2. CASE \E i \in DOMAIN free, p \in Pages : \E seen \in Lengths(free[i], p) : Take(t, i, p, seen)
    <3>1. PICK i \in DOMAIN free, p \in Pages : \E seen \in Lengths(free[i], p) : Take(t, i, p, seen)
      BY <2>2
    <3>2. PICK seen \in Lengths(free[i], p) : Take(t, i, p, seen)
      BY <3>1
    <3> DEFINE last == p + req[t].len - 1
               new == p .. last
    <3>3. /\ IInv'
          /\ ~misread' => /\ ~misread /\ last \in Pages /\ new \subseteq Unused
                          /\ Unused' = Unused \ new
                          /\ InTransit' = InTransit \cup new
      BY <2>1, <3>2, TakeStep
    <3>4. misread' \in BOOLEAN
      BY <3>3 DEF IInv, TypeOK
    <3> HIDE DEF last
    <3>5. CASE misread'
      BY <3>3, <3>5 DEF Pool!Next
    <3>6. CASE ~misread'
      <4>1. (held \cup InTransit)' = (held \cup InTransit) \cup new
        BY <2>1, <3>3, <3>6
      <4>2. Pool!Take(p .. last)
        BY <3>3, <3>6, <4>1 DEF Pool!Take
      <4> QED  BY <3>3, <3>6, <4>2 DEF Pool!Next
    <3> QED  BY <3>5, <3>6
  <2>3. CASE pc' = [pc EXCEPT ![t] = "out"] /\ req' = [req EXCEPT ![t] = Idle]
               /\ UNCHANGED <<free, capacity, misread>>
    <3>1. \A u \in Threads : Taken(u)' = Taken(u)
      BY <2>1, <2>3 DEF IInv, TypeOK, Taken, PagesOf, End
    <3>2. TypeOK'
      BY <2>1, <2>3, IdleIsRange DEF IInv, TypeOK
    <3> QED  BY <2>1, <2>3, <3>1, <3>2, SameDivision DEF poolVars
  <2> QED  BY <1>2, <2>2, <2>3 DEF DmemAllocRange
<1>3. ASSUME NEW t \in Threads, CountAllocated(t)
      PROVE  IInv' /\ [Pool!Next]_poolVars
  <2>1. /\ IInv' /\ Unused' = Unused /\ misread' = misread
        /\ ~misread => held' \cup InTransit' = held \cup InTransit
    BY <1>3, CountStep DEF CountAllocated
  <2>2. CASE misread
    BY <1>0, <2>1, <2>2 DEF Pool!Next
  <2>3. CASE ~misread
    BY <2>1, <2>3 DEF poolVars
  <2> QED  BY <2>2, <2>3
<1>4. ASSUME NEW t \in Threads, NEW r \in PageRange, DmemFreeRange(t, r)
      PROVE  IInv' /\ [Pool!Next]_poolVars
  <2>1. /\ IInv'
        /\ PagesOf(r) \subseteq held /\ Unused' = Unused \cup PagesOf(r)
        /\ misread' = misread /\ InTransit' = InTransit /\ held' = held \ PagesOf(r)
        /\ ~misread => PagesOf(r) \cap InTransit = {}
    BY <1>4, FreeStep
  <2>2. CASE misread
    BY <1>0, <2>1, <2>2 DEF Pool!Next
  <2>3. CASE ~misread
    <3>1. r.start \in Pages /\ End(r) - 1 \in Pages
      BY RangeNumbers, SizesAssumption DEF Pages
    <3>2. (held \cup InTransit)' = (held \cup InTransit) \ PagesOf(r)
      BY <2>1, <2>3
    <3>3. Pool!Give(r.start .. End(r) - 1)
      BY <2>1, <3>2 DEF Pool!Give, PagesOf
    <3> QED  BY <2>1, <2>3, <3>1, <3>3 DEF Pool!Next
  <2> QED  BY <2>2, <2>3
<1>5. ASSUME NEW t \in Threads, ReleaseReturns(t)
      PROVE  IInv' /\ UNCHANGED poolVars
  <2>1. \A u \in Threads : Taken(u)' = Taken(u)
    BY <1>5 DEF ReleaseReturns, IInv, TypeOK, Taken, PagesOf, End
  <2>2. TypeOK'
    BY <1>5, IdleIsRange DEF ReleaseReturns, IInv, TypeOK
  <2>3. UNCHANGED <<free, held, misread>>
    BY <1>5 DEF ReleaseReturns
  <2> QED  BY <2>1, <2>2, <2>3, SameDivision DEF poolVars
<1>6. ASSUME UNCHANGED vars
      PROVE  IInv' /\ UNCHANGED poolVars
  <2>1. \A u \in Threads : Taken(u)' = Taken(u)
    BY <1>6 DEF vars, Taken, PagesOf, End
  <2>2. TypeOK'
    BY <1>6 DEF vars, IInv, TypeOK
  <2>3. UNCHANGED <<free, held, misread>>
    BY <1>6 DEF vars
  <2> QED  BY <2>1, <2>2, <2>3, SameDivision DEF poolVars
<1> QED
  BY <1>1, <1>2, <1>3, <1>4, <1>5, <1>6 DEF Next

-----------------------------------------------------------------------------
(* The inductive invariant holds of every behaviour of the allocator.      *)
THEOREM Invariance == Spec => []IInv
<1>1. Init => IInv  BY InitHolds
<1>2. IInv /\ [Next]_vars => IInv'  BY StepHolds
<1> QED  BY <1>1, <1>2, PTL DEF Spec

(* Until DmemAllocRange reads a wrong length, the free list, the guest and *)
(* the calls about to answer divide all the memory of DmemInitAllocator    *)
(* among them.                                                             *)
THEOREM PoolIsPartitionedHolds == Spec => []PoolIsPartitioned
<1>1. IInv => PoolIsPartitioned  BY DEF IInv
<1> QED  BY <1>1, Invariance, PTL

(* DmemFreeRange mends any list: after it the list is in order, no two of  *)
(* its ranges touch, it has the pages released besides and has lost none,  *)
(* whatever wrong ranges DmemAllocRange had left in it.                    *)
THEOREM ReleaseMendsHolds == Spec => ReleaseMends
<1>1. IInv => [\A t \in Threads, r \in PageRange : DmemFreeRange(t, r) =>
                 Unused' = Unused \cup PagesOf(r) /\ InOrder(free')]_vars
  BY ReleaseMerges DEF IInv
<1> QED  BY <1>1, Invariance, PTL DEF ReleaseMends

(* What DmemAllocRange gives was unused and what is released was not: the  *)
(* free list implements the pool of pages, until a length is read wrong.   *)
THEOREM ImplementsPoolHolds == Spec => ImplementsPool
<1>1. Init => Pool!Init
  <2> SUFFICES ASSUME Init PROVE Pool!Init
    OBVIOUS
  <2>1. Unused = Pages
    BY InitHolds
  <2>2. held \cup InTransit = {}
    BY DEF Init, InTransit, Taken
  <2> QED  BY <2>1, <2>2 DEF Init, Pool!Init
<1>2. IInv /\ [Next]_vars => [Pool!Next]_poolVars
  BY StepHolds
<1> QED
  BY <1>1, <1>2, Invariance, PTL DEF Spec, ImplementsPool, Pool!Spec, poolVars

-----------------------------------------------------------------------------
(* How many pages a range has.                                             *)
LEMMA RangeCardinality ==
  ASSUME NEW r \in PageRange
  PROVE  IsFiniteSet(PagesOf(r)) /\ Cardinality(PagesOf(r)) = r.len
<1>1. /\ r.start \in Int /\ End(r) - 1 \in Int /\ r.start <= End(r) - 1
      /\ (End(r) - 1) - r.start + 1 = r.len
  BY RangeNumbers
<1>2. /\ IsFiniteSet(r.start .. End(r) - 1)
      /\ Cardinality(r.start .. End(r) - 1) = (End(r) - 1) - r.start + 1
  BY <1>1, FS_Interval
<1> QED  BY <1>1, <1>2 DEF PagesOf

(* All the pages there are.                                                *)
LEMMA PagesAreFinite == IsFiniteSet(Pages)
  BY SizesAssumption, FS_Interval DEF Pages

(* The blocks the handlers remember are what the guest has, apart from     *)
(* each other, and counted.                                                *)
BlocksInv ==
  /\ \A n \in held : \E b \in blocks : n \in PagesOf(b)
  /\ \A b \in blocks : PagesOf(b) \subseteq held
  /\ \A b, c \in blocks : \A n \in PagesOf(b) : n \in PagesOf(c) => b = c
  /\ allocated = Cardinality(held)

(* sceKernelAllocateDirectMemory counts a range nobody has.                *)
LEMMA CountIsExact ==
  ASSUME IInv, ~misread, BlocksInv, NEW t \in Threads, CountAllocated(t)
  PROVE  BlocksInv'
<1> DEFINE r == req[t]
<1>1. /\ pc[t] = "count" /\ allocated' = allocated + r.len
      /\ blocks' = {b \in blocks : b.start # r.start} \cup {r}
      /\ held' = held \cup PagesOf(r)
  BY DEF CountAllocated
<1>2. r \in PageRange /\ blocks \subseteq PageRange /\ held \subseteq Pages
  BY <1>1 DEF IInv, TypeOK
<1>3. PagesOf(r) \cap held = {}
  BY <1>1 DEF IInv, PoolIsPartitioned, Taken
<1> HIDE DEF r
<1>4. \A b \in PageRange : b.start \in PagesOf(b)
  BY RangeNumbers DEF PagesOf
<1>5. blocks' = blocks \cup {r}
  <2>1. \A b \in blocks : b.start # r.start
    BY <1>2, <1>3, <1>4 DEF BlocksInv
  <2> QED  BY <1>1, <2>1
<1>6. allocated' = Cardinality(held')
  <2>1. IsFiniteSet(held)
    BY <1>2, PagesAreFinite, FS_Subset
  <2>2. Cardinality(held \cup PagesOf(r)) =
          Cardinality(held) + Cardinality(PagesOf(r)) - Cardinality(held \cap PagesOf(r))
    BY <1>2, <2>1, RangeCardinality, FS_Union
  <2>3. Cardinality(held \cap PagesOf(r)) = 0 /\ Cardinality(held) \in Nat /\ r.len \in Nat
    BY <1>2, <1>3, <2>1, FS_EmptySet, FS_CardinalityType, RangeNumbers
  <2> QED  BY <1>1, <1>2, <2>2, <2>3, RangeCardinality DEF BlocksInv
<1>7. \A b, c \in blocks' : \A n \in PagesOf(b) : n \in PagesOf(c) => b = c
  BY <1>3, <1>5 DEF BlocksInv
<1> QED  BY <1>1, <1>5, <1>6, <1>7 DEF BlocksInv

(* Releasing what one call gave takes its block off, and its pages.        *)
LEMMA FreeIsExact ==
  ASSUME IInv, BlocksInv, NEW t \in Threads, NEW r \in PageRange, r \in blocks, DmemFreeRange(t, r)
  PROVE  BlocksInv'
<1>1. /\ PagesOf(r) \subseteq held /\ held' = held \ PagesOf(r)
      /\ allocated' = Counted(r) /\ blocks' = blocks \ BlockAt(r)
  BY DEF DmemFreeRange
<1>2. blocks \subseteq PageRange /\ held \subseteq Pages
  BY DEF IInv, TypeOK
<1>3. \A b \in PageRange : b.start \in PagesOf(b)
  BY RangeNumbers DEF PagesOf
<1>4. BlockAt(r) = {r}
  BY <1>1, <1>2, <1>3 DEF BlockAt, BlocksInv
<1>5. IsFiniteSet(held) /\ Cardinality(held) \in Nat
  BY <1>2, PagesAreFinite, FS_Subset, FS_CardinalityType
<1>6. r.len \in Nat /\ r.len = Cardinality(PagesOf(r)) /\ IsFiniteSet(PagesOf(r))
  BY RangeCardinality, RangeNumbers
<1>7. r.len <= Cardinality(held)
  BY <1>1, <1>5, <1>6, FS_Subset
<1>8. allocated' = Cardinality(held) - r.len
  <2>1. allocated = Cardinality(held)
    BY DEF BlocksInv
  <2>2. (CHOOSE b \in BlockAt(r) : TRUE) = r /\ BlockAt(r) # {}
    BY <1>4
  <2> QED  BY <1>1, <1>5, <1>6, <1>7, <2>1, <2>2 DEF Counted
<1>9. Cardinality(held \ PagesOf(r)) = Cardinality(held) - r.len
  <2>1. Cardinality(held \ PagesOf(r)) = Cardinality(held) - Cardinality(held \cap PagesOf(r))
    BY <1>5, FS_Difference
  <2>2. held \cap PagesOf(r) = PagesOf(r)
    BY <1>1
  <2> QED  BY <1>6, <2>1, <2>2
<1>10. \A n \in held' : \E b \in blocks' : n \in PagesOf(b)
  BY <1>1, <1>4 DEF BlocksInv
<1>11. \A b \in blocks' : PagesOf(b) \subseteq held'
  BY <1>1, <1>4 DEF BlocksInv
<1> QED  BY <1>1, <1>8, <1>9, <1>10, <1>11 DEF BlocksInv

(* The counter sceKernelAllocateDirectMemory compares with the cap is what *)
(* the guest has, as long as it released what one call gave it and no      *)
(* length was read wrong.                                                  *)
THEOREM CounterIsExactHolds == Spec => []CounterIsExact
<1> DEFINE Inv == whole /\ ~misread => BlocksInv
<1>1. Init => Inv
  <2> SUFFICES ASSUME Init PROVE BlocksInv
    OBVIOUS
  <2>1. blocks = {} /\ held = {} /\ allocated = 0
    BY DEF Init
  <2> QED  BY <2>1, FS_EmptySet DEF BlocksInv
<1>2. IInv /\ Inv /\ [Next]_vars => Inv'
  <2> SUFFICES ASSUME IInv, Inv, [Next]_vars, whole', ~misread' PROVE BlocksInv'
    OBVIOUS
  <2>1. ASSUME UNCHANGED <<allocated, blocks, held, whole>>, ~misread PROVE BlocksInv'
    BY <2>1 DEF BlocksInv
  <2>2. ASSUME NEW t \in Threads,
               \/ \E q \in Requests : Allocate(t, q)
               \/ DmemAllocRange(t) \/ ReleaseReturns(t)
        PROVE  BlocksInv'
    <3>1. UNCHANGED <<allocated, blocks, held, whole>>
      BY <2>2 DEF Allocate, DmemAllocRange, ReleaseReturns
    <3>2. ~misread
      BY <2>2 DEF Allocate, DmemAllocRange, ReleaseReturns, Take
    <3> QED  BY <2>1, <3>1, <3>2
  <2>3. ASSUME NEW t \in Threads, CountAllocated(t) PROVE BlocksInv'
    <3>1. whole /\ ~misread
      BY <2>3 DEF CountAllocated
    <3> QED  BY <2>3, <3>1, CountIsExact
  <2>4. ASSUME NEW t \in Threads, NEW r \in PageRange, DmemFreeRange(t, r) PROVE BlocksInv'
    <3>1. whole' = (whole /\ r \in blocks) /\ misread' = misread
      BY <2>4 DEF DmemFreeRange
    <3>2. whole /\ r \in blocks /\ ~misread
      BY <3>1
    <3> QED  BY <2>4, <3>2, FreeIsExact
  <2>5. CASE UNCHANGED vars
    BY <2>1, <2>5 DEF vars
  <2> QED  BY <2>2, <2>3, <2>4, <2>5 DEF Next
<1>3. Inv => CounterIsExact
  BY DEF BlocksInv, CounterIsExact
<1> QED  BY <1>1, <1>2, <1>3, Invariance, PTL DEF Spec

-----------------------------------------------------------------------------
(* A run of unused pages lies within one free range, because no two free   *)
(* ranges touch.                                                           *)
LEMMA RunIsInOneRange ==
  ASSUME free \in Seq(DmemRange), InOrder(free), NEW p \in Nat, NEW n \in Nat \ {0},
         p .. p + n - 1 \subseteq Unused
  PROVE  \E i \in DOMAIN free : free[i].start <= p /\ p + n <= End(free[i])
<1>1. DOMAIN free = 1 .. Len(free) /\ \A i \in DOMAIN free : free[i] \in DmemRange
  OBVIOUS
<1>2. /\ \A i \in DOMAIN free : free[i].start \in Nat /\ End(free[i]) \in Nat
      /\ \A k : k \in Unused <=>
           k \in Int /\ \E i \in DOMAIN free : free[i].start <= k /\ k < End(free[i])
  BY <1>1, ListedNumbers, ListPages, UnusedPages
<1>3. p \in p .. p + n - 1
  OBVIOUS
<1>4. PICK i \in DOMAIN free : free[i].start <= p /\ p < End(free[i])
  BY <1>2, <1>3
<1>5. ASSUME End(free[i]) < p + n PROVE FALSE
  <2>1. End(free[i]) \in p .. p + n - 1
    BY <1>2, <1>4, <1>5
  <2>2. PICK j \in DOMAIN free : free[j].start <= End(free[i]) /\ End(free[i]) < End(free[j])
    BY <1>2, <2>1
  <2>3. i < j => End(free[i]) < free[j].start
    BY DEF InOrder
  <2>4. j < i => End(free[j]) < free[i].start
    BY DEF InOrder
  <2>5. i < j \/ j < i \/ i = j
    BY <1>1
  <2> QED  BY <1>2, <1>4, <2>2, <2>3, <2>4, <2>5
<1>6. p + n <= End(free[i])
  BY <1>2, <1>5
<1> QED  BY <1>4, <1>6

(* DmemAllocRange answers that there is no memory only when no aligned run *)
(* of unused pages in the window is long enough, in one range or another,  *)
(* as long as no length was read wrong.                                    *)
THEOREM NoMemoryIsTrueHolds == Spec => NoMemoryIsTrue
<1>1. ASSUME IInv, [Next]_vars, ~misread, NEW t \in Threads, pc[t] = "take", pc'[t] = "out",
             NEW p \in Pages, p % req[t].align = 0, req[t].lo <= p,
             p + req[t].len <= Hi(req[t]), p .. p + req[t].len - 1 \subseteq Unused
      PROVE  FALSE
  <2> DEFINE q == req[t]
  <2>1. pc \in [Threads -> {"out", "take", "count", "unmap"}]
    BY <1>1 DEF IInv, TypeOK
  <2>2. DmemAllocRange(t)
    <3>1. ASSUME NEW u \in Threads, \/ \E x \in Requests : Allocate(u, x)
                                    \/ CountAllocated(u) \/ ReleaseReturns(u)
                                    \/ \E r \in PageRange : DmemFreeRange(u, r)
          PROVE  FALSE
      BY <1>1, <2>1, <3>1 DEF Allocate, CountAllocated, ReleaseReturns, DmemFreeRange
    <3>2. PICK u \in Threads : DmemAllocRange(u)
      BY <1>1, <3>1 DEF Next, vars
    <3>3. u = t
      BY <1>1, <2>1, <3>2 DEF DmemAllocRange, Take
    <3> QED  BY <3>2, <3>3
  <2>3. \A i \in DOMAIN free : ~Fits(free[i], p, q)
    BY <1>1, <2>1, <2>2 DEF DmemAllocRange, Take
  <2>4. q \in Requests /\ q.len \in Nat \ {0} /\ Hi(q) \in Nat /\ p \in Nat
    BY <1>1, SizesAssumption, RequestsAssumption DEF IInv, TypeOK, Hi, Pages
  <2>5. free \in Seq(DmemRange) /\ InOrder(free)
    BY <1>1 DEF IInv, TypeOK
  <2>6. PICK i \in DOMAIN free : free[i].start <= p /\ p + q.len <= End(free[i])
    BY <1>1, <2>4, <2>5, RunIsInOneRange
  <2>7. Fits(free[i], p, q)
    BY <1>1, <2>6 DEF Fits, Lesser
  <2> QED  BY <2>3, <2>7
<1>2. IInv /\ [Next]_vars =>
        [\A t \in Threads : ~misread /\ pc[t] = "take" /\ pc'[t] = "out" =>
           \A p \in Pages : p % req[t].align = 0 /\ req[t].lo <= p /\ p + req[t].len <= Hi(req[t])
             => ~ p .. p + req[t].len - 1 \subseteq Unused]_vars
  BY <1>1
<1> QED  BY <1>2, Invariance, PTL DEF Spec, NoMemoryIsTrue

-----------------------------------------------------------------------------
(* The virtual ranges of DirectMap only follow the allocator: what is      *)
(* proved of the one above holds with sceKernelMapDirectMemory and         *)
(* sceKernelBatchMap beside it.                                            *)
THEOREM MapFollowsAllocator == MapSpec => Spec
<1>1. MapInit => Init
  BY DEF MapInit
<1>2. [MapNext]_mapVars => [Next]_vars
  <2>1. ASSUME NEW t \in Threads, \/ \E e \in Mappings : MapDirectMemory(t, e)
                                  \/ \E batch \in Batches : BatchMap(t, batch)
        PROVE  UNCHANGED vars
    BY <2>1 DEF MapDirectMemory, BatchMap
  <2>2. ASSUME NEW t \in Threads, ReleaseUnmaps(t) PROVE Next
    BY <2>2 DEF ReleaseUnmaps, Next
  <2> QED  BY <2>1, <2>2 DEF MapNext, Next, mapVars
<1> QED  BY <1>1, <1>2, PTL DEF MapSpec, Spec

-----------------------------------------------------------------------------
(* The regions the list can hold: inside the virtual range, and with no    *)
(* physical memory or with memory that exists.                             *)
Regs ==
  {r \in Region : EndV(r) <= VPages /\ (r.phys = NoPhys \/ r.phys + r.size <= Limit)}

IsSpan(u) == u.vaddr \in Nat /\ u.size \in Nat \ {0}

(* A region in numbers.                                                    *)
LEMMA RegNumbers ==
  ASSUME NEW r \in Regs
  PROVE  /\ r.vaddr \in Nat /\ r.size \in Nat \ {0} /\ r.phys \in Nat
         /\ r.vaddr + r.size <= VPages
         /\ r.phys = NoPhys \/ r.phys + r.size <= Limit
         /\ r.prot \in Prots
         /\ r = [vaddr |-> r.vaddr, size |-> r.size, phys |-> r.phys, prot |-> r.prot]
  BY SizesAssumption, VirtualAssumption DEF Regs, Region, EndV, VAddrs, Pages

(* How a region is made.                                                   *)
LEMMA MakeReg ==
  ASSUME NEW v \in Nat, NEW n \in Nat \ {0}, NEW p \in Nat, NEW x \in Prots,
         v + n <= VPages, p = NoPhys \/ p + n <= Limit
  PROVE  [vaddr |-> v, size |-> n, phys |-> p, prot |-> x] \in Regs
  BY SizesAssumption, VirtualAssumption DEF Regs, Region, EndV, VAddrs, Pages

(* Where a list leads.                                                     *)
LEMMA TranslationIs ==
  ASSUME NEW s \in Seq(Regs), NEW v, NEW w
  PROVE  w \in Translation(s, v) <=>
           \E i \in 1 .. Len(s) : Covers(s[i], v) /\ w = PhysAt(s[i], v)
<1>1. DOMAIN s = 1 .. Len(s)  OBVIOUS
<1> QED  BY <1>1 DEF Translation


(* A list of two parts leads where either leads.                           *)
LEMMA TranslationOfBoth ==
  ASSUME NEW s \in Seq(Regs), NEW r \in Seq(Regs), NEW v
  PROVE  Translation(s \o r, v) = Translation(s, v) \cup Translation(r, v)
<1>1. /\ s \o r \in Seq(Regs) /\ Len(s \o r) = Len(s) + Len(r)
      /\ Len(s) \in Nat /\ Len(r) \in Nat
      /\ \A i \in 1 .. Len(s) : (s \o r)[i] = s[i]
      /\ \A i \in 1 .. Len(r) : (s \o r)[Len(s) + i] = r[i]
  OBVIOUS
<1> DEFINE At(q, i, w) == Covers(q[i], v) /\ w = PhysAt(q[i], v)
<1>2. ASSUME NEW w, NEW i \in 1 .. Len(s \o r), At(s \o r, i, w)
      PROVE  \/ \E j \in 1 .. Len(s) : At(s, j, w)
             \/ \E j \in 1 .. Len(r) : At(r, j, w)
  <2>1. CASE i <= Len(s)
    <3>1. i \in 1 .. Len(s) /\ At(s, i, w)  BY <1>1, <1>2, <2>1
    <3> QED  BY <3>1
  <2>2. CASE ~ (i <= Len(s))
    <3>1. i - Len(s) \in 1 .. Len(r) /\ i = Len(s) + (i - Len(s))  BY <1>1, <2>2
    <3>2. At(r, i - Len(s), w)  BY <1>1, <1>2, <3>1
    <3> QED  BY <3>1, <3>2
  <2> QED  BY <2>1, <2>2
<1>3. ASSUME NEW w, NEW j \in 1 .. Len(s), At(s, j, w)
      PROVE  \E i \in 1 .. Len(s \o r) : At(s \o r, i, w)
  <2>1. j \in 1 .. Len(s \o r) /\ At(s \o r, j, w)  BY <1>1, <1>3
  <2> QED  BY <2>1
<1>4. ASSUME NEW w, NEW j \in 1 .. Len(r), At(r, j, w)
      PROVE  \E i \in 1 .. Len(s \o r) : At(s \o r, i, w)
  <2>1. Len(s) + j \in 1 .. Len(s \o r) /\ At(s \o r, Len(s) + j, w)  BY <1>1, <1>4
  <2> QED  BY <2>1
<1>5. ASSUME NEW q \in Seq(Regs), NEW w
      PROVE  w \in Translation(q, v) <=> \E i \in 1 .. Len(q) : At(q, i, w)
  BY TranslationIs
<1> HIDE DEF At
<1>6. ASSUME NEW w
      PROVE  w \in Translation(s \o r, v) <=> w \in Translation(s, v) \/ w \in Translation(r, v)
  <2>1. /\ w \in Translation(s \o r, v) <=> \E i \in 1 .. Len(s \o r) : At(s \o r, i, w)
        /\ w \in Translation(s, v) <=> \E i \in 1 .. Len(s) : At(s, i, w)
        /\ w \in Translation(r, v) <=> \E i \in 1 .. Len(r) : At(r, i, w)
    BY <1>1, <1>5
  <2> QED  BY <1>2, <1>3, <1>4, <2>1
<1> QED  BY <1>6

(* A list of one region, and the empty one.                                *)
LEMMA TranslationOfOne ==
  ASSUME NEW r \in Regs, NEW v
  PROVE  /\ <<r>> \in Seq(Regs)
         /\ Translation(<<r>>, v) = IF Covers(r, v) THEN {PhysAt(r, v)} ELSE {}
<1> DEFINE q == <<r>>
<1>1. q \in Seq(Regs) /\ Len(q) = 1 /\ q[1] = r  OBVIOUS
<1> HIDE DEF q
<1>2. \A i : i \in 1 .. 1 <=> i = 1  OBVIOUS
<1>3. ASSUME NEW w PROVE w \in Translation(q, v) <=> Covers(r, v) /\ w = PhysAt(r, v)
  <2>1. w \in Translation(q, v) <=> \E i \in 1 .. Len(q) : Covers(q[i], v) /\ w = PhysAt(q[i], v)
    BY <1>1, TranslationIs
  <2> QED  BY <1>1, <1>2, <2>1
<1>4. Translation(q, v) = IF Covers(r, v) THEN {PhysAt(r, v)} ELSE {}
  BY <1>3
<1> QED  BY <1>1, <1>4 DEF q

(* No region translates nothing. *)
LEMMA TranslationOfNone ==
  ASSUME NEW v
  PROVE  <<>> \in Seq(Regs) /\ Translation(<<>>, v) = {}
  BY DEF Translation

(* What is left of a region keeps where it led, outside the range          *)
(* unmapped: the right part is re-based.                                   *)
LEMMA SurvivorsLead ==
  ASSUME NEW r \in Regs, NEW u, IsSpan(u)
  PROVE  /\ Survivors(r, u) \in Seq(Regs)
         /\ \A v \in Nat : Translation(Survivors(r, u), v) =
              IF Covers(u, v) \/ ~Covers(r, v) THEN {} ELSE {PhysAt(r, v)}
<1>1. /\ r.vaddr \in Nat /\ r.size \in Nat \ {0} /\ r.phys \in Nat
      /\ r.vaddr + r.size <= VPages
      /\ r.phys = NoPhys \/ r.phys + r.size <= Limit
      /\ r.prot \in Prots
      /\ r = [vaddr |-> r.vaddr, size |-> r.size, phys |-> r.phys, prot |-> r.prot]
      /\ u.vaddr \in Nat /\ u.size \in Nat \ {0}
      /\ Limit \in Nat /\ VPages \in Nat /\ NoPhys \in Nat /\ NoPhys > Limit + VPages
  BY RegNumbers, SizesAssumption, VirtualAssumption DEF IsSpan
<1>2. CASE EndV(u) <= r.vaddr \/ u.vaddr >= EndV(r)
  <2>1. Survivors(r, u) = <<r>>
    BY <1>2 DEF Survivors
  <2>2. \A v \in Nat : Covers(r, v) => ~Covers(u, v)
    BY <1>1, <1>2 DEF Covers, EndV
  <2> QED  BY <2>1, <2>2, TranslationOfOne
<1>3. CASE ~ (EndV(u) <= r.vaddr \/ u.vaddr >= EndV(r))
  <2> DEFINE left == IF r.vaddr < u.vaddr THEN <<LeftPart(r, u)>> ELSE <<>>
             right == IF EndV(u) < EndV(r) THEN <<RightPart(r, u)>> ELSE <<>>
  <2>1. Survivors(r, u) = left \o right
    BY <1>3 DEF Survivors
  <2>2. /\ left \in Seq(Regs)
        /\ \A v \in Nat : Translation(left, v) =
             IF Covers(r, v) /\ v < u.vaddr THEN {PhysAt(r, v)} ELSE {}
    <3>1. CASE r.vaddr < u.vaddr
      <4>1. LeftPart(r, u) =
              [vaddr |-> r.vaddr, size |-> u.vaddr - r.vaddr, phys |-> r.phys, prot |-> r.prot]
        BY <1>1 DEF LeftPart
      <4>2. LeftPart(r, u) \in Regs
        BY <1>1, <1>3, <3>1, <4>1, MakeReg DEF EndV
      <4>3. \A v \in Nat : /\ Covers(LeftPart(r, u), v) <=> Covers(r, v) /\ v < u.vaddr
                           /\ PhysAt(LeftPart(r, u), v) = PhysAt(r, v)
        BY <1>1, <1>3, <3>1, <4>1 DEF Covers, EndV, PhysAt
      <4> QED  BY <3>1, <4>2, <4>3, TranslationOfOne
    <3>2. CASE ~ (r.vaddr < u.vaddr)
      <4>1. \A v \in Nat : ~ (Covers(r, v) /\ v < u.vaddr)
        BY <1>1, <3>2 DEF Covers
      <4> QED  BY <3>2, <4>1, TranslationOfNone
    <3> QED  BY <3>1, <3>2
  <2>3. /\ right \in Seq(Regs)
        /\ \A v \in Nat : Translation(right, v) =
             IF Covers(r, v) /\ EndV(u) <= v THEN {PhysAt(r, v)} ELSE {}
    <3>1. CASE EndV(u) < EndV(r)
      <4> DEFINE phys == RightPhys(r, EndV(u))
      <4>1. RightPart(r, u) =
              [vaddr |-> EndV(u), size |-> EndV(r) - EndV(u), phys |-> phys, prot |-> r.prot]
        <5>1. r \in [vaddr : Nat, size : Nat, phys : Nat, prot : Prots]
          BY <1>1
        <5> HIDE DEF phys
        <5>2. RightPart(r, u) =
                [r EXCEPT !.vaddr = EndV(u), !.size = EndV(r) - EndV(u), !.phys = phys]
          BY DEF RightPart, phys
        <5> QED  BY <5>1, <5>2
      <4>2. /\ phys = IF r.phys = NoPhys THEN NoPhys ELSE r.phys + (EndV(u) - r.vaddr)
            /\ EndV(u) = u.vaddr + u.size /\ EndV(r) = r.vaddr + r.size
        BY DEF RightPhys, EndV
      <4>3. /\ phys \in Nat /\ EndV(u) \in Nat /\ EndV(r) - EndV(u) \in Nat \ {0}
            /\ EndV(u) + (EndV(r) - EndV(u)) <= VPages
            /\ phys = NoPhys \/ phys + (EndV(r) - EndV(u)) <= Limit
            /\ phys = NoPhys <=> r.phys = NoPhys
        BY <1>1, <1>3, <3>1, <4>2
      <4> HIDE DEF phys
      <4>4. RightPart(r, u) \in Regs
        BY <1>1, <4>1, <4>3, MakeReg
      <4>5. \A v \in Nat : /\ Covers(RightPart(r, u), v) <=> Covers(r, v) /\ EndV(u) <= v
                           /\ PhysAt(RightPart(r, u), v) = PhysAt(r, v)
        <5>1. ASSUME NEW v \in Nat
              PROVE  /\ Covers(RightPart(r, u), v) <=> EndV(u) <= v /\ v < EndV(r)
                     /\ Covers(r, v) <=> r.vaddr <= v /\ v < EndV(r)
                     /\ PhysAt(RightPart(r, u), v) =
                          IF phys = NoPhys THEN NoPhys ELSE phys + (v - EndV(u))
          BY <1>1, <4>1, <4>2, <4>3 DEF Covers, EndV, PhysAt
        <5> QED  BY <1>1, <1>3, <4>2, <4>3, <5>1 DEF PhysAt
      <4> QED  BY <3>1, <4>4, <4>5, TranslationOfOne
    <3>2. CASE ~ (EndV(u) < EndV(r))
      <4>1. \A v \in Nat : ~ (Covers(r, v) /\ EndV(u) <= v)
        BY <1>1, <3>2 DEF Covers, EndV
      <4> QED  BY <3>2, <4>1, TranslationOfNone
    <3> QED  BY <3>1, <3>2
  <2> HIDE DEF left, right
  <2>4. \A v \in Nat : Covers(u, v) <=> ~ (v < u.vaddr) /\ ~ (EndV(u) <= v)
    BY <1>1 DEF Covers, EndV
  <2>5. left \o right \in Seq(Regs)
    BY <2>2, <2>3
  <2>6. \A v \in Nat : Translation(left \o right, v) = Translation(left, v) \cup Translation(right, v)
    BY <2>2, <2>3, TranslationOfBoth
  <2>7. ASSUME NEW v \in Nat
        PROVE  Translation(left \o right, v) =
                 IF Covers(u, v) \/ ~Covers(r, v) THEN {} ELSE {PhysAt(r, v)}
    BY <2>2, <2>3, <2>4, <2>6
  <2> QED  BY <2>1, <2>5, <2>7
<1> QED  BY <1>2, <1>3

(* Unmapping a range: what it covered leads nowhere, the rest where it     *)
(* did.                                                                    *)
LEMMA UnmapLeads ==
  ASSUME NEW s \in Seq(Regs), NEW u, IsSpan(u)
  PROVE  /\ DmemUnmapVirtRange(s, u) \in Seq(Regs)
         /\ \A v \in Nat : Translation(DmemUnmapVirtRange(s, u), v) =
              IF Covers(u, v) THEN {} ELSE Translation(s, v)
<1> DEFINE n == Len(s)
           step == [i \in 1 .. n |-> [x \in Seq(Regs) |-> x \o Survivors(s[i], u)]]
           start == <<>>
           Grown(i, x) == x \o Survivors(s[i], u)
           P(g) == g = [i \in 0 .. n |-> IF i = 0 THEN start ELSE Grown(i, g[i - 1])]
           h == CHOOSE g : P(g)
<1>1. n \in Nat /\ \A i \in 1 .. n : s[i] \in Regs
  OBVIOUS
<1>2. \A i \in 1 .. n : Survivors(s[i], u) \in Seq(Regs)
  BY <1>1, SurvivorsLead
<1>3. PICK f : Iterates(f, n, Seq(Regs), start, step)
  <2>1. step \in [1 .. n -> [Seq(Regs) -> Seq(Regs)]] /\ start \in Seq(Regs)
    BY <1>2
  <2> HIDE DEF step
  <2> QED  BY <1>1, <2>1, LoopRuns
<1>4. P(f)
  <2>1. /\ f \in [0 .. n -> Seq(Regs)] /\ f[0] = start
        /\ \A i \in 1 .. n : f[i - 1] \in Seq(Regs) /\ f[i] = step[i][f[i - 1]]
    <3> HIDE DEF step, n, start
    <3> QED  BY <1>1, <1>3 DEF Iterates
  <2>2. \A i \in 1 .. n : \A x \in Seq(Regs) : step[i][x] = Grown(i, x)
    OBVIOUS
  <2> HIDE DEF step, Grown
  <2>3. \A i \in 1 .. n : f[i] = Grown(i, f[i - 1])
    BY <2>1, <2>2
  <2> HIDE DEF n, start
  <2> QED  BY <1>1, <2>1, <2>3
<1>5. P(h)
  BY <1>4, Zenon
<1>6. DmemUnmapVirtRange(s, u) = h[n]
  BY DEF DmemUnmapVirtRange
<1> HIDE DEF h, n
<1>7. h[0] = <<>> /\ \A i \in 0 .. n - 1 : h[i + 1] = h[i] \o Survivors(s[i + 1], u)
  BY <1>1, <1>5
<1> DEFINE Upto(i, v, w) == ~Covers(u, v) /\ \E j \in 1 .. i : Covers(s[j], v) /\ w = PhysAt(s[j], v)
           T == {i \in 0 .. n : /\ h[i] \in Seq(Regs)
                                /\ \A v \in Nat : \A w : w \in Translation(h[i], v) <=> Upto(i, v, w)}
<1>8. 0 \in T
  <2>1. \A v, w : ~Upto(0, v, w)  OBVIOUS
  <2>2. h[0] \in Seq(Regs) /\ \A v : Translation(h[0], v) = {}
    BY <1>7, TranslationOfNone
  <2>3. 0 \in 0 .. n
    BY <1>1
  <2> HIDE DEF Upto
  <2> QED  BY <2>1, <2>2, <2>3
<1>9. ASSUME NEW i \in 0 .. n - 1, i \in T PROVE i + 1 \in T
  <2>1. i + 1 \in 1 .. n /\ i + 1 \in 0 .. n
    BY <1>1
  <2>2. s[i + 1] \in Regs /\ h[i + 1] = h[i] \o Survivors(s[i + 1], u)
    BY <1>1, <1>7, <2>1
  <2>3. h[i] \in Seq(Regs) /\ Survivors(s[i + 1], u) \in Seq(Regs)
    BY <1>2, <1>9, <2>1
  <2>4. h[i + 1] \in Seq(Regs)
    BY <2>2, <2>3
  <2>5. ASSUME NEW v \in Nat, NEW w
        PROVE  w \in Translation(h[i + 1], v) <=> Upto(i + 1, v, w)
    <3>1. Translation(h[i + 1], v) = Translation(h[i], v) \cup Translation(Survivors(s[i + 1], u), v)
      BY <2>2, <2>3, TranslationOfBoth
    <3>2. w \in Translation(h[i], v) <=> Upto(i, v, w)
      BY <1>9
    <3>3. w \in Translation(Survivors(s[i + 1], u), v)
            <=> ~Covers(u, v) /\ Covers(s[i + 1], v) /\ w = PhysAt(s[i + 1], v)
      BY <2>2, SurvivorsLead
    <3>4. \A j : j \in 1 .. i + 1 <=> j \in 1 .. i \/ j = i + 1
      BY <1>1
    <3> QED  BY <3>1, <3>2, <3>3, <3>4
  <2> HIDE DEF Upto
  <2> QED  BY <2>1, <2>4, <2>5
<1> HIDE DEF T
<1>10. n \in T
  <2>1. 0 .. n \subseteq T  BY <1>1, <1>8, <1>9, UpTo
  <2> QED  BY <1>1, <2>1
<1>11. h[n] \in Seq(Regs) /\ \A v \in Nat : \A w : w \in Translation(h[n], v) <=> Upto(n, v, w)
  BY <1>10 DEF T
<1>12. ASSUME NEW v \in Nat
       PROVE  Translation(h[n], v) = IF Covers(u, v) THEN {} ELSE Translation(s, v)
  <2>1. \A w : w \in Translation(s, v) <=> \E i \in 1 .. n : Covers(s[i], v) /\ w = PhysAt(s[i], v)
    BY TranslationIs DEF n
  <2> QED  BY <1>11, <2>1
<1> QED  BY <1>6, <1>11, <1>12

(* Mapping at the end of the list makes a region of the new range, or has  *)
(* the last region go on where the new range would lead.                   *)
LEMMA JoinIs ==
  ASSUME NEW s \in Seq(Regs), NEW e, AsRegion(e) \in Regs
  PROVE  /\ Join(s, e) \in Seq(Regs)
         /\ \/ /\ Len(Join(s, e)) = Len(s) + 1
               /\ \A i \in 1 .. Len(s) : Join(s, e)[i] = s[i]
               /\ \A v : /\ Covers(Join(s, e)[Len(s) + 1], v) <=> Covers(e, v)
                         /\ PhysAt(Join(s, e)[Len(s) + 1], v) = PhysAt(e, v)
            \/ /\ Len(Join(s, e)) = Len(s) /\ Len(s) \in 1 .. Len(s)
               /\ \A i \in 1 .. Len(s) : i # Len(s) => Join(s, e)[i] = s[i]
               /\ \A v \in Nat :
                    /\ Covers(Join(s, e)[Len(s)], v) <=> Covers(s[Len(s)], v) \/ Covers(e, v)
                    /\ ~ (Covers(s[Len(s)], v) /\ Covers(e, v))
                    /\ Covers(s[Len(s)], v) => PhysAt(Join(s, e)[Len(s)], v) = PhysAt(s[Len(s)], v)
                    /\ Covers(e, v) => PhysAt(Join(s, e)[Len(s)], v) = PhysAt(e, v)
<1> DEFINE r == AsRegion(e)
           n == Len(s)
<1>1. /\ r.vaddr = e.vaddr /\ r.size = e.size /\ r.phys = e.phys /\ r.prot = e.prot
      /\ \A v : (Covers(r, v) <=> Covers(e, v)) /\ PhysAt(r, v) = PhysAt(e, v)
  BY DEF AsRegion, Covers, PhysAt, EndV
<1>2. /\ e.vaddr \in Nat /\ e.size \in Nat \ {0} /\ e.phys \in Nat
      /\ e.vaddr + e.size <= VPages
      /\ e.phys = NoPhys \/ e.phys + e.size <= Limit
      /\ Limit \in Nat /\ VPages \in Nat /\ NoPhys \in Nat /\ NoPhys > Limit + VPages
  BY <1>1, RegNumbers, SizesAssumption, VirtualAssumption
<1>3. n \in Nat /\ (\A i \in 1 .. n : s[i] \in Regs)
  OBVIOUS
<1>4. CASE ~ (n > 0 /\ Continues(s[n], e))
  <2>1. Join(s, e) = Append(s, r)
    BY <1>4 DEF Join
  <2> HIDE DEF r
  <2>2. r \in Regs
    BY DEF r
  <2>3. /\ Join(s, e) \in Seq(Regs) /\ Len(Join(s, e)) = n + 1
        /\ (\A i \in 1 .. n : Join(s, e)[i] = s[i]) /\ Join(s, e)[n + 1] = r
    BY <1>3, <2>1, <2>2
  <2> QED  BY <1>1, <2>3
<1>5. CASE n > 0 /\ Continues(s[n], e)
  <2> DEFINE g == [s[n] EXCEPT !.size = @ + e.size]
  <2>1. s[n] \in Regs /\ n \in 1 .. n
    BY <1>3, <1>5
  <2>2. /\ s[n].vaddr \in Nat /\ s[n].size \in Nat \ {0} /\ s[n].phys \in Nat
        /\ s[n].vaddr + s[n].size <= VPages
        /\ s[n].phys = NoPhys \/ s[n].phys + s[n].size <= Limit
        /\ s[n].prot \in Prots
        /\ s[n] = [vaddr |-> s[n].vaddr, size |-> s[n].size, phys |-> s[n].phys, prot |-> s[n].prot]
    BY <2>1, RegNumbers
  <2>3. Join(s, e) = [s EXCEPT ![n] = g]
    BY <1>5 DEF Join
  <2>4. g = [vaddr |-> s[n].vaddr, size |-> s[n].size + e.size, phys |-> s[n].phys, prot |-> s[n].prot]
    BY <2>2
  <2>5. /\ s[n].vaddr + s[n].size = e.vaddr
        /\ \/ e.phys = NoPhys /\ s[n].phys = NoPhys
           \/ s[n].phys # NoPhys /\ e.phys # NoPhys /\ s[n].phys + s[n].size = e.phys
    BY <1>2, <1>5, <2>2 DEF Continues, EndV
  <2>6. g \in Regs
    <3>1. /\ s[n].size + e.size \in Nat \ {0}
          /\ s[n].vaddr + (s[n].size + e.size) <= VPages
          /\ s[n].phys = NoPhys \/ s[n].phys + (s[n].size + e.size) <= Limit
      BY <1>2, <2>2, <2>5
    <3> HIDE DEF g, n
    <3> QED  BY <2>2, <2>4, <3>1, MakeReg
  <2>7. /\ Join(s, e) \in Seq(Regs) /\ Len(Join(s, e)) = n
        /\ \A i \in 1 .. n : Join(s, e)[i] = IF i = n THEN g ELSE s[i]
    <3> HIDE DEF g
    <3>1. /\ [s EXCEPT ![n] = g] \in Seq(Regs) /\ Len([s EXCEPT ![n] = g]) = n
          /\ \A i \in 1 .. n : [s EXCEPT ![n] = g][i] = IF i = n THEN g ELSE s[i]
      BY <2>1, <2>6
    <3> QED  BY <2>3, <3>1
  <2>8. ASSUME NEW v \in Nat
        PROVE  /\ Covers(g, v) <=> Covers(s[n], v) \/ Covers(e, v)
               /\ ~ (Covers(s[n], v) /\ Covers(e, v))
               /\ Covers(s[n], v) => PhysAt(g, v) = PhysAt(s[n], v)
               /\ Covers(e, v) => PhysAt(g, v) = PhysAt(e, v)
    <3>1. /\ g.vaddr = s[n].vaddr /\ g.size = s[n].size + e.size /\ g.phys = s[n].phys
      BY <2>4
    <3> HIDE DEF g, n
    <3>2. /\ Covers(g, v) <=> s[n].vaddr <= v /\ v < s[n].vaddr + (s[n].size + e.size)
          /\ Covers(s[n], v) <=> s[n].vaddr <= v /\ v < s[n].vaddr + s[n].size
          /\ Covers(e, v) <=> e.vaddr <= v /\ v < e.vaddr + e.size
          /\ PhysAt(g, v) = IF s[n].phys = NoPhys THEN NoPhys ELSE s[n].phys + (v - s[n].vaddr)
          /\ PhysAt(s[n], v) = IF s[n].phys = NoPhys THEN NoPhys ELSE s[n].phys + (v - s[n].vaddr)
          /\ PhysAt(e, v) = IF e.phys = NoPhys THEN NoPhys ELSE e.phys + (v - e.vaddr)
      BY <3>1 DEF Covers, PhysAt, EndV
    <3>3. /\ Covers(g, v) <=> Covers(s[n], v) \/ Covers(e, v)
          /\ ~ (Covers(s[n], v) /\ Covers(e, v))
      <4> DEFINE x == s[n].vaddr
                 y == s[n].size
                 z == e.size
      <4>1. x \in Nat /\ y \in Nat \ {0} /\ z \in Nat \ {0} /\ e.vaddr = x + y
        BY <1>2, <2>2, <2>5
      <4>2. /\ Covers(g, v) <=> x <= v /\ v < x + (y + z)
            /\ Covers(s[n], v) <=> x <= v /\ v < x + y
            /\ Covers(e, v) <=> x + y <= v /\ v < x + y + z
        BY <3>2, <4>1
      <4> HIDE DEF x, y, z
      <4> QED  BY <4>1, <4>2
    <3>4. Covers(e, v) => PhysAt(g, v) = PhysAt(e, v)
      BY <1>2, <2>2, <2>5, <3>2
    <3> QED  BY <3>2, <3>3, <3>4
  <2>9. Join(s, e)[n] = g
    BY <2>1, <2>7
  <2> HIDE DEF g
  <2> QED  BY <2>1, <2>7, <2>8, <2>9
<1> QED  BY <1>4, <1>5

(* So the list leads where it did, and where the new range says.           *)
LEMMA JoinLeads ==
  ASSUME NEW s \in Seq(Regs), NEW e, AsRegion(e) \in Regs
  PROVE  /\ Join(s, e) \in Seq(Regs)
         /\ \A v \in Nat : Translation(Join(s, e), v) =
              Translation(s, v) \cup (IF Covers(e, v) THEN {PhysAt(e, v)} ELSE {})
<1> DEFINE n == Len(s)
           j == Join(s, e)
<1>1. n \in Nat
  OBVIOUS
<1>2. j \in Seq(Regs)
  BY JoinIs
<1>3. ASSUME NEW v \in Nat, NEW w
      PROVE  w \in Translation(j, v) <=> w \in Translation(s, v) \/ (Covers(e, v) /\ w = PhysAt(e, v))
  <2>1. w \in Translation(s, v) <=> \E i \in 1 .. n : Covers(s[i], v) /\ w = PhysAt(s[i], v)
    BY TranslationIs
  <2>2. w \in Translation(j, v) <=> \E i \in 1 .. Len(j) : Covers(j[i], v) /\ w = PhysAt(j[i], v)
    BY <1>2, TranslationIs
  <2> DEFINE Elsewhere == \E i \in 1 .. n : i # n /\ Covers(s[i], v) /\ w = PhysAt(s[i], v)
  <2>3. CASE /\ Len(j) = n + 1
             /\ \A i \in 1 .. n : j[i] = s[i]
             /\ \A x : (Covers(j[n + 1], x) <=> Covers(e, x)) /\ PhysAt(j[n + 1], x) = PhysAt(e, x)
    <3>1. \A i : i \in 1 .. n + 1 <=> i \in 1 .. n \/ i = n + 1
      BY <1>1
    <3> HIDE DEF n, j
    <3>2. w \in Translation(j, v)
            <=> \/ \E i \in 1 .. n : Covers(j[i], v) /\ w = PhysAt(j[i], v)
                \/ Covers(j[n + 1], v) /\ w = PhysAt(j[n + 1], v)
      BY <2>2, <2>3, <3>1
    <3> QED  BY <2>1, <2>3, <3>2
  <2>4. CASE /\ Len(j) = n /\ n \in 1 .. n
             /\ \A i \in 1 .. n : i # n => j[i] = s[i]
             /\ Covers(j[n], v) <=> Covers(s[n], v) \/ Covers(e, v)
             /\ Covers(s[n], v) => PhysAt(j[n], v) = PhysAt(s[n], v)
             /\ Covers(e, v) => PhysAt(j[n], v) = PhysAt(e, v)
    <3> HIDE DEF n, j
    <3>1. w \in Translation(j, v) <=> Elsewhere \/ (Covers(j[n], v) /\ w = PhysAt(j[n], v))
      BY <2>2, <2>4
    <3>2. w \in Translation(s, v) <=> Elsewhere \/ (Covers(s[n], v) /\ w = PhysAt(s[n], v))
      BY <2>1, <2>4
    <3> HIDE DEF Elsewhere
    <3> QED  BY <2>4, <3>1, <3>2
  <2> QED  BY <2>3, <2>4, JoinIs
<1> QED  BY <1>2, <1>3

(* Mapping a range: its addresses lead where it says, the rest where they  *)
(* did.                                                                    *)
LEMMA MapLeads ==
  ASSUME NEW s \in Seq(Regs), NEW e, AsRegion(e) \in Regs
  PROVE  /\ DmemMapVirtRange(s, e) \in Seq(Regs)
         /\ \A v \in Nat : Translation(DmemMapVirtRange(s, e), v) =
              IF Covers(e, v) THEN {PhysAt(e, v)} ELSE Translation(s, v)
<1>1. IsSpan(e)
  <2>1. AsRegion(e).vaddr = e.vaddr /\ AsRegion(e).size = e.size
    BY DEF AsRegion
  <2> QED  BY <2>1, RegNumbers DEF IsSpan
<1> DEFINE u == DmemUnmapVirtRange(s, e)
<1>2. /\ u \in Seq(Regs)
      /\ \A v \in Nat : Translation(u, v) = IF Covers(e, v) THEN {} ELSE Translation(s, v)
  BY <1>1, UnmapLeads
<1>3. DmemMapVirtRange(s, e) = Join(u, e)
  BY DEF DmemMapVirtRange
<1> HIDE DEF u
<1>4. /\ Join(u, e) \in Seq(Regs)
      /\ \A v \in Nat : Translation(Join(u, e), v) =
           Translation(u, v) \cup (IF Covers(e, v) THEN {PhysAt(e, v)} ELSE {})
  BY <1>2, JoinLeads
<1> QED  BY <1>2, <1>3, <1>4

-----------------------------------------------------------------------------
(* What the last of n ranges that cover an address says of it, and the     *)
(* last mapping among n entries of a batch.                                *)
Saying(s, n, v, w) ==
  \E i \in 1 .. n : /\ Covers(s[i], v) /\ w = PhysAt(s[i], v)
                    /\ \A j \in 1 .. n : j > i => ~Covers(s[j], v)

MapSaying(b, n, v, w) ==
  \E i \in 1 .. n : /\ b[i].op = "map" /\ Covers(b[i], v) /\ w = PhysAt(b[i], v)
                    /\ \A j \in 1 .. n : j > i => ~ (b[j].op = "map" /\ Covers(b[j], v))

(* Mapping at the end has the last word.                                   *)
LEMMA JoinSays ==
  ASSUME NEW s \in Seq(Regs), NEW e, AsRegion(e) \in Regs, NEW v \in Nat, NEW w
  PROVE  Saying(Join(s, e), Len(Join(s, e)), v, w)
           <=> IF Covers(e, v) THEN w = PhysAt(e, v) ELSE Saying(s, Len(s), v, w)
<1> DEFINE n == Len(s)
           j == Join(s, e)
<1>1. n \in Nat
  OBVIOUS
<1>2. CASE /\ Len(j) = n + 1
           /\ \A i \in 1 .. n : j[i] = s[i]
           /\ Covers(j[n + 1], v) <=> Covers(e, v)
           /\ PhysAt(j[n + 1], v) = PhysAt(e, v)
  <2> HIDE DEF n, j
  <2>1. /\ \A i : i \in 1 .. n + 1 <=> i \in 1 .. n \/ i = n + 1
        /\ \A i \in 1 .. n : n + 1 > i /\ ~ (i > n + 1)
        /\ ~ (n + 1 > n + 1)
    BY <1>1
  <2>2. CASE Covers(e, v)
    <3>1. Saying(j, n + 1, v, w) <=> w = PhysAt(e, v)
      BY <1>2, <2>1, <2>2 DEF Saying
    <3> QED  BY <1>2, <2>2, <3>1 DEF n, j
  <2>3. CASE ~Covers(e, v)
    <3>1. Saying(j, n + 1, v, w) <=> Saying(s, n, v, w)
      BY <1>2, <2>1, <2>3 DEF Saying
    <3> QED  BY <1>2, <2>3, <3>1 DEF n, j
  <2> QED  BY <2>2, <2>3
<1>3. CASE /\ Len(j) = n /\ n \in 1 .. n
           /\ \A i \in 1 .. n : i # n => j[i] = s[i]
           /\ Covers(j[n], v) <=> Covers(s[n], v) \/ Covers(e, v)
           /\ ~ (Covers(s[n], v) /\ Covers(e, v))
           /\ Covers(s[n], v) => PhysAt(j[n], v) = PhysAt(s[n], v)
           /\ Covers(e, v) => PhysAt(j[n], v) = PhysAt(e, v)
  <2> HIDE DEF n, j
  <2>1. \A i \in 1 .. n : (i # n <=> n > i) /\ ~ (i > n)
    BY <1>1
  <2>2. CASE Covers(e, v)
    <3>1. Saying(j, n, v, w) <=> w = PhysAt(e, v)
      BY <1>3, <2>1, <2>2 DEF Saying
    <3> QED  BY <1>3, <2>2, <3>1 DEF n, j
  <2>3. CASE ~Covers(e, v)
    <3>1. \A i \in 1 .. n : /\ Covers(j[i], v) <=> Covers(s[i], v)
                            /\ Covers(s[i], v) => PhysAt(j[i], v) = PhysAt(s[i], v)
      BY <1>3, <2>3
    <3>2. Saying(j, n, v, w) <=> Saying(s, n, v, w)
      BY <3>1 DEF Saying
    <3> QED  BY <1>3, <2>3, <3>2 DEF n, j
  <2> QED  BY <2>2, <2>3
<1> QED  BY <1>2, <1>3, JoinIs

(* The new ranges of a batch say what its mappings say: joining them among *)
(* themselves loses nothing.                                               *)
LEMMA NewRegionsSay ==
  ASSUME NEW b \in Seq(Entry), \A i \in DOMAIN b : b[i].op = "map" => AsRegion(b[i]) \in Regs
  PROVE  /\ NewRegions(b) \in Seq(Regs)
         /\ \A v \in Nat : \A w :
              Saying(NewRegions(b), Len(NewRegions(b)), v, w) <=> MapSaying(b, Len(b), v, w)
<1> DEFINE n == Len(b)
           step == [i \in 1 .. n |-> [x \in Seq(Regs) |-> IF b[i].op = "map" THEN Join(x, b[i]) ELSE x]]
           start == <<>>
           P(g) == g = [i \in 0 .. n |->
                          IF i = 0 THEN start
                          ELSE IF b[i].op = "map" THEN Join(g[i - 1], b[i]) ELSE g[i - 1]]
           h == CHOOSE g : P(g)
<1>1. n \in Nat /\ \A i \in 1 .. n : b[i].op = "map" => AsRegion(b[i]) \in Regs
  OBVIOUS
<1>2. PICK f : Iterates(f, n, Seq(Regs), start, step)
  <2>1. \A i \in 1 .. n : \A x \in Seq(Regs) :
          (IF b[i].op = "map" THEN Join(x, b[i]) ELSE x) \in Seq(Regs)
    BY <1>1, JoinIs
  <2>2. step \in [1 .. n -> [Seq(Regs) -> Seq(Regs)]] /\ start \in Seq(Regs)
    BY <2>1
  <2> HIDE DEF step
  <2> QED  BY <1>1, <2>2, LoopRuns
<1>3. P(f)
  <2>1. /\ f \in [0 .. n -> Seq(Regs)] /\ f[0] = start
        /\ \A i \in 1 .. n : f[i - 1] \in Seq(Regs) /\ f[i] = step[i][f[i - 1]]
    <3> HIDE DEF step, n, start
    <3> QED  BY <1>1, <1>2 DEF Iterates
  <2>2. \A i \in 1 .. n : \A x \in Seq(Regs) : step[i][x] = IF b[i].op = "map" THEN Join(x, b[i]) ELSE x
    OBVIOUS
  <2> HIDE DEF step
  <2>3. \A i \in 1 .. n : f[i] = IF b[i].op = "map" THEN Join(f[i - 1], b[i]) ELSE f[i - 1]
    BY <2>1, <2>2
  <2> HIDE DEF n, start
  <2> QED  BY <1>1, <2>1, <2>3
<1>4. P(h)
  BY <1>3, Zenon
<1>5. NewRegions(b) = h[n]
  BY DEF NewRegions
<1> HIDE DEF h, n
<1>6. /\ h[0] = <<>>
      /\ \A i \in 0 .. n - 1 :
           h[i + 1] = IF b[i + 1].op = "map" THEN Join(h[i], b[i + 1]) ELSE h[i]
  BY <1>1, <1>4
<1> DEFINE T == {i \in 0 .. n : /\ h[i] \in Seq(Regs)
                                /\ \A v \in Nat : \A w :
                                     Saying(h[i], Len(h[i]), v, w) <=> MapSaying(b, i, v, w)}
<1>7. 0 \in T
  <2>1. <<>> \in Seq(Regs) /\ Len(<<>>) = 0 /\ 0 \in 0 .. n
    BY <1>1
  <2>2. \A v, w : ~Saying(<<>>, 0, v, w) /\ ~MapSaying(b, 0, v, w)
    BY DEF Saying, MapSaying
  <2> QED  BY <1>6, <2>1, <2>2
<1>8. ASSUME NEW i \in 0 .. n - 1, i \in T PROVE i + 1 \in T
  <2>1. i + 1 \in 1 .. n /\ i + 1 \in 0 .. n
    BY <1>1
  <2>2. h[i] \in Seq(Regs)
    BY <1>8
  <2>3. /\ \A k : k \in 1 .. i + 1 <=> k \in 1 .. i \/ k = i + 1
        /\ \A k \in 1 .. i : i + 1 > k /\ ~ (k > i + 1)
        /\ ~ (i + 1 > i + 1)
    BY <1>1
  <2>4. CASE b[i + 1].op = "map"
    <3>1. h[i + 1] = Join(h[i], b[i + 1]) /\ AsRegion(b[i + 1]) \in Regs
      BY <1>1, <1>6, <2>1, <2>4
    <3>2. h[i + 1] \in Seq(Regs)
      BY <2>2, <3>1, JoinIs
    <3>3. ASSUME NEW v \in Nat, NEW w
          PROVE  Saying(h[i + 1], Len(h[i + 1]), v, w) <=> MapSaying(b, i + 1, v, w)
      <4>1. Saying(h[i + 1], Len(h[i + 1]), v, w)
              <=> IF Covers(b[i + 1], v) THEN w = PhysAt(b[i + 1], v) ELSE Saying(h[i], Len(h[i]), v, w)
        BY <2>2, <3>1, JoinSays
      <4>2. Saying(h[i], Len(h[i]), v, w) <=> MapSaying(b, i, v, w)
        BY <1>8
      <4>3. CASE Covers(b[i + 1], v)
        <5>1. MapSaying(b, i + 1, v, w) <=> w = PhysAt(b[i + 1], v)
          BY <2>3, <2>4, <4>3 DEF MapSaying
        <5> QED  BY <4>1, <4>3, <5>1
      <4>4. CASE ~Covers(b[i + 1], v)
        <5>1. MapSaying(b, i + 1, v, w) <=> MapSaying(b, i, v, w)
          BY <2>3, <4>4 DEF MapSaying
        <5> QED  BY <4>1, <4>2, <4>4, <5>1
      <4> QED  BY <4>3, <4>4
    <3> QED  BY <2>1, <3>2, <3>3
  <2>5. CASE b[i + 1].op # "map"
    <3>1. h[i + 1] = h[i]
      BY <1>6, <2>1, <2>5
    <3>2. \A v, w : MapSaying(b, i + 1, v, w) <=> MapSaying(b, i, v, w)
      BY <2>3, <2>5 DEF MapSaying
    <3> QED  BY <1>8, <2>1, <3>1, <3>2
  <2> QED  BY <2>4, <2>5
<1> HIDE DEF T
<1>9. n \in T
  <2>1. 0 .. n \subseteq T  BY <1>1, <1>7, <1>8, UpTo
  <2> QED  BY <1>1, <2>1
<1> QED  BY <1>5, <1>9 DEF T, n

(* Of some of n indices one is the last.                                   *)
LEMMA LastOfSome ==
  ASSUME NEW n \in Nat, NEW A \in SUBSET (1 .. n), A # {}
  PROVE  \E i \in A : \A j \in A : j <= i
<1> DEFINE behind == {n - i : i \in A}
<1>1. PICK m \in behind : \A k \in behind : m <= k
  <2>1. \A i \in A : i \in Int /\ n - i \in Nat
    OBVIOUS
  <2>2. behind \in SUBSET Nat /\ behind # {}
    BY <2>1
  <2> HIDE DEF behind
  <2> QED  BY <2>2, LeastElement
<1>2. PICK i \in A : m = n - i
  BY <1>1
<1>3. \A j \in A : n - i <= n - j
  BY <1>1, <1>2
<1> QED  BY <1>3

(* Whatever some range covers, the last of them says where it leads.       *)
LEMMA SomeSaying ==
  ASSUME NEW n \in Nat, NEW s, NEW v
  PROVE  (\E w : Saying(s, n, v, w)) <=> \E i \in 1 .. n : Covers(s[i], v)
<1>1. ASSUME NEW i \in 1 .. n, Covers(s[i], v) PROVE \E w : Saying(s, n, v, w)
  <2> DEFINE A == {k \in 1 .. n : Covers(s[k], v)}
  <2>1. PICK l \in A : \A k \in A : k <= l
    <3>1. A \in SUBSET (1 .. n) /\ A # {}
      BY <1>1
    <3> HIDE DEF A
    <3> QED  BY <3>1, LastOfSome
  <2>2. l \in 1 .. n /\ Covers(s[l], v) /\ \A k \in 1 .. n : Covers(s[k], v) => k <= l
    BY <2>1
  <2>3. Saying(s, n, v, PhysAt(s[l], v))
    BY <2>2 DEF Saying
  <2> QED  BY <2>3
<1> QED  BY <1>1 DEF Saying

(* Some instruction of a batch maps an address exactly when there is a      *)
(* last one that does.                                                      *)
LEMMA SomeMapSaying ==
  ASSUME NEW n \in Nat, NEW b, NEW v
  PROVE  (\E w : MapSaying(b, n, v, w)) <=> \E i \in 1 .. n : b[i].op = "map" /\ Covers(b[i], v)
<1>1. ASSUME NEW i \in 1 .. n, b[i].op = "map", Covers(b[i], v) PROVE \E w : MapSaying(b, n, v, w)
  <2> DEFINE A == {k \in 1 .. n : b[k].op = "map" /\ Covers(b[k], v)}
  <2>1. PICK l \in A : \A k \in A : k <= l
    <3>1. A \in SUBSET (1 .. n) /\ A # {}
      BY <1>1
    <3> HIDE DEF A
    <3> QED  BY <3>1, LastOfSome
  <2>2. /\ l \in 1 .. n /\ b[l].op = "map" /\ Covers(b[l], v)
        /\ \A k \in 1 .. n : b[k].op = "map" /\ Covers(b[k], v) => k <= l
    BY <2>1
  <2>3. MapSaying(b, n, v, PhysAt(b[l], v))
    BY <2>2 DEF MapSaying
  <2> QED  BY <2>3
<1> QED  BY <1>1 DEF MapSaying

(* A region is its own range.                                              *)
LEMMA RegionAsRegion ==
  ASSUME NEW r \in Regs
  PROVE  AsRegion(r) = r
  BY RegNumbers DEF AsRegion

(* Mapping ranges one after the other: the last word is with the last.     *)
LEMMA MappedLeads ==
  ASSUME NEW s \in Seq(Regs), NEW r \in Seq(Regs)
  PROVE  /\ Mapped(s, r) \in Seq(Regs)
         /\ \A v \in Nat : \A w :
              w \in Translation(Mapped(s, r), v)
                <=> \/ Saying(r, Len(r), v, w)
                    \/ w \in Translation(s, v) /\ \A i \in 1 .. Len(r) : ~Covers(r[i], v)
<1> DEFINE n == Len(r)
           step == [i \in 1 .. n |-> [x \in Seq(Regs) |-> DmemMapVirtRange(x, r[i])]]
           P(g) == g = [i \in 0 .. n |-> IF i = 0 THEN s ELSE DmemMapVirtRange(g[i - 1], r[i])]
           h == CHOOSE g : P(g)
<1>1. n \in Nat /\ \A i \in 1 .. n : r[i] \in Regs /\ AsRegion(r[i]) \in Regs
  BY RegionAsRegion
<1>2. PICK f : Iterates(f, n, Seq(Regs), s, step)
  <2>1. \A i \in 1 .. n : \A x \in Seq(Regs) : DmemMapVirtRange(x, r[i]) \in Seq(Regs)
    BY <1>1, MapLeads
  <2>2. step \in [1 .. n -> [Seq(Regs) -> Seq(Regs)]]
    BY <2>1
  <2> HIDE DEF step
  <2> QED  BY <1>1, <2>2, LoopRuns
<1>3. P(f)
  <2>1. /\ f \in [0 .. n -> Seq(Regs)] /\ f[0] = s
        /\ \A i \in 1 .. n : f[i - 1] \in Seq(Regs) /\ f[i] = step[i][f[i - 1]]
    <3> HIDE DEF step, n
    <3> QED  BY <1>1, <1>2 DEF Iterates
  <2>2. \A i \in 1 .. n : \A x \in Seq(Regs) : step[i][x] = DmemMapVirtRange(x, r[i])
    OBVIOUS
  <2> HIDE DEF step
  <2>3. \A i \in 1 .. n : f[i] = DmemMapVirtRange(f[i - 1], r[i])
    BY <2>1, <2>2
  <2> HIDE DEF n
  <2> QED  BY <1>1, <2>1, <2>3
<1>4. P(h)
  BY <1>3, Zenon
<1>5. Mapped(s, r) = h[n]
  BY DEF Mapped
<1> HIDE DEF h, n
<1>6. h[0] = s /\ \A i \in 0 .. n - 1 : h[i + 1] = DmemMapVirtRange(h[i], r[i + 1])
  BY <1>1, <1>4
<1> DEFINE Leads(i, v, w) == \/ Saying(r, i, v, w)
                             \/ w \in Translation(s, v) /\ \A j \in 1 .. i : ~Covers(r[j], v)
           T == {i \in 0 .. n : /\ h[i] \in Seq(Regs)
                                /\ \A v \in Nat : \A w : w \in Translation(h[i], v) <=> Leads(i, v, w)}
<1>7. 0 \in T
  <2>1. \A v, w : Leads(0, v, w) <=> w \in Translation(s, v)
    BY DEF Saying
  <2> HIDE DEF Leads
  <2> QED  BY <1>1, <1>6, <2>1
<1>8. ASSUME NEW i \in 0 .. n - 1, i \in T PROVE i + 1 \in T
  <2>1. i + 1 \in 1 .. n /\ i + 1 \in 0 .. n
    BY <1>1
  <2>2. h[i] \in Seq(Regs) /\ h[i + 1] = DmemMapVirtRange(h[i], r[i + 1])
    BY <1>6, <1>8, <2>1
  <2>3. AsRegion(r[i + 1]) \in Regs
    BY <1>1, <2>1
  <2>4. /\ h[i + 1] \in Seq(Regs)
        /\ \A v \in Nat : Translation(h[i + 1], v) =
             IF Covers(r[i + 1], v) THEN {PhysAt(r[i + 1], v)} ELSE Translation(h[i], v)
    <3>1. /\ DmemMapVirtRange(h[i], r[i + 1]) \in Seq(Regs)
          /\ \A v \in Nat : Translation(DmemMapVirtRange(h[i], r[i + 1]), v) =
               IF Covers(r[i + 1], v) THEN {PhysAt(r[i + 1], v)} ELSE Translation(h[i], v)
      BY <2>2, <2>3, MapLeads
    <3> QED  BY <2>2, <3>1
  <2>5. /\ \A k : k \in 1 .. i + 1 <=> k \in 1 .. i \/ k = i + 1
        /\ \A k \in 1 .. i : i + 1 > k /\ ~ (k > i + 1)
        /\ ~ (i + 1 > i + 1)
    BY <1>1
  <2>6. ASSUME NEW v \in Nat, NEW w
        PROVE  w \in Translation(h[i + 1], v) <=> Leads(i + 1, v, w)
    <3>1. w \in Translation(h[i], v) <=> Leads(i, v, w)
      BY <1>8
    <3>2. CASE Covers(r[i + 1], v)
      <4>1. Saying(r, i + 1, v, w) <=> w = PhysAt(r[i + 1], v)
        BY <2>5, <3>2 DEF Saying
      <4> QED  BY <2>4, <2>5, <3>2, <4>1
    <3>3. CASE ~Covers(r[i + 1], v)
      <4>1. Saying(r, i + 1, v, w) <=> Saying(r, i, v, w)
        BY <2>5, <3>3 DEF Saying
      <4>2. (\A j \in 1 .. i + 1 : ~Covers(r[j], v)) <=> \A j \in 1 .. i : ~Covers(r[j], v)
        BY <2>5, <3>3
      <4> QED  BY <2>4, <3>1, <3>3, <4>1, <4>2
    <3> QED  BY <3>2, <3>3
  <2> HIDE DEF Leads
  <2> QED  BY <2>1, <2>4, <2>6
<1> HIDE DEF T
<1>9. n \in T
  <2>1. 0 .. n \subseteq T  BY <1>1, <1>7, <1>8, UpTo
  <2> QED  BY <1>1, <2>1
<1> QED  BY <1>5, <1>9 DEF T, n

(* Doing the unmappings of a batch: what one of them covers leads nowhere. *)
LEMMA UnmappedLeads ==
  ASSUME NEW s \in Seq(Regs), NEW b \in Seq(Entry)
  PROVE  /\ Unmapped(s, b) \in Seq(Regs)
         /\ \A v \in Nat : Translation(Unmapped(s, b), v) =
              IF \E i \in 1 .. Len(b) : b[i].op = "unmap" /\ Covers(b[i], v) THEN {}
              ELSE Translation(s, v)
<1> DEFINE n == Len(b)
           step == [i \in 1 .. n |-> [x \in Seq(Regs) |->
                      IF b[i].op = "unmap" THEN DmemUnmapVirtRange(x, b[i]) ELSE x]]
           P(g) == g = [i \in 0 .. n |->
                          IF i = 0 THEN s
                          ELSE IF b[i].op = "unmap" THEN DmemUnmapVirtRange(g[i - 1], b[i]) ELSE g[i - 1]]
           h == CHOOSE g : P(g)
<1>1. n \in Nat /\ \A i \in 1 .. n : b[i] \in Entry /\ IsSpan(b[i])
  <2>1. n \in Nat /\ \A i \in 1 .. n : b[i] \in Entry
    OBVIOUS
  <2>2. \A e \in Entry : IsSpan(e)
    BY VirtualAssumption DEF Entry, VAddrs, IsSpan
  <2> QED  BY <2>1, <2>2
<1>2. PICK f : Iterates(f, n, Seq(Regs), s, step)
  <2>1. \A i \in 1 .. n : \A x \in Seq(Regs) :
          (IF b[i].op = "unmap" THEN DmemUnmapVirtRange(x, b[i]) ELSE x) \in Seq(Regs)
    BY <1>1, UnmapLeads
  <2>2. step \in [1 .. n -> [Seq(Regs) -> Seq(Regs)]]
    BY <2>1
  <2> HIDE DEF step
  <2> QED  BY <1>1, <2>2, LoopRuns
<1>3. P(f)
  <2>1. /\ f \in [0 .. n -> Seq(Regs)] /\ f[0] = s
        /\ \A i \in 1 .. n : f[i - 1] \in Seq(Regs) /\ f[i] = step[i][f[i - 1]]
    <3> HIDE DEF step, n
    <3> QED  BY <1>1, <1>2 DEF Iterates
  <2>2. \A i \in 1 .. n : \A x \in Seq(Regs) : step[i][x] = IF b[i].op = "unmap" THEN DmemUnmapVirtRange(x, b[i]) ELSE x
    OBVIOUS
  <2> HIDE DEF step
  <2>3. \A i \in 1 .. n : f[i] = IF b[i].op = "unmap" THEN DmemUnmapVirtRange(f[i - 1], b[i]) ELSE f[i - 1]
    BY <2>1, <2>2
  <2> HIDE DEF n
  <2> QED  BY <1>1, <2>1, <2>3
<1>4. P(h)
  BY <1>3, Zenon
<1>5. Unmapped(s, b) = h[n]
  BY DEF Unmapped
<1> HIDE DEF h, n
<1>6. /\ h[0] = s
      /\ \A i \in 0 .. n - 1 :
           h[i + 1] = IF b[i + 1].op = "unmap" THEN DmemUnmapVirtRange(h[i], b[i + 1]) ELSE h[i]
  BY <1>1, <1>4
<1> DEFINE Gone(i, v) == \E j \in 1 .. i : b[j].op = "unmap" /\ Covers(b[j], v)
           T == {i \in 0 .. n : /\ h[i] \in Seq(Regs)
                                /\ \A v \in Nat : Translation(h[i], v) =
                                     IF Gone(i, v) THEN {} ELSE Translation(s, v)}
<1>7. 0 \in T
  BY <1>1, <1>6
<1>8. ASSUME NEW i \in 0 .. n - 1, i \in T PROVE i + 1 \in T
  <2>1. i + 1 \in 1 .. n /\ i + 1 \in 0 .. n
    BY <1>1
  <2>2. h[i] \in Seq(Regs) /\ IsSpan(b[i + 1])
    BY <1>1, <1>8, <2>1
  <2>3. \A k : k \in 1 .. i + 1 <=> k \in 1 .. i \/ k = i + 1
    BY <1>1
  <2>4. \A v : Gone(i + 1, v) <=> Gone(i, v) \/ (b[i + 1].op = "unmap" /\ Covers(b[i + 1], v))
    BY <2>3
  <2>5. \A v \in Nat : Translation(h[i], v) = IF Gone(i, v) THEN {} ELSE Translation(s, v)
    BY <1>8
  <2> HIDE DEF Gone
  <2>6. CASE b[i + 1].op = "unmap"
    <3>1. h[i + 1] = DmemUnmapVirtRange(h[i], b[i + 1])
      BY <1>6, <2>1, <2>6
    <3>2. /\ h[i + 1] \in Seq(Regs)
          /\ \A v \in Nat : Translation(h[i + 1], v) =
               IF Covers(b[i + 1], v) THEN {} ELSE Translation(h[i], v)
      <4>1. /\ DmemUnmapVirtRange(h[i], b[i + 1]) \in Seq(Regs)
            /\ \A v \in Nat : Translation(DmemUnmapVirtRange(h[i], b[i + 1]), v) =
                 IF Covers(b[i + 1], v) THEN {} ELSE Translation(h[i], v)
        BY <2>2, UnmapLeads
      <4> QED  BY <3>1, <4>1
    <3> QED  BY <2>1, <2>4, <2>5, <2>6, <3>2
  <2>7. CASE b[i + 1].op # "unmap"
    <3>1. h[i + 1] = h[i]
      BY <1>6, <2>1, <2>7
    <3> QED  BY <2>1, <2>2, <2>4, <2>5, <2>7, <3>1
  <2> QED  BY <2>6, <2>7
<1> HIDE DEF T
<1>9. n \in T
  <2>1. 0 .. n \subseteq T  BY <1>1, <1>7, <1>8, UpTo
  <2> QED  BY <1>1, <2>1
<1> QED  BY <1>5, <1>9 DEF T, n

(* Erasing regions leaves a list of regions, each of which the list had;   *)
(* none of them begins in the released range.                              *)
LEMMA ErasedKeeps ==
  ASSUME NEW s \in Seq(Regs), NEW r
  PROVE  /\ Erased(s, r) \in Seq(Regs)
         /\ \A i \in 1 .. Len(Erased(s, r)) :
              /\ Erased(s, r)[i].phys \notin PagesOf(r)
              /\ \E j \in 1 .. Len(s) : Erased(s, r)[i] = s[j]
<1> DEFINE n == Len(s)
           step == [i \in 1 .. n |-> [x \in Seq(Regs) |->
                      IF s[i].phys \in PagesOf(r) THEN x ELSE Append(x, s[i])]]
           start == <<>>
           Grown(i, x) == IF s[i].phys \in PagesOf(r) THEN x ELSE Append(x, s[i])
           P(g) == g = [i \in 0 .. n |-> IF i = 0 THEN start ELSE Grown(i, g[i - 1])]
           h == CHOOSE g : P(g)
<1>1. n \in Nat /\ \A i \in 1 .. n : s[i] \in Regs
  OBVIOUS
<1>2. PICK f : Iterates(f, n, Seq(Regs), start, step)
  <2>1. step \in [1 .. n -> [Seq(Regs) -> Seq(Regs)]] /\ start \in Seq(Regs)
    BY <1>1
  <2> HIDE DEF step
  <2> QED  BY <1>1, <2>1, LoopRuns
<1>3. P(f)
  <2>1. /\ f \in [0 .. n -> Seq(Regs)] /\ f[0] = start
        /\ \A i \in 1 .. n : f[i - 1] \in Seq(Regs) /\ f[i] = step[i][f[i - 1]]
    <3> HIDE DEF step, n, start
    <3> QED  BY <1>1, <1>2 DEF Iterates
  <2>2. \A i \in 1 .. n : \A x \in Seq(Regs) : step[i][x] = Grown(i, x)
    OBVIOUS
  <2> HIDE DEF step, Grown
  <2>3. \A i \in 1 .. n : f[i] = Grown(i, f[i - 1])
    BY <2>1, <2>2
  <2> HIDE DEF n, start
  <2> QED  BY <1>1, <2>1, <2>3
<1>4. P(h)
  BY <1>3, Zenon
<1>5. Erased(s, r) = h[n]
  BY DEF Erased
<1> HIDE DEF h, n
<1>6. /\ h[0] = <<>>
      /\ \A i \in 0 .. n - 1 :
           h[i + 1] = IF s[i + 1].phys \in PagesOf(r) THEN h[i] ELSE Append(h[i], s[i + 1])
  <2> HIDE DEF Grown
  <2>1. h[0] = start /\ \A i \in 0 .. n - 1 : h[i + 1] = Grown(i + 1, h[i])
    BY <1>1, <1>4
  <2> QED  BY <2>1 DEF Grown
<1> DEFINE T == {i \in 0 .. n : /\ h[i] \in Seq(Regs)
                                /\ \A k \in 1 .. Len(h[i]) :
                                     /\ h[i][k].phys \notin PagesOf(r)
                                     /\ \E j \in 1 .. n : h[i][k] = s[j]}
<1>7. 0 \in T
  <2>1. h[0] \in Seq(Regs) /\ Len(h[0]) = 0 /\ 0 \in 0 .. n
    BY <1>1, <1>6
  <2>2. \A k : k \notin 1 .. 0
    OBVIOUS
  <2> QED  BY <2>1, <2>2
<1>8. ASSUME NEW i \in 0 .. n - 1, i \in T PROVE i + 1 \in T
  <2>1. i + 1 \in 1 .. n /\ i + 1 \in 0 .. n /\ s[i + 1] \in Regs
    BY <1>1
  <2>2. CASE s[i + 1].phys \in PagesOf(r)
    <3>1. h[i + 1] = h[i]  BY <1>6, <2>1, <2>2
    <3> QED  BY <1>8, <2>1, <3>1
  <2>3. CASE s[i + 1].phys \notin PagesOf(r)
    <3>1. h[i + 1] = Append(h[i], s[i + 1])  BY <1>6, <2>1, <2>3
    <3>2. /\ h[i + 1] \in Seq(Regs) /\ Len(h[i + 1]) = Len(h[i]) + 1
          /\ \A k \in 1 .. Len(h[i]) + 1 : h[i + 1][k] = IF k \in 1 .. Len(h[i]) THEN h[i][k] ELSE s[i + 1]
      BY <1>8, <2>1, <3>1
    <3> QED  BY <1>8, <2>1, <2>3, <3>2
  <2> QED  BY <2>2, <2>3
<1> HIDE DEF T
<1>9. n \in T
  <2>1. 0 .. n \subseteq T  BY <1>1, <1>7, <1>8, UpTo
  <2> QED  BY <1>1, <2>1
<1> QED  BY <1>5, <1>9 DEF T, n

-----------------------------------------------------------------------------
(* The list of virtual ranges.                                             *)
MapIInv == TypeOK /\ regions \in Seq(Regs)

(* What the guest may map is a region: its physical memory is memory it    *)
(* has, so it exists.                                                      *)
LEMMA MappableIsRegion ==
  ASSUME TypeOK, NEW e \in Entry, Mappable(e), e.op = "map"
  PROVE  AsRegion(e) \in Regs
<1>1. /\ e.vaddr \in Nat /\ e.size \in Nat \ {0} /\ e.phys \in Nat /\ e.prot \in Prots
      /\ EndV(e) = e.vaddr + e.size /\ EndV(e) <= VPages
  BY SizesAssumption, VirtualAssumption DEF Entry, VAddrs, Pages, EndV, Mappable
<1>2. e.phys # NoPhys => e.phys + e.size <= Limit
  <2> SUFFICES ASSUME e.phys # NoPhys PROVE e.phys + e.size <= Limit
    OBVIOUS
  <2>1. e.phys .. e.phys + e.size - 1 \subseteq held /\ held \subseteq Pages
    BY DEF Mappable, TypeOK
  <2>2. e.phys + e.size - 1 \in Pages
    BY <1>1, <2>1
  <2> QED  BY <1>1, <2>2, SizesAssumption DEF Pages
<1> QED  BY <1>1, <1>2, MakeReg DEF AsRegion

(* What a batch may map.                                                   *)
LEMMA BatchMapsRegions ==
  ASSUME TypeOK, NEW batch \in Batches, \A i \in DOMAIN batch : Mappable(batch[i])
  PROVE  /\ batch \in Seq(Entry)
         /\ \A i \in DOMAIN batch : batch[i].op = "map" => AsRegion(batch[i]) \in Regs
<1>1. batch \in Seq(Entry)
  BY CallsAssumption
<1>2. \A i \in DOMAIN batch : batch[i] \in Entry
  BY <1>1
<1> QED  BY <1>1, <1>2, MappableIsRegion

(* The allocator's type holds with the virtual ranges beside it.           *)
LEMMA MapAllocatorType == MapSpec => []TypeOK
<1>1. IInv => TypeOK
  BY DEF IInv
<1> QED  BY <1>1, MapFollowsAllocator, Invariance, PTL

(* Every list the calls leave is a list of regions inside the virtual      *)
(* range, mapped to nothing or to physical memory that exists.             *)
LEMMA RegionsStay ==
  ASSUME MapIInv, [MapNext]_mapVars
  PROVE  regions' \in Seq(Regs)
<1>1. ASSUME NEW t \in Threads, ReleaseUnmaps(t) PROVE regions' \in Seq(Regs)
  BY <1>1, ErasedKeeps DEF MapIInv, ReleaseUnmaps
<1>2. ASSUME NEW t \in Threads, NEW e \in Mappings, MapDirectMemory(t, e)
      PROVE  regions' \in Seq(Regs)
  <2>1. e \in Entry /\ e.op = "map" /\ Mappable(e)
    BY <1>2, CallsAssumption DEF MapDirectMemory
  <2>2. AsRegion(e) \in Regs
    BY <2>1, MappableIsRegion DEF MapIInv
  <2> QED  BY <1>2, <2>2, MapLeads DEF MapIInv, MapDirectMemory
<1>3. ASSUME NEW t \in Threads, NEW batch \in Batches, BatchMap(t, batch)
      PROVE  regions' \in Seq(Regs)
  <2>1. /\ batch \in Seq(Entry)
        /\ \A i \in DOMAIN batch : batch[i].op = "map" => AsRegion(batch[i]) \in Regs
    BY <1>3, BatchMapsRegions DEF MapIInv, BatchMap
  <2>2. NewRegions(batch) \in Seq(Regs)
    BY <2>1, NewRegionsSay
  <2>3. Unmapped(regions, batch) \in Seq(Regs)
    BY <2>1, UnmappedLeads DEF MapIInv
  <2> QED  BY <1>3, <2>2, <2>3, MappedLeads DEF BatchMap
<1>4. ASSUME UNCHANGED regions PROVE regions' \in Seq(Regs)
  BY <1>4 DEF MapIInv
<1> QED  BY <1>1, <1>2, <1>3, <1>4 DEF MapNext, mapVars

(* The list of regions is good, and the mappings and batches exact, in      *)
(* every state.                                                             *)
LEMMA MapInvariance == MapSpec => []MapIInv
<1>1. MapInit /\ TypeOK => MapIInv
  BY DEF MapInit, MapIInv
<1>2. MapIInv /\ TypeOK' /\ [MapNext]_mapVars => MapIInv'
  BY RegionsStay DEF MapIInv
<1> QED  BY <1>1, <1>2, MapAllocatorType, PTL DEF MapSpec

(* The list of virtual ranges keeps its type.                              *)
THEOREM MapTypeHolds == MapSpec => []MapTypeOK
<1>1. MapIInv => MapTypeOK
  <2>1. Seq(Regs) \subseteq Seq(Region)
    <3>1. Regs \subseteq Region  BY DEF Regs
    <3> QED  BY <3>1
  <2> QED  BY <2>1 DEF MapIInv, MapTypeOK
<1> QED  BY <1>1, MapInvariance, PTL

(* sceKernelMapDirectMemory makes exactly the addresses of its range lead  *)
(* where it says, however the list was cut and joined before.              *)
THEOREM MappingIsExactHolds == MapSpec => MappingIsExact
<1>1. ASSUME MapIInv, NEW t \in Threads, NEW e \in Mappings, MapDirectMemory(t, e), NEW v \in VAddrs
      PROVE  Translation(regions', v) =
               IF Covers(e, v) THEN {PhysAt(e, v)} ELSE Translation(regions, v)
  <2>1. e \in Entry /\ e.op = "map" /\ Mappable(e)
    BY <1>1, CallsAssumption DEF MapDirectMemory
  <2>2. AsRegion(e) \in Regs
    BY <1>1, <2>1, MappableIsRegion DEF MapIInv
  <2>3. v \in Nat
    BY VirtualAssumption DEF VAddrs
  <2> QED  BY <1>1, <2>2, <2>3, MapLeads DEF MapIInv, MapDirectMemory
<1>2. MapIInv => [\A t \in Threads, e \in Mappings : MapDirectMemory(t, e) =>
                    \A v \in VAddrs : Translation(regions', v) =
                      IF Covers(e, v) THEN {PhysAt(e, v)} ELSE Translation(regions, v)]_mapVars
  BY <1>1
<1> QED  BY <1>2, MapInvariance, PTL DEF MappingIsExact

(* sceKernelBatchMap makes an address lead where the last of its mappings  *)
(* that covers it says, although it unmaps first and joins the new ranges  *)
(* among themselves; what it only unmaps leads nowhere, the rest where it  *)
(* did.                                                                    *)
THEOREM BatchIsExactHolds == MapSpec => BatchIsExact
<1> DEFINE Exact(batch, v) ==
      LET covering == {i \in DOMAIN batch : Covers(batch[i], v)}
          maps == {i \in covering : batch[i].op = "map"}
      IN  IF covering = {} THEN Translation(regions', v) = Translation(regions, v)
          ELSE IF maps = {} THEN Translation(regions', v) = {}
          ELSE \E i \in maps : /\ \A j \in maps : j <= i
                               /\ Translation(regions', v) = {PhysAt(batch[i], v)}
<1>1. ASSUME MapIInv, NEW t \in Threads, NEW batch \in Batches, BatchMap(t, batch), NEW v \in VAddrs
      PROVE  Exact(batch, v)
  <2> DEFINE n == Len(batch)
             new == NewRegions(batch)
             left == Unmapped(regions, batch)
             MapsIt(i) == batch[i].op = "map" /\ Covers(batch[i], v)
             UnmapsIt(i) == batch[i].op = "unmap" /\ Covers(batch[i], v)
  <2>1. /\ batch \in Seq(Entry) /\ n \in Nat /\ DOMAIN batch = 1 .. n
        /\ \A i \in 1 .. n : batch[i] \in Entry
        /\ \A i \in DOMAIN batch : batch[i].op = "map" => AsRegion(batch[i]) \in Regs
    BY <1>1, BatchMapsRegions DEF MapIInv, BatchMap
  <2>2. v \in Nat
    BY VirtualAssumption DEF VAddrs
  <2>3. new \in Seq(Regs) /\ \A w : Saying(new, Len(new), v, w) <=> MapSaying(batch, n, v, w)
    BY <2>1, <2>2, NewRegionsSay
  <2>4. left \in Seq(Regs)
        /\ Translation(left, v) = IF \E i \in 1 .. n : UnmapsIt(i) THEN {} ELSE Translation(regions, v)
    BY <1>1, <2>1, <2>2, UnmappedLeads DEF MapIInv
  <2>5. \A w : w \in Translation(regions', v)
                 <=> \/ Saying(new, Len(new), v, w)
                     \/ w \in Translation(left, v) /\ \A i \in 1 .. Len(new) : ~Covers(new[i], v)
    BY <1>1, <2>2, <2>3, <2>4, MappedLeads DEF BatchMap
  <2>6. (\E w : Saying(new, Len(new), v, w)) <=> \E i \in 1 .. Len(new) : Covers(new[i], v)
    <3>1. Len(new) \in Nat  BY <2>3
    <3> QED  BY <3>1, SomeSaying
  <2>7. (\E w : MapSaying(batch, n, v, w)) <=> \E i \in 1 .. n : MapsIt(i)
    BY <2>1, SomeMapSaying
  <2> HIDE DEF new, left
  <2>8. \A w : w \in Translation(regions', v)
                 <=> \/ MapSaying(batch, n, v, w)
                     \/ w \in Translation(left, v) /\ ~ \E i \in 1 .. n : MapsIt(i)
    BY <2>3, <2>5, <2>6, <2>7
  <2>9. \A i \in 1 .. n : batch[i].op = "map" \/ batch[i].op = "unmap"
    BY <2>1 DEF Entry
  <2>10. CASE ~ \E i \in 1 .. n : MapsIt(i)
    <3>1. Translation(regions', v) = Translation(left, v)
      BY <2>7, <2>8, <2>10
    <3>2. {i \in {j \in DOMAIN batch : Covers(batch[j], v)} : batch[i].op = "map"} = {}
      BY <2>1, <2>10
    <3>3. (\E i \in 1 .. n : UnmapsIt(i)) <=> {j \in DOMAIN batch : Covers(batch[j], v)} # {}
      BY <2>1, <2>9, <2>10
    <3> QED  BY <2>4, <3>1, <3>2, <3>3
  <2>11. CASE \E i \in 1 .. n : MapsIt(i)
    <3>1. PICK w : MapSaying(batch, n, v, w)
      BY <2>7, <2>11
    <3>2. PICK i \in 1 .. n : /\ MapsIt(i) /\ w = PhysAt(batch[i], v)
                              /\ \A j \in 1 .. n : j > i => ~MapsIt(j)
      BY <3>1 DEF MapSaying
    <3>3. \A j \in 1 .. n : MapsIt(j) => j <= i
      BY <3>2
    <3>4. \A x : MapSaying(batch, n, v, x) <=> x = PhysAt(batch[i], v)
      <4>1. ASSUME NEW x, MapSaying(batch, n, v, x) PROVE x = PhysAt(batch[i], v)
        <5>1. PICK k \in 1 .. n : /\ MapsIt(k) /\ x = PhysAt(batch[k], v)
                                  /\ \A j \in 1 .. n : j > k => ~MapsIt(j)
          BY <4>1 DEF MapSaying
        <5>2. k <= i /\ ~ (i > k)
          BY <3>2, <3>3, <5>1
        <5>3. k = i
          BY <5>2
        <5> QED  BY <5>1, <5>3
      <4> QED  BY <3>1, <3>2, <4>1
    <3>5. Translation(regions', v) = {PhysAt(batch[i], v)}
      BY <2>8, <2>11, <3>4
    <3>6. i \in {k \in {j \in DOMAIN batch : Covers(batch[j], v)} : batch[k].op = "map"}
      BY <2>1, <3>2
    <3>7. \A j \in {k \in {j \in DOMAIN batch : Covers(batch[j], v)} : batch[k].op = "map"} : j <= i
      BY <2>1, <3>3
    <3> QED  BY <3>5, <3>6, <3>7
  <2> QED  BY <2>10, <2>11
<1>2. MapIInv => [\A t \in Threads, batch \in Batches : BatchMap(t, batch) =>
                    \A v \in VAddrs : Exact(batch, v)]_mapVars
  <2> HIDE DEF Exact
  <2> QED  BY <1>1
<1> QED  BY <1>2, MapInvariance, PTL DEF BatchIsExact

=============================================================================
