----------------------------- MODULE ChunksProofs -----------------------------
(* Facts about Chunks that the packet proofs rest on.                      *)
EXTENDS Chunks, TLAPS

(* Division with remainder.                                                *)
LEMMA Division ==
  ASSUME NEW n \in Nat, NEW k \in Nat \ {0}
  PROVE  /\ n \div k \in 0 .. n
         /\ n = k * (n \div k) + (n % k)
         /\ n % k \in 0 .. k - 1
<1>1. n \div k \in 0 .. n  OBVIOUS
<1>2. n = k * (n \div k) + (n % k) /\ n % k \in 0 .. k - 1  OBVIOUS
<1> QED BY <1>1, <1>2

(* step_by leaves no gap wider than its step: every number of the range is *)
(* less than a step above some number it yields.                           *)
LEMMA StepByCovers ==
  ASSUME NEW lo \in Int, NEW hi \in Int, NEW step \in Nat \ {0},
         NEW i \in lo .. hi - 1
  PROVE  \E b \in StepBy(lo, hi, step) : b <= i /\ i < b + step
<1> DEFINE k == (i - lo) \div step
<1> DEFINE r == (i - lo) % step
<1> DEFINE b == lo + k * step
<1>1. k \in 0 .. i - lo /\ r \in 0 .. step - 1 /\ i - lo = step * k + r
  <2>1. i - lo \in Nat  OBVIOUS
  <2> QED BY <2>1, Division
<1>2. k * step \in Int  BY <1>1
<1>3. r \in Int  BY <1>1
<1> HIDE DEF k, r
<1>4. b <= i /\ i < b + step  BY <1>1, <1>2, <1>3
<1>5. b \in lo .. hi - 1 /\ k \in 0 .. hi - lo  BY <1>1, <1>2, <1>4
<1> QED BY <1>4, <1>5 DEF StepBy

(* A positive multiple of a number is no smaller than the number.          *)
LEMMA MultipleIsLarger ==
  ASSUME NEW k \in Nat \ {0}, NEW step \in Nat
  PROVE  step <= k * step
<1> DEFINE j == k - 1
<1>1. j \in Nat /\ k = j + 1  OBVIOUS
<1> HIDE DEF j
<1>2. j * step \in Nat  BY <1>1
<1>3. (j + 1) * step = j * step + step  BY <1>1
<1> QED BY <1>1, <1>2, <1>3

(* What step_by yields is at least its step apart.                         *)
LEMMA StepByApart ==
  ASSUME NEW lo \in Int, NEW hi \in Int, NEW step \in Nat,
         NEW a \in StepBy(lo, hi, step), NEW b \in StepBy(lo, hi, step), a < b
  PROVE  a + step <= b
<1>1. PICK j \in 0 .. hi - lo : a = lo + j * step  BY DEF StepBy
<1>2. PICK k \in 0 .. hi - lo : b = lo + k * step  BY DEF StepBy
<1>3. j \in Nat /\ k \in Nat /\ a \in Int /\ b \in Int /\ j * step \in Int /\ k * step \in Int
  BY <1>1, <1>2
<1>4. j < k
  <2> SUFFICES ASSUME k <= j PROVE FALSE
    BY <1>3
  <2>1. j - k \in Nat /\ (j - k) * step \in Nat  BY <1>3
  <2>2. (j - k) * step = j * step - k * step  BY <1>3
  <2> QED BY <1>1, <1>2, <1>3, <2>1, <2>2
<1>5. k - j \in Nat \ {0}  BY <1>3, <1>4
<1>6. step <= (k - j) * step  BY <1>5, MultipleIsLarger
<1>7. (k - j) * step = k * step - j * step  BY <1>3
<1> QED BY <1>1, <1>2, <1>3, <1>6, <1>7
=============================================================================
