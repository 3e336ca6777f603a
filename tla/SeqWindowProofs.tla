--------------------------- MODULE SeqWindowProofs ---------------------------
(***************************************************************************)
(* Facts about the arithmetic of SeqWindow, for every even modulus from 4  *)
(* on: what a reduction to 16 bits keeps, and what acknowledge() and       *)
(* advance_ntransmitted() make of `acked'.  The proofs about the modules   *)
(* that extend SeqWindow cite them instead of the remainder they hide.     *)
(***************************************************************************)
EXTENDS SeqWindow, TLAPS

(* The half window is half of the numbers but one.                         *)
LEMMA HalfWindowSize ==
  HalfWindow \in Nat /\ HalfWindow >= 1 /\ SeqMod = 2 * HalfWindow + 2
BY SeqModAssumption DEF HalfWindow

(* A reduced number is a number of the wire.                               *)
LEMMA U16Type ==
  ASSUME NEW n \in Int
  PROVE  U16(n) \in 0 .. SeqMod - 1
BY SeqModAssumption DEF U16

(* A number of the wire is its own reduction.                              *)
LEMMA U16Small ==
  ASSUME NEW n \in 0 .. SeqMod - 1
  PROVE  U16(n) = n
BY SeqModAssumption DEF U16

(* What a reduction takes off is a multiple of the modulus.                *)
LEMMA U16Quotient ==
  ASSUME NEW n \in Int
  PROVE  \E q \in Int : n = q * SeqMod + U16(n)
<1> DEFINE q == n \div SeqMod
<1>1. q \in Int /\ n = q * SeqMod + U16(n)
  BY SeqModAssumption DEF U16
<1>2. QED
  BY <1>1

(* Less than a modulus apart, two multiples of it are the same.            *)
LEMMA NoMultipleBetween ==
  ASSUME NEW d \in Int, d * SeqMod < SeqMod, -SeqMod < d * SeqMod
  PROVE  d = 0
<1>1. CASE d >= 1
  <2>1. (d - 1) * SeqMod >= 0
    BY <1>1, SeqModAssumption
  <2>2. QED
    BY <2>1, SeqModAssumption
<1>2. CASE d <= -1
  <2>1. (-1 - d) * SeqMod >= 0
    BY <1>2, SeqModAssumption
  <2>2. QED
    BY <2>1, SeqModAssumption
<1>3. QED
  BY <1>1, <1>2

(* ... and nothing else is left over.                                      *)
LEMMA U16Unique ==
  ASSUME NEW q \in Int, NEW r \in 0 .. SeqMod - 1
  PROVE  U16(q * SeqMod + r) = r
<1> DEFINE n == q * SeqMod + r
<1>0. n \in Int
  BY SeqModAssumption
<1>1. PICK p \in Int : n = p * SeqMod + U16(n)
  BY <1>0, U16Quotient
<1>2. U16(n) \in 0 .. SeqMod - 1
  BY <1>0, U16Type
<1>3. (p - q) * SeqMod = r - U16(n)
  <2>1. (p - q) * SeqMod = p * SeqMod - q * SeqMod
    BY SeqModAssumption
  <2>2. QED
    BY <1>1, <1>2, <2>1, SeqModAssumption
<1>4. p - q = 0
  <2>1. (p - q) * SeqMod < SeqMod /\ -SeqMod < (p - q) * SeqMod
    BY <1>2, <1>3, SeqModAssumption
  <2>2. p - q \in Int
    OBVIOUS
  <2> HIDE DEF n
  <2>3. QED
    BY <2>1, <2>2, NoMultipleBetween
<1>5. QED
  BY <1>2, <1>3, <1>4, SeqModAssumption

(* A number may be reduced before a difference is, on either side of it.   *)
LEMMA U16Difference ==
  ASSUME NEW a \in Int, NEW b \in Int
  PROVE  /\ U16(U16(a) - b) = U16(a - b)
         /\ U16(a - U16(b)) = U16(a - b)
<1>1. PICK p \in Int : a = p * SeqMod + U16(a)
  BY U16Quotient
<1>2. PICK q \in Int : b = q * SeqMod + U16(b)
  BY U16Quotient
<1>3. U16(a) \in Int /\ U16(b) \in Int
  BY U16Type
<1>4. U16(U16(a) - b) = U16(a - b)
  <2>1. U16(a) - b \in Int
    BY <1>3
  <2>2. PICK s \in Int : U16(a) - b = s * SeqMod + U16(U16(a) - b)
    BY <2>1, U16Quotient
  <2>3. U16(U16(a) - b) \in 0 .. SeqMod - 1
    BY <2>1, U16Type
  <2>4. a - b = (p + s) * SeqMod + U16(U16(a) - b)
    <3>1. (p + s) * SeqMod = p * SeqMod + s * SeqMod
      BY SeqModAssumption
    <3> DEFINE u == p * SeqMod
               v == s * SeqMod
    <3>2. u \in Int /\ v \in Int
      BY SeqModAssumption
    <3>3. (p + s) * SeqMod = u + v
      BY <3>1
    <3> HIDE DEF u, v
    <3>4. a = u + U16(a) /\ U16(a) - b = v + U16(U16(a) - b)
      BY <1>1, <2>2 DEF u, v
    <3>5. QED
      BY <1>3, <2>3, <3>2, <3>3, <3>4, SeqModAssumption
  <2>5. p + s \in Int
    OBVIOUS
  <2>6. QED
    BY <2>3, <2>4, <2>5, U16Unique
<1>5. U16(a - U16(b)) = U16(a - b)
  <2>1. a - U16(b) \in Int
    BY <1>3
  <2>2. PICK s \in Int : a - U16(b) = s * SeqMod + U16(a - U16(b))
    BY <2>1, U16Quotient
  <2>3. U16(a - U16(b)) \in 0 .. SeqMod - 1
    BY <2>1, U16Type
  <2>4. a - b = (s - q) * SeqMod + U16(a - U16(b))
    <3>1. (s - q) * SeqMod = s * SeqMod - q * SeqMod
      BY SeqModAssumption
    <3> DEFINE u == s * SeqMod
               v == q * SeqMod
    <3>2. u \in Int /\ v \in Int
      BY SeqModAssumption
    <3>3. (s - q) * SeqMod = u - v
      BY <3>1
    <3> HIDE DEF u, v
    <3>4. b = v + U16(b) /\ a - U16(b) = u + U16(a - U16(b))
      BY <1>2, <2>2 DEF u, v
    <3>5. QED
      BY <1>3, <2>3, <3>2, <3>3, <3>4, SeqModAssumption
  <2>5. s - q \in Int
    OBVIOUS
  <2>6. QED
    BY <2>3, <2>4, <2>5, U16Unique
<1>6. QED
  BY <1>4, <1>5

(* Just below zero the reduction adds one modulus.                         *)
LEMMA U16Negative ==
  ASSUME NEW n \in (-SeqMod) .. (-1)
  PROVE  U16(n) = n + SeqMod
<1>1. n + SeqMod \in 0 .. SeqMod - 1 /\ n = (-1) * SeqMod + (n + SeqMod)
  BY SeqModAssumption
<1>2. -1 \in Int
  OBVIOUS
<1>3. QED
  BY <1>1, <1>2, U16Unique

(* The sign of a difference that is no longer than the half window.        *)
LEMMA S16Near ==
  ASSUME NEW n \in (-HalfWindow) .. HalfWindow
  PROVE  S16(n) = n
<1>1. CASE n >= 0
  <2>1. n \in 0 .. SeqMod - 1
    BY <1>1, HalfWindowSize
  <2>2. QED
    BY <1>1, <2>1, U16Small, HalfWindowSize DEF S16
<1>2. CASE n < 0
  <2>1. n \in (-SeqMod) .. (-1)
    BY <1>2, HalfWindowSize
  <2>2. U16(n) = n + SeqMod /\ ~(U16(n) <= HalfWindow)
    BY <2>1, U16Negative, HalfWindowSize
  <2>3. QED
    BY <2>2, HalfWindowSize DEF S16
<1>3. QED
  BY <1>1, <1>2

(* The difference of two numbers of the wire, not cast back as in C, is    *)
(* the reduced one or a modulus less.                                      *)
LEMMA Unreduced ==
  ASSUME NEW n \in Int, NEW ack \in 0 .. SeqMod - 1
  PROVE  \/ U16(n) - ack = U16(n - ack)
         \/ U16(n) - ack = U16(n - ack) - SeqMod
<1>1. U16(n) \in 0 .. SeqMod - 1
  BY U16Type
<1>2. U16(n - ack) = U16(U16(n) - ack)
  BY U16Difference, SeqModAssumption
<1>3. CASE U16(n) >= ack
  <2>1. U16(n) - ack \in 0 .. SeqMod - 1
    BY <1>1, <1>3, SeqModAssumption
  <2>2. QED
    BY <1>2, <2>1, U16Small
<1>4. CASE U16(n) < ack
  <2>1. U16(n) - ack \in (-SeqMod) .. (-1)
    BY <1>1, <1>4, SeqModAssumption
  <2>2. U16(U16(n) - ack) = U16(n) - ack + SeqMod
    BY <2>1, U16Negative
  <2>3. QED
    BY <1>1, <1>2, <2>2, SeqModAssumption
<1>5. QED
  BY <1>1, <1>3, <1>4, SeqModAssumption

(* acknowledge() keeps acked a 16-bit number.                              *)
LEMMA AcknowledgeType ==
  ASSUME NEW ack \in 0 .. SeqMod - 1, NEW nt \in Int, NEW seq \in Int
  PROVE  Acknowledge(ack, nt, U16(seq)) \in 0 .. SeqMod - 1
BY U16Type DEF Acknowledge

(* advance_ntransmitted() keeps acked a 16-bit number.                     *)
LEMMA AdvanceAckedType ==
  ASSUME NEW ack \in 0 .. SeqMod - 1, NEW nt \in Int
  PROVE  AdvanceAcked(ack, nt) \in 0 .. SeqMod - 1
<1>1. nt + 1 \in Int
  OBVIOUS
<1>2. QED
  BY <1>1, U16Type DEF AdvanceAcked

(* As long as acked is in the half window of the new probe, sending it     *)
(* leaves acked alone.                                                     *)
LEMMA AdvanceInWindow ==
  ASSUME NEW ack \in 0 .. SeqMod - 1, NEW nt \in Int,
         U16(nt - ack) <= HalfWindow
  PROVE  AdvanceAcked(ack, nt) = ack
<1>1. U16(nt - ack) \in 0 .. SeqMod - 1 /\ U16(nt) \in 0 .. SeqMod - 1
  BY U16Type, SeqModAssumption
<1>2. U16(nt) - ack <= HalfWindow
  BY <1>1, Unreduced, HalfWindowSize
<1>3. ~(U16(nt) - ack > HalfWindow)
  BY <1>1, <1>2, HalfWindowSize
<1>4. QED
  BY <1>3 DEF AdvanceAcked

(* As long as acked is in the half window, an answer moves it exactly when *)
(* it is for a probe that is nearer to the last one.                       *)
LEMMA AcknowledgeInWindow ==
  ASSUME NEW ack \in 0 .. SeqMod - 1, NEW nt \in Int, NEW seq \in 0 .. SeqMod - 1,
         U16(nt - ack) <= HalfWindow
  PROVE  Acknowledge(ack, nt, seq)
           = IF U16(nt - seq) < U16(nt - ack) THEN seq ELSE ack
<1> DEFINE d == U16(nt - ack)
           e == U16(nt - seq)
<1>0. ack \in Int /\ seq \in Int /\ nt - ack \in Int /\ nt - seq \in Int
  BY SeqModAssumption
<1>1. d \in 0 .. HalfWindow /\ e \in 0 .. SeqMod - 1 /\ U16(nt) \in 0 .. SeqMod - 1
  BY <1>0, U16Type, HalfWindowSize
<1>2. ~(U16(nt) - ack > HalfWindow)
  BY <1>1, <1>0, Unreduced, HalfWindowSize
<1>3. U16(seq - ack) = U16(d - e)
  <2>1. U16(d - e) = U16(d - (nt - seq))
    BY <1>0, <1>1, U16Difference
  <2>2. U16(d - (nt - seq)) = U16((nt - ack) - (nt - seq))
    BY <1>0, U16Difference
  <2>3. (nt - ack) - (nt - seq) = seq - ack
    BY <1>0
  <2>4. QED
    BY <2>1, <2>2, <2>3
<1>4. e <= HalfWindow => S16(seq - ack) = d - e
  <2>1. e <= HalfWindow => d - e \in (-HalfWindow) .. HalfWindow
    BY <1>1, HalfWindowSize
  <2>2. S16(seq - ack) = S16(d - e)
    BY <1>3 DEF S16
  <2>3. QED
    BY <2>1, <2>2, S16Near
<1>5. (e <= HalfWindow /\ S16(seq - ack) > 0) <=> e < d
  BY <1>1, <1>4, HalfWindowSize
<1> HIDE DEF d, e
<1>6. Acknowledge(ack, nt, seq) = IF e < d THEN seq ELSE ack
  BY <1>2, <1>5 DEF Acknowledge, e
<1>7. QED
  BY <1>6 DEF d, e

=============================================================================
