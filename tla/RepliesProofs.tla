----------------------------- MODULE RepliesProofs -----------------------------
(***************************************************************************)
(* What the answers are counted, timed and reported as, proved of Replies  *)
(* for any number of probes, runs, copies and refusals, any clock and any  *)
(* width of the words that are summed.                                     *)
(***************************************************************************)
EXTENDS Replies, TLAPS

-----------------------------------------------------------------------------
(* Divisions.                                                              *)

(* A division leaves a quotient and a remainder.                           *)
LEMMA Division ==
  ASSUME NEW n \in Int, NEW s \in Nat, s >= 1
  PROVE  /\ n \div s \in Int /\ n % s \in 0 .. s - 1
         /\ n = s * (n \div s) + (n % s)
OBVIOUS

(* The quotient of natural numbers is one, and not the larger of the two.  *)
LEMMA QuotientSmall ==
  ASSUME NEW n \in Nat, NEW s \in Nat, s >= 1
  PROVE  n \div s \in Nat /\ n \div s <= n /\ s * (n \div s) <= n
<1> DEFINE q == n \div s
<1>1. q \in Int /\ n % s \in 0 .. s - 1 /\ n = s * q + (n % s)
  BY Division
<1> HIDE DEF q
<1>2. q >= 0
  <2>1. ASSUME q <= -1 PROVE FALSE
    <3>1. s * (-1 - q) >= 0
      BY <1>1, <2>1
    <3>2. QED
      BY <1>1, <3>1
  <2>2. QED
    BY <1>1, <2>1
<1>3. (s - 1) * q >= 0
  BY <1>1, <1>2
<1>4. s * q <= n
  BY <1>1
<1>5. q <= s * q
  BY <1>1, <1>3
<1>6. QED
  BY <1>1, <1>2, <1>4, <1>5 DEF q

(* What a quotient is bounded by.                                          *)
LEMMA QuotientBetween ==
  ASSUME NEW n \in Nat, NEW s \in Nat, s >= 1, NEW b \in Nat
  PROVE  /\ n <= s * b => n \div s <= b
         /\ n >= s * b => n \div s >= b
<1> DEFINE q == n \div s
<1>1. q \in Nat /\ n % s \in 0 .. s - 1 /\ n = s * q + (n % s)
  <2>1. q \in Nat
    BY QuotientSmall
  <2>2. n % s \in 0 .. s - 1 /\ n = s * q + (n % s)
    BY Division
  <2>3. QED
    BY <2>1, <2>2
<1> HIDE DEF q
<1>2. ASSUME q > b PROVE n > s * b
  <2>1. s * (q - b - 1) >= 0
    BY <1>1, <1>2
  <2>2. QED
    BY <1>1, <2>1
<1>3. ASSUME q < b PROVE n < s * b
  <2>1. s * (b - q - 1) >= 0
    BY <1>1, <1>3
  <2>2. QED
    BY <1>1, <2>1
<1>4. QED
  BY <1>1, <1>2, <1>3 DEF q

(* A larger number has no smaller quotient.                                *)
LEMMA QuotientMonotone ==
  ASSUME NEW n \in Nat, NEW m \in Nat, n <= m, NEW s \in Nat, s >= 1
  PROVE  n \div s <= m \div s
<1>1. n \div s \in Nat /\ m \div s \in Nat /\ s * (n \div s) <= n
  BY QuotientSmall
<1>2. m >= s * (n \div s)
  <2>1. s * (n \div s) \in Nat
    BY <1>1
  <2>2. QED
    BY <1>1, <2>1
<1>3. QED
  BY <1>1, <1>2, QuotientBetween

(* Shown() leaves out less than a millisecond, and adds nothing.           *)
LEMMA ShownShort ==
  ASSUME NEW t \in Nat
  PROVE  Shown(t) \in Nat /\ Shown(t) <= t /\ t < Shown(t) + Milli
<1> DEFINE bb == Base * Base
           whole == (t \div Milli) * Milli
           part == t % Milli
           tenths == part \div bb
<1>1. Base \in Nat /\ Base >= 1
  BY FiguresAssumption
<1>2. bb \in Nat /\ bb >= Base
  <2>1. (Base - 1) * Base >= 0
    BY <1>1
  <2>2. QED
    BY <1>1, <2>1
<1>3. Milli \in Nat /\ Milli >= 1
  <2>1. (bb - 1) * Base >= 0
    BY <1>1, <1>2
  <2>2. Milli = bb * Base
    BY DEF Milli
  <2>3. bb * Base \in Nat /\ bb * Base >= 1
    BY <1>1, <1>2, <2>1
  <2>4. QED
    BY <2>2, <2>3
<1>4. /\ whole \in Nat /\ part \in 0 .. Milli - 1
      /\ t = whole + part
  <2>1. t \div Milli \in Nat
    BY <1>3, QuotientSmall
  <2>2. part \in 0 .. Milli - 1 /\ t = Milli * (t \div Milli) + part
    BY <1>3, Division
  <2>3. QED
    BY <1>3, <2>1, <2>2
<1>5. /\ tenths \in Nat
      /\ tenths * bb \in Nat /\ tenths * bb <= part
      /\ tenths * Base \in Nat /\ tenths * Base <= part
  <2>1. part \in Nat /\ bb >= 1
    BY <1>1, <1>2, <1>4
  <2>2. tenths \in Nat /\ bb * tenths <= part
    BY <1>2, <2>1, QuotientSmall
  <2> HIDE DEF tenths, part, bb
  <2>3. (bb - Base) * tenths >= 0
    BY <1>1, <1>2, <2>2
  <2>4. bb * tenths \in Nat /\ Base * tenths \in Nat
    BY <1>1, <1>2, <2>2
  <2>5. (bb - Base) * tenths = bb * tenths - Base * tenths
    BY <1>1, <1>2, <2>2
  <2>6. tenths * bb = bb * tenths /\ tenths * Base = Base * tenths
    BY <1>1, <1>2, <2>2
  <2>7. QED
    BY <2>1, <2>2, <2>3, <2>4, <2>5, <2>6
<1>6. \/ Shown(t) = whole
      \/ Shown(t) = whole + tenths * bb
      \/ Shown(t) = whole + tenths * Base
      \/ Shown(t) = t
  <2>1. Milli * Base * Base \in Int /\ Milli * Base \in Int
    BY <1>1, <1>3
  <2>2. CASE t >= Milli * Base * Base
    BY <2>2, <2>1, <1>3 DEF Shown
  <2>3. CASE t < Milli * Base * Base /\ t >= Milli * Base
    BY <2>3, <2>1, <1>3 DEF Shown
  <2>4. CASE t < Milli * Base /\ t >= Milli
    BY <2>4, <2>1, <1>3 DEF Shown
  <2>5. CASE t < Milli
    BY <2>5, <2>1, <1>3 DEF Shown
  <2>6. QED
    BY <2>1, <2>2, <2>3, <2>4, <2>5, <1>3
<1> HIDE DEF whole, part, tenths, bb
<1>7. QED
  BY <1>3, <1>4, <1>5, <1>6

-----------------------------------------------------------------------------
(* The thread is in pr_addr() when pc says so, and only there does the     *)
(* signal find in_pr_addr set: wherever else it is taken, it returns.  And *)
(* what gather_statistics() is called with is an answer.                   *)
PlaceInv ==
  /\ place # "out" <=> pc = "lookup"
  /\ in_pr_addr => place # "out"
  /\ pc = "gather" => held # NoAnswer

LEMMA InitPlace == Init => PlaceInv
BY DEF Init, LookupInit, PlaceInv

LEMMA PlaceStep ==
  ASSUME PlaceInv, [Next]_vars
  PROVE  PlaceInv'
<1> USE DEF PlaceInv
<1>1. CASE SendProbe
  BY <1>1 DEF SendProbe
<1>2. CASE RecvReply \/ RecvError
  BY <1>2 DEF RecvReply, RecvError, Enter
<1>3. CASE LookUp
  BY <1>3 DEF LookUp, Decide, handVars
<1>4. CASE ResolverAnswers
  BY <1>4 DEF ResolverAnswers, Resolved, handVars
<1>5. CASE Return
  BY <1>5 DEF Return, Leave, handVars
<1>6. CASE Gather
  BY <1>6 DEF Gather, lookupVars
<1>7. CASE Finish \/ Improve \/ Report \/ StartAgain
  BY <1>7 DEF Finish, Improve, Report, StartAgain, lookupVars, handVars
<1>8. CASE SignalArrives
  BY <1>8 DEF SignalArrives, AlarmSignal, SigExit, handVars
<1>9. CASE Stop
  BY <1>9 DEF Stop, StopPing, handVars
<1>10. ASSUME NEW probe \in wire, Refuse(probe)
       PROVE  PlaceInv'
  BY <1>10 DEF Refuse, lookupVars, handVars
<1>11. ASSUME NEW probe \in wire, NEW kind \in Kinds, NEW again \in BOOLEAN,
              Arrive(probe, kind, again)
       PROVE  PlaceInv'
  BY <1>11 DEF Arrive, lookupVars, handVars
<1>12. ASSUME NEW by, Tick(by) \/ SetForward(by) \/ SetBack(by)
       PROVE  PlaceInv'
  BY <1>12 DEF Tick, SetForward, SetBack, lookupVars, handVars
<1>13. CASE UNCHANGED vars
  BY <1>13 DEF vars, lookupVars, handVars
<1>14. QED
  BY <1>1, <1>2, <1>3, <1>4, <1>5, <1>6, <1>7, <1>8, <1>9, <1>10, <1>11,
     <1>12, <1>13 DEF Next, Thread

(* A count is one more answer.                                             *)
LEMMA CountAdds ==
  ASSUME nreceived \in Nat, nrepeats \in Nat, NEW seq, Count(seq)
  PROVE  /\ nreceived' \in Nat /\ nrepeats' \in Nat
         /\ Answers' = Answers + 1 /\ Answers \in Nat
<1>1. CASE seq \in rcvd
  <2>1. nrepeats' = nrepeats + 1 /\ nreceived' = nreceived
    BY <1>1 DEF Count
  <2>2. nreceived + (nrepeats + 1) = (nreceived + nrepeats) + 1
    OBVIOUS
  <2>3. QED
    BY <2>1, <2>2 DEF Answers
<1>2. CASE seq \notin rcvd
  <2>1. nreceived' = nreceived + 1 /\ nrepeats' = nrepeats
    BY <1>2 DEF Count
  <2>2. (nreceived + 1) + nrepeats = (nreceived + nrepeats) + 1
    OBVIOUS
  <2>3. QED
    BY <2>1, <2>2 DEF Answers
<1>3. QED
  BY <1>1, <1>2

-----------------------------------------------------------------------------
(* TypeOK.  The times do not go below zero, and neither does the variance: *)
(* the sum of the squares is no less than the square of the sum over the   *)
(* number of answers, with what an earlier finish() left in the sums too.  *)

VarianceInv == Answers * tsum2 >= tsum * tsum

(* Lemmas about the sums: an answer more, without and with a time; and     *)
(* the division of finish().                                               *)
LEMMA VarianceOfMore ==
  ASSUME NEW n \in Nat, NEW t \in Nat, NEW q \in Nat, n * q >= t * t
  PROVE  (n + 1) * q >= t * t
<1>1. n * q \in Nat /\ t * t \in Nat /\ (n + 1) * q = n * q + q
  OBVIOUS
<1>2. QED
  BY <1>1

LEMMA VarianceOfSample ==
  ASSUME NEW n \in Nat, NEW t \in Nat, NEW q \in Nat, NEW x \in Nat,
         n * q >= t * t
  PROVE  (n + 1) * (q + x * x) >= (t + x) * (t + x)
<1> DEFINE nq == n * q  tt == t * t  xx == x * x  tx == t * x
           nxx == n * (x * x)
<1>1. nq \in Nat /\ tt \in Nat /\ xx \in Nat /\ tx \in Nat /\ nxx \in Nat
  OBVIOUS
<1>2. (n + 1) * (q + x * x) = nq + nxx + q + xx
  OBVIOUS
<1>3. (t + x) * (t + x) = tt + 2 * tx + xx
  OBVIOUS
<1>4. nxx + q >= 2 * tx
  <2>1. CASE n = 0
    <3>1. t * t <= 0
      BY <2>1
    <3>2. t = 0
      BY <3>1
    <3>3. QED
      BY <1>1, <3>2
  <2>2. CASE n > 0
    <3> DEFINE d == nxx + q - 2 * tx
    <3>1. (n * x - t) * (n * x - t) >= 0
      <4>1. \A z \in Int : z * z >= 0
        OBVIOUS
      <4>2. n * x - t \in Int
        OBVIOUS
      <4>3. QED
        BY <4>1, <4>2
    <3>2. (n * x - t) * (n * x - t) = n * nxx - 2 * (n * tx) + tt
      OBVIOUS
    <3>3. n * d = n * nxx + nq - 2 * (n * tx)
      OBVIOUS
    <3>4. n * nxx \in Int /\ n * tx \in Int /\ n * d \in Int
      OBVIOUS
    <3> HIDE DEF d
    <3>5. n * d >= 0
      <4> HIDE DEF nq, tt, nxx, tx
      <4>1. n * nxx - 2 * (n * tx) + tt >= 0
        BY <3>1, <3>2
      <4>2. nq >= tt
        BY DEF nq, tt
      <4>3. QED
        BY <1>1, <4>1, <4>2, <3>3, <3>4
    <3>6. d \in Int
      BY <1>1 DEF d
    <3>7. ASSUME d <= -1 PROVE FALSE
      <4>1. n * (-1 - d) >= 0
        BY <2>2, <3>6, <3>7
      <4>2. n * (-1 - d) = - n - n * d
        BY <3>6
      <4>3. QED
        BY <2>2, <3>4, <3>5, <4>1, <4>2
    <3>8. d >= 0
      BY <3>6, <3>7
    <3> HIDE DEF nxx, tx
    <3>9. QED
      BY <1>1, <3>8 DEF d
  <2>3. QED
    BY <2>1, <2>2
<1> HIDE DEF nq, tt, xx, tx, nxx
<1>5. nq >= tt
  BY DEF nq, tt
<1>6. QED
  BY <1>1, <1>2, <1>3, <1>4, <1>5

LEMMA VarianceOfQuotients ==
  ASSUME NEW n \in Nat, n >= 1, NEW t \in Nat, NEW q \in Nat,
         n * q >= t * t
  PROVE  LET a == t \div n  b == q \div n
         IN  /\ a \in Nat /\ b \in Nat /\ b >= a * a /\ n * b >= a * a
<1> DEFINE a == t \div n  b == q \div n  sq == a * a
<1>1. a \in Nat /\ n * a <= t /\ b \in Nat
  BY QuotientSmall
<1>2. sq \in Nat
  <2> HIDE DEF a
  <2>1. QED
    BY <1>1
<1>3. n * n * sq <= t * t
  <2> DEFINE m == n * a
  <2>1. m \in Nat /\ m * m = n * n * sq
    <3> HIDE DEF a
    <3>1. QED
      BY <1>1
  <2>2. m * m <= t * t
    <3>1. m <= t
      BY <1>1
    <3> HIDE DEF m
    <3>2. (t - m) * (t + m) >= 0
      BY <2>1, <3>1
    <3>3. (t - m) * (t + m) = t * t - m * m
      BY <2>1
    <3>4. t * t \in Int /\ m * m \in Int
      BY <2>1
    <3>5. QED
      BY <3>2, <3>3, <3>4
  <2>3. QED
    BY <2>1, <2>2
<1> HIDE DEF a, sq
<1>4. n * (n * sq) <= n * q
  <2>1. n * (n * sq) = n * n * sq /\ n * (n * sq) \in Int
        /\ n * q \in Int /\ t * t \in Int
    BY <1>2
  <2>2. QED
    BY <1>3, <2>1
<1>5. n * sq <= q
  <2> DEFINE d == q - n * sq
  <2>1. d \in Int /\ n * d = n * q - n * (n * sq)
    BY <1>2
  <2>2. n * q \in Int /\ n * (n * sq) \in Int
    BY <1>2
  <2> HIDE DEF d
  <2>3. n * d >= 0
    BY <1>4, <2>1, <2>2
  <2>4. ASSUME d <= -1 PROVE FALSE
    <3>1. n * (-1 - d) >= 0 /\ n * (-1 - d) = - n - n * d /\ n * d \in Int
      BY <2>1, <2>4
    <3>2. QED
      BY <2>3, <3>1
  <2>5. d >= 0
    BY <2>1, <2>4
  <2>6. n * sq \in Int
    BY <1>2
  <2>7. QED
    BY <2>5, <2>6 DEF d
<1>6. b >= sq
  BY <1>2, <1>5, QuotientBetween
<1> HIDE DEF b
<1>7. n * b >= sq
  <2>1. (n - 1) * b >= 0 /\ (n - 1) * b = n * b - b /\ n * b \in Int
    BY <1>1
  <2>2. QED
    BY <1>1, <1>2, <1>6, <2>1
<1>8. QED
  BY <1>1, <1>6, <1>7 DEF a, b, sq

(* What in_cksum() returns is a word, and so is what is written into a     *)
(* probe.                                                                  *)
LEMMA ComplementIsWord ==
  ASSUME NEW w \in Int
  PROVE  Complement(w) \in 0 .. Word - 1
<1>1. Word \in Nat /\ Word >= 1
  BY WordAssumption
<1>2. w % Word \in 0 .. Word - 1
  BY <1>1, Division
<1>3. QED
  BY <1>1, <1>2 DEF Complement

LEMMA InCksumIsWord ==
  ASSUME NEW s \in Int, NEW c \in Int
  PROVE  InCksum(s, c) \in 0 .. Word - 1
<1> DEFINE once == (c + s) \div Word + ((c + s) % Word)
<1>1. Word \in Nat /\ Word >= 1
  BY WordAssumption
<1>2. c + s \in Int
  OBVIOUS
<1>3. (c + s) \div Word \in Int /\ (c + s) % Word \in Int
  BY <1>1, <1>2, Division
<1>4. once \in Int
  BY <1>3
<1> HIDE DEF once
<1>5. once \div Word \in Int
  BY <1>1, <1>4, Division
<1>6. once + once \div Word \in Int
  BY <1>4, <1>5
<1>7. InCksum(s, c) = Complement(once + once \div Word)
  BY DEF InCksum, once
<1>8. QED
  BY <1>6, <1>7, ComplementIsWord

LEMMA StampSumIsNat ==
  ASSUME NEW stamp \in Nat
  PROVE  /\ StampSum(stamp) \in Nat
         /\ StampSum(stamp) <= stamp \div Word + Word - 1
<1>1. Word \in Nat /\ Word >= 1
  BY WordAssumption
<1>2. stamp \div Word \in Nat
  BY <1>1, QuotientSmall
<1>3. stamp % Word \in 0 .. Word - 1
  BY <1>1, Division
<1>4. QED
  BY <1>1, <1>2, <1>3 DEF StampSum

LEMMA ChecksumIsWord ==
  ASSUME NEW rest \in Nat, NEW stamp \in Nat, NEW patch \in BOOLEAN
  PROVE  ProbeChecksum(rest, stamp, patch) \in 0 .. Word - 1
<1>1. StampSum(stamp) \in Nat /\ rest + StampSum(stamp) \in Int
  BY StampSumIsNat
<1>2. Complement(InCksum(rest, 0)) \in Int
  <2>1. InCksum(rest, 0) \in Int
    <3>1. InCksum(rest, 0) \in 0 .. Word - 1
      BY InCksumIsWord
    <3>2. QED
      BY <3>1
  <2>2. Complement(InCksum(rest, 0)) \in 0 .. Word - 1
    BY <2>1, ComplementIsWord
  <2>3. QED
    BY <2>2
<1>3. CASE patch
  BY <1>1, <1>3, InCksumIsWord DEF ProbeChecksum
<1>4. CASE ~patch
  BY <1>1, <1>2, <1>4, InCksumIsWord DEF ProbeChecksum
<1>5. QED
  BY <1>3, <1>4

(* Nothing that is received looks like what packet[] holds at first.       *)
LEMMA AnswerIsNotNone == NoAnswer \notin Answer
BY DEF NoAnswer, Answer

(* A round-trip time is a natural number, whatever the clock showed.       *)
LEMMA TripTime ==
  ASSUME TypeOK, held \in Answer
  PROVE  Trip \in Nat
<1>1. held.tv \in Nat /\ held.stamp \in Nat /\ Clock \in Nat
  BY DEF TypeOK, Answer
<1> DEFINE tv == IF WentBack /\ ~latency THEN Clock ELSE held.tv
<1>2. tv \in Nat
  BY <1>1
<1>3. Trip = IF tv < held.stamp THEN 0 ELSE tv - held.stamp
  BY DEF Trip
<1> HIDE DEF tv
<1>4. CASE tv < held.stamp
  BY <1>3, <1>4
<1>5. CASE ~(tv < held.stamp)
  <2>1. tv >= held.stamp
    BY <1>1, <1>2, <1>5
  <2>2. QED
    BY <1>1, <1>2, <1>3, <1>5, <2>1
<1>6. QED
  BY <1>4, <1>5

(* Each step keeps the figures natural numbers.                            *)
LEMMA FiguresTypeStep ==
  ASSUME TypeOK, VarianceInv, PlaceInv, [Next]_vars
  PROVE  FiguresTypeOK' /\ VarianceInv'
<1> DEFINE FI == FiguresTypeOK /\ VarianceInv
<1>0. FI
  BY DEF TypeOK
<1>1. ASSUME UNCHANGED figureVars
      PROVE  FI'
  BY <1>0, <1>1 DEF FiguresTypeOK, VarianceInv, Answers, figureVars,
                    countVars, sumVars
<1>2. CASE SendProbe
  <2>1. /\ UNCHANGED <<nreceived, nrepeats, tsum, tsum2, tmin, tmax, rtt, root,
                       untimed>>
        /\ rcvd' \subseteq rcvd
    BY <1>2 DEF SendProbe, sumVars
  <2>2. QED
    BY <1>0, <2>1 DEF FiguresTypeOK, VarianceInv, Answers
<1>3. CASE Gather
  <2>1. held \in Answer
    BY <1>3 DEF PlaceInv, TypeOK, Gather
  <2>2. held.seq \in Nat /\ Trip \in Nat
    BY <2>1, TripTime DEF Answer
  <2>3. Count(held.seq) /\ root' = root
        /\ IF Timed THEN AddSample(Trip) ELSE NoSample
    BY <1>3 DEF Gather
  <2>4. /\ nreceived' \in Nat /\ nrepeats' \in Nat
        /\ Answers' = Answers + 1 /\ Answers \in Nat
    BY <1>0, <2>3, CountAdds DEF FiguresTypeOK
  <2>5. rcvd' \subseteq Nat
    BY <1>0, <2>2, <2>3 DEF Count, FiguresTypeOK
  <2>6. /\ tsum \in Nat /\ tsum2 \in Nat /\ tmin \in Nat /\ tmax \in Nat
        /\ rtt \in Nat /\ untimed \in Nat
        /\ root \in [of : Nat, x : Nat, prev : Nat \cup {-1}]
    BY <1>0 DEF FiguresTypeOK
  <2>7. CASE Timed
    <3> DEFINE t == Trip
    <3>1. /\ tsum' = tsum + t /\ tsum2' = tsum2 + t * t
          /\ tmin' = IF t < tmin THEN t ELSE tmin
          /\ tmax' = IF t > tmax THEN t ELSE tmax
          /\ rtt' = IF rtt = 0 THEN t * 8 ELSE rtt + t - rtt \div 8
          /\ untimed' = untimed
      BY <2>3, <2>7 DEF AddSample
    <3>2. t \in Nat
      BY <2>2
    <3> HIDE DEF t
    <3>3. t * t \in Nat /\ t * 8 \in Nat
      BY <3>2
    <3>4. rtt \div 8 \in Nat /\ rtt \div 8 <= rtt
      BY <2>6, QuotientSmall
    <3>5. /\ tsum' \in Nat /\ tsum2' \in Nat /\ tmin' \in Nat /\ tmax' \in Nat
          /\ untimed' \in Nat
      BY <2>6, <3>1, <3>2, <3>3
    <3>6. rtt' \in Nat
      <4>1. rtt + t - rtt \div 8 \in Nat
        BY <2>6, <3>2, <3>4
      <4>2. QED
        BY <3>1, <3>3, <4>1
    <3>7. VarianceInv'
      <4>1. (Answers + 1) * (tsum2 + t * t) >= (tsum + t) * (tsum + t)
        BY <1>0, <2>4, <2>6, <3>2, VarianceOfSample DEF VarianceInv
      <4>2. QED
        BY <2>4, <3>1, <4>1 DEF VarianceInv
    <3>8. QED
      BY <2>3, <2>4, <2>5, <2>6, <3>5, <3>6, <3>7 DEF FiguresTypeOK
  <2>8. CASE ~Timed
    <3>1. untimed' = untimed + 1
          /\ UNCHANGED <<tsum, tsum2, tmin, tmax, rtt>>
      BY <2>3, <2>8 DEF NoSample, sumVars
    <3>2. (Answers + 1) * tsum2 >= tsum * tsum
      BY <1>0, <2>4, <2>6, VarianceOfMore DEF VarianceInv
    <3>3. VarianceInv'
      BY <2>4, <3>1, <3>2 DEF VarianceInv
    <3>4. QED
      BY <2>3, <2>4, <2>5, <2>6, <3>1, <3>3 DEF FiguresTypeOK
  <2>9. QED
    BY <2>7, <2>8
<1>4. CASE Finish /\ nreceived > 0
  <2>1. DivideSums
    BY <1>4 DEF Finish
  <2> DEFINE n == Answers  a == tsum \div n  b == tsum2 \div n
  <2>2. /\ tsum' = a /\ tsum2' = b
        /\ root' = [of |-> tsum2' - tsum' * tsum', x |-> tsum2' - tsum' * tsum',
                    prev |-> -1]
        /\ UNCHANGED <<nreceived, nrepeats, rcvd, tmin, tmax, rtt, untimed>>
    BY <2>1 DEF DivideSums, countVars
  <2>3. n \in Nat /\ n >= 1 /\ tsum \in Nat /\ tsum2 \in Nat
    BY <1>0, <1>4 DEF FiguresTypeOK, Answers
  <2>4. n * tsum2 >= tsum * tsum
    BY <1>0 DEF VarianceInv
  <2>5. n' = n
    BY <2>2 DEF Answers
  <2> HIDE DEF n
  <2>6. a \in Nat /\ b \in Nat /\ b >= a * a /\ n * b >= a * a
    BY <2>3, <2>4, VarianceOfQuotients
  <2> HIDE DEF a, b
  <2>7. b - a * a \in Nat
    <3>1. a * a \in Nat
      BY <2>6
    <3>2. QED
      BY <2>6, <3>1
  <2>8. root' \in [of : Nat, x : Nat, prev : Nat \cup {-1}]
    BY <2>2, <2>7
  <2>9. VarianceInv'
    BY <2>2, <2>5, <2>6 DEF VarianceInv, n
  <2>10. QED
    BY <1>0, <2>2, <2>6, <2>8, <2>9 DEF FiguresTypeOK
<1>5. CASE Finish /\ ~(nreceived > 0)
  BY <1>1, <1>5 DEF Finish
<1>6. CASE Improve
  <2>1. /\ UNCHANGED <<countVars, sumVars, untimed>>
        /\ root' = [root EXCEPT !.prev = root.x,
                          !.x = (root.x + root.of \div root.x) \div 2]
        /\ root.x > 0
    BY <1>6 DEF Improve, Newton, Improving
  <2>2. root \in [of : Nat, x : Nat, prev : Nat \cup {-1}]
    BY <1>0 DEF FiguresTypeOK
  <2>3. root.of \in Nat /\ root.x \in Nat /\ root.x >= 1
    BY <2>1, <2>2
  <2>4. root.of \div root.x \in Nat
    BY <2>3, QuotientSmall
  <2> DEFINE s == root.x + root.of \div root.x
  <2>5. s \in Nat
    BY <2>3, <2>4
  <2>6. root' = [root EXCEPT !.prev = root.x, !.x = s \div 2]
    BY <2>1
  <2> HIDE DEF s
  <2>7. s \div 2 \in Nat
    BY <2>5, QuotientSmall
  <2>8. root' \in [of : Nat, x : Nat, prev : Nat \cup {-1}]
    BY <2>2, <2>3, <2>6, <2>7
  <2>9. QED
    BY <1>0, <2>1, <2>8 DEF FiguresTypeOK, VarianceInv, Answers, countVars,
                            sumVars
<1>7. CASE RecvReply \/ RecvError \/ LookUp \/ ResolverAnswers \/ Return
           \/ Report \/ StartAgain \/ SignalArrives \/ Stop
  BY <1>1, <1>7 DEF RecvReply, RecvError, LookUp, ResolverAnswers, Return,
     Report, StartAgain, SignalArrives, Stop
<1>8. ASSUME NEW probe \in wire, Refuse(probe)
      PROVE  FI'
  BY <1>1, <1>8 DEF Refuse
<1>9. ASSUME NEW probe \in wire, NEW kind \in Kinds, NEW again \in BOOLEAN,
             Arrive(probe, kind, again)
      PROVE  FI'
  BY <1>1, <1>9 DEF Arrive
<1>10. ASSUME NEW by, Tick(by) \/ SetForward(by) \/ SetBack(by)
       PROVE  FI'
  BY <1>1, <1>10 DEF Tick, SetForward, SetBack
<1>11. CASE UNCHANGED vars
  BY <1>1, <1>11 DEF vars
<1>12. QED
  BY <1>2, <1>3, <1>4, <1>5, <1>6, <1>7, <1>8, <1>9, <1>10, <1>11
     DEF Next, Thread

(* Each step keeps the types of the rest.                                  *)
LEMMA LookupTypeStep ==
  ASSUME TypeOK, [Next]_vars
  PROVE  LookupTypeOK'
<1> USE DEF LookupTypeOK
<1>0. LookupTypeOK
  BY DEF TypeOK
<1>1. ASSUME UNCHANGED lookupVars
      PROVE  LookupTypeOK'
  BY <1>0, <1>1 DEF lookupVars
<1>2. CASE SendProbe
  <2>1. UNCHANGED <<place, in_pr_addr, exiting>>
    BY <1>2 DEF SendProbe
  <2>2. alarm' \in BOOLEAN
    <3>1. alarm' = (ntransmitted + 1 = npackets)
      BY <1>2 DEF SendProbe
    <3>2. QED
      BY <3>1, Zenon
  <2>3. QED
    BY <1>0, <2>1, <2>2
<1>3. CASE RecvReply \/ RecvError
  BY <1>0, <1>3 DEF RecvReply, RecvError, Enter
<1>4. CASE LookUp \/ ResolverAnswers \/ Return
  BY <1>0, <1>4 DEF LookUp, ResolverAnswers, Return, Decide, Resolved, Leave
<1>5. CASE SignalArrives \/ Stop
  BY <1>0, <1>5 DEF SignalArrives, AlarmSignal, SigExit, Stop, StopPing
<1>6. CASE Gather \/ Finish \/ Improve \/ Report \/ StartAgain
  BY <1>1, <1>6 DEF Gather, Finish, Improve, Report, StartAgain
<1>7. ASSUME NEW probe \in wire, Refuse(probe)
      PROVE  LookupTypeOK'
  BY <1>1, <1>7 DEF Refuse
<1>8. ASSUME NEW probe \in wire, NEW kind \in Kinds, NEW again \in BOOLEAN,
             Arrive(probe, kind, again)
      PROVE  LookupTypeOK'
  BY <1>1, <1>8 DEF Arrive
<1>9. ASSUME NEW by, Tick(by) \/ SetForward(by) \/ SetBack(by)
      PROVE  LookupTypeOK'
  BY <1>1, <1>9 DEF Tick, SetForward, SetBack
<1>10. CASE UNCHANGED vars
  BY <1>1, <1>10 DEF vars
<1>11. QED
  BY <1>2, <1>3, <1>4, <1>5, <1>6, <1>7, <1>8, <1>9, <1>10 DEF Next, Thread

ClockTypeOK ==
  /\ now \in Nat /\ offset \in Int /\ Clock \in Nat
  /\ back \in Nat /\ forward \in Nat

LEMMA ClockTypeStep ==
  ASSUME TypeOK, [Next]_vars
  PROVE  ClockTypeOK'
<1> USE DEF ClockTypeOK, Clock
<1>0. ClockTypeOK
  BY DEF TypeOK
<1>1. ASSUME UNCHANGED clockVars
      PROVE  ClockTypeOK'
  BY <1>0, <1>1 DEF clockVars
<1>2. ASSUME NEW by \in Delays, Tick(by)
      PROVE  ClockTypeOK'
  <2>1. by \in Nat /\ now' = now + by
        /\ UNCHANGED <<offset, back, forward>>
    BY <1>2, RepliesAssumption DEF Tick
  <2>2. QED
    BY <1>0, <2>1
<1>3. ASSUME NEW by \in Jumps, SetForward(by)
      PROVE  ClockTypeOK'
  <2>1. by \in Nat /\ offset' = offset + by /\ forward' = forward + by
        /\ UNCHANGED <<now, back>>
    BY <1>3, RepliesAssumption DEF SetForward
  <2>2. QED
    BY <1>0, <2>1
<1>4. ASSUME NEW by \in Jumps, SetBack(by)
      PROVE  ClockTypeOK'
  <2>1. by \in Nat /\ offset' = offset - by /\ back' = back + by
        /\ UNCHANGED <<now, forward>> /\ now + offset >= by
    BY <1>4, RepliesAssumption DEF SetBack
  <2>2. QED
    BY <1>0, <2>1
<1> HIDE DEF ClockTypeOK
<1>5. CASE Thread \/ ResolverAnswers \/ SignalArrives \/ Stop
  BY <1>1, <1>5 DEF Thread, SendProbe, RecvReply, RecvError, LookUp, Return,
     Gather, Finish, Improve, Report, StartAgain, ResolverAnswers,
     SignalArrives, Stop
<1>6. ASSUME NEW probe \in wire, Refuse(probe)
      PROVE  ClockTypeOK'
  BY <1>1, <1>6 DEF Refuse
<1>7. ASSUME NEW probe \in wire, NEW kind \in Kinds, NEW again \in BOOLEAN,
             Arrive(probe, kind, again)
      PROVE  ClockTypeOK'
  BY <1>1, <1>7 DEF Arrive
<1>8. CASE UNCHANGED vars
  BY <1>1, <1>8 DEF vars
<1>9. QED
  BY <1>2, <1>3, <1>4, <1>5, <1>6, <1>7, <1>8 DEF Next

NetTypeOK ==
  /\ wire \subseteq Probe /\ inbox \in Seq(Answer) /\ errors \in Nat
  /\ faults \in 0 .. MaxFaults
  /\ held \in Answer \cup {NoAnswer} /\ taken \in Nat

LEMMA NetTypeStep ==
  ASSUME TypeOK, [Next]_vars
  PROVE  NetTypeOK'
<1> USE DEF NetTypeOK
<1>0. NetTypeOK /\ ClockTypeOK
  BY DEF TypeOK, ClockTypeOK
<1>1. ASSUME UNCHANGED <<netVars, held, taken>>
      PROVE  NetTypeOK'
  BY <1>0, <1>1 DEF netVars
<1>2. CASE SendProbe
  <2> DEFINE p == [seq |-> ntransmitted + 1, stamp |-> Clock, sent |-> now,
                   checksum |->
                     ProbeChecksum(Rest + ntransmitted + 1, Clock, latency)]
  <2>1. /\ wire' = wire \cup {p}
        /\ UNCHANGED <<inbox, errors, faults, held, taken>>
    BY <1>2 DEF SendProbe, handVars
  <2>2. ntransmitted + 1 \in Nat /\ Rest + ntransmitted + 1 \in Nat
        /\ Clock \in Nat /\ now \in Nat /\ latency \in BOOLEAN
    BY RepliesAssumption DEF TypeOK
  <2>3. ProbeChecksum(Rest + ntransmitted + 1, Clock, latency)
          \in 0 .. Word - 1
    BY <2>2, ChecksumIsWord
  <2>4. p \in Probe
    BY <2>2, <2>3 DEF Probe
  <2> HIDE DEF p
  <2>5. QED
    BY <1>0, <2>1, <2>4
<1>3. CASE RecvReply
  <2> DEFINE r == Head(inbox)
             tv == IF latency THEN Clock ELSE r.tv
  <2>1. /\ held' = [r EXCEPT !.tv = IF latency THEN Clock ELSE @,
                             !.received = now]
        /\ inbox' = Tail(inbox) /\ inbox # <<>> /\ taken' = taken + 1
        /\ UNCHANGED <<wire, errors, faults>>
    BY <1>3 DEF RecvReply
  <2>2. r \in Answer /\ inbox' \in Seq(Answer)
    BY <1>0, <2>1
  <2>3. now \in Nat /\ Clock \in Nat
    BY <1>0 DEF ClockTypeOK
  <2> HIDE DEF r
  <2>4. r.tv \in Nat
    BY <2>2 DEF Answer
  <2>5. tv \in Nat
    BY <2>3, <2>4
  <2>6. held' = [r EXCEPT !.tv = tv, !.received = now]
    BY <2>1, <2>2 DEF Answer
  <2> HIDE DEF tv
  <2>7. held' \in Answer
    BY <2>2, <2>3, <2>5, <2>6 DEF Answer
  <2>8. QED
    BY <1>0, <2>1, <2>2, <2>7
<1>4. CASE RecvError
  <2>1. errors > 0 /\ errors' = errors - 1 /\ held' = NoAnswer
        /\ UNCHANGED <<wire, inbox, faults, taken>>
    BY <1>4 DEF RecvError
  <2>2. QED
    BY <1>0, <2>1
<1>5. CASE Finish
  <2>1. wire' = {} /\ inbox' = <<>> /\ errors' = 0
        /\ UNCHANGED <<faults, held, taken>>
    BY <1>5 DEF Finish, handVars
  <2>2. QED
    BY <1>0, <2>1
<1>6. ASSUME NEW probe \in wire, Refuse(probe)
      PROVE  NetTypeOK'
  <2>1. /\ faults < MaxFaults /\ faults' = faults + 1 /\ errors' = errors + 1
        /\ wire' \subseteq wire /\ UNCHANGED <<inbox, held, taken>>
    BY <1>6 DEF Refuse, handVars
  <2>2. MaxFaults \in Nat
    BY RepliesAssumption
  <2>3. QED
    BY <1>0, <2>1, <2>2
<1>7. ASSUME NEW probe \in wire, NEW kind \in Kinds, NEW again \in BOOLEAN,
             Arrive(probe, kind, again)
      PROVE  NetTypeOK'
  <2> DEFINE r == [seq |-> probe.seq, stamp |-> probe.stamp, kind |-> kind,
                   sent |-> probe.sent, arrived |-> now, tv |-> Clock,
                   received |-> now]
  <2>1. /\ inbox' = Append(inbox, r) /\ faults' <= MaxFaults
        /\ faults' = faults + (IF again THEN 1 ELSE 0)
        /\ wire' = IF again THEN wire ELSE wire \ {probe}
        /\ UNCHANGED <<errors, held, taken>>
    BY <1>7 DEF Arrive, handVars
  <2>2. r \in Answer
    BY <1>0 DEF ClockTypeOK, Probe, Answer
  <2> HIDE DEF r
  <2>3. inbox' \in Seq(Answer)
    BY <1>0, <2>1, <2>2
  <2>4. wire' \subseteq Probe
    BY <1>0, <2>1
  <2>5. faults' \in 0 .. MaxFaults
    <3>1. MaxFaults \in Nat /\ faults \in Nat
      BY <1>0, RepliesAssumption
    <3>2. CASE again
      BY <2>1, <3>1, <3>2
    <3>3. CASE ~again
      BY <2>1, <3>1, <3>3
    <3>4. QED
      BY <3>2, <3>3
  <2>6. QED
    BY <1>0, <2>1, <2>3, <2>4, <2>5
<1> HIDE DEF NetTypeOK
<1>8. CASE LookUp \/ ResolverAnswers \/ Return \/ Gather \/ Improve \/ Report
           \/ StartAgain \/ SignalArrives \/ Stop
  BY <1>1, <1>8 DEF LookUp, ResolverAnswers, Return, Gather, Improve, Report,
     StartAgain, SignalArrives, Stop, handVars, netVars
<1>9. ASSUME NEW by, Tick(by) \/ SetForward(by) \/ SetBack(by)
      PROVE  NetTypeOK'
  BY <1>1, <1>9 DEF Tick, SetForward, SetBack, handVars
<1>10. CASE UNCHANGED vars
  BY <1>1, <1>10 DEF vars, handVars
<1>11. QED
  BY <1>2, <1>3, <1>4, <1>5, <1>6, <1>7, <1>8, <1>9, <1>10 DEF Next, Thread

RunTypeOK ==
  /\ pc \in {"loop", "lookup", "gather", "newton", "done"}
  /\ latency \in BOOLEAN /\ ntransmitted \in 0 .. npackets
  /\ nerrors \in Nat /\ result \in Nat \cup {-1} /\ runs \in 1 .. MaxRuns

LEMMA RunTypeStep ==
  ASSUME TypeOK, PlaceInv, [Next]_vars
  PROVE  RunTypeOK'
<1> USE DEF RunTypeOK
<1>0. RunTypeOK
  BY DEF TypeOK
<1>1. ASSUME UNCHANGED <<runs, sendVars, nerrors, result>>,
             pc' \in {"loop", "lookup", "gather", "newton", "done"}
      PROVE  RunTypeOK'
  BY <1>0, <1>1 DEF sendVars
<1>2. CASE SendProbe
  <2>1. /\ ntransmitted < npackets /\ ntransmitted' = ntransmitted + 1
        /\ UNCHANGED <<pc, runs, latency, nerrors, result>>
    BY <1>2 DEF SendProbe, handVars
  <2>2. npackets \in Nat
    BY RepliesAssumption
  <2>3. QED
    BY <1>0, <2>1, <2>2
<1>3. CASE RecvError
  <2>1. /\ nerrors' = nerrors + 1 /\ pc' = "lookup"
        /\ UNCHANGED <<runs, sendVars, result>>
    BY <1>3 DEF RecvError
  <2>2. QED
    BY <1>0, <2>1 DEF sendVars
<1>4. CASE Gather
  <2>1. held \in Answer
    BY <1>4 DEF PlaceInv, TypeOK, Gather
  <2>2. Shown(Trip) \in Nat
    BY <2>1, TripTime, ShownShort
  <2>3. /\ pc' = "loop" /\ latency' = (latency \/ WentBack)
        /\ result' = IF held.kind = "whole" THEN Shown(Trip) ELSE -1
        /\ UNCHANGED <<runs, ntransmitted, nerrors>>
    BY <1>4 DEF Gather
  <2>4. latency' \in BOOLEAN
    BY <2>3, Zenon
  <2>5. result' \in Nat \cup {-1}
    BY <2>2, <2>3
  <2>6. QED
    BY <1>0, <2>3, <2>4, <2>5
<1>5. CASE StartAgain
  <2>1. /\ runs < MaxRuns /\ runs' = runs + 1 /\ pc' = "loop"
        /\ UNCHANGED <<sendVars, nerrors, result>>
    BY <1>5 DEF StartAgain, handVars
  <2>2. MaxRuns \in Nat
    BY RepliesAssumption
  <2>3. QED
    BY <1>0, <2>1, <2>2 DEF sendVars
<1> HIDE DEF RunTypeOK
<1>6. pc \in {"loop", "lookup", "gather", "newton", "done"}
  BY DEF TypeOK
<1>7. CASE RecvReply \/ LookUp \/ ResolverAnswers \/ Return \/ Finish
           \/ Improve \/ Report \/ SignalArrives \/ Stop
  BY <1>1, <1>6, <1>7 DEF RecvReply, LookUp, ResolverAnswers, Return, Finish,
     Improve, Report, SignalArrives, Stop, handVars
<1>8. ASSUME NEW probe \in wire, Refuse(probe)
      PROVE  RunTypeOK'
  BY <1>1, <1>6, <1>8 DEF Refuse, handVars
<1>9. ASSUME NEW probe \in wire, NEW kind \in Kinds, NEW again \in BOOLEAN,
             Arrive(probe, kind, again)
      PROVE  RunTypeOK'
  BY <1>1, <1>6, <1>9 DEF Arrive, handVars
<1>10. ASSUME NEW by, Tick(by) \/ SetForward(by) \/ SetBack(by)
       PROVE  RunTypeOK'
  BY <1>1, <1>6, <1>10 DEF Tick, SetForward, SetBack, handVars
<1>11. CASE UNCHANGED vars
  BY <1>1, <1>6, <1>11 DEF vars, handVars
<1>12. QED
  BY <1>2, <1>3, <1>4, <1>5, <1>7, <1>8, <1>9, <1>10, <1>11 DEF Next, Thread

Typed == TypeOK /\ PlaceInv /\ VarianceInv

LEMMA InitTyped == Init => Typed
<1> SUFFICES ASSUME Init PROVE Typed
  OBVIOUS
<1>1. LookupTypeOK /\ FiguresTypeOK
  BY FiguresAssumption DEF Init, LookupInit, FiguresInit, LookupTypeOK,
                           FiguresTypeOK
<1>2. ClockTypeOK
  BY RepliesAssumption DEF Init, ClockTypeOK, Clock
<1>3. NetTypeOK
  BY RepliesAssumption DEF Init, NetTypeOK
<1>4. RunTypeOK
  <2>1. latency \in BOOLEAN
    BY RepliesAssumption DEF Init
  <2>2. 0 \in 0 .. npackets /\ 1 \in 1 .. MaxRuns
    BY RepliesAssumption
  <2>3. QED
    BY <2>1, <2>2 DEF Init, RunTypeOK
<1>5. VarianceInv
  BY DEF Init, FiguresInit, VarianceInv, Answers
<1>6. TypeOK
  BY <1>1, <1>2, <1>3, <1>4 DEF TypeOK, ClockTypeOK, NetTypeOK, RunTypeOK
<1>7. QED
  BY <1>5, <1>6, InitPlace DEF Typed

LEMMA TypedStep ==
  ASSUME Typed, [Next]_vars
  PROVE  Typed'
<1>1. TypeOK /\ PlaceInv /\ VarianceInv
  BY DEF Typed
<1>2. PlaceInv'
  BY <1>1, PlaceStep
<1>3. FiguresTypeOK' /\ VarianceInv'
  BY <1>1, FiguresTypeStep
<1>4. LookupTypeOK'
  BY <1>1, LookupTypeStep
<1>5. ClockTypeOK'
  BY <1>1, ClockTypeStep
<1>6. NetTypeOK'
  BY <1>1, NetTypeStep
<1>7. RunTypeOK'
  BY <1>1, RunTypeStep
<1>8. TypeOK'
  BY <1>3, <1>4, <1>5, <1>6, <1>7
     DEF TypeOK, ClockTypeOK, NetTypeOK, RunTypeOK
<1>9. QED
  BY <1>2, <1>3, <1>8 DEF Typed

LEMMA AlwaysTyped == Spec => []Typed
<1>1. Typed /\ [Next]_vars => Typed'
  BY TypedStep
<1>2. QED
  BY InitTyped, <1>1, PTL DEF Spec

(* Every variable stays what the code declares it as; above all, neither a *)
(* round-trip time nor the variance llsqrt() is given falls below zero,    *)
(* whatever is done to the clock, and in later reports too.                *)
THEOREM RepliesTypeCorrect == Spec => []TypeOK
<1>1. Typed => TypeOK
  BY DEF Typed
<1>2. QED
  BY <1>1, AlwaysTyped, PTL

-----------------------------------------------------------------------------
(* NoAnswerLost.  The answer that is held is the one that was taken and is *)
(* not counted yet.                                                        *)

Pending == pc \in {"lookup", "gather"} /\ held # NoAnswer

LossInv ==
  /\ nreceived \in Nat /\ nrepeats \in Nat /\ taken \in Nat
  /\ Pending => taken = Answers + 1
  /\ ~Pending => taken = Answers

LEMMA LossStep ==
  ASSUME Typed, LossInv, [Next]_vars
  PROVE  LossInv'
<1> USE DEF LossInv, Pending
<1>0. TypeOK /\ PlaceInv
  BY DEF Typed
<1>1. ASSUME UNCHANGED <<pc, held, taken, nreceived, nrepeats>>
      PROVE  LossInv'
  BY <1>1 DEF Answers
<1>2. CASE SendProbe
  BY <1>1, <1>2 DEF SendProbe, handVars
<1>3. CASE RecvReply
  <2>1. /\ pc = "loop" /\ pc' = "lookup" /\ taken' = taken + 1
        /\ nreceived' = nreceived /\ nrepeats' = nrepeats
        /\ held' = [Head(inbox) EXCEPT !.tv = IF latency THEN Clock ELSE @,
                                       !.received = now]
    BY <1>3 DEF RecvReply, figureVars, countVars
  <2>2. Answers' = Answers /\ taken = Answers /\ taken' \in Nat
    BY <2>1 DEF Answers
  <2>3. held' # NoAnswer
    <3>1. held' \in Answer
      <4>1. inbox \in Seq(Answer) /\ inbox # <<>> /\ Clock \in Nat /\ now \in Nat
        BY <1>0, <1>3 DEF TypeOK, RecvReply
      <4> DEFINE r == Head(inbox)
      <4>2. r \in Answer
        BY <4>1
      <4>3. held' = [r EXCEPT !.tv = IF latency THEN Clock ELSE @,
                              !.received = now]
        BY <2>1
      <4> HIDE DEF r
      <4>4. QED
        BY <4>1, <4>2, <4>3 DEF Answer
    <3>2. QED
      BY <3>1, AnswerIsNotNone
  <2>4. QED
    BY <2>1, <2>2, <2>3
<1>4. CASE RecvError
  BY <1>4 DEF RecvError, figureVars, countVars, Answers
<1>5. CASE LookUp \/ ResolverAnswers
  BY <1>1, <1>5 DEF LookUp, ResolverAnswers, handVars, figureVars, countVars
<1>6. CASE Return
  BY <1>6 DEF Return, handVars, figureVars, countVars, Answers
<1>7. CASE Gather
  <2>1. /\ pc = "gather" /\ pc' = "loop" /\ taken' = taken /\ held' = held
        /\ Count(held.seq)
    BY <1>7 DEF Gather
  <2>2. held # NoAnswer
    BY <1>0, <2>1 DEF PlaceInv
  <2>3. QED
    BY <2>1, <2>2, CountAdds
<1>8. CASE Finish
  <2>1. /\ pc = "loop" /\ pc' \in {"newton", "done"}
        /\ UNCHANGED <<held, taken, nreceived, nrepeats>>
    BY <1>8 DEF Finish, DivideSums, figureVars, countVars, handVars
  <2>2. QED
    BY <2>1 DEF Answers
<1>9. CASE Improve
  BY <1>1, <1>9 DEF Improve, Newton, handVars, countVars
<1>10. CASE Report \/ StartAgain
  <2>1. /\ pc \notin {"lookup", "gather"} /\ pc' \notin {"lookup", "gather"}
        /\ UNCHANGED <<held, taken, nreceived, nrepeats>>
    BY <1>10 DEF Report, StartAgain, figureVars, countVars, handVars
  <2>2. QED
    BY <2>1 DEF Answers
<1>11. CASE SignalArrives
  <2>1. UNCHANGED <<held, taken, nreceived, nrepeats>>
    BY <1>11 DEF SignalArrives, figureVars, countVars, handVars
  <2>2. pc' = pc
    BY <1>0, <1>11 DEF SignalArrives, AlarmSignal, SigExit, PlaceInv
  <2>3. QED
    BY <1>1, <2>1, <2>2
<1>12. CASE Stop
  BY <1>1, <1>12 DEF Stop, figureVars, countVars, handVars
<1>13. ASSUME NEW probe \in wire, Refuse(probe)
       PROVE  LossInv'
  BY <1>1, <1>13 DEF Refuse, figureVars, countVars, handVars
<1>14. ASSUME NEW probe \in wire, NEW kind \in Kinds, NEW again \in BOOLEAN,
              Arrive(probe, kind, again)
       PROVE  LossInv'
  BY <1>1, <1>14 DEF Arrive, figureVars, countVars, handVars
<1>15. ASSUME NEW by, Tick(by) \/ SetForward(by) \/ SetBack(by)
       PROVE  LossInv'
  BY <1>1, <1>15 DEF Tick, SetForward, SetBack, figureVars, countVars, handVars
<1>16. CASE UNCHANGED vars
  BY <1>1, <1>16 DEF vars, figureVars, countVars, handVars
<1>17. QED
  BY <1>2, <1>3, <1>4, <1>5, <1>6, <1>7, <1>8, <1>9, <1>10, <1>11, <1>12,
     <1>13, <1>14, <1>15, <1>16 DEF Next, Thread

(* Each answer taken from the socket is counted once, whatever the signal  *)
(* breaks off: NoAnswerLost.                                               *)
THEOREM AnswersAreCounted == Spec => []NoAnswerLost
<1>1. Init => LossInv
  BY DEF Init, FiguresInit, LossInv, Pending, Answers
<1>2. Typed /\ LossInv /\ [Next]_vars => LossInv'
  BY LossStep
<1>3. LossInv => NoAnswerLost
  <2>1. SUFFICES ASSUME LossInv
                 PROVE  NoAnswerLost
    OBVIOUS
  <2>2. Answers \in Nat
    BY <2>1 DEF LossInv, Answers
  <2>3. CASE Pending
    BY <2>1, <2>3 DEF LossInv, Pending, NoAnswerLost
  <2>4. CASE ~Pending
    <3>1. taken = Answers /\ Answers + 0 = Answers
      BY <2>1, <2>2, <2>4 DEF LossInv
    <3>2. QED
      BY <2>4, <3>1 DEF Pending, NoAnswerLost
  <2>5. QED
    BY <2>3, <2>4
<1>4. QED
  BY <1>1, <1>2, <1>3, AlwaysTyped, PTL DEF Spec

-----------------------------------------------------------------------------
(* FiguresSound, of which there are three parts.  First the running        *)
(* average, and the extremes it lies between.                              *)

ExtremesInv ==
  /\ untimed <= Answers
  /\ untimed = Answers => rtt = 0 /\ tmax = 0 /\ tmin = LongMax
  /\ untimed < Answers => 8 * tmin <= rtt /\ rtt <= 8 * tmax

LEMMA AverageMoves ==
  ASSUME NEW r \in Nat, NEW t \in Nat, NEW low \in Nat, NEW high \in Nat,
         8 * low <= r, r <= 8 * high, low <= t, t <= high
  PROVE  /\ 8 * low <= r + t - r \div 8
         /\ r + t - r \div 8 <= 8 * high
OBVIOUS

LEMMA ExtremesOfSample ==
  ASSUME FiguresTypeOK, NEW t \in Nat, AddSample(t), ExtremesInv
  PROVE  8 * tmin' <= rtt' /\ rtt' <= 8 * tmax'
<1>1. /\ rtt \in Nat /\ tmin \in Nat /\ tmax \in Nat /\ untimed \in Nat
      /\ Answers \in Nat
  BY DEF FiguresTypeOK, Answers
<1>2. /\ tmin' = IF t < tmin THEN t ELSE tmin
      /\ tmax' = IF t > tmax THEN t ELSE tmax
      /\ rtt' = IF rtt = 0 THEN t * 8 ELSE rtt + t - rtt \div 8
  BY DEF AddSample
<1>3. /\ tmin' \in Nat /\ tmax' \in Nat
      /\ tmin' <= t /\ t <= tmax' /\ tmin' <= tmin /\ tmax <= tmax'
  BY <1>1, <1>2
<1>4. CASE rtt = 0
  BY <1>2, <1>3, <1>4
<1>5. CASE rtt # 0
  <2>1. untimed < Answers
    BY <1>1, <1>5 DEF ExtremesInv
  <2>2. 8 * tmin' <= rtt /\ rtt <= 8 * tmax'
    <3>1. 8 * tmin <= rtt /\ rtt <= 8 * tmax
      BY <2>1 DEF ExtremesInv
    <3>2. \A a, b, c, d, e \in Nat :
            8 * a <= e /\ e <= 8 * b /\ c <= a /\ b <= d
              => 8 * c <= e /\ e <= 8 * d
      OBVIOUS
    <3>3. QED
      BY <1>1, <1>3, <3>1, <3>2
  <2>3. rtt' = rtt + t - rtt \div 8
    BY <1>2, <1>5
  <2>4. /\ 8 * tmin' <= rtt + t - rtt \div 8
        /\ rtt + t - rtt \div 8 <= 8 * tmax'
    BY <1>1, <1>3, <2>2, AverageMoves
  <2>5. QED
    BY <2>3, <2>4
<1>6. QED
  BY <1>4, <1>5

(* Then the sum of the round-trip times, and what finish() makes of it.    *)

AverageInv ==
  /\ tsum <= tmax * Answers
  /\ runs = 1 /\ untimed = 0 /\ pc \in {"loop", "lookup", "gather"} =>
       tsum >= tmin * Answers
  /\ pc \in {"newton", "done"} /\ nreceived > 0 =>
       tsum <= tmax /\ (runs = 1 /\ untimed = 0 => tmin <= tsum)

LEMMA SumOfSample ==
  ASSUME NEW n \in Nat, NEW s \in Nat, NEW t \in Nat,
         NEW m \in Nat, NEW k \in Nat
  PROVE  /\ s <= m * n /\ m <= k /\ t <= k => s + t <= k * (n + 1)
         /\ s >= m * n /\ m >= k /\ t >= k => s + t >= k * (n + 1)
<1>1. m * n \in Nat /\ k * n \in Nat /\ k * (n + 1) = k * n + k
  OBVIOUS
<1>2. m <= k => m * n <= k * n
  <2>1. m <= k => (k - m) * n >= 0
    OBVIOUS
  <2>2. (k - m) * n = k * n - m * n
    OBVIOUS
  <2>3. QED
    BY <1>1, <2>1, <2>2
<1>3. m >= k => m * n >= k * n
  <2>1. m >= k => (m - k) * n >= 0
    OBVIOUS
  <2>2. (m - k) * n = m * n - k * n
    OBVIOUS
  <2>3. QED
    BY <1>1, <2>1, <2>2
<1>4. QED
  BY <1>1, <1>2, <1>3

(* Last, the estimates of llsqrt().  Each is at least the integer root, as *)
(* the mean of two factors is at least the root of their product.          *)

RootInv ==
  /\ (root.x + 1) * (root.x + 1) > root.of
  /\ root.prev = -1 => root.x = root.of
  /\ root.prev # -1 =>
       /\ root.prev > 0
       /\ (root.prev + 1) * (root.prev + 1) > root.of
       /\ root.x = (root.prev + root.of \div root.prev) \div 2

LEMMA RootFromAbove ==
  ASSUME NEW a \in Nat, NEW p \in Nat, p >= 1
  PROVE  LET x == (p + a \div p) \div 2
         IN  x \in Nat /\ (x + 1) * (x + 1) > a
<1> DEFINE q == a \div p  x == (p + q) \div 2  k == x + 1  c == q + 1
<1>1. q \in Nat /\ a % p \in 0 .. p - 1 /\ a = p * q + (a % p)
  <2>1. q \in Nat
    BY QuotientSmall
  <2>2. a % p \in 0 .. p - 1 /\ a = p * q + (a % p)
    BY Division
  <2>3. QED
    BY <2>1, <2>2
<1> HIDE DEF q
<1>2. x \in Nat /\ p + q + 1 <= 2 * (x + 1)
  BY <1>1
<1> HIDE DEF x
<1>3. k \in Nat /\ c \in Nat /\ p + c <= 2 * k
  BY <1>1, <1>2
<1>4. a < p * c
  <2>1. p * c = p * q + p /\ p * q \in Int
    BY <1>1
  <2>2. QED
    BY <1>1, <2>1
<1> HIDE DEF k, c
<1>5. 4 * (p * c) <= (p + c) * (p + c)
  <2>1. (p - c) * (p - c) >= 0
    <3>1. p - c \in Int /\ \A z \in Int : z * z >= 0
      BY <1>3
    <3>2. QED
      BY <3>1
  <2>2. (p + c) * (p + c) = (p - c) * (p - c) + 4 * (p * c)
    BY <1>3
  <2>3. p * c \in Int /\ (p - c) * (p - c) \in Int
    BY <1>3
  <2>4. QED
    BY <2>1, <2>2, <2>3
<1>6. (p + c) * (p + c) <= 4 * (k * k)
  <2> DEFINE m == p + c  n == 2 * k
  <2>1. m \in Nat /\ n \in Nat /\ m <= n
    BY <1>3
  <2>2. n * n = 4 * (k * k)
    BY <1>3
  <2>3. m * m <= n * n
    <3> HIDE DEF m, n
    <3>1. (n - m) * (n + m) >= 0
      BY <2>1
    <3>2. (n - m) * (n + m) = n * n - m * m /\ n * n \in Int /\ m * m \in Int
      BY <2>1
    <3>3. QED
      BY <3>1, <3>2
  <2>4. QED
    BY <2>2, <2>3
<1>7. p * c \in Int /\ k * k \in Int /\ (p + c) * (p + c) \in Int
  BY <1>3
<1>8. k * k > a
  <2>1. 4 * (p * c) <= 4 * (k * k)
    BY <1>5, <1>6, <1>7
  <2>2. QED
    BY <1>4, <1>7, <2>1
<1>9. QED
  BY <1>2, <1>8 DEF k, x, q

(* Where llsqrt() stops its estimate is the integer root or, if what is    *)
(* above it is short of a square by one, that square's root.               *)
LEMMA RootWhereItStops ==
  ASSUME NEW a \in Nat, NEW p \in Nat, p >= 1, (p + 1) * (p + 1) > a,
         NEW x, x = (p + a \div p) \div 2, x >= p
  PROVE  x \in Nat /\ x * x <= a + 1
<1> DEFINE q == a \div p
<1>1. q \in Nat /\ p * q <= a
  BY QuotientSmall
<1>2. q < p + 3
  <2>1. CASE q >= p + 3
    <3>1. p * (q - p - 3) >= 0
      BY <1>1, <2>1
    <3>2. p * (q - p - 3) = p * q - p * p - 3 * p
      BY <1>1
    <3>3. (p + 1) * (p + 1) = p * p + 2 * p + 1
      OBVIOUS
    <3>4. p * p \in Int /\ p * q \in Int
      BY <1>1
    <3> HIDE DEF q
    <3>5. p * p + 2 * p + 1 > a
      BY <3>3
    <3>6. QED
      BY <1>1, <3>1, <3>2, <3>4, <3>5
  <2>2. QED
    BY <1>1, <2>1
<1> HIDE DEF q
<1>3. x = (p + q) \div 2
  BY DEF q
<1>4. x \in Nat /\ p + q >= 2 * x /\ q >= p
  BY <1>1, <1>3
<1>5. x = p \/ (x = p + 1 /\ q = p + 2)
  BY <1>1, <1>2, <1>3, <1>4
<1>6. CASE x = p
  <2>1. p * (q - p) >= 0 /\ p * (q - p) = p * q - p * p
    BY <1>1, <1>4
  <2>2. p * p \in Int /\ p * q \in Int
    BY <1>1
  <2>3. p * p <= a
    BY <1>1, <2>1, <2>2
  <2>4. QED
    BY <1>4, <1>6, <2>2, <2>3
<1>7. CASE x = p + 1 /\ q = p + 2
  <2>1. (p + 1) * (p + 1) = p * (p + 2) + 1
    OBVIOUS
  <2>2. p * (p + 2) <= a /\ p * (p + 2) \in Int
    BY <1>1, <1>7
  <2>3. QED
    BY <1>7, <2>1, <2>2
<1>8. QED
  BY <1>5, <1>6, <1>7

(* Each step keeps the three of them.                                      *)
FiguresInv ==
  /\ ExtremesInv /\ AverageInv
  /\ pc \in {"newton", "done"} /\ nreceived > 0 => RootInv
  /\ pc = "done" /\ nreceived > 0 => ~Improving

LEMMA FiguresGather ==
  ASSUME Typed, FiguresInv, Gather
  PROVE  FiguresInv'
<1>1. /\ Count(held.seq) /\ pc = "gather" /\ pc' = "loop" /\ runs' = runs
      /\ IF Timed THEN AddSample(Trip) ELSE NoSample
  BY DEF Gather
<1>2. FiguresTypeOK /\ ExtremesInv /\ AverageInv
  BY DEF Typed, TypeOK, FiguresInv
<1>3. /\ Answers \in Nat /\ Answers' = Answers + 1
  BY <1>1, <1>2, CountAdds DEF FiguresTypeOK
<1>4. /\ tsum \in Nat /\ tmin \in Nat /\ tmax \in Nat /\ untimed \in Nat
      /\ rtt \in Nat
  BY <1>2 DEF FiguresTypeOK
<1>5. CASE Timed
  <2> DEFINE t == Trip
  <2>1. held \in Answer
    BY <1>1 DEF Typed, TypeOK, PlaceInv
  <2>2. t \in Nat
    BY <2>1, TripTime DEF Typed
  <2>3. AddSample(t)
    BY <1>1, <1>5
  <2> HIDE DEF t
  <2>4. /\ tsum' = tsum + t /\ untimed' = untimed
        /\ tmin' = IF t < tmin THEN t ELSE tmin
        /\ tmax' = IF t > tmax THEN t ELSE tmax
    BY <2>3 DEF AddSample
  <2>5. /\ tmin' \in Nat /\ tmax' \in Nat
        /\ tmin' <= t /\ t <= tmax' /\ tmin' <= tmin /\ tmax <= tmax'
    BY <1>4, <2>2, <2>4
  <2>6. ExtremesInv'
    <3>1. 8 * tmin' <= rtt' /\ rtt' <= 8 * tmax'
      BY <1>2, <2>2, <2>3, ExtremesOfSample
    <3>2. untimed' < Answers'
      BY <1>2, <1>3, <1>4, <2>4 DEF ExtremesInv
    <3>3. untimed' \in Nat /\ Answers' \in Nat
      BY <1>3, <1>4, <2>4
    <3>4. QED
      BY <3>1, <3>2, <3>3 DEF ExtremesInv
  <2>7. AverageInv'
    <3>1. tsum <= tmax * Answers
      BY <1>2 DEF AverageInv
    <3>2. tsum + t <= tmax' * (Answers + 1)
      BY <1>3, <1>4, <2>2, <2>5, <3>1, SumOfSample
    <3>3. ASSUME runs = 1, untimed = 0
          PROVE  tsum + t >= tmin' * (Answers + 1)
      <4>1. tsum >= tmin * Answers
        BY <1>1, <1>2, <3>3 DEF AverageInv
      <4>2. QED
        BY <1>3, <1>4, <2>2, <2>5, <4>1, SumOfSample
    <3>4. QED
      BY <1>1, <1>3, <2>4, <3>2, <3>3 DEF AverageInv
  <2>8. QED
    BY <1>1, <2>6, <2>7 DEF FiguresInv
<1>6. CASE ~Timed
  <2>1. untimed' = untimed + 1 /\ UNCHANGED <<tsum, tsum2, tmin, tmax, rtt>>
    BY <1>1, <1>6 DEF NoSample, sumVars
  <2>2. ExtremesInv'
    <3>1. untimed' <= Answers' /\ (untimed' = Answers' => untimed = Answers)
          /\ (untimed' < Answers' => untimed < Answers)
      BY <1>2, <1>3, <1>4, <2>1 DEF ExtremesInv
    <3>2. QED
      BY <1>2, <2>1, <3>1 DEF ExtremesInv
  <2>3. AverageInv'
    <3>1. tsum <= tmax * (Answers + 1)
      <4>1. tsum <= tmax * Answers
        BY <1>2 DEF AverageInv
      <4>2. tmax * (Answers + 1) = tmax * Answers + tmax
            /\ tmax * Answers \in Int
        BY <1>3, <1>4
      <4>3. QED
        BY <1>4, <4>1, <4>2
    <3>2. untimed' # 0
      BY <1>4, <2>1
    <3>3. QED
      BY <1>1, <1>3, <2>1, <3>1, <3>2 DEF AverageInv
  <2>4. QED
    BY <1>1, <2>2, <2>3 DEF FiguresInv
<1>7. QED
  BY <1>5, <1>6

LEMMA FiguresFinish ==
  ASSUME Typed, FiguresInv, Finish
  PROVE  FiguresInv'
<1>1. FiguresTypeOK /\ ExtremesInv /\ AverageInv
  BY DEF Typed, TypeOK, FiguresInv
<1>2. pc = "loop" /\ runs' = runs
  BY DEF Finish
<1>3. CASE nreceived > 0
  <2> DEFINE n == Answers  a == tsum \div n
             v == tsum2' - tsum' * tsum'
  <2>1. /\ tsum' = a /\ tsum2' = tsum2 \div n
        /\ root' = [of |-> v, x |-> v, prev |-> -1]
        /\ UNCHANGED <<nreceived, nrepeats, rcvd, tmin, tmax, rtt, untimed>>
        /\ pc' = "newton"
    BY <1>3 DEF Finish, DivideSums, countVars
  <2>2. /\ n \in Nat /\ n >= 1 /\ tsum \in Nat /\ tmin \in Nat
        /\ tmax \in Nat
    BY <1>1, <1>3 DEF FiguresTypeOK, Answers
  <2>3. n' = n
    BY <2>1 DEF Answers
  <2>4. tmax * n = n * tmax /\ tmin * n = n * tmin /\ n * tmax \in Nat
    BY <2>2
  <2> HIDE DEF n
  <2>5. a <= tmax /\ a \in Nat
    <3>1. tsum <= n * tmax
      BY <1>1, <2>4 DEF AverageInv, n
    <3>2. a <= tmax
      BY <2>2, <3>1, QuotientBetween
    <3>3. a \in Nat
      BY <2>2, QuotientSmall
    <3>4. QED
      BY <3>2, <3>3
  <2>6. ASSUME runs = 1, untimed = 0
        PROVE  tmin <= a
    <3>1. tsum >= n * tmin
      BY <1>1, <1>2, <2>4, <2>6 DEF AverageInv, n
    <3>2. QED
      BY <2>2, <2>5, <3>1, QuotientBetween
  <2> HIDE DEF a
  <2>7. a <= n * tmax
    <3>1. (n - 1) * tmax >= 0 /\ (n - 1) * tmax = n * tmax - tmax
      BY <2>2
    <3>2. QED
      BY <2>2, <2>4, <2>5, <3>1
  <2>8. AverageInv'
    BY <1>2, <2>1, <2>3, <2>4, <2>5, <2>6, <2>7 DEF AverageInv, n
  <2>9. ExtremesInv'
    BY <1>1, <2>1, <2>3 DEF ExtremesInv, n
  <2>10. RootInv'
    <3>1. v \in Nat
      <4>1. FiguresTypeOK'
        BY FiguresTypeStep DEF Typed, Finish, Next, Thread
      <4>2. root'.of \in Nat
        BY <4>1 DEF FiguresTypeOK
      <4>3. QED
        BY <2>1, <4>2
    <3>2. root'.of = v /\ root'.x = v /\ root'.prev = -1
      BY <2>1
    <3> HIDE DEF v
    <3>3. (v + 1) * (v + 1) > v
      <4>1. (v + 1) * (v + 1) = v * v + 2 * v + 1 /\ v * v \in Nat
        BY <3>1
      <4>2. QED
        BY <3>1, <4>1
    <3>4. QED
      BY <3>2, <3>3 DEF RootInv
  <2>11. QED
    BY <2>1, <2>8, <2>9, <2>10 DEF FiguresInv
<1>4. CASE ~(nreceived > 0)
  <2>1. pc' = "done"
        /\ UNCHANGED <<nreceived, nrepeats, tsum, tmin, tmax, rtt, untimed>>
    BY <1>4 DEF Finish, figureVars, countVars, sumVars
  <2>2. QED
    BY <1>1, <1>2, <1>4, <2>1
       DEF FiguresInv, ExtremesInv, AverageInv, Answers
<1>5. QED
  BY <1>3, <1>4

LEMMA FiguresImprove ==
  ASSUME Typed, FiguresInv, Improve
  PROVE  FiguresInv'
<1>1. FiguresTypeOK /\ ExtremesInv /\ AverageInv
  BY DEF Typed, TypeOK, FiguresInv
<1>2. /\ UNCHANGED <<countVars, sumVars, untimed, pc, runs>>
      /\ root' = [root EXCEPT !.prev = root.x,
                        !.x = (root.x + root.of \div root.x) \div 2]
      /\ root.x > 0 /\ pc = "newton"
  BY DEF Improve, Newton, Improving
<1>3. ExtremesInv' /\ AverageInv'
  BY <1>1, <1>2 DEF ExtremesInv, AverageInv, Answers, countVars, sumVars
<1>4. ASSUME nreceived > 0
      PROVE  RootInv'
  <2>1. RootInv
    BY <1>2, <1>4 DEF FiguresInv
  <2>2. root \in [of : Nat, x : Nat, prev : Nat \cup {-1}]
    BY <1>1 DEF FiguresTypeOK
  <2>3. /\ root'.of = root.of /\ root'.prev = root.x
        /\ root'.x = (root.x + root.of \div root.x) \div 2
    BY <1>2, <2>2
  <2>4. root.of \in Nat /\ root.x \in Nat /\ root.x >= 1 /\ root.x # -1
    BY <1>2, <2>2
  <2>5. (root'.x + 1) * (root'.x + 1) > root.of
    BY <2>3, <2>4, RootFromAbove
  <2>6. (root.x + 1) * (root.x + 1) > root.of
    BY <2>1 DEF RootInv
  <2>7. QED
    BY <1>2, <2>3, <2>4, <2>5, <2>6 DEF RootInv
<1>5. QED
  BY <1>2, <1>3, <1>4 DEF FiguresInv, countVars

LEMMA FiguresStep ==
  ASSUME Typed, FiguresInv, [Next]_vars
  PROVE  FiguresInv'
<1>1. ASSUME UNCHANGED <<nreceived, nrepeats, tsum, tmin, tmax, rtt, root,
                         untimed, runs>>,
             \/ pc' = pc
             \/ {pc, pc'} \cap {"newton", "done"} = {}
      PROVE  FiguresInv'
  <2>1. ExtremesInv' /\ (RootInv' <=> RootInv) /\ (Improving' <=> Improving)
    BY <1>1 DEF FiguresInv, ExtremesInv, RootInv, Answers, Improving
  <2>2. Answers' = Answers
    BY <1>1 DEF Answers
  <2>3. CASE pc' = pc
    <3>1. AverageInv'
      BY <1>1, <2>2, <2>3 DEF FiguresInv, AverageInv
    <3>2. QED
      BY <1>1, <2>1, <2>3, <3>1 DEF FiguresInv
  <2>4. CASE {pc, pc'} \cap {"newton", "done"} = {}
    <3>1. pc \in {"loop", "lookup", "gather"}
          /\ pc \notin {"newton", "done"} /\ pc' \notin {"newton", "done"}
      BY <2>4 DEF Typed, TypeOK
    <3>2. AverageInv'
      BY <1>1, <2>2, <3>1 DEF FiguresInv, AverageInv
    <3>3. QED
      BY <1>1, <2>1, <3>1, <3>2 DEF FiguresInv
  <2>5. QED
    BY <1>1, <2>3, <2>4
<1>2. CASE SendProbe
  BY <1>1, <1>2 DEF SendProbe, sumVars
<1>3. CASE RecvReply \/ RecvError \/ LookUp \/ ResolverAnswers \/ Return
  <2>1. {pc, pc'} \cap {"newton", "done"} = {}
    BY <1>3 DEF RecvReply, RecvError, LookUp, ResolverAnswers, Return
  <2>2. UNCHANGED <<nreceived, nrepeats, tsum, tmin, tmax, rtt, root,
                    untimed, runs>>
    BY <1>3 DEF RecvReply, RecvError, LookUp, ResolverAnswers, Return,
                figureVars, countVars, sumVars
  <2>3. QED
    BY <1>1, <2>1, <2>2
<1>4. CASE Gather \/ Finish \/ Improve
  BY <1>4, FiguresGather, FiguresFinish, FiguresImprove
<1>5. CASE Report
  BY <1>5 DEF Report, figureVars, countVars, sumVars, FiguresInv, ExtremesInv,
              AverageInv, RootInv, Answers, Improving
<1>6. CASE StartAgain
  <2>1. /\ pc = "done" /\ pc' = "loop" /\ runs' = runs + 1
        /\ UNCHANGED <<nreceived, nrepeats, tsum, tmin, tmax, rtt, untimed>>
    BY <1>6 DEF StartAgain, figureVars, countVars, sumVars
  <2>2. runs' # 1
    <3>1. runs \in 1 .. MaxRuns /\ MaxRuns \in Nat
      BY RepliesAssumption DEF Typed, TypeOK
    <3>2. QED
      BY <2>1, <3>1
  <2>3. QED
    BY <2>1, <2>2 DEF FiguresInv, ExtremesInv, AverageInv, Answers
<1>7. CASE SignalArrives
  <2>1. pc' = pc
    BY <1>7 DEF SignalArrives, AlarmSignal, SigExit, Typed, PlaceInv
  <2>2. QED
    BY <1>1, <1>7, <2>1 DEF SignalArrives, figureVars, countVars, sumVars
<1>8. CASE Stop
  BY <1>1, <1>8 DEF Stop, figureVars, countVars, sumVars
<1>9. ASSUME NEW probe \in wire, Refuse(probe)
      PROVE  FiguresInv'
  BY <1>1, <1>9 DEF Refuse, figureVars, countVars, sumVars
<1>10. ASSUME NEW probe \in wire, NEW kind \in Kinds, NEW again \in BOOLEAN,
              Arrive(probe, kind, again)
       PROVE  FiguresInv'
  BY <1>1, <1>10 DEF Arrive, figureVars, countVars, sumVars
<1>11. ASSUME NEW by, Tick(by) \/ SetForward(by) \/ SetBack(by)
       PROVE  FiguresInv'
  BY <1>1, <1>11 DEF Tick, SetForward, SetBack, figureVars, countVars, sumVars
<1>12. CASE UNCHANGED vars
  BY <1>1, <1>12 DEF vars, figureVars, countVars, sumVars
<1>13. QED
  BY <1>2, <1>3, <1>4, <1>5, <1>6, <1>7, <1>8, <1>9, <1>10, <1>11, <1>12
     DEF Next, Thread

(* The figures of each report are what their names say, and the average    *)
(* that paces -A is between the extremes: FiguresSound.  finish() divides  *)
(* sums that it divided before, and counts answers that brought no time.   *)
THEOREM FiguresAreSound == Spec => []FiguresSound
<1>1. Init => FiguresInv
  <2>1. SUFFICES ASSUME Init PROVE FiguresInv
    OBVIOUS
  <2>2. LongMax \in Nat
    BY FiguresAssumption
  <2>3. QED
    BY <2>1, <2>2 DEF Init, FiguresInit, FiguresInv, ExtremesInv, AverageInv,
                      Answers
<1>2. Typed /\ FiguresInv /\ [Next]_vars => FiguresInv'
  BY FiguresStep
<1>3. Typed /\ FiguresInv => FiguresSound
  <2>1. SUFFICES ASSUME Typed, FiguresInv PROVE FiguresSound
    OBVIOUS
  <2>2. untimed < Answers => 8 * tmin <= rtt /\ rtt <= 8 * tmax
    BY <2>1 DEF FiguresInv, ExtremesInv
  <2>3. ASSUME pc = "done", nreceived > 0
        PROVE  /\ tsum <= tmax /\ (runs = 1 /\ untimed = 0 => tmin <= tsum)
               /\ root.of >= 0
               /\ root.x * root.x <= root.of + 1
               /\ (root.x + 1) * (root.x + 1) > root.of
    <3>1. tsum <= tmax /\ (runs = 1 /\ untimed = 0 => tmin <= tsum)
      BY <2>1, <2>3 DEF FiguresInv, AverageInv
    <3>2. RootInv /\ ~Improving
      BY <2>1, <2>3 DEF FiguresInv
    <3>3. /\ root.of \in Nat /\ root.x \in Nat /\ root.prev \in Nat \cup {-1}
      BY <2>1 DEF Typed, TypeOK, FiguresTypeOK
    <3>4. (root.x + 1) * (root.x + 1) > root.of
      BY <3>2 DEF RootInv
    <3>5. root.x * root.x <= root.of + 1
      <4>1. CASE root.x = 0
        BY <3>3, <4>1
      <4>2. CASE root.x # 0
        <5>1. root.prev # -1 /\ root.x >= root.prev
          BY <3>2, <3>3, <4>2 DEF Improving
        <5>2. /\ root.prev \in Nat /\ root.prev >= 1
              /\ (root.prev + 1) * (root.prev + 1) > root.of
              /\ root.x = (root.prev + root.of \div root.prev) \div 2
          BY <3>2, <3>3, <5>1 DEF RootInv
        <5>3. QED
          BY <3>3, <5>1, <5>2, RootWhereItStops
      <4>3. QED
        BY <4>1, <4>2
    <3>6. QED
      BY <3>1, <3>3, <3>4, <3>5
  <2>4. QED
    BY <2>2, <2>3 DEF FiguresSound
<1>4. QED
  BY <1>1, <1>2, <1>3, AlwaysTyped, PTL DEF Spec

-----------------------------------------------------------------------------
(* TimeHonest.  What the clock shows more than the time, offset, was       *)
(* between offset - forward and offset + back whenever it was read.  So    *)
(* the stamps that travel with a probe and its answer differ by the time   *)
(* between them, but for what the clock was set by.                        *)

Clocks == [now : Nat, offset : Int, back : Nat, forward : Nat]

TheClock == [now |-> now, offset |-> offset, back |-> back, forward |-> forward]

SentTimes(r, k) ==
  /\ r.sent <= k.now
  /\ k.offset - k.forward <= r.stamp - r.sent
  /\ r.stamp - r.sent <= k.offset + k.back

TakenAt(r, end, k) ==
  /\ - k.back <= (r.tv - end) - (r.stamp - r.sent)
  /\ (r.tv - end) - (r.stamp - r.sent) <= k.forward

AnswerTimes(r, k) ==
  /\ SentTimes(r, k)
  /\ r.sent <= r.arrived /\ r.arrived <= k.now
  /\ TakenAt(r, r.arrived, k)

End(r, late) == IF late THEN r.received ELSE r.arrived

HeldTimes(r, late, k) ==
  /\ SentTimes(r, k)
  /\ r.sent <= r.arrived /\ r.arrived <= r.received /\ r.received <= k.now
  /\ TakenAt(r, End(r, late), k)

TimesInv ==
  /\ \A r \in wire : SentTimes(r, TheClock)
  /\ \A i \in 1 .. Len(inbox) : AnswerTimes(inbox[i], TheClock)
  /\ pc \in {"lookup", "gather"} /\ held # NoAnswer =>
       HeldTimes(held, latency, TheClock)

Looser(j, k) ==
  /\ j.now <= k.now
  /\ k.offset - k.forward <= j.offset - j.forward
  /\ j.offset + j.back <= k.offset + k.back
  /\ j.back <= k.back /\ j.forward <= k.forward

(* The clock only ever loosens what holds of a probe or an answer.         *)
LEMMA SentLoosens ==
  ASSUME NEW j \in Clocks, NEW k \in Clocks, Looser(j, k),
         NEW r, r.sent \in Nat, r.stamp \in Nat, SentTimes(r, j)
  PROVE  SentTimes(r, k)
<1> DEFINE d == r.stamp - r.sent
<1>1. /\ j.now \in Nat /\ j.offset \in Int /\ j.back \in Nat
      /\ j.forward \in Nat /\ k.now \in Nat /\ k.offset \in Int
      /\ k.back \in Nat /\ k.forward \in Nat
  BY DEF Clocks
<1>2. d \in Int
  OBVIOUS
<1>3. /\ r.sent <= j.now /\ j.offset - j.forward <= d
      /\ d <= j.offset + j.back
  BY DEF SentTimes
<1> HIDE DEF d
<1>4. r.sent <= k.now /\ k.offset - k.forward <= d /\ d <= k.offset + k.back
  BY <1>1, <1>2, <1>3 DEF Looser
<1>5. QED
  BY <1>4 DEF SentTimes, d

LEMMA TakenLoosens ==
  ASSUME NEW j \in Clocks, NEW k \in Clocks, Looser(j, k),
         NEW r, r.sent \in Nat, r.stamp \in Nat, r.tv \in Nat,
         NEW end \in Nat, TakenAt(r, end, j)
  PROVE  TakenAt(r, end, k)
<1> DEFINE d == (r.tv - end) - (r.stamp - r.sent)
<1>1. /\ j.back \in Nat /\ j.forward \in Nat /\ k.back \in Nat
      /\ k.forward \in Nat
  BY DEF Clocks
<1>2. d \in Int
  OBVIOUS
<1>3. - j.back <= d /\ d <= j.forward
  BY DEF TakenAt
<1> HIDE DEF d
<1>4. - k.back <= d /\ d <= k.forward
  BY <1>1, <1>2, <1>3 DEF Looser
<1>5. QED
  BY <1>4 DEF TakenAt, d

LEMMA AnswerLoosens ==
  ASSUME NEW j \in Clocks, NEW k \in Clocks, Looser(j, k),
         NEW r \in Answer
  PROVE  /\ AnswerTimes(r, j) => AnswerTimes(r, k)
         /\ \A late \in BOOLEAN :
              HeldTimes(r, late, j) => HeldTimes(r, late, k)
<1>1. /\ r.sent \in Nat /\ r.stamp \in Nat /\ r.tv \in Nat
      /\ r.arrived \in Nat /\ r.received \in Nat
  BY DEF Answer
<1>2. \A n \in Nat : n <= j.now => n <= k.now
  BY DEF Looser, Clocks
<1>3. SentTimes(r, j) => SentTimes(r, k)
  BY <1>1, SentLoosens
<1>4. \A end \in Nat : TakenAt(r, end, j) => TakenAt(r, end, k)
  BY <1>1, TakenLoosens
<1>5. AnswerTimes(r, j) => AnswerTimes(r, k)
  BY <1>1, <1>2, <1>3, <1>4 DEF AnswerTimes
<1>6. ASSUME NEW late \in BOOLEAN, HeldTimes(r, late, j)
      PROVE  HeldTimes(r, late, k)
  <2>1. End(r, late) \in Nat
    BY <1>1 DEF End
  <2>2. QED
    BY <1>1, <1>2, <1>3, <1>4, <1>6, <2>1 DEF HeldTimes
<1>7. QED
  BY <1>5, <1>6

(* What is stamped now is off by what the clock shows now.                 *)
LEMMA StampedNow ==
  ASSUME NEW k \in Clocks, NEW r, r.sent \in Nat, r.stamp \in Nat
  PROVE  /\ r.sent = k.now /\ r.stamp = k.now + k.offset => SentTimes(r, k)
         /\ SentTimes(r, k) /\ r.tv = k.now + k.offset => TakenAt(r, k.now, k)
<1> DEFINE d == r.stamp - r.sent
<1>1. k.now \in Nat /\ k.offset \in Int /\ k.back \in Nat /\ k.forward \in Nat
  BY DEF Clocks
<1>2. d \in Int
  OBVIOUS
<1>3. ASSUME r.sent = k.now, r.stamp = k.now + k.offset
      PROVE  SentTimes(r, k)
  <2>1. r.stamp - r.sent = k.offset
    BY <1>1, <1>3
  <2>2. k.offset - k.forward <= k.offset /\ k.offset <= k.offset + k.back
        /\ k.now <= k.now
    BY <1>1
  <2>3. QED
    BY <1>3, <2>1, <2>2 DEF SentTimes
<1>4. ASSUME SentTimes(r, k), r.tv = k.now + k.offset
      PROVE  TakenAt(r, k.now, k)
  <2>1. r.tv - k.now = k.offset
    BY <1>1, <1>4
  <2>2. k.offset - k.forward <= d /\ d <= k.offset + k.back
    BY <1>4 DEF SentTimes
  <2> HIDE DEF d
  <2>3. -k.back <= k.offset - d /\ k.offset - d <= k.forward
    BY <1>1, <1>2, <2>2
  <2>4. QED
    BY <2>1, <2>3 DEF TakenAt, d
<1>5. QED
  BY <1>3, <1>4

(* A probe and its answer are stamped with what the clock shows.           *)
LEMMA TimesStep ==
  ASSUME Typed, TimesInv, [Next]_vars
  PROVE  TimesInv'
<1> DEFINE k == TheClock
<1>0. /\ TypeOK /\ PlaceInv /\ TypeOK' /\ k \in Clocks /\ k' \in Clocks
      /\ k.now = now /\ Clock = k.now + k.offset
  <2>1. Typed'
    BY TypedStep
  <2>2. TypeOK /\ PlaceInv /\ TypeOK'
    BY <2>1 DEF Typed
  <2>3. QED
    BY <2>2 DEF TypeOK, TheClock, Clocks, Clock
<1>1. UNCHANGED clockVars => k' = k
  BY DEF clockVars, TheClock
<1>2. ASSUME UNCHANGED <<inbox, held, latency>>, wire' \subseteq wire, k' = k,
             pc' \in {"lookup", "gather"} => pc \in {"lookup", "gather"}
      PROVE  TimesInv'
  <2> HIDE DEF k
  <2>1. /\ \A r \in wire' : SentTimes(r, k')
        /\ \A i \in 1 .. Len(inbox') : AnswerTimes(inbox'[i], k')
        /\ pc' \in {"lookup", "gather"} /\ held' # NoAnswer =>
             HeldTimes(held', latency', k')
    BY <1>2 DEF TimesInv, k
  <2>2. QED
    BY <2>1 DEF TimesInv, k
<1>3. CASE SendProbe
  <2> DEFINE p == [seq |-> ntransmitted + 1, stamp |-> Clock, sent |-> now,
                   checksum |->
                     ProbeChecksum(Rest + ntransmitted + 1, Clock, latency)]
  <2>1. /\ wire' = wire \cup {p} /\ pc' = "loop"
        /\ UNCHANGED <<clockVars, inbox>>
    BY <1>3 DEF SendProbe
  <2>2. /\ p.stamp = k.now + k.offset /\ p.sent = k.now
        /\ p.stamp \in Nat /\ p.sent \in Nat
    BY <1>0 DEF TypeOK
  <2> HIDE DEF p, k
  <2>3. SentTimes(p, k)
    BY <1>0, <2>2, StampedNow
  <2>4. QED
    BY <1>1, <2>1, <2>3 DEF TimesInv, k
<1>4. CASE RecvReply
  <2> DEFINE r == Head(inbox)
             tv == IF latency THEN Clock ELSE r.tv
             h == held'
  <2>1. /\ h = [r EXCEPT !.tv = IF latency THEN Clock ELSE @,
                         !.received = now]
        /\ inbox' = Tail(inbox) /\ inbox # <<>> /\ latency' = latency
        /\ UNCHANGED <<clockVars, wire>>
    BY <1>4 DEF RecvReply, sendVars
  <2>2. inbox \in Seq(Answer) /\ Len(inbox) >= 1
    BY <1>0, <2>1 DEF TypeOK
  <2>3. r \in Answer /\ r = inbox[1] /\ 1 \in 1 .. Len(inbox)
    BY <2>1, <2>2
  <2>4. AnswerTimes(r, k)
    BY <2>3 DEF TimesInv
  <2> HIDE DEF r
  <2>5. h = [r EXCEPT !.tv = tv, !.received = now]
    BY <2>1, <2>3 DEF Answer
  <2>6. /\ h.sent = r.sent /\ h.stamp = r.stamp /\ h.tv = tv
        /\ h.arrived = r.arrived /\ h.received = now
    BY <2>3, <2>5 DEF Answer
  <2>7. /\ r.sent \in Nat /\ r.stamp \in Nat /\ r.tv \in Nat
        /\ r.arrived \in Nat
    BY <2>3 DEF Answer
  <2> HIDE DEF h, k
  <2>8. SentTimes(h, k)
    BY <2>4, <2>6 DEF AnswerTimes, SentTimes
  <2>9. TakenAt(h, End(h, latency), k)
    <3>1. CASE latency
      <4>1. h.sent \in Nat /\ h.stamp \in Nat /\ h.tv = k.now + k.offset
        BY <1>0, <2>6, <2>7, <3>1
      <4>2. TakenAt(h, k.now, k)
        BY <1>0, <2>8, <4>1, StampedNow
      <4>3. End(h, latency) = k.now
        BY <1>0, <2>6, <3>1 DEF End
      <4>4. QED
        BY <4>2, <4>3
    <3>2. CASE ~latency
      <4>1. tv = r.tv /\ TakenAt(r, r.arrived, k) /\ End(h, latency) = r.arrived
        BY <2>4, <2>6, <3>2 DEF AnswerTimes, End
      <4>2. QED
        BY <2>6, <4>1 DEF TakenAt
    <3>3. QED
      BY <3>1, <3>2
  <2>10. HeldTimes(h, latency, k)
    <3>1. h.sent <= h.arrived /\ h.arrived <= h.received /\ h.received <= k.now
      <4>1. k.now <= k.now
        BY <1>0 DEF Clocks
      <4>2. QED
        BY <1>0, <2>4, <2>6, <4>1 DEF AnswerTimes
    <3>2. QED
      BY <2>8, <2>9, <3>1 DEF HeldTimes
  <2>11. ASSUME NEW i \in 1 .. Len(inbox')
         PROVE  AnswerTimes(inbox'[i], k)
    <3>1. i + 1 \in 1 .. Len(inbox) /\ inbox'[i] = inbox[i + 1]
      BY <2>1, <2>2
    <3>2. QED
      BY <3>1 DEF TimesInv, k
  <2>12. QED
    BY <1>1, <2>1, <2>10, <2>11 DEF TimesInv, k, h
<1>5. CASE RecvError
  <2>1. held' = NoAnswer /\ UNCHANGED <<clockVars, wire, inbox>>
    BY <1>5 DEF RecvError
  <2>2. QED
    BY <1>1, <2>1 DEF TimesInv
<1>6. CASE LookUp \/ ResolverAnswers \/ Return \/ Improve \/ Report
           \/ StartAgain \/ Stop
  <2>1. UNCHANGED <<clockVars, wire, inbox, held, latency>>
    BY <1>6 DEF LookUp, ResolverAnswers, Return, Improve, Report, StartAgain,
                Stop, netVars, handVars, sendVars
  <2>2. pc' \in {"lookup", "gather"} => pc \in {"lookup", "gather"}
    BY <1>6 DEF LookUp, ResolverAnswers, Return, Improve, Report, StartAgain,
                Stop
  <2>3. QED
    BY <1>1, <1>2, <2>1, <2>2
<1>7. CASE Gather
  <2>1. pc' = "loop" /\ UNCHANGED <<clockVars, wire, inbox>>
    BY <1>7 DEF Gather, netVars
  <2>2. QED
    BY <1>1, <2>1 DEF TimesInv
<1>8. CASE Finish
  <2>1. wire' = {} /\ inbox' = <<>> /\ pc' \in {"newton", "done"}
    BY <1>8 DEF Finish
  <2>2. QED
    BY <2>1 DEF TimesInv
<1>9. CASE SignalArrives
  <2>1. pc' = pc
    BY <1>0, <1>9 DEF SignalArrives, AlarmSignal, SigExit, PlaceInv
  <2>2. UNCHANGED <<clockVars, wire, inbox, held, latency>>
    BY <1>9 DEF SignalArrives, netVars, handVars, sendVars
  <2>3. QED
    BY <1>1, <1>2, <2>1, <2>2
<1>10. ASSUME NEW probe \in wire, Refuse(probe)
       PROVE  TimesInv'
  <2>1. /\ wire' \subseteq wire
        /\ UNCHANGED <<clockVars, inbox, held, latency, pc>>
    BY <1>10 DEF Refuse, handVars, sendVars
  <2>2. QED
    BY <1>1, <1>2, <2>1
<1>11. ASSUME NEW probe \in wire, NEW kind \in Kinds, NEW again \in BOOLEAN,
              Arrive(probe, kind, again)
       PROVE  TimesInv'
  <2> DEFINE r == [seq |-> probe.seq, stamp |-> probe.stamp, kind |-> kind,
                   sent |-> probe.sent, arrived |-> now, tv |-> Clock,
                   received |-> now]
  <2>1. /\ inbox' = Append(inbox, r)
        /\ wire' = IF again THEN wire ELSE wire \ {probe}
        /\ UNCHANGED <<clockVars, held, latency, pc>>
    BY <1>11 DEF Arrive, handVars, sendVars
  <2>2. /\ r.sent = probe.sent /\ r.stamp = probe.stamp
        /\ r.arrived = k.now /\ r.tv = k.now + k.offset
    BY <1>0
  <2>3. r \in Answer
    <3>1. probe \in Probe
      BY <1>0 DEF TypeOK
    <3>2. QED
      BY <1>0, <3>1 DEF Probe, Answer, TypeOK
  <2> HIDE DEF r, k
  <2>4. SentTimes(r, k)
    BY <2>2 DEF TimesInv, SentTimes, k
  <2>5. AnswerTimes(r, k)
    <3>1. r.sent <= r.arrived /\ r.arrived <= k.now
      BY <1>0, <2>2, <2>4 DEF SentTimes, Clocks
    <3>2. TakenAt(r, k.now, k)
      <4>1. r.sent \in Nat /\ r.stamp \in Nat
        BY <2>3 DEF Answer
      <4>2. QED
        BY <1>0, <2>2, <2>4, <4>1, StampedNow
    <3>3. QED
      BY <2>2, <2>4, <3>1, <3>2 DEF AnswerTimes
  <2>6. ASSUME NEW i \in 1 .. Len(inbox')
        PROVE  AnswerTimes(inbox'[i], k)
    <3>1. inbox \in Seq(Answer)
      BY <1>0 DEF TypeOK
    <3>2. CASE i \in 1 .. Len(inbox)
      <4>1. inbox'[i] = inbox[i]
        BY <2>1, <2>3, <3>1, <3>2
      <4>2. QED
        BY <3>2, <4>1 DEF TimesInv, k
    <3>3. CASE i = Len(inbox) + 1
      <4>1. inbox'[i] = r
        BY <2>1, <2>3, <3>1, <3>3
      <4>2. QED
        BY <2>5, <4>1
    <3>4. QED
      BY <2>1, <2>3, <3>1, <3>2, <3>3
  <2>7. QED
    BY <1>1, <2>1, <2>6 DEF TimesInv, k
<1>12. ASSUME UNCHANGED <<wire, inbox, held, latency, pc>>, Looser(k, k')
       PROVE  TimesInv'
  <2> HIDE DEF k
  <2>1. ASSUME NEW p \in wire
        PROVE  SentTimes(p, k')
    <3>1. p \in Probe /\ SentTimes(p, k)
      BY <1>0 DEF TypeOK, TimesInv, k
    <3>2. p.sent \in Nat /\ p.stamp \in Nat
      BY <3>1 DEF Probe
    <3>3. QED
      BY <1>0, <1>12, <3>1, <3>2, SentLoosens
  <2>2. ASSUME NEW i \in 1 .. Len(inbox)
        PROVE  AnswerTimes(inbox[i], k')
    <3>1. inbox \in Seq(Answer) /\ AnswerTimes(inbox[i], k)
      BY <1>0 DEF TypeOK, TimesInv, k
    <3>2. inbox[i] \in Answer
      BY <3>1
    <3>3. QED
      BY <1>0, <1>12, <3>1, <3>2, AnswerLoosens
  <2>3. ASSUME pc \in {"lookup", "gather"}, held # NoAnswer
        PROVE  HeldTimes(held, latency, k')
    <3>1. held \in Answer /\ latency \in BOOLEAN /\ HeldTimes(held, latency, k)
      BY <1>0, <2>3 DEF TypeOK, TimesInv, k
    <3>2. QED
      BY <1>0, <1>12, <3>1, AnswerLoosens
  <2>4. QED
    BY <1>12, <2>1, <2>2, <2>3 DEF TimesInv, k
<1>13. now \in Nat /\ offset \in Int /\ back \in Nat /\ forward \in Nat
  BY <1>0 DEF TypeOK
<1>14. ASSUME NEW by \in Delays, Tick(by)
       PROVE  TimesInv'
  <2>1. by \in Nat /\ now' = now + by
        /\ UNCHANGED <<offset, back, forward, wire, inbox, held, latency, pc>>
    BY <1>14, RepliesAssumption DEF Tick, netVars, handVars, sendVars
  <2>2. Looser(k, k')
    BY <1>13, <2>1 DEF Looser, TheClock
  <2>3. QED
    BY <1>12, <2>1, <2>2
<1>15. ASSUME NEW by \in Jumps, SetForward(by)
       PROVE  TimesInv'
  <2>1. by \in Nat /\ offset' = offset + by /\ forward' = forward + by
        /\ UNCHANGED <<now, back, wire, inbox, held, latency, pc>>
    BY <1>15, RepliesAssumption DEF SetForward, netVars, handVars, sendVars
  <2>2. Looser(k, k')
    BY <1>13, <2>1 DEF Looser, TheClock
  <2>3. QED
    BY <1>12, <2>1, <2>2
<1>16. ASSUME NEW by \in Jumps, SetBack(by)
       PROVE  TimesInv'
  <2>1. by \in Nat /\ offset' = offset - by /\ back' = back + by
        /\ UNCHANGED <<now, forward, wire, inbox, held, latency, pc>>
    BY <1>16, RepliesAssumption DEF SetBack, netVars, handVars, sendVars
  <2>2. Looser(k, k')
    BY <1>13, <2>1 DEF Looser, TheClock
  <2>3. QED
    BY <1>12, <2>1, <2>2
<1>17. CASE UNCHANGED vars
  BY <1>1, <1>2, <1>17 DEF vars, netVars, handVars, sendVars
<1>18. QED
  BY <1>3, <1>4, <1>5, <1>6, <1>7, <1>8, <1>9, <1>10, <1>11, <1>14, <1>15,
     <1>16, <1>17 DEF Next, Thread

(* A count is made by gather_statistics() and nowhere else.                *)
LEMMA OnlyGatherCounts ==
  ASSUME Typed, [Next]_vars, Answers' = Answers + 1
  PROVE  Gather
<1>1. /\ nreceived \in Nat /\ nrepeats \in Nat /\ Answers \in Nat
  BY DEF Typed, TypeOK, FiguresTypeOK, Answers
<1>2. ~(UNCHANGED <<nreceived, nrepeats>>)
  BY <1>1 DEF Answers
<1>3. CASE Thread \/ ResolverAnswers \/ SignalArrives \/ Stop
  BY <1>2, <1>3 DEF Thread, SendProbe, RecvReply, RecvError, LookUp, Return,
     Finish, DivideSums, Improve, Newton, Report, StartAgain, ResolverAnswers,
     SignalArrives, Stop, figureVars, countVars
<1>4. ASSUME NEW probe \in wire, Refuse(probe)
      PROVE  FALSE
  BY <1>2, <1>4 DEF Refuse, figureVars, countVars
<1>5. ASSUME NEW probe \in wire, NEW kind \in Kinds, NEW again \in BOOLEAN,
             Arrive(probe, kind, again)
      PROVE  FALSE
  BY <1>2, <1>5 DEF Arrive, figureVars, countVars
<1>6. ASSUME NEW by, Tick(by) \/ SetForward(by) \/ SetBack(by)
      PROVE  FALSE
  BY <1>2, <1>6 DEF Tick, SetForward, SetBack, figureVars, countVars
<1>7. CASE UNCHANGED vars
  BY <1>2, <1>7 DEF vars, figureVars, countVars
<1>8. QED
  BY <1>3, <1>4, <1>5, <1>6, <1>7 DEF Next

(* The difference of two clock readings, or 0, by the times between which  *)
(* they were made and what the clock was set by in between.                *)
LEMMA TripBetween ==
  ASSUME NEW sent \in Nat, NEW end \in Nat, NEW b \in Nat, NEW f \in Nat,
         NEW stamp \in Nat, NEW tv \in Nat, sent <= end,
         -b <= (tv - end) - (stamp - sent), (tv - end) - (stamp - sent) <= f,
         NEW trip, trip = IF tv < stamp THEN 0 ELSE tv - stamp
  PROVE  /\ end - sent <= trip + b /\ trip <= end - sent + f
         /\ b + f = 0 => trip = end - sent /\ ~(tv < stamp)
<1>1. CASE tv < stamp
  BY <1>1
<1>2. CASE ~(tv < stamp)
  <2>1. trip = tv - stamp
    BY <1>2
  <2>2. QED
    BY <1>2, <2>1
<1>3. QED
  BY <1>1, <1>2

LEMMA TripIsHonest ==
  ASSUME Typed, TimesInv, Gather, Timed
  PROVE  LET end == IF latency THEN held.received ELSE held.arrived
         IN  /\ held.arrived - held.sent <= Trip + back
             /\ Trip <= now - held.sent + forward
             /\ back + forward = 0 => Trip = end - held.sent
<1> DEFINE h == held  end == End(h, latency)  d == h.stamp - h.sent
           tv == IF WentBack /\ ~latency THEN Clock ELSE h.tv
<1>1. TypeOK /\ h \in Answer /\ HeldTimes(h, latency, TheClock)
  BY DEF Gather, Typed, PlaceInv, TypeOK, TimesInv
<1>2. /\ h.sent \in Nat /\ h.stamp \in Nat /\ h.tv \in Nat
      /\ h.arrived \in Nat /\ h.received \in Nat
  BY <1>1 DEF Answer
<1>3. /\ now \in Nat /\ offset \in Int /\ Clock \in Nat
      /\ back \in Nat /\ forward \in Nat
  BY <1>1 DEF TypeOK
<1>4. /\ h.sent <= h.arrived /\ h.arrived <= h.received /\ h.received <= now
      /\ offset - forward <= d /\ d <= offset + back
      /\ -back <= (h.tv - end) - d /\ (h.tv - end) - d <= forward
  BY <1>1 DEF HeldTimes, SentTimes, TakenAt, TheClock
<1>5. /\ end \in Nat /\ h.arrived <= end /\ end <= now /\ h.sent <= end
      /\ end = IF latency THEN h.received ELSE h.arrived
  BY <1>2, <1>3, <1>4 DEF End
<1>6. Trip = IF tv < h.stamp THEN 0 ELSE tv - h.stamp
  BY DEF Trip
<1>7. WentBack => h.tv < h.stamp
  BY DEF WentBack
<1> HIDE DEF h, end
<1>8. CASE WentBack /\ ~latency
  <2>1. tv = Clock
    BY <1>8
  <2>2. -back <= (Clock - now) - d /\ (Clock - now) - d <= forward
    <3>1. Clock - now = offset
      BY <1>3 DEF Clock
    <3>2. d \in Int
      BY <1>2
    <3> HIDE DEF d
    <3>3. QED
      BY <1>3, <1>4, <3>1, <3>2
  <2>3. h.sent <= now
    BY <1>2, <1>3, <1>4
  <2>4. /\ now - h.sent <= Trip + back /\ Trip <= now - h.sent + forward
        /\ Trip \in Nat
    <3>1. Trip = IF Clock < h.stamp THEN 0 ELSE Clock - h.stamp
      BY <1>6, <2>1
    <3>2. now - h.sent <= Trip + back /\ Trip <= now - h.sent + forward
      BY <1>2, <1>3, <2>2, <2>3, <3>1, TripBetween
    <3>3. Trip \in Nat
      BY <1>2, <1>3, <3>1
    <3>4. QED
      BY <3>2, <3>3
  <2>5. back + forward # 0
    <3>1. h.tv < h.stamp
      BY <1>7, <1>8
    <3>2. back + forward = 0 => ~(h.tv < h.stamp)
      <4> DEFINE t == IF h.tv < h.stamp THEN 0 ELSE h.tv - h.stamp
      <4>1. QED
        BY <1>2, <1>3, <1>4, <1>5, TripBetween
    <3>3. QED
      BY <3>1, <3>2
  <2>6. h.arrived - h.sent <= Trip + back
    BY <1>2, <1>3, <1>4, <2>4
  <2>7. QED
    BY <2>4, <2>5, <2>6 DEF h
<1>9. CASE ~(WentBack /\ ~latency)
  <2>1. Trip = IF h.tv < h.stamp THEN 0 ELSE h.tv - h.stamp
    BY <1>6, <1>9
  <2>2. /\ end - h.sent <= Trip + back /\ Trip <= end - h.sent + forward
        /\ back + forward = 0 => Trip = end - h.sent
    BY <1>2, <1>3, <1>4, <1>5, <2>1, TripBetween
  <2>3. Trip \in Nat
    BY <1>2, <2>1
  <2>4. /\ h.arrived - h.sent <= Trip + back
        /\ Trip <= now - h.sent + forward
    BY <1>2, <1>3, <1>5, <2>2, <2>3
  <2>5. QED
    BY <1>5, <2>2, <2>4 DEF h
<1>10. QED
  BY <1>8, <1>9

LEMMA HonestStep ==
  ASSUME Typed, TimesInv, [Next]_vars,
         Answers' = Answers + 1, untimed' = untimed
  PROVE  LET trip == tsum' - tsum
             end == IF latency THEN held.received ELSE held.arrived
         IN  /\ held.arrived - held.sent <= trip + back
             /\ trip <= now - held.sent + forward
             /\ back + forward = 0 => trip = end - held.sent
             /\ result' # -1 => result' <= trip /\ trip < result' + Milli
<1>1. Gather
  BY OnlyGatherCounts
<1>2. Timed
  <2>1. untimed \in Nat
    BY DEF Typed, TypeOK, FiguresTypeOK
  <2>2. ~Timed => untimed' = untimed + 1
    BY <1>1 DEF Gather, NoSample
  <2>3. QED
    BY <2>1, <2>2
<1>3. Trip \in Nat /\ tsum \in Nat
  <2>1. held \in Answer
    BY <1>1 DEF Gather, Typed, PlaceInv, TypeOK
  <2>2. QED
    BY <2>1, TripTime DEF Typed, TypeOK, FiguresTypeOK
<1>4. tsum' - tsum = Trip
  <2>1. tsum' = tsum + Trip
    BY <1>1, <1>2 DEF Gather, AddSample
  <2>2. QED
    BY <1>3, <2>1
<1>5. result' # -1 => result' <= Trip /\ Trip < result' + Milli
  <2>1. result' # -1 => result' = Shown(Trip)
    BY <1>1 DEF Gather
  <2>2. QED
    BY <1>3, <2>1, ShownShort
<1>6. LET end == IF latency THEN held.received ELSE held.arrived
      IN  /\ held.arrived - held.sent <= Trip + back
          /\ Trip <= now - held.sent + forward
          /\ back + forward = 0 => Trip = end - held.sent
  BY <1>1, <1>2, TripIsHonest
<1>7. QED
  BY <1>4, <1>5, <1>6

(* Each round-trip time that is counted and given to Java is that of the   *)
(* answer, but for what the clock was set by: TimeHonest.                  *)
THEOREM TimesAreHonest == Spec => TimeHonest
<1>1. Init => TimesInv
  BY DEF Init, TimesInv
<1>2. Typed /\ TimesInv /\ [Next]_vars => TimesInv'
  BY TimesStep
<1>3. ASSUME Typed, TimesInv, [Next]_vars
      PROVE  [Answers' = Answers + 1 /\ untimed' = untimed =>
                LET trip == tsum' - tsum
                    end == IF latency THEN held.received ELSE held.arrived
                IN  /\ held.arrived - held.sent <= trip + back
                    /\ trip <= now - held.sent + forward
                    /\ back + forward = 0 => trip = end - held.sent
                    /\ result' # -1 =>
                         result' <= trip /\ trip < result' + Milli]_vars
  BY <1>3, HonestStep
<1>4. QED
  BY <1>1, <1>2, <1>3, AlwaysTyped, PTL DEF Spec, TimeHonest

-----------------------------------------------------------------------------
(* ProbesCheckOut, for packets that are short enough for the accumulator   *)
(* of in_cksum(): a packet has less than Word words, and their sum is      *)
(* below Word times Word.  It is Rest, the number, the words of the stamp  *)
(* and the checksum.                                                       *)

Latest == Start + MaxNow + MaxJumps

PacketIsShort ==
  Rest + npackets + Latest \div Word + 2 * Word <= Word * Word

(* The quotient and the remainder are the only ones there are.             *)
LEMMA DivisionIsUnique ==
  ASSUME NEW n \in Int, NEW s \in Nat, s >= 1, NEW c \in Int,
         NEW e \in 0 .. s - 1, n = s * c + e
  PROVE  n \div s = c /\ n % s = e
<1> DEFINE q == n \div s  r == n % s  d == c - q
<1>1. q \in Int /\ r \in 0 .. s - 1 /\ n = s * q + r
  BY Division
<1> HIDE DEF q, r
<1>2. d \in Int /\ s * d = s * c - s * q
  BY <1>1
<1>3. s * c \in Int /\ s * q \in Int /\ s * d \in Int
  BY <1>1
<1>4. s * d = r - e
  BY <1>1, <1>2, <1>3
<1> HIDE DEF d
<1>5. ASSUME d >= 1 PROVE FALSE
  <2>1. s * (d - 1) >= 0 /\ s * (d - 1) = s * d - s
    BY <1>2, <1>5
  <2>2. QED
    BY <1>1, <1>3, <1>4, <2>1
<1>6. ASSUME d <= -1 PROVE FALSE
  <2>1. s * (-1 - d) >= 0 /\ s * (-1 - d) = - s - s * d
    BY <1>2, <1>6
  <2>2. QED
    BY <1>1, <1>3, <1>4, <2>1
<1>7. d = 0
  BY <1>2, <1>5, <1>6
<1>8. q = c
  BY <1>1, <1>7 DEF d
<1>9. QED
  BY <1>1, <1>3, <1>8 DEF q, r

(* The word a sum is folded into.                                          *)
Folded(s) == Word - 1 - InCksum(s, 0)

(* Folding takes away a multiple of Word - 1, and never all of a sum.      *)
LEMMA Folding ==
  ASSUME NEW s \in Nat, s < Word * Word
  PROVE  /\ Folded(s) \in 0 .. Word - 1 /\ (s > 0 => Folded(s) > 0)
         /\ \E m \in Nat : s = m * (Word - 1) + Folded(s)
<1> DEFINE q == s \div Word  r == s % Word  once == q + r
           carry == once \div Word
<1>1. Word \in Nat /\ Word >= 2
  BY WordAssumption
<1>2. q \in Nat /\ r \in 0 .. Word - 1 /\ s = Word * q + r
  <2>1. q \in Nat
    BY <1>1, QuotientSmall
  <2>2. r \in 0 .. Word - 1 /\ s = Word * q + r
    BY <1>1, Division
  <2>3. QED
    BY <2>1, <2>2
<1>3. Folded(s) = (once + carry) % Word
  <2>1. InCksum(s, 0) = Word - 1 - ((once + carry) % Word)
    <3>1. 0 + s = s
      OBVIOUS
    <3>2. QED
      BY <3>1 DEF InCksum, Complement
  <2> HIDE DEF once, carry
  <2>2. (once + carry) % Word \in Int
    <3>1. once + carry \in Int
      <4>1. once \in Int
        BY <1>2 DEF once
      <4>2. carry \in Int
        BY <1>1, <4>1, Division DEF carry
      <4>3. QED
        BY <4>1, <4>2
    <3>2. QED
      BY <1>1, <3>1, Division
  <2>3. QED
    BY <1>1, <2>1, <2>2 DEF Folded
<1> HIDE DEF q, r
<1>4. q <= Word - 1
  <2>1. CASE q >= Word
    <3>1. Word * (q - Word) >= 0 /\ Word * (q - Word) = Word * q - Word * Word
      BY <1>1, <1>2, <2>1
    <3>2. Word * q \in Int /\ Word * Word \in Int
      BY <1>1, <1>2
    <3>3. QED
      BY <1>2, <3>1, <3>2
  <2>2. QED
    BY <1>1, <1>2, <2>1
<1>5. once \in 0 .. 2 * Word - 2
  BY <1>1, <1>2, <1>4
<1>6. s = q * (Word - 1) + once
  <2>1. Word * q = q * (Word - 1) + q /\ q * (Word - 1) \in Int
    BY <1>1, <1>2
  <2>2. QED
    BY <1>2, <2>1
<1>7. s > 0 => once > 0
  <2>1. once = 0 => q = 0 /\ r = 0
    BY <1>2
  <2>2. q = 0 => Word * q = 0
    BY <1>1
  <2>3. QED
    BY <1>2, <1>5, <2>1, <2>2
<1> HIDE DEF once
<1>8. CASE once < Word
  <2>1. once \in 0 .. Word - 1 /\ once = Word * 0 + once
    BY <1>1, <1>5, <1>8
  <2>2. carry = 0 /\ once % Word = once
    BY <1>1, <2>1, DivisionIsUnique
  <2>3. (once + carry) % Word = once
    BY <2>1, <2>2
  <2>4. QED
    BY <1>1, <1>2, <1>3, <1>6, <1>7, <2>1, <2>3
<1>9. CASE once >= Word
  <2> DEFINE e == once - Word  f == once + 1 - Word
  <2>1. e \in 0 .. Word - 1 /\ once = Word * 1 + e /\ once \in Int
        /\ f \in 1 .. Word - 1 /\ once + 1 = Word * 1 + f
    BY <1>1, <1>5, <1>9
  <2>2. carry = 1
    <3> HIDE DEF e, f, carry
    <3>1. once \div Word = 1
      BY <1>1, <2>1, DivisionIsUnique
    <3>2. QED
      BY <3>1 DEF carry
  <2>3. (once + carry) % Word = once + 1 - Word
    <3>1. once + 1 \in Int /\ f \in 0 .. Word - 1
      BY <1>1, <2>1
    <3>2. once + 1 = Word * 1 + f
      BY <2>1
    <3> HIDE DEF e, f, carry
    <3>3. (once + 1) % Word = f
      BY <1>1, <3>1, <3>2, DivisionIsUnique
    <3>4. QED
      BY <2>2, <3>3 DEF f
  <2>4. s = (q + 1) * (Word - 1) + (once + 1 - Word)
    <3>1. (q + 1) * (Word - 1) = q * (Word - 1) + Word - 1
          /\ q * (Word - 1) \in Int
      BY <1>1, <1>2
    <3>2. QED
      BY <1>1, <1>5, <1>6, <3>1
  <2>5. q + 1 \in Nat /\ once + 1 - Word \in 0 .. Word - 1
        /\ once + 1 - Word > 0
    BY <1>1, <1>2, <2>1
  <2>6. QED
    BY <1>3, <2>3, <2>4, <2>5
<1>10. QED
  BY <1>1, <1>5, <1>8, <1>9

(* Words that add up to a multiple of Word - 1 fold into ones only.        *)
LEMMA MultiplesCheckOut ==
  ASSUME NEW m \in Nat, m >= 1, NEW s, s = m * (Word - 1), s < Word * Word
  PROVE  s \in Nat /\ s > 0 /\ s % (Word - 1) = 0 /\ InCksum(s, 0) = 0
<1> DEFINE v == Word - 1  f == Folded(s)
<1>1. v \in Nat /\ v >= 1
  BY WordAssumption
<1> HIDE DEF v
<1>2. s = m * v
  BY DEF v
<1>3. s \in Nat /\ s > 0
  <2>1. (m - 1) * v >= 0 /\ (m - 1) * v = m * v - v /\ m * v \in Int
    BY <1>1
  <2>2. QED
    BY <1>1, <1>2, <2>1
<1>4. s % v = 0
  <2>1. 0 \in 0 .. v - 1 /\ s = v * m + 0
    BY <1>1, <1>2
  <2>2. QED
    BY <1>1, <1>3, <2>1, DivisionIsUnique
<1>5. f = v
  <2>1. f \in 1 .. v
    <3>1. f \in 0 .. Word - 1 /\ f > 0
      BY <1>3, Folding
    <3>2. QED
      BY <1>1, <3>1 DEF v
  <2>2. PICK k \in Nat : s = k * v + f
    BY <1>3, Folding DEF v
  <2> HIDE DEF f
  <2>3. (m - k) * v = f
    <3>1. (m - k) * v = m * v - k * v /\ m * v \in Int /\ k * v \in Int
      BY <1>1
    <3>2. QED
      BY <1>2, <2>1, <2>2, <3>1
  <2> DEFINE d == m - k
  <2>4. d \in Int /\ d * v = f
    BY <2>3
  <2> HIDE DEF d
  <2>5. d >= 1
    <3>1. CASE d <= 0
      <4>1. (0 - d) * v >= 0 /\ (0 - d) * v = - (d * v) /\ d * v \in Int
        BY <1>1, <2>4, <3>1
      <4>2. QED
        BY <2>1, <2>4, <4>1
    <3>2. QED
      BY <2>4, <3>1
  <2>6. d <= 1
    <3>1. CASE d >= 2
      <4>1. (d - 2) * v >= 0 /\ (d - 2) * v = d * v - 2 * v /\ d * v \in Int
        BY <1>1, <2>4, <3>1
      <4>2. QED
        BY <1>1, <2>1, <2>4, <4>1
    <3>2. QED
      BY <2>4, <3>1
  <2>7. d = 1
    BY <2>4, <2>5, <2>6
  <2>8. QED
    BY <1>1, <2>4, <2>7
<1>6. InCksum(s, 0) = 0
  <2>1. InCksum(s, 0) \in 0 .. Word - 1
    BY <1>3, InCksumIsWord
  <2>2. v - InCksum(s, 0) = v
    BY <1>5 DEF Folded, v
  <2>3. QED
    BY <1>1, <2>1, <2>2
<1>7. QED
  BY <1>3, <1>4, <1>6 DEF v

(* The words of a packet and the complement of what they are folded into   *)
(* are a multiple of Word - 1 together.                                    *)
LEMMA ComplementCompletes ==
  ASSUME NEW s \in Nat, s < Word * Word
  PROVE  \E m \in Nat : m >= 1 /\ s + InCksum(s, 0) = m * (Word - 1)
<1> DEFINE v == Word - 1  c == InCksum(s, 0)
<1>1. v \in Nat /\ v >= 1 /\ Folded(s) = v - c
  BY WordAssumption DEF Folded
<1>2. c \in Int
  <2>1. c \in 0 .. Word - 1
    BY InCksumIsWord
  <2>2. QED
    BY <2>1
<1>3. PICK k \in Nat : s = k * v + Folded(s)
  BY Folding
<1> HIDE DEF v, c
<1>4. (k + 1) * v = k * v + v /\ k * v \in Int
  BY <1>1
<1>5. s + c = (k + 1) * v
  BY <1>1, <1>2, <1>3, <1>4
<1>6. QED
  BY <1>5 DEF v, c

(* Both ways to come by the checksum of a probe make the sum of its words  *)
(* such a multiple.                                                        *)
LEMMA ChecksumCompletes ==
  ASSUME NEW rest \in Nat, NEW stamp \in Nat, NEW patch \in BOOLEAN,
         rest + stamp \div Word + 2 * Word <= Word * Word
  PROVE  LET sum == rest + StampSum(stamp) + ProbeChecksum(rest, stamp, patch)
         IN  sum > 0 /\ sum % (Word - 1) = 0 /\ InCksum(sum, 0) = 0
<1> DEFINE v == Word - 1  ss == StampSum(stamp)
           checksum == ProbeChecksum(rest, stamp, patch)
           sum == rest + ss + checksum
<1>1. v \in Nat /\ v >= 1 /\ Word = v + 1 /\ Word \in Nat
      /\ Word * Word \in Nat
  BY WordAssumption
<1>2. /\ ss \in Nat /\ stamp \div Word \in Nat
      /\ ss <= stamp \div Word + Word - 1
  BY <1>1, StampSumIsNat, QuotientSmall
<1>3. checksum \in 0 .. Word - 1
  BY ChecksumIsWord
<1> HIDE DEF ss
<1>4. /\ rest + ss < Word * Word
      /\ rest < Word * Word
      /\ sum < Word * Word
  BY <1>1, <1>2, <1>3
<1>5. \E m \in Nat : m >= 1 /\ sum = m * v
  <2>1. CASE patch
    <3>1. checksum = InCksum(rest + ss, 0)
      BY <2>1 DEF ProbeChecksum, ss
    <3>2. rest + ss \in Nat
      BY <1>2
    <3>3. \E m \in Nat : m >= 1 /\ (rest + ss) + InCksum(rest + ss, 0) = m * v
      BY <1>4, <3>2, ComplementCompletes
    <3>4. QED
      BY <3>1, <3>3
  <2>2. CASE ~patch
    <3> DEFINE f == Folded(rest)  s == ss + f
    <3>1. f \in 0 .. v
      BY <1>1, <1>4, Folding
    <3>2. Complement(InCksum(rest, 0)) = f
      <4> DEFINE c == InCksum(rest, 0)
      <4>1. c \in 0 .. Word - 1 /\ c \in Int
        <5>1. c \in 0 .. Word - 1
          BY InCksumIsWord
        <5>2. QED
          BY <5>1
      <4>2. f = Word - 1 - c
        BY DEF Folded
      <4> HIDE DEF c
      <4>3. c = Word * 0 + c
        BY <1>1, <4>1
      <4>4. c % Word = c
        BY <1>1, <4>1, <4>3, DivisionIsUnique
      <4>5. Complement(c) = f
        BY <4>2, <4>4 DEF Complement
      <4>6. QED
        BY <4>5 DEF c
    <3> HIDE DEF f
    <3>3. s \in Nat /\ s < Word * Word
      BY <1>1, <1>2, <3>1
    <3>4. checksum = InCksum(s, 0)
      <4>1. checksum = InCksum(ss, f)
        BY <2>2, <3>2 DEF ProbeChecksum, ss
      <4>2. 0 + s = f + ss
        BY <1>2, <3>1
      <4> HIDE DEF s, checksum
      <4>3. InCksum(ss, f) = InCksum(s, 0)
        BY <4>2 DEF InCksum
      <4>4. QED
        BY <4>1, <4>3
    <3>5. PICK m \in Nat : m >= 1 /\ s + checksum = m * v
      BY <3>3, <3>4, ComplementCompletes
    <3>6. PICK k \in Nat : rest = k * v + f
      BY <1>4, Folding DEF f
    <3> HIDE DEF v, checksum
    <3>7. rest + ss + checksum = (k + m) * v
      <4>1. (k + m) * v = k * v + m * v /\ k * v \in Int /\ m * v \in Int
        BY <1>1
      <4>2. checksum \in Int
        BY <1>1, <1>3
      <4>3. QED
        BY <1>2, <3>1, <3>5, <3>6, <4>1, <4>2
    <3>8. k + m \in Nat /\ k + m >= 1
      BY <3>5
    <3>9. QED
      BY <3>7, <3>8
  <2>3. QED
    BY <2>1, <2>2
<1> HIDE DEF checksum
<1>6. sum > 0 /\ sum % (Word - 1) = 0 /\ InCksum(sum, 0) = 0
  BY <1>4, <1>5, MultiplesCheckOut
<1>7. QED
  BY <1>6 DEF ss, checksum

(* The clock shows no more than it does at last, and so do the stamps.     *)
ProbesInv ==
  /\ now <= MaxNow /\ back + forward <= MaxJumps
  /\ offset = Start + forward - back
  /\ \A p \in wire :
       /\ p.seq <= npackets /\ p.stamp <= Latest
       /\ \E patch \in BOOLEAN :
            p.checksum = ProbeChecksum(Rest + p.seq, p.stamp, patch)

LEMMA ProbesStep ==
  ASSUME Typed, ProbesInv, [Next]_vars
  PROVE  ProbesInv'
<1>0. /\ now \in Nat /\ back \in Nat /\ forward \in Nat /\ Start \in Nat
      /\ MaxNow \in Nat /\ MaxJumps \in Nat /\ npackets \in Nat
      /\ ntransmitted \in Nat
  BY RepliesAssumption DEF Typed, TypeOK
<1>1. ASSUME UNCHANGED clockVars, wire' \subseteq wire
      PROVE  ProbesInv'
  BY <1>1 DEF ProbesInv, clockVars
<1>2. CASE SendProbe
  <2> DEFINE p == [seq |-> ntransmitted + 1, stamp |-> Clock, sent |-> now,
                   checksum |->
                     ProbeChecksum(Rest + ntransmitted + 1, Clock, latency)]
  <2>1. /\ wire' = wire \cup {p} /\ ntransmitted < npackets
        /\ UNCHANGED clockVars
    BY <1>2 DEF SendProbe
  <2>2. Clock <= Latest
    <3>1. /\ now <= MaxNow /\ back + forward <= MaxJumps
          /\ Clock = now + (Start + forward - back)
      BY DEF ProbesInv, Clock
    <3>2. now + (Start + forward - back) <= Start + MaxNow + MaxJumps
      BY <1>0, <3>1
    <3>3. QED
      BY <3>1, <3>2 DEF Latest
  <2>3. p.seq <= npackets
    BY <1>0, <2>1
  <2>4. p.checksum = ProbeChecksum(Rest + p.seq, p.stamp, latency)
    <3>1. Rest + ntransmitted + 1 = Rest + (ntransmitted + 1)
      BY <1>0, RepliesAssumption
    <3>2. QED
      BY <3>1
  <2>5. latency \in BOOLEAN /\ p.stamp = Clock
    BY DEF Typed, TypeOK
  <2> HIDE DEF p
  <2>6. \A r \in wire' :
          /\ r.seq <= npackets /\ r.stamp <= Latest
          /\ \E patch \in BOOLEAN :
               r.checksum = ProbeChecksum(Rest + r.seq, r.stamp, patch)
    BY <2>1, <2>2, <2>3, <2>4, <2>5 DEF ProbesInv
  <2>7. QED
    BY <2>1, <2>6 DEF ProbesInv, clockVars
<1>3. CASE RecvReply \/ RecvError \/ LookUp \/ Return \/ Gather \/ Finish
           \/ Improve \/ Report \/ StartAgain \/ ResolverAnswers
           \/ SignalArrives \/ Stop
  BY <1>1, <1>3 DEF RecvReply, RecvError, LookUp, Return, Gather, Finish,
     Improve, Report, StartAgain, ResolverAnswers, SignalArrives, Stop, netVars
<1>4. ASSUME NEW probe \in wire, Refuse(probe)
      PROVE  ProbesInv'
  BY <1>1, <1>4 DEF Refuse
<1>5. ASSUME NEW probe \in wire, NEW kind \in Kinds, NEW again \in BOOLEAN,
             Arrive(probe, kind, again)
      PROVE  ProbesInv'
  BY <1>1, <1>5 DEF Arrive
<1>6. ASSUME NEW by \in Delays, Tick(by)
      PROVE  ProbesInv'
  <2>1. now' <= MaxNow /\ UNCHANGED <<wire, offset, back, forward>>
    BY <1>6 DEF Tick, netVars
  <2>2. QED
    BY <2>1 DEF ProbesInv
<1>7. ASSUME NEW by \in Jumps, SetForward(by)
      PROVE  ProbesInv'
  <2>1. /\ by \in Nat /\ back + forward + by <= MaxJumps
        /\ offset' = offset + by /\ forward' = forward + by
        /\ UNCHANGED <<wire, now, back>>
    BY <1>7, RepliesAssumption DEF SetForward, netVars
  <2>2. back' + forward' <= MaxJumps /\ offset' = Start + forward' - back'
    BY <1>0, <2>1 DEF ProbesInv
  <2>3. QED
    BY <2>1, <2>2 DEF ProbesInv
<1>8. ASSUME NEW by \in Jumps, SetBack(by)
      PROVE  ProbesInv'
  <2>1. /\ by \in Nat /\ back + forward + by <= MaxJumps
        /\ offset' = offset - by /\ back' = back + by
        /\ UNCHANGED <<wire, now, forward>>
    BY <1>8, RepliesAssumption DEF SetBack, netVars
  <2>2. back' + forward' <= MaxJumps /\ offset' = Start + forward' - back'
    BY <1>0, <2>1 DEF ProbesInv
  <2>3. QED
    BY <2>1, <2>2 DEF ProbesInv
<1>9. CASE UNCHANGED vars
  BY <1>1, <1>9 DEF vars, netVars
<1>10. QED
  BY <1>2, <1>3, <1>4, <1>5, <1>6, <1>7, <1>8, <1>9 DEF Next, Thread

(* The checksum of each probe that leaves is right, whether the packet was *)
(* summed with its stamp in it or patched afterwards: ProbesCheckOut.      *)
THEOREM ProbesAreChecked ==
  ASSUME PacketIsShort
  PROVE  Spec => []ProbesCheckOut
<1>1. Init => ProbesInv
  BY RepliesAssumption DEF Init, ProbesInv
<1>2. Typed /\ ProbesInv /\ [Next]_vars => ProbesInv'
  BY ProbesStep
<1>3. Typed /\ ProbesInv => ProbesCheckOut
  <2>1. SUFFICES ASSUME Typed, ProbesInv, NEW p \in wire
                 PROVE  LET sum == Rest + p.seq + StampSum(p.stamp) + p.checksum
                        IN  /\ sum > 0 /\ sum % (Word - 1) = 0
                            /\ InCksum(sum, 0) = 0
    BY DEF ProbesCheckOut
  <2> DEFINE rest == Rest + p.seq
  <2>2. p \in Probe
    BY <2>1 DEF Typed, TypeOK
  <2>3. rest \in Nat /\ p.stamp \in Nat /\ rest <= Rest + npackets
        /\ p.stamp <= Latest
    BY <2>1, <2>2, RepliesAssumption DEF ProbesInv, Probe
  <2>4. PICK patch \in BOOLEAN :
          p.checksum = ProbeChecksum(rest, p.stamp, patch)
    BY <2>1 DEF ProbesInv
  <2> HIDE DEF rest
  <2>5. rest + p.stamp \div Word + 2 * Word <= Word * Word
    <3>1. Word \in Nat /\ Word >= 1 /\ Word * Word \in Nat
      BY WordAssumption
    <3>2. Latest \in Nat /\ Rest \in Nat /\ npackets \in Nat
      BY RepliesAssumption DEF Latest
    <3>3. Latest \div Word \in Nat /\ p.stamp \div Word \in Nat
      BY <2>3, <3>1, <3>2, QuotientSmall
    <3>4. p.stamp \div Word <= Latest \div Word
      BY <2>3, <3>1, <3>2, QuotientMonotone
    <3>5. QED
      BY <2>3, <3>1, <3>2, <3>3, <3>4 DEF PacketIsShort
  <2>6. LET sum == rest + StampSum(p.stamp)
                     + ProbeChecksum(rest, p.stamp, patch)
        IN  sum > 0 /\ sum % (Word - 1) = 0 /\ InCksum(sum, 0) = 0
    BY <2>3, <2>5, ChecksumCompletes
  <2>7. QED
    BY <2>4, <2>6 DEF rest
<1>4. QED
  BY <1>1, <1>2, <1>3, AlwaysTyped, PTL DEF Spec
=============================================================================
