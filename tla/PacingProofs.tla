----------------------------- MODULE PacingProofs -----------------------------
(***************************************************************************)
(* How far the probes can run ahead of the clock, and how long pinger()    *)
(* can make its caller wait, proved of Pacing for every interval, preload, *)
(* unit of time and step of the clock.                                     *)
(***************************************************************************)
EXTENDS Pacing, SeqWindowProofs

-----------------------------------------------------------------------------
(* Divisions.                                                              *)

(* The units of time, the preload and the bounds are natural numbers.      *)
LEMMA Units ==
  /\ Sec \in Nat /\ Sec >= 1 /\ Milli \in Nat /\ Milli >= 1
  /\ MININTERVAL \in Nat /\ MININTERVAL >= 1
  /\ MINUSERINTERVAL \in Nat /\ MINUSERINTERVAL >= 1
  /\ Preload \in Nat /\ Preload >= 1
  /\ Second \in Nat /\ Second >= 1
<1>1. Sec \in Nat /\ Sec >= 1 /\ Milli \in Nat /\ Milli >= 1
  BY PacingAssumption
<1>2. Second \in Nat /\ Second >= 1
  <2>1. (Sec - 1) * Milli >= 0
    BY <1>1
  <2>2. Sec * Milli \in Nat /\ Sec * Milli >= 1
    BY <1>1, <2>1
  <2>3. QED
    BY <2>2 DEF Second
<1>3. QED
  BY <1>1, <1>2, PacingAssumption

(* A division leaves a quotient and a remainder.                           *)
LEMMA Division ==
  ASSUME NEW n \in Int, NEW s \in Nat, s >= 1
  PROVE  /\ n \div s \in Int /\ n % s \in 0 .. s - 1
         /\ n = s * (n \div s) + (n % s)
OBVIOUS

(* How often a unit fits between two of its multiples.                     *)
LEMMA MultipleBetween ==
  ASSUME NEW k \in Int, NEW s \in Nat, s >= 1
  PROVE  /\ s * k > -s => k >= 0
         /\ s * k < 2 * s => k <= 1
<1>1. ASSUME k <= -1 PROVE s * k <= -s
  <2>1. s * (-1 - k) >= 0
    BY <1>1
  <2>2. QED
    BY <2>1
<1>2. ASSUME k >= 2 PROVE s * k >= 2 * s
  <2>1. s * (k - 2) >= 0
    BY <1>2
  <2>2. QED
    BY <2>1
<1>3. QED
  BY <1>1, <1>2

(* The seconds of a sum are the seconds of its parts, or one more.         *)
LEMMA SecondsOfSum ==
  ASSUME NEW x \in Int, NEW y \in Int, NEW s \in Nat, s >= 1
  PROVE  /\ x \div s + y \div s <= (x + y) \div s
         /\ (x + y) \div s <= x \div s + y \div s + 1
<1> DEFINE a == x \div s
           b == y \div s
           c == (x + y) \div s
           k == c - a - b
<1>0. x + y \in Int
  OBVIOUS
<1>1. a \in Int /\ b \in Int /\ c \in Int /\ k \in Int
  BY <1>0, Division
<1>2. s * k = (x % s) + (y % s) - ((x + y) % s)
  <2>1. x = s * a + (x % s) /\ y = s * b + (y % s) /\ x + y = s * c + ((x + y) % s)
    <3>1. x + y \in Int
      OBVIOUS
    <3>2. QED
      BY <3>1, Division
  <2>2. x % s \in Int /\ y % s \in Int /\ (x + y) % s \in Int
    BY Division
  <2> HIDE DEF a, b, c
  <2>3. s * k = s * c - s * a - s * b
    BY <1>1
  <2>4. s * a \in Int /\ s * b \in Int /\ s * c \in Int
    BY <1>1
  <2> DEFINE sa == s * a
             sb == s * b
             sc == s * c
             rx == x % s
             ry == y % s
             rz == (x + y) % s
  <2>5. /\ x = sa + rx /\ y = sb + ry /\ x + y = sc + rz
        /\ s * k = sc - sa - sb
    BY <2>1, <2>3
  <2>6. sa \in Int /\ sb \in Int /\ sc \in Int
    BY <2>4
  <2>7. rx \in Int /\ ry \in Int /\ rz \in Int
    BY <2>2
  <2> HIDE DEF k, sa, sb, sc, rx, ry, rz
  <2>8. s * k = rx + ry - rz
    BY <2>5, <2>6, <2>7
  <2>9. QED
    BY <2>8 DEF k, rx, ry, rz
<1>3. s * k > -s /\ s * k < 2 * s
  <2>1. /\ x % s \in 0 .. s - 1 /\ y % s \in 0 .. s - 1
        /\ (x + y) % s \in 0 .. s - 1
    BY Division
  <2>2. QED
    BY <1>2, <2>1
<1>4. k >= 0 /\ k <= 1
  BY <1>1, <1>3, MultipleBetween
<1> HIDE DEF a, b, c
<1>5. a + b <= c /\ c <= a + b + 1
  BY <1>1, <1>4
<1>6. QED
  BY <1>5 DEF a, b, c

(* More time has no fewer seconds.                                         *)
LEMMA SecondsOrdered ==
  ASSUME NEW x \in Int, NEW y \in Int, NEW s \in Nat, s >= 1, x <= y
  PROVE  x \div s <= y \div s
<1> DEFINE z == y - x
<1>1. z \in Nat /\ x + z = y
  OBVIOUS
<1> HIDE DEF z
<1>2. z \div s \in Nat /\ x \div s \in Int /\ y \div s \in Int
  BY <1>1
<1>3. x \div s + z \div s <= (x + z) \div s
  BY <1>1, SecondsOfSum
<1>4. QED
  BY <1>1, <1>2, <1>3

(* The division of C is rounded towards zero.                              *)
LEMMA QuotientBounds ==
  ASSUME NEW r \in Int, NEW m \in Nat, m >= 1
  PROVE  /\ Quotient(r, m) \in Int
         /\ r >= 0 => /\ r - m < m * Quotient(r, m)
                      /\ m * Quotient(r, m) <= r
         /\ r < 0 => /\ r <= m * Quotient(r, m)
                     /\ m * Quotient(r, m) < r + m
<1>1. CASE r >= 0
  <2>1. Quotient(r, m) = r \div m
    BY <1>1 DEF Quotient
  <2>2. r \div m \in Int /\ r % m \in 0 .. m - 1 /\ r = m * (r \div m) + (r % m)
    BY Division
  <2>3. m * (r \div m) \in Int
    BY <2>2
  <2>4. QED
    BY <1>1, <2>1, <2>2, <2>3
<1>2. CASE r < 0
  <2> DEFINE q == (-r) \div m
  <2>1. Quotient(r, m) = -q
    BY <1>2 DEF Quotient
  <2>2. q \in Int /\ (-r) % m \in 0 .. m - 1 /\ -r = m * q + ((-r) % m)
    <3>1. -r \in Int
      OBVIOUS
    <3>2. QED
      BY <3>1, Division
  <2>3. m * q \in Int /\ m * (-q) = -(m * q)
    BY <2>2
  <2>4. QED
    BY <1>2, <2>1, <2>2, <2>3
<1>3. QED
  BY <1>1, <1>2

(* What two readings a and b of the clock are apart, part by part: within  *)
(* a millisecond of the difference, and above it only if a second turned.  *)
LEMMA PartwiseDifference ==
  ASSUME NEW a \in Int, NEW b \in Int, NEW u \in Nat, u >= 1,
         NEW m \in Nat, m >= 1
  PROVE  LET s == u * m
             e == (a \div s - b \div s) * u + Quotient((a % s) - (b % s), m)
         IN  /\ e \in Int
             /\ a - b - m < e * m /\ e * m < a - b + m
             /\ a - b >= 0 /\ e * m > a - b => a \div s >= b \div s + 1
             /\ a - b >= 0 => a \div s >= b \div s
<1> DEFINE s == u * m
           k == a \div s - b \div s
           r == (a % s) - (b % s)
           q == Quotient(r, m)
           e == k * u + q
<1>1. s \in Nat /\ s >= 1
  <2>1. (u - 1) * m >= 0
    OBVIOUS
  <2>2. QED
    BY <2>1
<1>2. /\ a \div s \in Int /\ b \div s \in Int
      /\ a % s \in 0 .. s - 1 /\ b % s \in 0 .. s - 1
      /\ a = s * (a \div s) + (a % s) /\ b = s * (b \div s) + (b % s)
  <2> HIDE DEF s
  <2>1. QED
    BY <1>1, Division
<1>3. k \in Int /\ r \in Int /\ -s < r /\ r < s
  <2> HIDE DEF s
  <2>1. QED
    BY <1>1, <1>2
<1>4. q \in Int
  <2> HIDE DEF r
  <2>1. QED
    BY <1>3, QuotientBounds
<1>5. a - b = s * k + r
  <2> HIDE DEF s
  <2>1. s * k = s * (a \div s) - s * (b \div s)
    BY <1>1, <1>2
  <2> DEFINE x == s * (a \div s)
             y == s * (b \div s)
  <2>2. x \in Int /\ y \in Int
    BY <1>1, <1>2
  <2>3. a % s \in Int /\ b % s \in Int
    BY <1>1, <1>2
  <2>4. s * k = x - y
    BY <2>1
  <2>5. a = x + (a % s) /\ b = y + (b % s)
    BY <1>2
  <2> HIDE DEF x, y, k
  <2>6. QED
    BY <2>2, <2>3, <2>4, <2>5
<1>6. e * m = s * k + m * q
  <2> HIDE DEF k, q
  <2>1. QED
    BY <1>3, <1>4
<1>7. /\ r >= 0 => r - m < m * q /\ m * q <= r
      /\ r < 0 => r <= m * q /\ m * q < r + m
  <2> HIDE DEF r
  <2>1. QED
    BY <1>3, QuotientBounds
<1>8. s * k \in Int /\ m * q \in Int /\ e \in Int
  <2> HIDE DEF k, q, s
  <2>1. QED
    BY <1>1, <1>3, <1>4
<1>9. a - b - m < e * m /\ e * m < a - b + m
  <2> HIDE DEF s, k, r, q, e
  <2>1. QED
    BY <1>3, <1>5, <1>6, <1>7, <1>8
<1>10. ASSUME a - b >= 0
       PROVE  k >= 0 /\ (e * m > a - b => k >= 1)
  <2> HIDE DEF s, k, r, q, e
  <2>1. s * k > -s
    BY <1>1, <1>3, <1>5, <1>8, <1>10
  <2>2. k >= 0
    BY <1>1, <1>3, <2>1, MultipleBetween
  <2>3. ASSUME e * m > a - b PROVE k # 0
    <3>1. r < 0
      BY <1>3, <1>5, <1>6, <1>7, <1>8, <2>3
    <3>2. s * k > 0
      BY <1>3, <1>5, <1>8, <1>10, <3>1
    <3>3. QED
      BY <1>1, <3>2
  <2>4. QED
    BY <1>3, <2>2, <2>3
<1>11. QED
  <2>1. a - b >= 0 => a \div s >= b \div s
    <3> HIDE DEF s, r, q, e
    <3>1. QED
      BY <1>2, <1>10
  <2>2. a - b >= 0 /\ e * m > a - b => a \div s >= b \div s + 1
    <3> HIDE DEF s, r, q, e
    <3>1. QED
      BY <1>2, <1>10
  <2>3. QED
    BY <1>8, <1>9, <2>1, <2>2

-----------------------------------------------------------------------------
(* Type correctness.                                                       *)

(* The greater of two numbers is one of them.                              *)
LEMMA MostOf ==
  ASSUME NEW a \in Int, NEW b \in Int
  PROVE  /\ Most(a, b) \in Int /\ a <= Most(a, b) /\ b <= Most(a, b)
         /\ (a \in Nat \/ b \in Nat) => Most(a, b) \in Nat
         /\ Most(a, b) = a \/ Most(a, b) = b
BY DEF Most

(* What the clock shows, and what it showed when tokens were taken.        *)
LEMMA Readings ==
  ASSUME TypeOK
  PROVE  /\ Clock \in Nat /\ now \in Nat /\ offset \in Int
         /\ Clock = now + offset
         /\ cur_time # Unset => cur_time \in Nat
BY DEF TypeOK, Clock, Unset

(* Elapsed is within a millisecond of the difference of the readings, and  *)
(* above it only by as many milliseconds as seconds have turned.           *)
LEMMA ElapsedBounds ==
  ASSUME TypeOK, cur_time # Unset
  PROVE  /\ Elapsed \in Int
         /\ Clock - cur_time - Milli < Elapsed * Milli
         /\ Elapsed * Milli < Clock - cur_time + Milli
         /\ cur_time <= Clock =>
              Elapsed * Milli <= (Clock - cur_time)
                + (Clock \div Second - cur_time \div Second) * Milli
<1> DEFINE a == Clock
           b == cur_time
           w == a \div Second - b \div Second
           e == w * Sec + Quotient((a % Second) - (b % Second), Milli)
<1>1. a \in Int /\ b \in Int
  BY Readings
<1>2. Second = Sec * Milli
  BY DEF Second
<1> HIDE DEF a, b
<1>3. /\ e \in Int
      /\ a - b - Milli < e * Milli /\ e * Milli < a - b + Milli
      /\ a - b >= 0 /\ e * Milli > a - b =>
           a \div Second >= b \div Second + 1
      /\ a - b >= 0 => a \div Second >= b \div Second
  BY <1>1, <1>2, Units, PartwiseDifference
<1>4. a \div Second \in Int /\ b \div Second \in Int
  BY <1>1, Units, Division
<1>5. /\ a - b >= 0 /\ e * Milli > a - b => w >= 1
      /\ a - b >= 0 => w >= 0
      /\ w \in Int
  <2> HIDE DEF e
  <2>1. QED
    BY <1>3, <1>4
<1>6. ASSUME b <= a PROVE e * Milli <= (a - b) + w * Milli
  <2> HIDE DEF e, w
  <2>1. e * Milli \in Int /\ w * Milli \in Int
    BY <1>3, <1>5, Units
  <2>2. CASE e * Milli > a - b
    <3>1. w >= 1
      BY <1>1, <1>5, <1>6, <2>2
    <3>2. (w - 1) * Milli >= 0
      BY <1>5, <3>1, Units
    <3>3. w * Milli >= Milli
      BY <1>5, <3>2, Units
    <3>4. QED
      BY <1>1, <1>3, <2>1, <3>3, Units
  <2>3. CASE ~(e * Milli > a - b)
    <3>1. w >= 0
      BY <1>1, <1>5, <1>6
    <3>2. w * Milli >= 0
      BY <1>5, <3>1, Units
    <3>3. QED
      BY <1>1, <2>1, <2>3, <3>2
  <2>4. QED
    BY <2>2, <2>3
<1>7. Elapsed = e
  BY DEF Elapsed, a, b
<1> HIDE DEF e, w
<1>8. QED
  BY <1>3, <1>6, <1>7 DEF a, b, w

(* The bucket is filled to interval * Preload at most.                     *)
LEMMA BucketBounds ==
  ASSUME TypeOK, cur_time # Unset
  PROVE  /\ ntokens \in Int
         /\ ntokens <= Elapsed + tokens /\ ntokens <= interval * Preload
         /\ ntokens < interval => ntokens = Elapsed + tokens
         /\ Elapsed + tokens >= interval => ntokens >= interval
<1>1. Elapsed \in Int /\ tokens \in Nat /\ interval \in Nat
  BY ElapsedBounds DEF TypeOK
<1>2. interval * Preload \in Int /\ interval * Preload >= interval
  <2>1. interval * (Preload - 1) >= 0
    BY <1>1, Units
  <2>2. QED
    BY <1>1, <2>1, Units
<1> DEFINE cap == interval * Preload
<1>3. cap \in Int /\ cap >= interval
  BY <1>2
<1> HIDE DEF cap
<1>4. ntokens = Least(Elapsed + tokens, cap)
  BY DEF ntokens, cap
<1>5. /\ ntokens \in Int
      /\ ntokens <= Elapsed + tokens /\ ntokens <= cap
      /\ ntokens < interval => ntokens = Elapsed + tokens
      /\ Elapsed + tokens >= interval => ntokens >= interval
  BY <1>1, <1>3, <1>4 DEF Least
<1>6. QED
  BY <1>5 DEF cap

(* update_interval() gives an interval, for a user no shorter than setup() *)
(* allows, and without -A the one there was.                               *)
LEMMA NewInterval ==
  ASSUME TypeOK, UpdateInterval
  PROVE  /\ interval' \in Nat /\ peak' \in Nat
         /\ peak <= peak' /\ interval' <= peak'
         /\ ~mode.adaptive => interval' = interval
         /\ interval' = interval \/ (mode.uid => interval' >= MINUSERINTERVAL)
<1>1. interval \in Nat /\ peak \in Nat
  BY DEF TypeOK
<1>2. ASSUME NEW est \in Estimates
      PROVE  /\ Updated(est) \in Nat
             /\ mode.uid => Updated(est) >= MINUSERINTERVAL
  <2> DEFINE n == est + Milli \div 2
             rounded == n \div Milli
  <2>1. n \in Nat
    <3>1. est \in Nat /\ Milli \div 2 \in Nat
      BY Units, PacingAssumption
    <3>2. QED
      BY <3>1
  <2>2. rounded \in Nat
    <3> HIDE DEF n
    <3>1. QED
      BY <2>1, Units
  <2>3. Updated(est) = IF mode.uid THEN Most(rounded, MINUSERINTERVAL)
                       ELSE rounded
    BY DEF Updated
  <2> HIDE DEF n, rounded
  <2>4. /\ Most(rounded, MINUSERINTERVAL) \in Nat
        /\ Most(rounded, MINUSERINTERVAL) >= MINUSERINTERVAL
    BY <2>2, Units, MostOf
  <2>5. QED
    BY <2>2, <2>3, <2>4
<1>3. \/ interval' = interval
      \/ mode.adaptive /\ \E est \in Estimates : interval' = Updated(est)
  BY DEF UpdateInterval
<1>4. /\ interval' \in Nat
      /\ ~mode.adaptive => interval' = interval
      /\ interval' = interval \/ (mode.uid => interval' >= MINUSERINTERVAL)
  BY <1>1, <1>2, <1>3
<1>5. peak' = Most(peak, interval')
  BY DEF UpdateInterval
<1>6. QED
  BY <1>1, <1>4, <1>5, MostOf

(* What is counted and how the clock is read, next to the types: acked is  *)
(* within the half window of the last probe, with room for one that is     *)
(* about to be sent; an unset cur_time means that nothing has happened     *)
(* yet; and nothing but a clock that was set back puts cur_time ahead.     *)
CountInv ==
  /\ in_flight <= HalfWindow
  /\ pc = "send" => in_flight < HalfWindow

ClockInv ==
  /\ cur_time = Unset =>
       /\ pc = "call" /\ steady /\ due = Unset
       /\ now = 0 /\ ntransmitted = 0 /\ acked = 0 /\ jumps = 0
  /\ cur_time # Unset =>
       /\ cur_time <= Clock + setback
       /\ steady => offset <= cur_time /\ cur_time <= Clock
  /\ ~steady => jumps >= 1

IntervalInv ==
  /\ interval <= peak
  /\ ~mode.adaptive => peak = interval
  /\ mode.uid => interval >= MINUSERINTERVAL

(* The variables start with their types.                                   *)
LEMMA InitType == Init => TypeOK
<1> SUFFICES ASSUME Init
             PROVE  TypeOK
  OBVIOUS
<1>1. interval \in Nat /\ peak \in Nat /\ offset \in Nat
  BY PacingAssumption DEF Init
<1>2. 0 \in 0 .. SeqMod - 1
  BY SeqModAssumption
<1>3. pc \in {"call", "send"} /\ mode \in Modes
  BY DEF Init
<1>4. /\ tokens \in Nat /\ cur_time \in Nat \cup {Unset} /\ due \in Int
      /\ ntransmitted \in Nat /\ now \in Nat
      /\ jumps \in Nat /\ setback \in Nat
  BY DEF Init, Unset
<1>5. acked \in 0 .. SeqMod - 1
  BY <1>2 DEF Init
<1>6. steady \in BOOLEAN
  BY Zenon DEF Init
<1>7. now + offset \in Nat /\ offset \in Int
  BY <1>1, <1>4
<1>8. QED
  BY <1>1, <1>3, <1>4, <1>5, <1>6, <1>7 DEF TypeOK

(* The wait that is asked for is an instant.                               *)
LEMMA DueType ==
  ASSUME TypeOK, NEW next \in Int
  PROVE  /\ Returns(next) => pc' = "call" /\ due' \in Int
         /\ ReturnsAfter(next) => pc' = "call" /\ due' \in Int
<1> DEFINE most == Most(0, next)
           d == Clock + Milli * most
<1>1. d \in Int
  <2>1. most \in Int
    BY MostOf
  <2> HIDE DEF most
  <2>2. QED
    BY <2>1, Readings, Units
<1>2. Unset \in Int
  BY DEF Unset
<1>3. Returns(next) => pc' = "call" /\ due' = d
  BY DEF Returns
<1>4. ReturnsAfter(next) => pc' = "call" /\ (due' = d \/ due' = Unset)
  BY DEF ReturnsAfter
<1> HIDE DEF d
<1>5. QED
  BY <1>1, <1>2, <1>3, <1>4

(* Each action keeps the types.                                            *)
LEMMA TypeStep ==
  ASSUME TypeOK, [Next]_vars
  PROVE  TypeOK'
<1> DEFINE Rest == <<mode, interval, peak, ntransmitted, acked, now, offset,
                     jumps, setback>>
<1>1. /\ interval \in Nat /\ tokens \in Nat /\ ntransmitted \in Nat
      /\ ntransmitted + 1 \in Nat /\ tokens + interval \in Nat
      /\ interval - tokens \in Int
  BY DEF TypeOK
<1>2. MININTERVAL \in Int
  BY Units
<1>3. ASSUME pc' = "send", cur_time' = Clock, tokens' \in Nat,
             steady' = TRUE, due' = due, UNCHANGED Rest
      PROVE  TypeOK'
  <2>1. cur_time' \in Nat
    BY <1>3, Readings
  <2>2. QED
    BY <1>3, <2>1 DEF TypeOK, Modes
<1>4. CASE TakeFirst
  <2>1. interval * (Preload - 1) \in Nat
    BY <1>1, Units
  <2>2. QED
    BY <1>3, <1>4, <2>1 DEF TakeFirst, countVars
<1>5. CASE TakeTokens
  <2>1. ntokens \in Int
    BY <1>5, BucketBounds DEF TakeTokens
  <2>2. ntokens >= interval
    BY <1>5 DEF TakeTokens
  <2>3. ntokens - interval \in Nat
    BY <1>1, <2>1, <2>2
  <2>4. QED
    BY <1>3, <1>5, <2>3 DEF TakeTokens, countVars
<1>6. ASSUME pc' = "call", due' \in Int,
             UNCHANGED <<mode, bucketVars, countVars, clockVars>>
      PROVE  TypeOK'
  BY <1>6 DEF TypeOK, bucketVars, countVars, clockVars, Modes
<1>7. CASE FloodWait
  <2>1. UntilFlood \in Int
    BY <1>2, <1>7, ElapsedBounds DEF FloodWait, UntilFlood
  <2>2. pc' = "call" /\ due' \in Int
    BY <1>7, <2>1, DueType DEF FloodWait
  <2>3. QED
    BY <1>6, <1>7, <2>2 DEF FloodWait
<1>8. CASE NoTokens
  <2>1. UntilToken \in Int
    BY <1>1, <1>8, BucketBounds DEF NoTokens, UntilToken
  <2>2. pc' = "call" /\ due' \in Int
    BY <1>8, <2>1, DueType DEF NoTokens
  <2>3. QED
    BY <1>6, <1>8, <2>2 DEF NoTokens
<1>9. ASSUME AdvanceNtransmitted
      PROVE  ntransmitted' \in Nat /\ acked' \in 0 .. SeqMod - 1
  <2>1. acked \in 0 .. SeqMod - 1 /\ ntransmitted + 1 \in Int
    BY DEF TypeOK
  <2>2. AdvanceAcked(acked, ntransmitted + 1) \in 0 .. SeqMod - 1
    BY <2>1, AdvanceAckedType
  <2>3. QED
    BY <1>1, <1>9, <2>2 DEF AdvanceNtransmitted
<1>10. CASE Sent
  <2>1. pc' = "call" /\ due' \in Int
    BY <1>1, <1>10, DueType DEF Sent
  <2>2. ntransmitted' \in Nat /\ acked' \in 0 .. SeqMod - 1
    BY <1>9, <1>10 DEF Sent
  <2>3. UNCHANGED <<mode, bucketVars, clockVars>>
    BY <1>10 DEF Sent
  <2>4. QED
    BY <2>1, <2>2, <2>3 DEF TypeOK, bucketVars, clockVars, Modes
<1>11. ASSUME Refund, UNCHANGED <<mode, ntransmitted, clockVars>>,
              acked' \in 0 .. SeqMod - 1
       PROVE  TypeOK'
  <2>1. pc' = "call" /\ due' \in Int
    BY <1>2, <1>11, DueType DEF Refund
  <2>2. tokens' \in Nat /\ UNCHANGED <<interval, peak, cur_time>>
    BY <1>1, <1>11 DEF Refund
  <2>3. QED
    BY <1>11, <2>1, <2>2 DEF TypeOK, clockVars, Modes
<1>12. CASE SocketFull
  <2>1. acked' \in 0 .. SeqMod - 1
    BY <1>12 DEF SocketFull, countVars, TypeOK
  <2>2. QED
    BY <1>11, <1>12, <2>1 DEF SocketFull, countVars
<1>12a. CASE ShortSend
  <2>1. pc' = "call" /\ due' \in Int
    BY <1>12a DEF ShortSend, Unset
  <2>2. QED
    BY <1>12a, <2>1 DEF ShortSend, TypeOK, bucketVars, countVars, clockVars, Modes
<1>13. ASSUME NEW i \in 1 .. ntransmitted
       PROVE  Acknowledge(acked, ntransmitted, U16(i)) \in 0 .. SeqMod - 1
  <2>1. i \in Int /\ ntransmitted \in Int /\ acked \in 0 .. SeqMod - 1
    BY <1>1 DEF TypeOK
  <2>2. QED
    BY <2>1, AcknowledgeType
<1>14. ASSUME NEW i \in 1 .. ntransmitted, ErrorArrived(i)
       PROVE  TypeOK'
  <2>1. acked' \in 0 .. SeqMod - 1
    BY <1>13, <1>14 DEF ErrorArrived
  <2>2. QED
    BY <1>11, <1>14, <2>1 DEF ErrorArrived
<1>15. ASSUME tokens' \in Nat, UpdateInterval, due' \in Int,
              pc' \in {"call", "send"}, ntransmitted' \in Nat,
              acked' \in 0 .. SeqMod - 1, UNCHANGED <<mode, cur_time, clockVars>>
       PROVE  TypeOK'
  <2>1. interval' \in Nat /\ peak' \in Nat
    BY <1>15, NewInterval
  <2>2. QED
    BY <1>15, <2>1 DEF TypeOK, clockVars, Modes
<1>16. CASE NoBuffers
  <2>1. due' \in Int /\ tokens' \in Nat
    BY <1>16 DEF NoBuffers, Unset
  <2>2. ntransmitted' \in Nat /\ acked' \in 0 .. SeqMod - 1
    BY <1>16 DEF NoBuffers, countVars, TypeOK
  <2>3. QED
    BY <1>15, <1>16, <2>1, <2>2 DEF NoBuffers
<1>17. CASE HardError
  <2>1. interval' \in Int
    BY <1>17, NewInterval DEF HardError
  <2>2. SCHINT(interval') \in Int
    BY <2>1, Units, MostOf DEF SCHINT
  <2>3. pc' = "call" /\ due' \in Int
    BY <1>17, <2>2, DueType DEF HardError
  <2>4. ntransmitted' \in Nat /\ acked' \in 0 .. SeqMod - 1
    BY <1>9, <1>17 DEF HardError
  <2>5. tokens' \in Nat
    BY <1>17 DEF HardError
  <2>6. QED
    BY <1>15, <1>17, <2>3, <2>4, <2>5 DEF HardError
<1>18. ASSUME NEW i \in 1 .. ntransmitted, Answer(i)
       PROVE  TypeOK'
  <2>1. acked' \in 0 .. SeqMod - 1
    BY <1>13, <1>18 DEF Answer
  <2>2. due' \in Int
    BY <1>18 DEF Answer, TypeOK, Unset
  <2>3. /\ tokens' \in Nat /\ ntransmitted' \in Nat
        /\ pc' \in {"call", "send"}
    BY <1>18 DEF Answer, TypeOK
  <2>4. UNCHANGED <<mode, cur_time, clockVars>>
    BY <1>18 DEF Answer
  <2>5. UpdateInterval
    BY <1>18 DEF Answer
  <2>6. QED
    BY <1>15, <2>1, <2>2, <2>3, <2>4, <2>5
<1>19. CASE Tick
  <2>1. /\ now' = now + 1
        /\ UNCHANGED <<pc, mode, bucketVars, due, countVars, offset, steady,
                       jumps, setback>>
    BY <1>19 DEF Tick
  <2>2. now' \in Nat /\ now' + offset' \in Nat
    BY <2>1 DEF TypeOK
  <2>3. QED
    BY <2>1, <2>2 DEF TypeOK, bucketVars, countVars, Modes
<1>20. ASSUME NEW by \in Int, SetClock(by)
       PROVE  TypeOK'
  <2>1. /\ offset' = offset + by /\ steady' = FALSE /\ jumps' = jumps + 1
        /\ setback' = setback + Most(0, -by) /\ due' = Unset
        /\ UNCHANGED <<pc, mode, bucketVars, countVars, now>>
        /\ Clock + by >= 0
    BY <1>20 DEF SetClock
  <2>2. offset' \in Int /\ now' + offset' \in Nat
    <3>1. now \in Nat /\ offset \in Int
      BY DEF TypeOK
    <3>2. now + offset + by >= 0
      BY <2>1 DEF Clock
    <3>3. now + (offset + by) \in Nat /\ offset + by \in Int
      BY <3>1, <3>2
    <3>4. QED
      BY <2>1, <3>3
  <2>3. setback' \in Nat
    <3>1. 0 \in Nat /\ -by \in Int
      OBVIOUS
    <3>2. Most(0, -by) \in Nat
      BY <3>1, MostOf
    <3>3. QED
      BY <2>1, <3>2 DEF TypeOK
  <2>4. jumps' \in Nat /\ due' \in Int
    BY <2>1 DEF TypeOK, Unset
  <2>5. steady' \in BOOLEAN
    BY <2>1, Zenon
  <2>6. QED
    BY <2>1, <2>2, <2>3, <2>4, <2>5 DEF TypeOK, bucketVars, countVars, Modes
<1>21. ASSUME NEW by \in Jumps
       PROVE  by \in Int /\ -by \in Int
  BY PacingAssumption
<1>22. CASE UNCHANGED vars
  BY <1>22 DEF vars, TypeOK, bucketVars, countVars, clockVars, Modes
<1>23. QED
  BY <1>4, <1>5, <1>7, <1>8, <1>10, <1>12, <1>12a, <1>14, <1>16, <1>17,
     <1>18, <1>19, <1>20, <1>21, <1>22 DEF Next

(* The variables of Pacing have their types.                               *)
THEOREM PacingTypeCorrect == Spec => []TypeOK
<1>1. QED
  BY InitType, TypeStep, PTL DEF Spec

-----------------------------------------------------------------------------
(* What is in flight.                                                      *)

(* in_flight is a distance between two 16-bit numbers.                     *)
LEMMA InFlightCounts ==
  ASSUME TypeOK
  PROVE  in_flight \in Nat
<1>1. ntransmitted - acked \in Int
  BY DEF TypeOK
<1>2. QED
  BY <1>1, U16Type, SeqModAssumption DEF in_flight

(* A probe that counts as sent is one more in flight.                      *)
LEMMA AdvanceCounts ==
  ASSUME TypeOK, CountInv, pc = "send", AdvanceNtransmitted
  PROVE  in_flight' = in_flight + 1
<1> DEFINE n == ntransmitted + 1
           d == ntransmitted - acked
<1>1. n \in Int /\ d \in Int /\ n - acked = d + 1 /\ acked \in 0 .. SeqMod - 1
  BY DEF TypeOK
<1>2. U16(d) \in 0 .. SeqMod - 1 /\ U16(d) < HalfWindow
  BY <1>1, U16Type DEF CountInv, in_flight
<1>3. U16(d + 1) = U16(d) + 1
  <2> HIDE DEF d
  <2>1. U16(U16(d) - (-1)) = U16(d - (-1))
    BY <1>1, U16Difference
  <2>2. U16(d) - (-1) = U16(d) + 1 /\ d - (-1) = d + 1
    BY <1>1, <1>2, SeqModAssumption
  <2>3. U16(d) + 1 \in 0 .. SeqMod - 1
    BY <1>2, HalfWindowSize
  <2>4. QED
    BY <2>1, <2>2, <2>3, U16Small
<1>4. U16(n - acked) = U16(d) + 1 /\ U16(n - acked) <= HalfWindow
  BY <1>1, <1>2, <1>3, HalfWindowSize
<1>5. AdvanceAcked(acked, n) = acked
  BY <1>1, <1>4, AdvanceInWindow
<1>6. ntransmitted' = n /\ acked' = acked
  BY <1>5 DEF AdvanceNtransmitted
<1>7. QED
  BY <1>4, <1>6 DEF in_flight

(* An answer, whichever probe it is for and however late it comes, never   *)
(* makes in_flight() grow.                                                 *)
LEMMA AnswerCounts ==
  ASSUME TypeOK, CountInv, NEW i \in Int, ntransmitted' = ntransmitted,
         acked' = Acknowledge(acked, ntransmitted, U16(i))
  PROVE  in_flight' \in Nat /\ in_flight' <= in_flight
<1> DEFINE s == U16(i)
<1>1. /\ ntransmitted \in Int /\ acked \in 0 .. SeqMod - 1
      /\ s \in 0 .. SeqMod - 1 /\ U16(ntransmitted - acked) <= HalfWindow
  BY U16Type DEF TypeOK, CountInv, in_flight
<1> HIDE DEF s
<1>2. /\ U16(ntransmitted - s) \in Nat
      /\ U16(ntransmitted - acked) \in Nat
  <2>1. ntransmitted - s \in Int /\ ntransmitted - acked \in Int
    BY <1>1, SeqModAssumption
  <2>2. QED
    BY <2>1, U16Type, SeqModAssumption
<1>3. Acknowledge(acked, ntransmitted, s)
        = IF U16(ntransmitted - s) < U16(ntransmitted - acked) THEN s ELSE acked
  BY <1>1, AcknowledgeInWindow
<1>4. acked' = Acknowledge(acked, ntransmitted, s)
  BY DEF s
<1>5. in_flight' = U16(ntransmitted - acked')
  BY DEF in_flight
<1>6. CASE U16(ntransmitted - s) < U16(ntransmitted - acked)
  BY <1>2, <1>3, <1>4, <1>5, <1>6 DEF in_flight
<1>7. CASE ~(U16(ntransmitted - s) < U16(ntransmitted - acked))
  BY <1>2, <1>3, <1>4, <1>5, <1>7 DEF in_flight
<1>8. QED
  BY <1>6, <1>7

(* Whoever is about to send has been let out with room in the half window. *)
LEMMA CountStep ==
  ASSUME TypeOK, CountInv, [Next]_vars
  PROVE  CountInv'
<1> USE DEF CountInv
<1>1. CASE TakeFirst \/ TakeTokens
  BY <1>1 DEF TakeFirst, TakeTokens, WithinBounds, in_flight, countVars
<1>2. CASE FloodWait \/ NoTokens
  BY <1>2 DEF FloodWait, NoTokens, Returns, in_flight, countVars
<1>3. ASSUME pc = "send", AdvanceNtransmitted, pc' = "call"
      PROVE  CountInv'
  <2>1. in_flight' = in_flight + 1
    BY <1>3, AdvanceCounts
  <2>2. in_flight \in Nat /\ in_flight < HalfWindow
    BY <1>3, InFlightCounts
  <2>3. QED
    BY <1>3, <2>1, <2>2, HalfWindowSize
<1>4. CASE Sent
  BY <1>3, <1>4 DEF Sent, ReturnsAfter
<1>5. CASE HardError
  BY <1>3, <1>5 DEF HardError, ReturnsAfter
<1>6. CASE SocketFull \/ ShortSend \/ NoBuffers
  BY <1>6 DEF SocketFull, ShortSend, NoBuffers, Refund, ReturnsAfter,
              in_flight, countVars
<1>7. ASSUME NEW i \in 1 .. ntransmitted, ErrorArrived(i) \/ Answer(i)
      PROVE  CountInv'
  <2>1. in_flight' \in Nat /\ in_flight' <= in_flight
    BY <1>7, AnswerCounts DEF ErrorArrived, Answer
  <2>2. pc' = "call"
    BY <1>7 DEF ErrorArrived, Answer, Refund, ReturnsAfter
  <2>3. QED
    BY <2>1, <2>2, InFlightCounts, HalfWindowSize
<1>8. CASE Tick
  BY <1>8 DEF Tick, in_flight, countVars
<1>9. ASSUME NEW by \in Int, SetClock(by)
      PROVE  CountInv'
  BY <1>9 DEF SetClock, in_flight, countVars
<1>10. ASSUME NEW by \in Jumps
       PROVE  by \in Int /\ -by \in Int
  BY PacingAssumption
<1>11. CASE UNCHANGED vars
  BY <1>11 DEF vars, in_flight, countVars
<1>12. QED
  BY <1>1, <1>2, <1>4, <1>5, <1>6, <1>7, <1>8, <1>9, <1>10, <1>11 DEF Next

-----------------------------------------------------------------------------
(* The clock and the interval.                                             *)

(* Time passes; nobody else moves cur_time or the clock.                   *)
LEMMA ClockPasses ==
  ASSUME TypeOK, ClockInv, cur_time # Unset, cur_time' = cur_time,
         steady' = steady, jumps' = jumps, setback' = setback,
         offset' = offset, now' = now \/ now' = now + 1
  PROVE  ClockInv'
<1>1. /\ now \in Int /\ offset \in Int /\ cur_time \in Int
      /\ setback \in Int
  BY Readings DEF TypeOK
<1>2. /\ cur_time <= now + offset + setback
      /\ steady => offset <= cur_time /\ cur_time <= now + offset
  BY DEF ClockInv, Clock
<1>3. /\ cur_time <= now' + offset + setback
      /\ steady => offset <= cur_time /\ cur_time <= now' + offset
  BY <1>1, <1>2
<1>4. (~steady => jumps >= 1)'
  BY DEF ClockInv
<1>5. QED
  BY <1>3, <1>4 DEF ClockInv, Clock

(* Only setting the clock back takes it below cur_time, by as much.        *)
LEMMA ClockStep ==
  ASSUME TypeOK, ClockInv, [Next]_vars
  PROVE  ClockInv'
<1>1. ASSUME cur_time' = Clock, steady' = TRUE, now' = now,
             offset' = offset, setback' = setback
      PROVE  ClockInv'
  <2>1. /\ Clock \in Nat /\ now \in Int /\ now >= 0 /\ offset \in Int
        /\ Clock = now + offset /\ setback \in Int /\ setback >= 0
    BY Readings DEF TypeOK
  <2>2. /\ Clock # Unset /\ Clock <= Clock + setback
        /\ offset <= Clock
    BY <2>1 DEF Unset
  <2>3. Clock' = Clock
    BY <1>1 DEF Clock
  <2>4. Clock <= Clock
    BY <2>1
  <2>5. QED
    BY <1>1, <2>2, <2>3, <2>4 DEF ClockInv
<1>2. CASE TakeFirst \/ TakeTokens
  BY <1>1, <1>2 DEF TakeFirst, TakeTokens
<1>3. ASSUME pc = "send" => cur_time # Unset
      PROVE  /\ FloodWait \/ NoTokens \/ Sent \/ SocketFull \/ ShortSend
                  \/ NoBuffers \/ HardError \/ Tick => cur_time # Unset
             /\ \A i : ErrorArrived(i) => cur_time # Unset
  BY <1>3 DEF FloodWait, NoTokens, Sent, SocketFull, ShortSend, NoBuffers,
              HardError, Tick, ErrorArrived
<1>4. pc = "send" => cur_time # Unset
  BY DEF ClockInv
<1>5. CASE FloodWait \/ NoTokens \/ Sent \/ SocketFull \/ ShortSend
             \/ NoBuffers \/ HardError
  <2>1. cur_time # Unset
    BY <1>3, <1>4, <1>5
  <2>2. UNCHANGED <<cur_time, clockVars>>
    BY <1>5 DEF FloodWait, NoTokens, Sent, SocketFull, ShortSend, NoBuffers,
                HardError, bucketVars, Refund
  <2>3. QED
    BY <2>1, <2>2, ClockPasses DEF clockVars
<1>6. ASSUME NEW i \in 1 .. ntransmitted, ErrorArrived(i) \/ Answer(i)
      PROVE  ClockInv'
  <2>1. ntransmitted # 0
    BY DEF TypeOK
  <2>2. cur_time # Unset
    BY <2>1 DEF ClockInv
  <2>3. UNCHANGED <<cur_time, clockVars>>
    BY <1>6 DEF ErrorArrived, Answer, Refund
  <2>4. QED
    BY <2>2, <2>3, ClockPasses DEF clockVars
<1>7. CASE Tick
  <2>1. cur_time # Unset
    BY <1>7 DEF Tick
  <2>2. QED
    BY <1>7, <2>1, ClockPasses DEF Tick, bucketVars
<1>8. ASSUME NEW by \in Int, SetClock(by)
      PROVE  ClockInv'
  <2>1. /\ cur_time # Unset /\ cur_time' = cur_time
        /\ offset' = offset + by /\ now' = now
        /\ steady' = FALSE /\ jumps' = jumps + 1
        /\ setback' = setback + Most(0, -by)
    BY <1>8 DEF SetClock, bucketVars
  <2>2. /\ now \in Int /\ offset \in Int /\ cur_time \in Int
        /\ setback \in Int /\ jumps \in Nat
    BY <2>1, Readings DEF TypeOK
  <2> DEFINE back == Most(0, -by)
  <2>3. back \in Int /\ -by <= back
    BY MostOf
  <2> HIDE DEF back
  <2>4. cur_time <= now + offset + setback
    BY <2>1 DEF ClockInv, Clock
  <2>5. cur_time <= now + (offset + by) + (setback + back)
    BY <2>2, <2>3, <2>4
  <2>6. Clock' + setback' = now + (offset + by) + (setback + back)
    BY <2>1 DEF Clock, back
  <2>7. jumps + 1 >= 1
    BY <2>2
  <2>8. QED
    BY <2>1, <2>5, <2>6, <2>7 DEF ClockInv
<1>9. ASSUME NEW by \in Jumps
      PROVE  by \in Int /\ -by \in Int
  BY PacingAssumption
<1>10. CASE UNCHANGED vars
  BY <1>10 DEF vars, bucketVars, countVars, clockVars, ClockInv, Clock
<1>11. QED
  BY <1>2, <1>5, <1>6, <1>7, <1>8, <1>9, <1>10 DEF Next

(* The interval changes in adaptive mode only, and never below what setup()*)
(* allows a user.                                                          *)
LEMMA IntervalStep ==
  ASSUME TypeOK, IntervalInv, [Next]_vars
  PROVE  /\ IntervalInv' /\ mode' = mode /\ peak <= peak'
         /\ ~mode.adaptive => interval' = interval
<1>1. interval \in Int /\ peak \in Int
  BY DEF TypeOK
<1>2. CASE UpdateInterval /\ mode' = mode
  <2>1. /\ interval' \in Int /\ peak' \in Int
        /\ peak <= peak' /\ interval' <= peak'
        /\ ~mode.adaptive => interval' = interval
        /\ interval' = interval \/ (mode.uid => interval' >= MINUSERINTERVAL)
    BY <1>2, NewInterval
  <2>2. ~mode.adaptive => peak' = peak
    <3>1. SUFFICES ASSUME ~mode.adaptive
                   PROVE  peak' = peak
      OBVIOUS
    <3>2. peak' = Most(peak, interval') /\ interval' = interval
      BY <1>2, <2>1, <3>1 DEF UpdateInterval
    <3>3. QED
      BY <1>1, <3>2 DEF IntervalInv, Most
  <2>3. QED
    BY <1>2, <2>1, <2>2 DEF IntervalInv
<1>3. CASE UNCHANGED <<mode, interval, peak>>
  <2>1. peak <= peak
    BY <1>1
  <2>2. QED
    BY <1>3, <2>1 DEF IntervalInv
<1>4. CASE TakeFirst \/ TakeTokens \/ FloodWait \/ NoTokens \/ Sent
             \/ SocketFull \/ ShortSend \/ Tick
  BY <1>3, <1>4 DEF TakeFirst, TakeTokens, FloodWait, NoTokens, Sent,
                    SocketFull, ShortSend, Refund, Tick, bucketVars
<1>5. CASE NoBuffers \/ HardError
  BY <1>2, <1>5 DEF NoBuffers, HardError
<1>6. ASSUME NEW i \in 1 .. ntransmitted, ErrorArrived(i)
      PROVE  UNCHANGED <<mode, interval, peak>>
  BY <1>6 DEF ErrorArrived, Refund
<1>7. ASSUME NEW i \in 1 .. ntransmitted, Answer(i)
      PROVE  UpdateInterval /\ mode' = mode
  BY <1>7 DEF Answer
<1>8. ASSUME NEW by \in Int, SetClock(by)
      PROVE  UNCHANGED <<mode, interval, peak>>
  BY <1>8 DEF SetClock, bucketVars
<1>9. ASSUME NEW by \in Jumps
      PROVE  by \in Int /\ -by \in Int
  BY PacingAssumption
<1>10. CASE UNCHANGED vars
  BY <1>3, <1>10 DEF vars, bucketVars
<1>11. QED
  BY <1>2, <1>3, <1>4, <1>5, <1>6, <1>7, <1>8, <1>9, <1>10 DEF Next

-----------------------------------------------------------------------------
(* Accounts.  All amounts are in microseconds.                             *)

(* What n probes at a step each cost, with what is held for further ones.  *)
Owed(n, step, held) == n * step * Milli + held * Milli

(* The preload; and what each time the clock is set may add: a preload     *)
(* more, and a millisecond of rounding.                                    *)
Saved(p) == Preload * p * Milli
Allowed(j, p) == j * (Saved(p) + Milli)

(* What the bucket may take for the time from b to a on the clock, and for *)
(* a time t of which it is not known where seconds turn.                   *)
Passed(a, b) == (a - b) + (a \div Second - b \div Second) * Milli
Spent(t) == t + (t \div Second) * Milli

(* What the probes in flight in excess of the preload, and of one for each *)
(* time the clock was set, have waited for.                                *)
Excess(load, j) == (load - Preload - j) * (MININTERVAL * Milli)

(* Products of natural numbers are natural numbers.                        *)
LEMMA Product ==
  ASSUME NEW a \in Nat, NEW b \in Nat
  PROVE  a * b \in Nat
OBVIOUS

(* A product grows with a factor.                                          *)
LEMMA ProductGrows ==
  ASSUME NEW a \in Int, NEW b \in Int, NEW c \in Nat, a <= b
  PROVE  a * c <= b * c /\ a * c \in Int /\ b * c \in Int
<1>1. (b - a) * c >= 0
  OBVIOUS
<1>2. (b - a) * c = b * c - a * c /\ a * c \in Int /\ b * c \in Int
  OBVIOUS
<1> DEFINE x == a * c
           y == b * c
<1>3. x \in Int /\ y \in Int /\ y - x >= 0
  BY <1>1, <1>2
<1> HIDE DEF x, y
<1>4. x <= y
  BY <1>3
<1>5. QED
  BY <1>3, <1>4 DEF x, y

(* What is owed is a natural number.                                       *)
LEMMA OwedIs ==
  ASSUME NEW n \in Nat, NEW step \in Nat, NEW h \in Nat
  PROVE  /\ Owed(n, step, h) \in Nat
         /\ Owed(n, step, h) = n * step * Milli + h * Milli
         /\ Owed(n, step, 0) = n * step * Milli
<1> DEFINE c == n * step * Milli
           y == h * Milli
<1>1. n * step \in Nat
  BY Product
<1>2. c \in Nat /\ y \in Nat /\ 0 * Milli = 0
  BY <1>1, Units, Product
<1>3. Owed(n, step, h) = c + y /\ Owed(n, step, 0) = c + 0 * Milli
  BY DEF Owed
<1> HIDE DEF c, y
<1>4. Owed(n, step, h) \in Nat /\ Owed(n, step, 0) = c
  BY <1>2, <1>3
<1>5. QED
  BY <1>3, <1>4 DEF c, y

(* It falls with what is held; a probe that counts is paid from what was   *)
(* held for it.                                                            *)
LEMMA OwedFalls ==
  ASSUME NEW n \in Nat, NEW step \in Nat, NEW h \in Nat, NEW k \in Nat
  PROVE  /\ k <= h => Owed(n, step, k) <= Owed(n, step, h)
         /\ k + step <= h => Owed(n + 1, step, k) <= Owed(n, step, h)
<1> DEFINE c == n * step * Milli
           d == step * Milli
           x == k * Milli
           y == h * Milli
<1>1. n * step \in Nat
  BY Product
<1>2. c \in Nat /\ d \in Nat /\ x \in Nat /\ y \in Nat
  BY <1>1, Units, Product
<1>3. Owed(n, step, h) = c + y /\ Owed(n, step, k) = c + x
  BY DEF Owed
<1>4. ASSUME k <= h PROVE Owed(n, step, k) <= Owed(n, step, h)
  <2>1. x <= y
    BY <1>4, Units, ProductGrows
  <2> HIDE DEF c, x, y
  <2>2. QED
    BY <1>2, <1>3, <2>1
<1>5. ASSUME k + step <= h
      PROVE  Owed(n + 1, step, k) <= Owed(n, step, h)
  <2>1. (k + step) * Milli <= y /\ (k + step) * Milli = x + d
    BY <1>5, Units, ProductGrows
  <2>2. (n + 1) * step * Milli = c + d
    <3> DEFINE z == n * step
    <3>1. (n + 1) * step = z + step /\ z \in Nat
      BY <1>1
    <3> HIDE DEF z
    <3>2. (z + step) * Milli = z * Milli + step * Milli
      BY <3>1, Units
    <3>3. QED
      BY <3>1, <3>2 DEF z
  <2>3. Owed(n + 1, step, k) = (c + d) + x
    BY <2>2 DEF Owed
  <2> HIDE DEF c, d, x, y
  <2>4. QED
    BY <1>2, <1>3, <2>1, <2>3
<1>6. QED
  BY <1>4, <1>5

(* The preload is a natural number, and grows with the interval.           *)
LEMMA SavedGrows ==
  ASSUME NEW p \in Nat
  PROVE  /\ Saved(p) \in Nat
         /\ \A q \in Nat : p <= q => Saved(p) <= Saved(q)
<1>1. ASSUME NEW q \in Nat
      PROVE  Preload * q \in Nat /\ Saved(q) \in Nat
  <2>1. Preload * q \in Nat
    BY Units, Product
  <2>2. QED
    BY <2>1, Units, Product DEF Saved
<1>2. ASSUME NEW q \in Nat, p <= q
      PROVE  Saved(p) <= Saved(q)
  <2>1. p * Preload <= q * Preload
    BY <1>2, Units, ProductGrows
  <2>2. Preload * p <= Preload * q
    BY <2>1, Units
  <2>3. Preload * p \in Int /\ Preload * q \in Int
    BY <1>1
  <2>4. QED
    BY <2>2, <2>3, Units, ProductGrows DEF Saved
<1>3. QED
  BY <1>1, <1>2

(* So do the allowances, which grow by one each time the clock is set.     *)
LEMMA AllowedGrows ==
  ASSUME NEW j \in Nat, NEW p \in Nat
  PROVE  /\ Allowed(j, p) \in Nat
         /\ Allowed(j + 1, p) = Allowed(j, p) + Saved(p) + Milli
         /\ \A q \in Nat : p <= q => Allowed(j, p) <= Allowed(j, q)
<1>1. Saved(p) \in Nat /\ Saved(p) + Milli \in Nat
  BY SavedGrows, Units
<1> DEFINE a == Saved(p) + Milli
<1>2. a \in Nat
  BY <1>1
<1>3. Allowed(j, p) = j * a /\ Allowed(j + 1, p) = (j + 1) * a
  BY DEF Allowed
<1> HIDE DEF a
<1>4. j * a \in Nat /\ (j + 1) * a = j * a + a
  BY <1>2
<1>5. ASSUME NEW q \in Nat, p <= q
      PROVE  Allowed(j, p) <= Allowed(j, q)
  <2>1. Saved(q) \in Nat /\ Saved(p) <= Saved(q)
    BY <1>5, SavedGrows
  <2> DEFINE b == Saved(q) + Milli
  <2>2. b \in Nat /\ a <= b
    BY <1>1, <2>1, Units DEF a
  <2> HIDE DEF b
  <2>3. a * j <= b * j
    BY <1>2, <2>2, ProductGrows
  <2>4. j * a <= j * b
    BY <1>2, <2>2, <2>3
  <2>5. QED
    BY <2>4 DEF Allowed, a, b
<1>6. Allowed(j + 1, p) = Allowed(j, p) + Saved(p) + Milli
  <2> DEFINE x == j * a
  <2>1. x \in Nat /\ Allowed(j, p) = x /\ Allowed(j + 1, p) = x + a
    BY <1>3, <1>4
  <2> HIDE DEF x
  <2>2. x + (Saved(p) + Milli) = x + Saved(p) + Milli
    BY <1>1, <2>1, Units
  <2>3. QED
    BY <2>1, <2>2 DEF a
<1>7. QED
  BY <1>3, <1>4, <1>5, <1>6

(* Time on the clock: it adds up; it is no more than the same time with a  *)
(* second turning once more; and no less than it without.                  *)
LEMMA PassedAndSpent ==
  ASSUME NEW a \in Int, NEW b \in Int
  PROVE  /\ Passed(a, b) \in Int
         /\ \A c \in Int : Passed(a, c) = Passed(a, b) + Passed(b, c)
         /\ \A t \in Nat : /\ Spent(t) \in Nat
                           /\ b <= a /\ a - b <= t =>
                                Passed(a, b) <= Spent(t) + Milli
                           /\ a = t + b => Spent(t) <= Passed(a, b)
         /\ b <= a => Passed(a, b) >= 0
         /\ Passed(a, a) = 0
<1> DEFINE x == a \div Second
           y == b \div Second
<1>1. x \in Int /\ y \in Int
  BY Units, Division
<1>2. Passed(a, b) = (a - b) + (x - y) * Milli /\ (x - y) * Milli \in Int
  BY <1>1, Units DEF Passed
<1>3. Passed(a, b) \in Int
  <2> DEFINE w == (x - y) * Milli
  <2>1. w \in Int /\ Passed(a, b) = (a - b) + w
    BY <1>2
  <2> HIDE DEF w
  <2>2. QED
    BY <2>1
<1>4. ASSUME NEW c \in Int
      PROVE  Passed(a, c) = Passed(a, b) + Passed(b, c)
  <2> DEFINE z == c \div Second
  <2>1. z \in Int
    BY Units, Division
  <2>2. /\ Passed(a, c) = (a - c) + (x - z) * Milli
        /\ Passed(b, c) = (b - c) + (y - z) * Milli
    BY DEF Passed
  <2> HIDE DEF x, y, z
  <2>3. (x - z) * Milli = (x - y) * Milli + (y - z) * Milli
    BY <1>1, <2>1, Units
  <2> DEFINE u == (x - y) * Milli
             v == (y - z) * Milli
  <2>4. /\ u \in Int /\ v \in Int /\ Passed(a, b) = (a - b) + u
        /\ Passed(b, c) = (b - c) + v /\ Passed(a, c) = (a - c) + (u + v)
    BY <1>1, <1>2, <2>1, <2>2, <2>3, Units
  <2> HIDE DEF u, v
  <2>5. QED
    BY <2>4
<1>5. ASSUME NEW t \in Nat
      PROVE  /\ Spent(t) \in Nat
             /\ b <= a /\ a - b <= t => Passed(a, b) <= Spent(t) + Milli
             /\ a = t + b => Spent(t) <= Passed(a, b)
  <2> DEFINE k == t \div Second
  <2>1. k \in Nat
    BY Units
  <2>2. Spent(t) = t + k * Milli
    BY DEF Spent
  <2> DEFINE d == a - b
  <2>3. d \in Int /\ d + b = a
    OBVIOUS
  <2>4. x <= d \div Second + y + 1 /\ d \div Second \in Int
        /\ (d \div Second) + y <= x
    <3> HIDE DEF d
    <3>1. /\ (d + b) \div Second <= d \div Second + b \div Second + 1
          /\ (d \div Second) + (b \div Second) <= (d + b) \div Second
          /\ d \div Second \in Int
      BY <2>3, Units, SecondsOfSum, Division
    <3>2. QED
      BY <2>3, <3>1
  <2>5. d <= t => d \div Second <= k
    <3> HIDE DEF d
    <3>1. QED
      BY <2>3, Units, SecondsOrdered
  <2>6. a = t + b => d = t
    OBVIOUS
  <2> DEFINE q == d \div Second
  <2>7. /\ q \in Int /\ x - y <= q + 1 /\ q <= x - y
        /\ d <= t => q <= k
        /\ d = t => q = k
    <3>1. q \in Int /\ x <= q + y + 1 /\ q + y <= x /\ (d <= t => q <= k)
      BY <2>4, <2>5
    <3>2. d = t => q = k
      OBVIOUS
    <3> HIDE DEF q, x, y, k, d
    <3>3. QED
      BY <1>1, <3>1, <3>2
  <2> HIDE DEF q, x, y, k
  <2>8. ASSUME d <= t PROVE (x - y) * Milli <= (k + 1) * Milli
    <3>1. x - y <= k + 1
      BY <1>1, <2>1, <2>7, <2>8
    <3>2. x - y \in Int /\ k + 1 \in Int
      BY <1>1, <2>1
    <3>3. QED
      BY <3>1, <3>2, Units, ProductGrows
  <2>9. ASSUME d = t PROVE k * Milli <= (x - y) * Milli
    <3>1. k <= x - y
      BY <1>1, <2>1, <2>7, <2>9
    <3>2. x - y \in Int /\ k \in Int
      BY <1>1, <2>1
    <3>3. QED
      BY <3>1, <3>2, Units, ProductGrows
  <2> DEFINE u == (x - y) * Milli
             v == k * Milli
  <2>10. u \in Int /\ v \in Nat /\ (k + 1) * Milli = v + Milli
    BY <1>1, <2>1, Units
  <2>11. /\ Passed(a, b) = d + u /\ Spent(t) = t + v
         /\ d <= t => u <= v + Milli
         /\ d = t => v <= u
    BY <1>2, <2>2, <2>8, <2>9, <2>10
  <2>12. d \in Int /\ (a = t + b => d = t) /\ (a - b <= t => d <= t)
    BY <2>3, <2>6
  <2> HIDE DEF u, v, d
  <2>13. QED
    BY <2>10, <2>11, <2>12, Units
<1>6. b <= a => Passed(a, b) >= 0
  <2>1. SUFFICES ASSUME b <= a
                 PROVE  Passed(a, b) >= 0
    OBVIOUS
  <2>2. y <= x
    BY <2>1, Units, SecondsOrdered
  <2> DEFINE w == (x - y) * Milli
  <2>3. w >= 0 /\ w \in Int /\ Passed(a, b) = (a - b) + w
    <3>1. x - y \in Nat
      <4> HIDE DEF x, y
      <4>1. QED
        BY <1>1, <2>2
    <3>2. (x - y) * Milli \in Nat
      BY <3>1, Units, Product
    <3>3. QED
      BY <1>2, <3>2
  <2> HIDE DEF w
  <2>4. QED
    BY <2>1, <2>3
<1>7. Passed(a, a) = 0
  <2>1. Passed(a, a) = (a - a) + (x - x) * Milli
    BY DEF Passed
  <2> HIDE DEF x
  <2>2. QED
    BY <1>1, <2>1, Units
<1>8. QED
  BY <1>3, <1>4, <1>5, <1>6, <1>7

(* More time is worth no less.                                             *)
LEMMA SpentGrows ==
  ASSUME NEW s \in Nat, NEW t \in Nat, s <= t
  PROVE  Spent(s) <= Spent(t) /\ Spent(s) \in Nat /\ Spent(t) \in Nat
<1> DEFINE x == s \div Second
           y == t \div Second
<1>1. x \in Nat /\ y \in Nat /\ x <= y
  BY Units, SecondsOrdered
<1>2. Spent(s) = s + x * Milli /\ Spent(t) = t + y * Milli
  BY DEF Spent
<1> HIDE DEF x, y
<1>3. x * Milli <= y * Milli /\ x * Milli \in Nat /\ y * Milli \in Nat
  BY <1>1, Units, ProductGrows, Product
<1> DEFINE u == x * Milli
           v == y * Milli
<1>4. u <= v /\ u \in Nat /\ v \in Nat /\ Spent(s) = s + u /\ Spent(t) = t + v
  BY <1>2, <1>3
<1> HIDE DEF u, v
<1>5. QED
  BY <1>4

(* The excess falls with what is in flight, and is nothing up to the       *)
(* preload; one probe more, or one time fewer that the clock was set, adds *)
(* MININTERVAL.                                                            *)
LEMMA ExcessGrows ==
  ASSUME NEW l \in Int, NEW j \in Int
  PROVE  /\ Excess(l, j) \in Int /\ Excess(l, j - 1) \in Int
         /\ Excess(l + 1, j) = Excess(l, j) + MININTERVAL * Milli
         /\ Excess(l, j - 1) = Excess(l + 1, j)
         /\ Excess(l, j) <= Excess(l, j - 1)
         /\ \A k \in Int : k <= l => Excess(k, j) <= Excess(l, j)
         /\ l <= Preload + j => Excess(l, j) <= 0
<1> DEFINE m == MININTERVAL * Milli
<1>1. m \in Nat
  BY Units, Product
<1>2. \A k \in Int : \A i \in Int : Excess(k, i) = (k - Preload - i) * m
  BY DEF Excess
<1> HIDE DEF m
<1>3. l - Preload - j \in Int /\ (l + 1) - Preload - j = (l - Preload - j) + 1
      /\ l - Preload - (j - 1) = (l - Preload - j) + 1
  BY Units
<1> DEFINE e == l - Preload - j
<1>4. e \in Int /\ e * m \in Int /\ (e + 1) * m = e * m + m
  <2>1. e \in Int
    BY <1>3
  <2> HIDE DEF e
  <2>2. QED
    BY <1>1, <2>1
<1>5. j - 1 \in Int /\ l + 1 \in Int
  OBVIOUS
<1>6. /\ Excess(l, j) = e * m /\ Excess(l + 1, j) = (e + 1) * m
      /\ Excess(l, j - 1) = (e + 1) * m
  BY <1>2, <1>3, <1>5
<1>7. ASSUME NEW k \in Int, k <= l
      PROVE  Excess(k, j) <= Excess(l, j)
  <2>1. k - Preload - j <= e /\ k - Preload - j \in Int
    BY <1>7, Units
  <2> HIDE DEF e
  <2>2. (k - Preload - j) * m <= e * m
    BY <1>1, <1>4, <2>1, ProductGrows
  <2>3. QED
    BY <1>2, <1>6, <2>2
<1>8. ASSUME l <= Preload + j PROVE Excess(l, j) <= 0
  <2>1. e <= 0
    BY <1>8, Units
  <2> HIDE DEF e
  <2>2. e * m <= 0 * m /\ 0 * m = 0
    BY <1>1, <1>4, <2>1, ProductGrows
  <2>3. QED
    BY <1>4, <1>6, <2>2
<1> HIDE DEF e
<1> DEFINE x == e * m
<1>9. /\ x \in Int /\ Excess(l, j) = x /\ Excess(l + 1, j) = x + m
      /\ Excess(l, j - 1) = x + m
  BY <1>4, <1>6
<1> HIDE DEF x
<1>10. Excess(l, j) <= Excess(l, j - 1)
  BY <1>1, <1>9
<1>11. Excess(l + 1, j) = Excess(l, j) + MININTERVAL * Milli
  BY <1>9 DEF m
<1>12. Excess(l, j - 1) \in Int
  BY <1>1, <1>9
<1>13. QED
  BY <1>7, <1>8, <1>9, <1>10, <1>11, <1>12

-----------------------------------------------------------------------------
(* RateBound.  Each probe costs a Step at least, and what the bucket holds *)
(* is still to be spent.  While the clock is steady both are paid by the   *)
(* preload, by an allowance for each time the clock was set before, and by *)
(* what the clock has shown to pass.  Once it has been set again nothing   *)
(* is known of what the bucket holds, and only what was taken is counted,  *)
(* until the bucket is filled: that is what takes the next allowance.      *)

Rated == mode.adaptive => mode.uid

Step == IF mode.adaptive THEN MINUSERINTERVAL ELSE interval

Taken == IF pc = "send" THEN interval ELSE 0

RateInv ==
  Rated /\ cur_time # Unset =>
    /\ steady =>
         Owed(ntransmitted, Step, tokens + Taken)
           <= Allowed(jumps, peak) + Saved(peak) + Passed(cur_time, offset)
    /\ ~steady =>
         Owed(ntransmitted, Step, Taken) <= Allowed(jumps, peak) + Spent(now)

(* The types of the amounts.                                               *)
LEMMA Amounts ==
  ASSUME TypeOK
  PROVE  /\ Step \in Nat /\ Taken \in Nat /\ tokens + Taken \in Nat
         /\ cur_time \in Int /\ offset \in Int /\ interval \in Nat
         /\ ntransmitted \in Nat /\ jumps \in Nat /\ peak \in Nat
         /\ now \in Nat /\ tokens \in Nat
<1>1. Step \in Nat /\ Taken \in Nat
  BY Units DEF Step, Taken, TypeOK
<1>2. QED
  BY <1>1 DEF TypeOK, Unset

(* No probe costs more than the interval it was let out at, and the cost   *)
(* of one does not change.                                                 *)
LEMMA StepCosts ==
  ASSUME TypeOK, IntervalInv, Rated
  PROVE  Step <= interval
BY DEF TypeOK, IntervalInv, Rated, Step

LEMMA StepStays ==
  ASSUME TypeOK, IntervalInv, [Next]_vars
  PROVE  Step' = Step /\ (Rated' <=> Rated)
BY IntervalStep DEF Step, Rated

(* A step that leaves cur_time and the clock's setting alone, and pays for *)
(* a probe that counts from what was taken for it.                         *)
LEMMA RateKept ==
  ASSUME TypeOK, TypeOK', IntervalInv, RateInv, [Next]_vars,
         cur_time' = cur_time, offset' = offset,
         steady' = steady, jumps' = jumps, now <= now',
         \/ /\ ntransmitted' = ntransmitted /\ Taken' <= Taken
            /\ tokens' + Taken' <= tokens + Taken
         \/ /\ ntransmitted' = ntransmitted + 1 /\ Taken' + Step <= Taken
            /\ tokens' + Taken' + Step <= tokens + Taken
  PROVE  RateInv'
<1> SUFFICES ASSUME Rated, cur_time # Unset
             PROVE  /\ steady =>
                         Owed(ntransmitted', Step, tokens' + Taken')
                           <= Allowed(jumps, peak') + Saved(peak')
                                + Passed(cur_time, offset)
                    /\ ~steady =>
                         Owed(ntransmitted', Step, Taken')
                           <= Allowed(jumps, peak') + Spent(now')
  BY StepStays DEF RateInv
<1>1. /\ Step \in Nat /\ Taken \in Nat /\ tokens + Taken \in Nat
      /\ cur_time \in Int /\ offset \in Int
      /\ ntransmitted \in Nat /\ jumps \in Nat /\ peak \in Nat /\ now \in Nat
  BY Amounts
<1>2. /\ Taken' \in Nat /\ tokens' + Taken' \in Nat /\ peak' \in Nat
      /\ now' \in Nat /\ ntransmitted' \in Nat
  <2>1. /\ interval' \in Nat /\ tokens' \in Nat /\ peak' \in Nat
        /\ now' \in Nat /\ ntransmitted' \in Nat
    BY DEF TypeOK
  <2>2. Taken' = IF pc' = "send" THEN interval' ELSE 0
    BY DEF Taken
  <2>3. Taken' \in Nat
    BY <2>1, <2>2
  <2>4. ASSUME NEW a \in Nat, NEW b \in Nat
        PROVE  a + b \in Nat
    OBVIOUS
  <2>5. tokens' + Taken' \in Nat
    BY <2>1, <2>3, <2>4
  <2>6. QED
    BY <2>1, <2>3, <2>5
<1>3. /\ Owed(ntransmitted', Step, tokens' + Taken')
           <= Owed(ntransmitted, Step, tokens + Taken)
      /\ Owed(ntransmitted', Step, Taken') <= Owed(ntransmitted, Step, Taken)
  BY <1>1, <1>2, OwedFalls
<1>4. /\ Allowed(jumps, peak) <= Allowed(jumps, peak')
      /\ Saved(peak) <= Saved(peak')
  BY <1>1, <1>2, IntervalStep, AllowedGrows, SavedGrows
<1>5. Spent(now) <= Spent(now')
  BY <1>1, <1>2, SpentGrows
<1>6. /\ Owed(ntransmitted, Step, tokens + Taken) \in Int
      /\ Owed(ntransmitted', Step, tokens' + Taken') \in Int
      /\ Owed(ntransmitted, Step, Taken) \in Int
      /\ Owed(ntransmitted', Step, Taken') \in Int
  <2>1. ASSUME NEW n \in Nat, NEW h \in Nat
        PROVE  Owed(n, Step, h) \in Int
    BY <1>1, OwedIs
  <2>2. QED
    BY <1>1, <1>2, <2>1
<1>7. /\ Allowed(jumps, peak) \in Int /\ Allowed(jumps, peak') \in Int
      /\ Saved(peak) \in Int /\ Saved(peak') \in Int
      /\ Spent(now) \in Int /\ Spent(now') \in Int
      /\ Passed(cur_time, offset) \in Int
  <2>1. ASSUME NEW p \in Nat, NEW t \in Nat
        PROVE  /\ Allowed(jumps, p) \in Int /\ Saved(p) \in Int
               /\ Spent(t) \in Int
    <3>1. Saved(p) \in Nat /\ Allowed(jumps, p) \in Nat
      BY <1>1, AllowedGrows, SavedGrows
    <3>2. Spent(t) \in Nat
      BY SpentGrows
    <3>3. QED
      BY <3>1, <3>2
  <2>2. Passed(cur_time, offset) \in Int
    BY <1>1, PassedAndSpent
  <2>3. QED
    BY <1>1, <1>2, <2>1, <2>2
<1>8. /\ steady => Owed(ntransmitted, Step, tokens + Taken)
                     <= Allowed(jumps, peak) + Saved(peak)
                          + Passed(cur_time, offset)
      /\ ~steady => Owed(ntransmitted, Step, Taken)
                      <= Allowed(jumps, peak) + Spent(now)
  BY DEF RateInv
<1>9. QED
  BY <1>3, <1>4, <1>5, <1>6, <1>7, <1>8

(* What the clock may have shown to pass, at most.                         *)
LEMMA SteadyTime ==
  ASSUME TypeOK, ClockInv, steady, cur_time # Unset
  PROVE  /\ Passed(cur_time, offset) <= Spent(now) + Milli
         /\ Passed(cur_time, offset) >= 0
<1>1. /\ cur_time \in Int /\ offset \in Int /\ now \in Nat
  BY Amounts
<1>2. offset <= cur_time /\ cur_time - offset <= now
  <2>1. offset <= cur_time /\ cur_time <= now + offset
    BY DEF ClockInv, Clock
  <2>2. QED
    BY <1>1, <2>1
<1>3. QED
  BY <1>1, <1>2, PassedAndSpent

(* Setting the clock is one allowance more, and what the bucket holds is   *)
(* counted no longer.                                                      *)
LEMMA RateJumps ==
  ASSUME TypeOK, ClockInv, RateInv, Rated, cur_time # Unset
  PROVE  Owed(ntransmitted, Step, Taken)
           <= Allowed(jumps + 1, peak) + Spent(now)
<1>1. /\ Step \in Nat /\ Taken \in Nat /\ tokens + Taken \in Nat
      /\ ntransmitted \in Nat /\ jumps \in Nat /\ peak \in Nat /\ now \in Nat
      /\ cur_time \in Int /\ offset \in Int /\ tokens \in Nat
  BY Amounts
<1>2. /\ Allowed(jumps + 1, peak) = Allowed(jumps, peak) + Saved(peak) + Milli
      /\ Allowed(jumps, peak) \in Nat /\ Saved(peak) \in Nat
      /\ Spent(now) \in Nat
      /\ Passed(cur_time, offset) \in Int
  BY <1>1, AllowedGrows, SavedGrows, PassedAndSpent
<1>3. /\ Owed(ntransmitted, Step, Taken) \in Int
      /\ Owed(ntransmitted, Step, tokens + Taken) \in Int
      /\ Owed(ntransmitted, Step, Taken)
           <= Owed(ntransmitted, Step, tokens + Taken)
  <2>1. Taken <= tokens + Taken
    BY <1>1
  <2>2. ASSUME NEW h \in Nat
        PROVE  Owed(ntransmitted, Step, h) \in Int
    BY <1>1, OwedIs
  <2>3. Owed(ntransmitted, Step, Taken)
          <= Owed(ntransmitted, Step, tokens + Taken)
    BY <1>1, <2>1, OwedFalls
  <2>4. QED
    BY <1>1, <2>2, <2>3
<1>4. CASE steady
  <2>1. Passed(cur_time, offset) <= Spent(now) + Milli
    BY <1>4, SteadyTime
  <2>2. Owed(ntransmitted, Step, tokens + Taken)
          <= Allowed(jumps, peak) + Saved(peak) + Passed(cur_time, offset)
    BY <1>4 DEF RateInv
  <2>3. QED
    BY <1>2, <1>3, <2>1, <2>2, Units
<1>5. CASE ~steady
  <2>1. Owed(ntransmitted, Step, Taken) <= Allowed(jumps, peak) + Spent(now)
    BY <1>5 DEF RateInv
  <2>2. QED
    BY <1>2, <1>3, <2>1, Units
<1>6. QED
  BY <1>4, <1>5 DEF TypeOK

(* Filling the bucket: on a steady clock by what has passed, and otherwise *)
(* to the preload.                                                         *)
LEMMA RateFilled ==
  ASSUME TypeOK, ClockInv, IntervalInv, RateInv, Rated, cur_time # Unset,
         pc = "call", ntokens >= interval
  PROVE  Owed(ntransmitted, Step, ntokens)
           <= Allowed(jumps, peak) + Saved(peak) + Passed(Clock, offset)
<1>1. /\ Step \in Nat /\ Taken = 0 /\ tokens \in Nat /\ interval \in Nat
      /\ ntransmitted \in Nat /\ jumps \in Nat /\ peak \in Nat /\ now \in Nat
      /\ cur_time \in Int /\ offset \in Int
  BY Amounts DEF Taken
<1>2. /\ ntokens \in Nat /\ ntokens <= Elapsed + tokens
      /\ ntokens <= interval * Preload /\ Elapsed \in Int
      /\ interval * Preload \in Nat
  <2>1. /\ ntokens \in Int /\ ntokens <= Elapsed + tokens
        /\ ntokens <= interval * Preload /\ Elapsed \in Int
    BY BucketBounds, ElapsedBounds
  <2>2. ntokens >= 0
    BY <1>1, <2>1
  <2>3. QED
    BY <1>1, <2>1, <2>2, Units, Product
<1>3. /\ Allowed(jumps, peak) \in Nat /\ Saved(peak) \in Nat
      /\ Spent(now) \in Nat
  BY <1>1, AllowedGrows, SavedGrows, PassedAndSpent
<1>4. Clock \in Int /\ Clock = now + offset
  BY Readings
<1>5. /\ Owed(ntransmitted, Step, ntokens)
           = ntransmitted * Step * Milli + ntokens * Milli
      /\ Owed(ntransmitted, Step, tokens)
           = ntransmitted * Step * Milli + tokens * Milli
      /\ Owed(ntransmitted, Step, 0) = ntransmitted * Step * Milli
      /\ Owed(ntransmitted, Step, 0) \in Nat
  <2>1. ASSUME NEW h \in Nat
        PROVE  /\ Owed(ntransmitted, Step, h) \in Nat
               /\ Owed(ntransmitted, Step, h)
                    = ntransmitted * Step * Milli + h * Milli
               /\ Owed(ntransmitted, Step, 0) = ntransmitted * Step * Milli
    BY <1>1, OwedIs
  <2>2. 0 \in Nat
    OBVIOUS
  <2>3. QED
    BY <1>1, <1>2, <2>1, <2>2
<1> DEFINE c == ntransmitted * Step * Milli
           x == ntokens * Milli
           y == tokens * Milli
           z == Elapsed * Milli
<1>6. c \in Nat /\ x \in Nat /\ y \in Nat /\ z \in Int
  BY <1>1, <1>2, <1>5, Units, Product
<1>7. x <= z + y
  <2>1. ntokens * Milli <= (Elapsed + tokens) * Milli
    BY <1>1, <1>2, Units, ProductGrows
  <2>2. (Elapsed + tokens) * Milli = z + y
    BY <1>1, <1>2, Units
  <2>3. QED
    BY <2>1, <2>2
<1>8. x <= Saved(peak)
  <2>1. interval * Preload <= peak * Preload
    BY <1>1, Units, ProductGrows DEF IntervalInv
  <2>2. peak * Preload \in Nat
    BY <1>1, Units, Product
  <2>3. ntokens <= peak * Preload
    BY <1>2, <2>1, <2>2
  <2>4. ntokens * Milli <= (peak * Preload) * Milli
    BY <1>2, <2>2, <2>3, Units, ProductGrows
  <2>5. (peak * Preload) * Milli = Saved(peak)
    <3>1. peak * Preload = Preload * peak
      BY <1>1, Units
    <3>2. QED
      BY <3>1 DEF Saved
  <2>6. QED
    BY <2>4, <2>5
<1>9. /\ Owed(ntransmitted, Step, ntokens) = c + x
      /\ Owed(ntransmitted, Step, tokens) = c + y
      /\ Owed(ntransmitted, Step, 0) = c
  BY <1>5
<1>10. CASE steady
  <2>1. cur_time <= Clock
    BY <1>10 DEF ClockInv
  <2>2. z <= Passed(Clock, cur_time)
    BY <2>1, ElapsedBounds DEF Passed
  <2>3. /\ Passed(Clock, offset)
             = Passed(Clock, cur_time) + Passed(cur_time, offset)
        /\ Passed(Clock, cur_time) \in Int /\ Passed(cur_time, offset) \in Int
        /\ Passed(Clock, offset) \in Int
    BY <1>1, <1>4, PassedAndSpent
  <2>4. tokens + Taken = tokens
    BY <1>1
  <2>5. c + y <= Allowed(jumps, peak) + Saved(peak) + Passed(cur_time, offset)
    BY <1>9, <1>10, <2>4 DEF RateInv
  <2> HIDE DEF c, x, y, z
  <2>6. c + x <= Allowed(jumps, peak) + Saved(peak) + Passed(Clock, offset)
    BY <1>3, <1>6, <1>7, <2>2, <2>3, <2>5
  <2>7. QED
    BY <1>9, <2>6
<1>11. CASE ~steady
  <2>1. c <= Allowed(jumps, peak) + Spent(now)
    BY <1>1, <1>9, <1>11 DEF RateInv
  <2>2. Spent(now) <= Passed(Clock, offset) /\ Passed(Clock, offset) \in Int
    BY <1>1, <1>4, PassedAndSpent
  <2> HIDE DEF c, x, y, z
  <2>3. c + x <= Allowed(jumps, peak) + Saved(peak) + Passed(Clock, offset)
    BY <1>3, <1>6, <1>8, <2>1, <2>2
  <2>4. QED
    BY <1>9, <2>3
<1>12. QED
  BY <1>10, <1>11 DEF TypeOK

(* Every step keeps the account.                                           *)
LEMMA RateStep ==
  ASSUME TypeOK, TypeOK', ClockInv, IntervalInv, RateInv, [Next]_vars
  PROVE  RateInv'
<1>0. /\ Step \in Nat /\ Taken \in Nat /\ tokens \in Nat /\ interval \in Nat
      /\ now \in Nat /\ ntransmitted \in Nat /\ jumps \in Nat
      /\ peak \in Nat /\ cur_time \in Int /\ offset \in Int
  BY Amounts
<1>1. Step' = Step /\ (Rated' <=> Rated)
  BY StepStays
<1>2. now <= now
  BY <1>0
<1>3. pc = "call" => Taken = 0
  BY DEF Taken
<1>4. pc' = "call" => Taken' = 0
  BY DEF Taken
<1>5. pc = "send" => Taken = interval
  BY DEF Taken
<1>6. CASE TakeFirst
  <2>1. SUFFICES Owed(0, Step, tokens' + Taken')
                   <= Allowed(0, peak) + Saved(peak) + Passed(Clock, offset)
    <3>1. /\ steady' = TRUE /\ cur_time' = Clock /\ offset' = offset
          /\ ntransmitted' = 0 /\ jumps' = 0 /\ peak' = peak
      BY <1>6 DEF TakeFirst, ClockInv, countVars
    <3>2. QED
      BY <1>1, <2>1, <3>1 DEF RateInv
  <2>2. tokens' = interval * (Preload - 1) /\ Taken' = interval
    BY <1>6 DEF TakeFirst, Taken
  <2>3. tokens' + Taken' = interval * Preload
    <3>1. interval * (Preload - 1) + interval = interval * Preload
      BY <1>0, Units
    <3>2. QED
      BY <2>2, <3>1
  <2>4. interval * Preload \in Nat /\ 0 \in Nat
    BY <1>0, Units, Product
  <2>5. Owed(0, Step, interval * Preload) = (interval * Preload) * Milli
    <3> DEFINE h == interval * Preload
    <3>1. h \in Nat
      BY <2>4
    <3> HIDE DEF h
    <3>2. h * Milli \in Nat /\ 0 * Step = 0
      BY <1>0, <3>1, Units, Product
    <3>3. 0 * Milli = 0
      BY Units
    <3>4. 0 * Step * Milli + h * Milli = h * Milli
      BY <3>2, <3>3
    <3>5. QED
      BY <3>4 DEF Owed, h
  <2>6. (interval * Preload) * Milli <= Saved(peak)
    <3>1. interval * Preload <= peak * Preload /\ peak * Preload \in Nat
      BY <1>0, Units, ProductGrows, Product DEF IntervalInv
    <3>2. (interval * Preload) * Milli <= (peak * Preload) * Milli
      BY <2>4, <3>1, Units, ProductGrows
    <3>3. peak * Preload = Preload * peak
      BY <1>0, Units
    <3>4. QED
      BY <3>2, <3>3 DEF Saved
  <2>7. Passed(Clock, offset) \in Int /\ Passed(Clock, offset) >= 0
    <3>1. Clock \in Int /\ offset <= Clock
      BY <1>0, Readings
    <3>2. QED
      BY <1>0, <3>1, PassedAndSpent
  <2>8. Allowed(0, peak) \in Nat /\ Saved(peak) \in Nat
    BY <1>0, <2>4, AllowedGrows, SavedGrows
  <2> DEFINE o == (interval * Preload) * Milli
  <2>9. o \in Nat
    BY <2>4, Units, Product
  <2>10. o <= Saved(peak)
    BY <2>6
  <2> HIDE DEF o
  <2>11. o <= Allowed(0, peak) + Saved(peak) + Passed(Clock, offset)
    BY <2>7, <2>8, <2>9, <2>10
  <2>12. QED
    BY <2>3, <2>5, <2>11 DEF o
<1>7. CASE TakeTokens
  <2>1. /\ steady' = TRUE /\ cur_time' = Clock /\ offset' = offset
        /\ ntransmitted' = ntransmitted /\ jumps' = jumps /\ peak' = peak
        /\ pc = "call" /\ cur_time # Unset /\ ntokens >= interval
    BY <1>7 DEF TakeTokens, countVars
  <2>2. tokens' = ntokens - interval /\ Taken' = interval
    BY <1>7 DEF TakeTokens, Taken
  <2>3. tokens' + Taken' = ntokens
    <3>1. ntokens \in Int
      BY <2>1, BucketBounds
    <3>2. (ntokens - interval) + interval = ntokens
      BY <1>0, <3>1
    <3>3. QED
      BY <2>2, <3>2
  <2>4. Rated => Owed(ntransmitted, Step, ntokens)
                   <= Allowed(jumps, peak) + Saved(peak) + Passed(Clock, offset)
    BY <2>1, RateFilled
  <2>5. QED
    BY <1>1, <2>1, <2>3, <2>4 DEF RateInv
<1>8. CASE FloodWait \/ NoTokens
  <2>1. /\ UNCHANGED <<bucketVars, countVars, clockVars>>
        /\ pc = "call" /\ pc' = "call"
    BY <1>8 DEF FloodWait, NoTokens, Returns
  <2>2. /\ ntransmitted' = ntransmitted /\ Taken' = Taken /\ Taken' <= Taken
        /\ tokens' + Taken' <= tokens + Taken
    BY <1>0, <1>3, <1>4, <2>1 DEF bucketVars, countVars
  <2>3. QED
    BY <1>2, <2>1, <2>2, RateKept DEF bucketVars, clockVars
<1>9. CASE ~Rated
  BY <1>1, <1>9 DEF RateInv
<1>10. ASSUME Rated, pc = "send", pc' = "call", tokens' <= tokens,
              tokens' \in Nat, ntransmitted' = ntransmitted + 1,
              UNCHANGED <<cur_time, clockVars>>
       PROVE  RateInv'
  <2>1. Step <= interval
    BY <1>10, StepCosts
  <2>2. /\ Taken' + Step <= Taken
        /\ tokens' + Taken' + Step <= tokens + Taken
    <3>1. ASSUME NEW x \in Nat, NEW y \in Nat, NEW b \in Nat, NEW c \in Nat,
                 x <= y, b <= c
          PROVE  0 + b <= c /\ x + 0 + b <= y + c
      BY <3>1
    <3>2. Taken' = 0 /\ Taken = interval
      BY <1>4, <1>5, <1>10
    <3>3. QED
      BY <1>0, <1>10, <2>1, <3>1, <3>2
  <2>3. QED
    BY <1>2, <1>10, <2>2, RateKept DEF clockVars
<1>11. CASE Rated /\ Sent
  <2>1. tokens' = tokens /\ UNCHANGED <<cur_time, clockVars>>
    BY <1>11 DEF Sent, bucketVars
  <2>2. tokens' <= tokens /\ tokens' \in Nat
    BY <1>0, <2>1
  <2>3. ntransmitted' = ntransmitted + 1 /\ pc = "send" /\ pc' = "call"
    BY <1>11 DEF Sent, AdvanceNtransmitted, ReturnsAfter
  <2>4. QED
    BY <1>10, <1>11, <2>1, <2>2, <2>3
<1>12. CASE Rated /\ HardError
  <2>1. tokens' = 0 /\ UNCHANGED <<cur_time, clockVars>>
    BY <1>12 DEF HardError
  <2>2. tokens' <= tokens /\ tokens' \in Nat
    BY <1>0, <2>1
  <2>3. ntransmitted' = ntransmitted + 1 /\ pc = "send" /\ pc' = "call"
    BY <1>12 DEF HardError, AdvanceNtransmitted, ReturnsAfter
  <2>4. QED
    BY <1>10, <1>12, <2>1, <2>2, <2>3
<1>13. ASSUME pc = "send", pc' = "call",
              \/ tokens' = tokens + interval
              \/ tokens' = tokens \/ tokens' = 0,
              ntransmitted' = ntransmitted, UNCHANGED <<cur_time, clockVars>>
       PROVE  RateInv'
  <2>1. Taken' = 0 /\ Taken = interval
    BY <1>4, <1>5, <1>13
  <2>2. tokens' \in Nat /\ tokens' <= tokens + interval
    BY <1>0, <1>13
  <2>3. Taken' <= Taken /\ tokens' + Taken' <= tokens + Taken
    <3>1. ASSUME NEW a \in Nat, NEW b \in Nat, NEW c \in Nat, a <= b + c
          PROVE  0 <= c /\ a + 0 <= b + c
      BY <3>1
    <3>2. QED
      BY <1>0, <2>1, <2>2, <3>1
  <2>4. QED
    BY <1>2, <1>13, <2>3, RateKept DEF clockVars
<1>14. CASE SocketFull \/ ShortSend
  BY <1>13, <1>14
  DEF SocketFull, ShortSend, Refund, ReturnsAfter, bucketVars, countVars
<1>15. CASE NoBuffers
  BY <1>13, <1>15 DEF NoBuffers, countVars
<1>16. ASSUME NEW i \in 1 .. ntransmitted, ErrorArrived(i)
       PROVE  RateInv'
  BY <1>13, <1>16 DEF ErrorArrived, Refund, ReturnsAfter
<1>17. ASSUME NEW i \in 1 .. ntransmitted, Answer(i)
       PROVE  RateInv'
  <2>1. /\ pc = "call" /\ pc' = "call" /\ tokens' = tokens
        /\ ntransmitted' = ntransmitted /\ UNCHANGED <<cur_time, clockVars>>
    BY <1>17 DEF Answer
  <2>2. Taken' <= Taken /\ tokens' + Taken' <= tokens + Taken
    BY <1>0, <1>3, <1>4, <2>1
  <2>3. QED
    BY <1>2, <2>1, <2>2, RateKept DEF clockVars
<1>18. CASE Tick
  <2>1. /\ now' = now + 1
        /\ UNCHANGED <<pc, bucketVars, countVars, offset, steady, jumps>>
    BY <1>18 DEF Tick
  <2>2. Taken' = Taken /\ tokens' = tokens
    BY <2>1 DEF Taken, bucketVars
  <2>3. /\ Taken' <= Taken /\ tokens' + Taken' <= tokens + Taken
        /\ now <= now'
    BY <1>0, <2>1, <2>2
  <2>4. QED
    BY <2>1, <2>3, RateKept DEF bucketVars, countVars
<1>19. ASSUME NEW by \in Int, SetClock(by)
       PROVE  RateInv'
  <2>1. /\ cur_time # Unset /\ steady' = FALSE /\ jumps' = jumps + 1
        /\ UNCHANGED <<pc, bucketVars, countVars, now>>
    BY <1>19 DEF SetClock
  <2>2. /\ Taken' = Taken /\ ntransmitted' = ntransmitted /\ peak' = peak
        /\ now' = now
    BY <2>1 DEF Taken, bucketVars, countVars
  <2>3. Rated => Owed(ntransmitted, Step, Taken)
                   <= Allowed(jumps + 1, peak) + Spent(now)
    BY <2>1, RateJumps
  <2>4. QED
    BY <1>1, <2>1, <2>2, <2>3 DEF RateInv
<1>20. ASSUME NEW by \in Jumps
       PROVE  by \in Int /\ -by \in Int
  BY PacingAssumption
<1>21. CASE UNCHANGED vars
  <2>1. Taken' = Taken /\ UNCHANGED <<tokens, bucketVars, countVars, clockVars>>
    BY <1>21 DEF vars, Taken, bucketVars
  <2>2. /\ Taken' <= Taken /\ tokens' + Taken' <= tokens + Taken
    BY <1>0, <2>1
  <2>3. QED
    BY <1>2, <2>1, <2>2, RateKept DEF bucketVars, countVars, clockVars
<1>22. QED
  BY <1>6, <1>7, <1>8, <1>9, <1>11, <1>12, <1>14, <1>15, <1>16, <1>17, <1>18,
     <1>19, <1>20, <1>21 DEF Next

(* What is accounted for, at most: the bound of RateBound.                 *)
LEMMA RateTotal ==
  ASSUME NEW j \in Nat, NEW p \in Nat, NEW t \in Nat
  PROVE  Allowed(j + 1, p) + Spent(t)
           = (1 + j) * Preload * p * Milli + t
               + (t \div Second + 1 + j) * Milli
<1> DEFINE k == t \div Second
           s == Saved(p)
<1>1. k \in Nat /\ s \in Nat
  BY Units, SavedGrows
<1>2. Allowed(j + 1, p) = (j + 1) * (s + Milli) /\ Spent(t) = t + k * Milli
  BY DEF Allowed, Spent
<1>3. (1 + j) * Preload * p * Milli = (j + 1) * s
  <2>1. (1 + j) * Preload * p * Milli = (1 + j) * (Preload * p * Milli)
    <3>1. Preload * p \in Nat
      BY Units, Product
    <3>2. (1 + j) * Preload * p = (1 + j) * (Preload * p)
      BY Units
    <3> DEFINE z == Preload * p
    <3>3. z \in Nat
      BY <3>1
    <3> HIDE DEF z
    <3>4. ((1 + j) * z) * Milli = (1 + j) * (z * Milli)
      BY <3>3, Units
    <3>5. QED
      BY <3>2, <3>4 DEF z
  <2>2. QED
    BY <2>1 DEF Saved
<1> HIDE DEF k, s
<1>4. (j + 1) * (s + Milli) = (j + 1) * s + (j + 1) * Milli
  BY <1>1, Units
<1>5. (k + 1 + j) * Milli = k * Milli + (j + 1) * Milli
  BY <1>1, Units
<1> DEFINE x == (j + 1) * s
           y == (j + 1) * Milli
           z == k * Milli
<1>6. x \in Nat /\ y \in Nat /\ z \in Nat
  BY <1>1, Units, Product
<1>7. /\ Allowed(j + 1, p) + Spent(t) = (x + y) + (t + z)
      /\ (1 + j) * Preload * p * Milli + t + (k + 1 + j) * Milli
           = x + t + (z + y)
  BY <1>2, <1>3, <1>4, <1>5
<1> HIDE DEF x, y, z
<1>8. (x + y) + (t + z) = x + t + (z + y)
  BY <1>6
<1>9. QED
  BY <1>7, <1>8 DEF k

(* The account bounds what was sent.                                       *)
LEMMA RateFollows ==
  ASSUME TypeOK, ClockInv, RateInv
  PROVE  RateBound
<1>1. SUFFICES ASSUME Rated
               PROVE  ntransmitted * Step * Milli
                        <= (1 + jumps) * Preload * peak * Milli + now
                             + (now \div Second + 1 + jumps) * Milli
  BY DEF RateBound, Rounding, Rated, Step
<1>2. /\ Step \in Nat /\ Taken \in Nat /\ ntransmitted \in Nat
      /\ jumps \in Nat /\ peak \in Nat /\ now \in Nat
  BY Amounts
<1>3. SUFFICES Owed(ntransmitted, Step, 0) <= Allowed(jumps + 1, peak) + Spent(now)
  BY <1>2, RateTotal, OwedIs
<1>4. 0 \in Nat /\ 0 <= Taken
  BY <1>2
<1>5. Owed(ntransmitted, Step, 0) <= Owed(ntransmitted, Step, Taken)
  BY <1>2, <1>4, OwedFalls
<1>6. ASSUME NEW h \in Nat
      PROVE  Owed(ntransmitted, Step, h) \in Nat
  BY <1>2, OwedIs
<1>7. /\ Allowed(jumps, peak) \in Nat /\ Saved(peak) \in Nat
      /\ Allowed(jumps + 1, peak) = Allowed(jumps, peak) + Saved(peak) + Milli
      /\ Spent(now) \in Nat
  <2>1. now <= now
    BY <1>2
  <2>2. QED
    BY <1>2, <2>1, AllowedGrows, SavedGrows, SpentGrows
<1>8. CASE cur_time # Unset
  <2>1. Owed(ntransmitted, Step, Taken)
          <= Allowed(jumps + 1, peak) + Spent(now)
    BY <1>1, <1>8, RateJumps
  <2>2. QED
    BY <1>2, <1>4, <1>5, <1>6, <1>7, <2>1, Units
<1>9. CASE cur_time = Unset
  <2>1. ntransmitted = 0
    BY <1>9 DEF ClockInv
  <2>2. 0 * Step * Milli = 0
    <3>1. 0 * Step = 0 /\ 0 * Milli = 0
      BY <1>2, Units
    <3>2. QED
      BY <3>1
  <2>3. Owed(ntransmitted, Step, 0) = 0
    BY <1>2, <2>1, <2>2, OwedIs
  <2>4. QED
    BY <1>7, <2>3, Units
<1>10. QED
  BY <1>8, <1>9

(* Nothing is sent at first.                                               *)
LEMMA InitRate == Init => CountInv /\ ClockInv /\ IntervalInv /\ RateInv
<1> SUFFICES ASSUME Init
             PROVE  CountInv /\ ClockInv /\ IntervalInv /\ RateInv
  OBVIOUS
<1>1. CountInv
  <2>1. in_flight = U16(0) /\ pc = "call"
    BY DEF Init, in_flight
  <2>2. U16(0) = 0
    BY U16Small, HalfWindowSize
  <2>3. QED
    BY <2>1, <2>2, HalfWindowSize DEF CountInv
<1>2. ClockInv
  BY DEF Init, ClockInv
<1>3. IntervalInv
  <2>1. interval \in Nat
    BY PacingAssumption DEF Init
  <2>2. QED
    BY <2>1 DEF Init, IntervalInv
<1>4. RateInv
  BY DEF Init, RateInv
<1>5. QED
  BY <1>1, <1>2, <1>3, <1>4

(* The probes counted as sent never run ahead of the clock by more than    *)
(* the preload and what setting it lets out: RateBound, for every          *)
(* interval, preload, clock and adaptation of the interval.                *)
THEOREM RateIsBounded == Spec => []RateBound
<1> DEFINE I == TypeOK /\ ClockInv /\ IntervalInv /\ RateInv
<1>1. Init => I
  BY InitType, InitRate
<1>2. I /\ [Next]_vars => I'
  BY TypeStep, ClockStep, IntervalStep, RateStep
<1>3. I => RateBound
  BY RateFollows
<1>4. QED
  BY <1>1, <1>2, <1>3, PTL DEF Spec

-----------------------------------------------------------------------------
(* FloodBound.  Without an interval a probe is let out up to the preload,  *)
(* and beyond it when MININTERVAL has passed on the clock.                 *)

Load == IF pc = "send" THEN in_flight + 1 ELSE in_flight

Flooding == interval = 0 /\ ~mode.adaptive

FloodInv ==
  Flooding /\ cur_time # Unset =>
    /\ steady =>
         Excess(Load, jumps) <= Passed(cur_time, offset) + jumps * Milli
    /\ ~steady => Excess(Load, jumps - 1) <= Spent(now) + jumps * Milli

(* Only taking tokens makes room for one more.                             *)
LEMMA LoadFalls ==
  ASSUME TypeOK, TypeOK', CountInv, CountInv',
         \/ pc' = pc /\ UNCHANGED countVars
         \/ pc' = "call" /\ UNCHANGED countVars
         \/ pc = "send" /\ pc' = "call" /\ AdvanceNtransmitted
         \/ pc' = "call" /\ in_flight' <= in_flight
  PROVE  Load' <= Load /\ Load \in Nat /\ Load' \in Nat
<1>1. in_flight \in Nat /\ in_flight' \in Nat
  <2>1. ntransmitted' - acked' \in Int
    BY DEF TypeOK
  <2>2. U16(ntransmitted' - acked') \in Nat
    BY <2>1, U16Type, SeqModAssumption
  <2>3. QED
    BY <2>2, InFlightCounts DEF in_flight
<1>2. Load' = IF pc' = "send" THEN in_flight' + 1 ELSE in_flight'
  BY DEF Load
<1>3. Load \in Nat /\ Load' \in Nat
  <2>1. in_flight + 1 \in Nat /\ in_flight' + 1 \in Nat
    <3>1. \A n \in Nat : n + 1 \in Nat
      OBVIOUS
    <3>2. QED
      BY <1>1, <3>1, Zenon
  <2>2. Load \in Nat
    BY <1>1, <2>1 DEF Load
  <2>3. Load' \in Nat
    BY <1>1, <1>2, <2>1
  <2>4. QED
    BY <2>2, <2>3
<1>4. ASSUME UNCHANGED countVars
      PROVE  in_flight' = in_flight
  BY <1>4 DEF in_flight, countVars
<1>5. CASE pc' = pc /\ UNCHANGED countVars
  BY <1>2, <1>3, <1>4, <1>5 DEF Load
<1>6. CASE pc' = "call" /\ UNCHANGED countVars
  BY <1>1, <1>2, <1>4, <1>6 DEF Load
<1>7. CASE pc = "send" /\ pc' = "call" /\ AdvanceNtransmitted
  <2>1. in_flight' = in_flight + 1
    BY <1>7, AdvanceCounts
  <2>2. QED
    BY <1>1, <1>2, <1>7, <2>1 DEF Load
<1>8. CASE pc' = "call" /\ in_flight' <= in_flight
  BY <1>1, <1>2, <1>8 DEF Load
<1>9. QED
  BY <1>5, <1>6, <1>7, <1>8

(* Without -A no interval becomes none.                                    *)
LEMMA FloodingStays ==
  ASSUME TypeOK, IntervalInv, [Next]_vars
  PROVE  Flooding' => Flooding
BY IntervalStep DEF Flooding

LEMMA FloodKept ==
  ASSUME TypeOK, TypeOK', IntervalInv, FloodInv, [Next]_vars,
         cur_time' = cur_time, offset' = offset,
         steady' = steady, jumps' = jumps, now <= now',
         Load' <= Load, Load \in Nat, Load' \in Nat
  PROVE  FloodInv'
<1> SUFFICES ASSUME Flooding, cur_time # Unset
             PROVE  /\ steady => Excess(Load', jumps)
                                   <= Passed(cur_time, offset) + jumps * Milli
                    /\ ~steady => Excess(Load', jumps - 1)
                                    <= Spent(now') + jumps * Milli
  BY FloodingStays DEF FloodInv
<1>1. /\ jumps \in Nat /\ jumps \in Int /\ jumps - 1 \in Int
      /\ now \in Nat /\ now' \in Nat
      /\ cur_time \in Int /\ offset \in Int
      /\ Load \in Int /\ Load' \in Int
  BY Amounts DEF TypeOK
<1>2. ASSUME NEW j \in Int
      PROVE  /\ Excess(Load', j) <= Excess(Load, j)
             /\ Excess(Load, j) \in Int /\ Excess(Load', j) \in Int
  BY <1>1, ExcessGrows
<1>3. /\ Spent(now) <= Spent(now') /\ Spent(now) \in Nat
      /\ Spent(now') \in Nat
  BY <1>1, SpentGrows
<1>4. Passed(cur_time, offset) \in Int
  BY <1>1, PassedAndSpent
<1>5. jumps * Milli \in Nat
  BY <1>1, Units, Product
<1>6. /\ steady => Excess(Load, jumps)
                     <= Passed(cur_time, offset) + jumps * Milli
      /\ ~steady => Excess(Load, jumps - 1) <= Spent(now) + jumps * Milli
  BY DEF FloodInv
<1> DEFINE w == jumps * Milli
           f == Excess(Load', jumps)
           g == Excess(Load', jumps - 1)
           h == Excess(Load, jumps)
           k == Excess(Load, jumps - 1)
<1>7. /\ w \in Nat /\ f \in Int /\ g \in Int /\ h \in Int /\ k \in Int
      /\ f <= h /\ g <= k
      /\ steady => h <= Passed(cur_time, offset) + w
      /\ ~steady => k <= Spent(now) + w
  BY <1>1, <1>2, <1>5, <1>6
<1> HIDE DEF w, f, g, h, k
<1>8. /\ steady => f <= Passed(cur_time, offset) + w
      /\ ~steady => g <= Spent(now') + w
  BY <1>3, <1>4, <1>7
<1>9. QED
  BY <1>8 DEF w, f, g

(* Setting the clock lets one more out.                                    *)
LEMMA FloodJumps ==
  ASSUME TypeOK, CountInv, ClockInv, FloodInv, Flooding, cur_time # Unset
  PROVE  Excess(Load, jumps) <= Spent(now) + (jumps + 1) * Milli
<1>1. /\ jumps \in Nat /\ jumps \in Int /\ now \in Nat
      /\ cur_time \in Int /\ offset \in Int
  BY Amounts
<1>2. Load \in Int
  BY InFlightCounts DEF Load
<1>3. /\ Excess(Load, jumps) \in Int /\ Excess(Load, jumps - 1) \in Int
      /\ Excess(Load, jumps) <= Excess(Load, jumps - 1)
  BY <1>1, <1>2, ExcessGrows
<1>4. (jumps + 1) * Milli = jumps * Milli + Milli /\ jumps * Milli \in Nat
  BY <1>1, Units, Product
<1>5. Spent(now) \in Nat /\ Passed(cur_time, offset) \in Int
  <2>1. now <= now
    BY <1>1
  <2>2. QED
    BY <1>1, <2>1, SpentGrows, PassedAndSpent
<1> DEFINE w == jumps * Milli
<1>6. w \in Nat /\ (jumps + 1) * Milli = w + Milli
  BY <1>4
<1>7. CASE steady
  <2>1. Excess(Load, jumps) <= Passed(cur_time, offset) + w
    BY <1>7 DEF FloodInv
  <2>2. Passed(cur_time, offset) <= Spent(now) + Milli
    BY <1>7, SteadyTime
  <2> HIDE DEF w
  <2>3. Excess(Load, jumps) <= Spent(now) + (w + Milli)
    BY <1>3, <1>5, <1>6, <2>1, <2>2, Units
  <2>4. QED
    BY <1>6, <2>3
<1>8. CASE ~steady
  <2>1. Excess(Load, jumps - 1) <= Spent(now) + w
    BY <1>8 DEF FloodInv
  <2> HIDE DEF w
  <2>2. Excess(Load, jumps) <= Spent(now) + (w + Milli)
    BY <1>3, <1>5, <1>6, <2>1, Units
  <2>3. QED
    BY <1>6, <2>2
<1>9. QED
  BY <1>7, <1>8 DEF TypeOK

(* A probe let out on the clock, after MININTERVAL or below the preload.   *)
LEMMA FloodTaken ==
  ASSUME TypeOK, CountInv, ClockInv, FloodInv, Flooding, cur_time # Unset,
         pc = "call", ~Unanswered
  PROVE  Excess(in_flight + 1, jumps) <= Passed(Clock, offset) + jumps * Milli
<1>1. /\ jumps \in Nat /\ jumps \in Int /\ now \in Nat
      /\ cur_time \in Int /\ offset \in Int
  BY Amounts
<1>2. in_flight \in Nat /\ in_flight \in Int /\ in_flight + 1 \in Int
      /\ Load = in_flight
  BY InFlightCounts DEF Load
<1>3. Clock \in Int /\ Clock = now + offset /\ offset <= Clock
  BY <1>1, Readings
<1>4. /\ Excess(in_flight, jumps) \in Int
      /\ Excess(in_flight + 1, jumps)
           = Excess(in_flight, jumps) + MININTERVAL * Milli
      /\ Excess(in_flight, jumps - 1) = Excess(in_flight + 1, jumps)
      /\ Excess(in_flight + 1, jumps) \in Int
  BY <1>1, <1>2, ExcessGrows
<1>5. Elapsed \in Int
  BY ElapsedBounds
<1>6. /\ Passed(Clock, offset) \in Int /\ Passed(Clock, offset) >= 0
      /\ Passed(Clock, offset)
           = Passed(Clock, cur_time) + Passed(cur_time, offset)
      /\ Passed(Clock, cur_time) \in Int /\ Passed(cur_time, offset) \in Int
      /\ Spent(now) <= Passed(Clock, offset) /\ Spent(now) \in Nat
  <2>1. /\ Passed(Clock, offset) \in Int /\ Passed(Clock, offset) >= 0
        /\ Passed(Clock, cur_time) \in Int /\ Passed(cur_time, offset) \in Int
    BY <1>1, <1>3, PassedAndSpent
  <2>2. Passed(Clock, offset)
          = Passed(Clock, cur_time) + Passed(cur_time, offset)
    BY <1>1, <1>3, PassedAndSpent
  <2>3. Spent(now) <= Passed(Clock, offset) /\ Spent(now) \in Nat
    BY <1>1, <1>3, PassedAndSpent
  <2>4. QED
    BY <2>1, <2>2, <2>3
<1> DEFINE w == jumps * Milli
           m == MININTERVAL * Milli
           z == Elapsed * Milli
           e == Excess(in_flight, jumps)
           f == Excess(in_flight + 1, jumps)
<1>7. /\ w \in Nat /\ m \in Nat /\ z \in Int /\ e \in Int /\ f \in Int
      /\ f = e + m /\ Excess(in_flight, jumps - 1) = f
  BY <1>1, <1>4, <1>5, Units, Product
<1>8. CASE in_flight < Preload
  <2>1. in_flight + 1 <= Preload + jumps
    BY <1>1, <1>2, <1>8, Units
  <2>2. f <= 0
    BY <1>1, <1>2, <2>1, ExcessGrows
  <2> HIDE DEF w, m, z, e, f
  <2>3. f <= Passed(Clock, offset) + w
    BY <1>6, <1>7, <2>2
  <2>4. QED
    BY <2>3 DEF w, f
<1>9. CASE ~steady
  <2>1. f <= Spent(now) + w
    BY <1>2, <1>7, <1>9 DEF FloodInv
  <2> HIDE DEF w, m, z, e, f
  <2>2. f <= Passed(Clock, offset) + w
    BY <1>6, <1>7, <2>1
  <2>3. QED
    BY <2>2 DEF w, f
<1>10. CASE Elapsed >= MININTERVAL /\ steady
  <2>1. m <= z
    BY <1>5, <1>10, Units, ProductGrows
  <2>2. z <= Passed(Clock, cur_time)
    BY <1>10, ElapsedBounds DEF ClockInv, Passed
  <2>3. e <= Passed(cur_time, offset) + w
    BY <1>2, <1>10 DEF FloodInv
  <2> HIDE DEF w, m, z, e, f
  <2>4. f <= Passed(Clock, offset) + w
    BY <1>6, <1>7, <2>1, <2>2, <2>3
  <2>5. QED
    BY <2>4 DEF w, f
<1>11. in_flight < Preload \/ Elapsed >= MININTERVAL
  BY <1>2, <1>5, Units DEF Unanswered, Flooding
<1>12. QED
  BY <1>8, <1>9, <1>10, <1>11

(* Every step keeps the excess paid.                                       *)
LEMMA FloodStep ==
  ASSUME TypeOK, TypeOK', CountInv, CountInv', ClockInv, IntervalInv,
         FloodInv, [Next]_vars
  PROVE  FloodInv'
<1>1. now <= now /\ jumps \in Int /\ now \in Int /\ interval \in Nat
  BY DEF TypeOK
<1>2. Flooding' => Flooding
  BY FloodingStays
<1>3. ASSUME UNCHANGED <<cur_time, clockVars>>,
             \/ pc' = "call" /\ UNCHANGED countVars
             \/ pc = "send" /\ pc' = "call" /\ AdvanceNtransmitted
             \/ pc' = "call" /\ in_flight' <= in_flight
      PROVE  FloodInv'
  <2>1. Load' <= Load /\ Load \in Nat /\ Load' \in Nat
    BY <1>3, LoadFalls
  <2>2. QED
    BY <1>1, <1>3, <2>1, FloodKept DEF clockVars
<1>4. CASE TakeFirst
  <2>1. /\ steady' = TRUE /\ cur_time' = Clock /\ offset' = offset
        /\ pc' = "send" /\ jumps' = jumps /\ UNCHANGED countVars
        /\ ntransmitted = 0 /\ acked = 0 /\ jumps = 0
    BY <1>4 DEF TakeFirst, ClockInv
  <2>2. Load' = 1
    <3>1. in_flight' = 0
      <4>1. in_flight' = U16(0)
        BY <2>1 DEF in_flight, countVars
      <4>2. U16(0) = 0
        BY U16Small, HalfWindowSize
      <4>3. QED
        BY <4>1, <4>2
    <3>2. Load' = in_flight' + 1
      BY <2>1 DEF Load
    <3>3. QED
      BY <3>1, <3>2
  <2>3. Excess(1, 0) <= 0 /\ Excess(1, 0) \in Int
    <3>1. 1 \in Int /\ 0 \in Int /\ 1 <= Preload + 0
      BY Units
    <3>2. QED
      BY <3>1, ExcessGrows
  <2>4. Passed(Clock, offset) >= 0 /\ Passed(Clock, offset) \in Int
    <3>1. Clock \in Int /\ offset \in Int /\ offset <= Clock
      BY Readings
    <3>2. QED
      BY <3>1, PassedAndSpent
  <2>5. 0 * Milli = 0
    BY Units
  <2>6. Excess(1, 0) <= Passed(Clock, offset) + 0 * Milli
    BY <2>3, <2>4, <2>5
  <2>7. QED
    BY <2>1, <2>2, <2>6 DEF FloodInv
<1>5. CASE TakeTokens
  <2>1. /\ steady' = TRUE /\ cur_time' = Clock /\ offset' = offset
        /\ pc = "call" /\ pc' = "send" /\ jumps' = jumps
        /\ UNCHANGED countVars /\ cur_time # Unset /\ ~Unanswered
    BY <1>5 DEF TakeTokens
  <2>2. Load' = in_flight + 1
    BY <2>1 DEF Load, in_flight, countVars
  <2>3. Flooding => Excess(in_flight + 1, jumps)
                      <= Passed(Clock, offset) + jumps * Milli
    BY <2>1, FloodTaken
  <2>4. QED
    BY <1>2, <2>1, <2>2, <2>3 DEF FloodInv
<1>6. CASE FloodWait \/ NoTokens
  BY <1>3, <1>6 DEF FloodWait, NoTokens, Returns, bucketVars
<1>7. CASE Sent
  BY <1>3, <1>7 DEF Sent, ReturnsAfter, bucketVars
<1>8. CASE HardError
  BY <1>3, <1>8 DEF HardError, ReturnsAfter
<1>9. CASE SocketFull \/ ShortSend
  BY <1>3, <1>9
  DEF SocketFull, ShortSend, Refund, ReturnsAfter, bucketVars
<1>10. CASE NoBuffers
  BY <1>3, <1>10 DEF NoBuffers
<1>11. ASSUME NEW i \in 1 .. ntransmitted, ErrorArrived(i) \/ Answer(i)
       PROVE  FloodInv'
  <2>1. in_flight' <= in_flight
    BY <1>11, AnswerCounts DEF ErrorArrived, Answer
  <2>2. /\ pc' = "call"
        /\ UNCHANGED <<cur_time, clockVars>>
    BY <1>11 DEF ErrorArrived, Answer, Refund, ReturnsAfter
  <2>3. QED
    BY <1>3, <2>1, <2>2
<1>12. CASE Tick
  <2>1. /\ now' = now + 1 /\ pc' = pc
        /\ UNCHANGED <<bucketVars, countVars, offset, steady, jumps>>
    BY <1>12 DEF Tick
  <2>2. Load' <= Load /\ Load \in Nat /\ Load' \in Nat
    BY <2>1, LoadFalls
  <2>3. now <= now'
    BY <1>1, <2>1
  <2>4. QED
    BY <2>1, <2>2, <2>3, FloodKept DEF bucketVars
<1>13. ASSUME NEW by \in Int, SetClock(by)
       PROVE  FloodInv'
  <2>1. /\ cur_time # Unset /\ steady' = FALSE /\ jumps' = jumps + 1
        /\ UNCHANGED <<pc, bucketVars, countVars, now>>
    BY <1>13 DEF SetClock
  <2>2. Load' = Load /\ now' = now
    BY <2>1 DEF Load, in_flight, countVars
  <2>3. Flooding => Excess(Load, jumps) <= Spent(now) + (jumps + 1) * Milli
    BY <2>1, FloodJumps
  <2>4. (jumps + 1) - 1 = jumps
    BY <1>1
  <2>5. QED
    BY <1>2, <2>1, <2>2, <2>3, <2>4 DEF FloodInv
<1>14. ASSUME NEW by \in Jumps
       PROVE  by \in Int /\ -by \in Int
  BY PacingAssumption
<1>15. CASE UNCHANGED vars
  <2>1. pc' = pc /\ UNCHANGED <<bucketVars, countVars, clockVars>>
    BY <1>15 DEF vars
  <2>2. Load' <= Load /\ Load \in Nat /\ Load' \in Nat
    BY <2>1, LoadFalls
  <2>3. QED
    BY <1>1, <2>1, <2>2, FloodKept DEF bucketVars, clockVars
<1>16. QED
  BY <1>4, <1>5, <1>6, <1>7, <1>8, <1>9, <1>10, <1>11, <1>12, <1>13, <1>14,
     <1>15 DEF Next

(* The excess bounds what is in flight.                                    *)
LEMMA FloodFollows ==
  ASSUME TypeOK, CountInv, ClockInv, FloodInv
  PROVE  FloodBound
<1>1. /\ jumps \in Nat /\ jumps \in Int /\ now \in Nat
  BY Amounts
<1>2. in_flight \in Nat
  BY InFlightCounts
<1>3. in_flight \in Int /\ Load \in Int /\ in_flight <= Load
  BY <1>2 DEF Load
<1> DEFINE k == now \div Second
<1>4. k \in Nat
  BY <1>1, Units
<1> DEFINE x == k * Milli
           y == (jumps + 1) * Milli
<1>5. x \in Nat /\ y \in Nat
  BY <1>1, <1>4, Units, Product
<1>6. Rounding = x + y
  <2>1. Rounding = (k + 1 + jumps) * Milli
    BY DEF Rounding
  <2> HIDE DEF k
  <2>2. (k + 1 + jumps) * Milli = x + y
    BY <1>1, <1>4, Units
  <2>3. QED
    BY <2>1, <2>2
<1>7. Spent(now) = now + x
  BY DEF Spent
<1>8. /\ Excess(in_flight, jumps) <= Excess(Load, jumps)
      /\ Excess(in_flight, jumps) \in Int /\ Excess(Load, jumps) \in Int
  BY <1>1, <1>3, ExcessGrows
<1>9. SUFFICES ASSUME Flooding
               PROVE  Excess(in_flight, jumps) <= now + Rounding
  <2>1. Excess(in_flight, jumps)
          = (in_flight - Preload - jumps) * MININTERVAL * Milli
    <3> DEFINE d == in_flight - Preload - jumps
    <3>1. d \in Int
      BY <1>1, <1>3, Units
    <3> HIDE DEF d
    <3>2. d * (MININTERVAL * Milli) = d * MININTERVAL * Milli
      BY <3>1, Units
    <3>3. QED
      BY <3>2 DEF Excess, d
  <2>2. QED
    BY <1>9, <2>1 DEF FloodBound, Flooding
<1>10. CASE cur_time # Unset
  <2>1. Excess(Load, jumps) <= Spent(now) + y
    BY <1>9, <1>10, FloodJumps
  <2> HIDE DEF x, y, k
  <2>2. QED
    BY <1>1, <1>5, <1>6, <1>7, <1>8, <2>1
<1>11. CASE cur_time = Unset
  <2>1. in_flight = 0
    <3>1. in_flight = U16(0)
      BY <1>11 DEF ClockInv, in_flight
    <3>2. QED
      BY <3>1, U16Small, HalfWindowSize
  <2>2. in_flight <= Preload + jumps
    BY <1>1, <2>1, Units
  <2>3. Excess(in_flight, jumps) <= 0
    BY <1>1, <1>3, <2>2, ExcessGrows
  <2> HIDE DEF x, y, k
  <2>4. QED
    BY <1>1, <1>5, <1>6, <1>8, <2>3
<1>12. QED
  BY <1>10, <1>11

(* A flood without answers is limited by MININTERVAL: FloodBound, for any  *)
(* preload and clock.                                                      *)
THEOREM FloodIsBounded == Spec => []FloodBound
<1> DEFINE I == TypeOK /\ CountInv /\ ClockInv /\ IntervalInv /\ FloodInv
<1>1. Init => I
  BY InitType, InitRate DEF Init, FloodInv
<1>2. I /\ [Next]_vars => I'
  BY TypeStep, CountStep, ClockStep, IntervalStep, FloodStep
<1>3. I => FloodBound
  BY FloodFollows
<1>4. QED
  BY <1>1, <1>2, <1>3, PTL DEF Spec

-----------------------------------------------------------------------------
(* The waits.  Whoever waits until `due' has let pass, since cur_time,     *)
(* what the bucket lacks of an interval, or less than a millisecond less.  *)

Lacking == interval - tokens

WaitInv ==
  pc = "call" /\ due # Unset /\ cur_time # Unset =>
    /\ (Lacking - 1) * Milli < due - cur_time
    /\ interval = 0 =>
         in_flight < Preload \/ (MININTERVAL - 1) * Milli < due - cur_time

(* SCHINT() is an interval of MININTERVAL at least.                        *)
LEMMA ScheduledInterval ==
  ASSUME NEW a \in Nat
  PROVE  /\ SCHINT(a) \in Nat /\ SCHINT(a) \in Int
         /\ a <= SCHINT(a) /\ MININTERVAL <= SCHINT(a)
BY Units, MostOf DEF SCHINT

(* Milliseconds are compared as microseconds are.                          *)
LEMMA MillisCompare ==
  ASSUME NEW a \in Int, NEW b \in Int, a * Milli < b * Milli
  PROVE  a < b
<1>1. ASSUME b <= a PROVE b * Milli <= a * Milli
  BY <1>1, Units, ProductGrows
<1>2. a * Milli \in Int /\ b * Milli \in Int
  BY Units
<1> DEFINE x == a * Milli
           y == b * Milli
<1>3. x \in Int /\ y \in Int /\ x < y /\ (b <= a => y <= x)
  BY <1>1, <1>2
<1> HIDE DEF x, y
<1>4. QED
  BY <1>3

(* After the wait as much has passed, in milliseconds, as was lacking.     *)
LEMMA WaitedFor ==
  ASSUME TypeOK, cur_time # Unset, NEW n \in Int,
         (n - 1) * Milli < due - cur_time, Clock >= due + Milli
  PROVE  n <= Elapsed
<1>1. Clock \in Int /\ cur_time \in Int /\ due \in Int /\ Elapsed \in Int
  BY Readings, ElapsedBounds DEF TypeOK
<1> DEFINE x == (n - 1) * Milli
           z == Elapsed * Milli
<1>2. x \in Int /\ z \in Int
  BY <1>1, Units
<1>3. Clock - cur_time - Milli < z /\ x < due - cur_time
  BY ElapsedBounds
<1>4. x < z
  <2> HIDE DEF x, z
  <2>1. QED
    BY <1>1, <1>2, <1>3, Units
<1>5. n - 1 \in Int
  OBVIOUS
<1>6. n - 1 < Elapsed
  BY <1>1, <1>4, <1>5, MillisCompare
<1>7. QED
  BY <1>1, <1>6

(* A wait for next milliseconds, from a clock by which e have passed since *)
(* cur_time.                                                               *)
LEMMA WaitAsked ==
  ASSUME TypeOK, cur_time # Unset, NEW n \in Int,
         n - Elapsed >= 0
  PROVE  (n - 1) * Milli < (Clock + Milli * Most(0, n - Elapsed)) - cur_time
<1>1. Clock \in Int /\ cur_time \in Int /\ Elapsed \in Int
  BY Readings, ElapsedBounds DEF TypeOK
<1>2. Most(0, n - Elapsed) = n - Elapsed
  BY <1>1 DEF Most
<1> DEFINE z == Elapsed * Milli
           x == n * Milli
<1>3. z \in Int /\ x \in Int
  BY <1>1, Units
<1>4. z < Clock - cur_time + Milli
  BY ElapsedBounds
<1>5. (n - 1) * Milli = x - Milli /\ Milli * (n - Elapsed) = x - z
  BY <1>1, Units
<1> HIDE DEF x, z
<1>6. x - Milli < (Clock + (x - z)) - cur_time
  BY <1>1, <1>3, <1>4, Units
<1>7. QED
  BY <1>2, <1>5, <1>6

(* After a send the wait is from a clock that was not set.                 *)
LEMMA WaitAfterSend ==
  ASSUME TypeOK, ClockInv, cur_time # Unset, steady,
         NEW next \in Int, NEW lack \in Int, lack <= Most(0, next)
  PROVE  (lack - 1) * Milli < (Clock + Milli * Most(0, next)) - cur_time
<1> DEFINE most == Most(0, next)
<1>1. Clock \in Int /\ cur_time \in Int /\ cur_time <= Clock
  BY Readings DEF ClockInv
<1>2. most \in Int /\ lack <= most
  BY MostOf
<1> HIDE DEF most
<1>3. lack - 1 \in Int /\ lack - 1 <= most - 1 /\ most - 1 \in Int
  BY <1>2
<1>4. (lack - 1) * Milli <= (most - 1) * Milli
  BY <1>3, Units, ProductGrows
<1>5. (most - 1) * Milli = most * Milli - Milli /\ Milli * most = most * Milli
  BY <1>2, Units
<1> DEFINE x == (lack - 1) * Milli
           y == most * Milli
<1>6. x \in Int /\ y \in Int /\ x <= y - Milli /\ Milli * most = y
  BY <1>2, <1>3, <1>4, <1>5, Units
<1> HIDE DEF x, y
<1>7. x < (Clock + y) - cur_time
  BY <1>1, <1>6, Units
<1>8. QED
  BY <1>6, <1>7 DEF x, most

(* Returning after a send, with no more lacking than what is waited for.   *)
LEMMA WaitReturns ==
  ASSUME TypeOK, TypeOK', ClockInv, cur_time # Unset, cur_time' = cur_time,
         NEW next \in Int, ReturnsAfter(next), Lacking' <= Most(0, next)
  PROVE  WaitInv'
<1>1. interval' \in Nat /\ tokens' \in Nat /\ Lacking' \in Int
  BY DEF TypeOK, Lacking
<1>2. CASE steady /\ interval' > 0
  <2>1. due' = Clock + Milli * Most(0, next)
    BY <1>2 DEF ReturnsAfter
  <2>2. (Lacking' - 1) * Milli < (Clock + Milli * Most(0, next)) - cur_time
    BY <1>1, <1>2, WaitAfterSend
  <2>3. interval' # 0
    BY <1>1, <1>2
  <2>4. QED
    BY <2>1, <2>2, <2>3 DEF WaitInv
<1>3. CASE ~(steady /\ interval' > 0)
  <2>1. due' = Unset
    BY <1>3 DEF ReturnsAfter
  <2>2. QED
    BY <2>1 DEF WaitInv
<1>4. QED
  BY <1>2, <1>3

(* Every step keeps the wait long enough.                                  *)
LEMMA WaitStep ==
  ASSUME TypeOK, TypeOK', CountInv, CountInv', ClockInv, WaitInv, [Next]_vars
  PROVE  WaitInv'
<1>0. /\ interval \in Nat /\ tokens \in Nat /\ Lacking \in Int
      /\ Elapsed \in Int \/ cur_time = Unset
  BY ElapsedBounds DEF TypeOK, Lacking
<1>1. CASE TakeFirst \/ TakeTokens
  BY <1>1 DEF TakeFirst, TakeTokens, WaitInv
<1>2. ASSUME UNCHANGED <<bucketVars, countVars>>
      PROVE  /\ interval' = interval /\ cur_time' = cur_time
             /\ Lacking' = Lacking /\ in_flight' = in_flight
  BY <1>2 DEF bucketVars, countVars, Lacking, in_flight
<1>3. CASE FloodWait
  <2>1. /\ cur_time # Unset /\ Unanswered /\ Returns(UntilFlood)
        /\ UNCHANGED <<bucketVars, countVars>>
    BY <1>3 DEF FloodWait
  <2>2. interval = 0 /\ Elapsed < MININTERVAL /\ Elapsed \in Int
    BY <2>1, ElapsedBounds DEF Unanswered
  <2>3. MININTERVAL - Elapsed >= 0 /\ MININTERVAL \in Int
    BY <2>2, Units
  <2>4. due' = Clock + Milli * Most(0, MININTERVAL - Elapsed)
    BY <2>1 DEF Returns, UntilFlood
  <2>5. (MININTERVAL - 1) * Milli < due' - cur_time
    BY <2>1, <2>3, <2>4, WaitAsked
  <2>6. (Lacking - 1) * Milli <= (MININTERVAL - 1) * Milli
    <3>1. Lacking - 1 <= MININTERVAL - 1 /\ Lacking - 1 \in Int
          /\ MININTERVAL - 1 \in Int
      BY <1>0, <2>2, Units DEF Lacking
    <3>2. QED
      BY <3>1, Units, ProductGrows
  <2>7. (Lacking - 1) * Milli < due' - cur_time
    <3> DEFINE x == (Lacking - 1) * Milli
               y == (MININTERVAL - 1) * Milli
               d == due' - cur_time
    <3>1. x \in Int /\ y \in Int /\ d \in Int
      BY <1>0, Units DEF TypeOK, Unset
    <3>2. x <= y /\ y < d
      BY <2>5, <2>6
    <3> HIDE DEF x, y, d
    <3>3. x < d
      BY <3>1, <3>2
    <3>4. QED
      BY <3>3 DEF x, d
  <2>8. QED
    BY <1>2, <2>1, <2>5, <2>7 DEF WaitInv
<1>4. CASE NoTokens
  <2>1. /\ cur_time # Unset /\ ~Unanswered /\ ntokens < interval
        /\ Returns(UntilToken) /\ UNCHANGED <<bucketVars, countVars>>
    BY <1>4 DEF NoTokens
  <2>2. Elapsed \in Int /\ ntokens = Elapsed + tokens
    BY <2>1, ElapsedBounds, BucketBounds
  <2>3. interval - ntokens = Lacking - Elapsed /\ Lacking - Elapsed >= 0
    BY <1>0, <2>1, <2>2 DEF Lacking
  <2>4. due' = Clock + Milli * Most(0, Lacking - Elapsed)
    BY <2>1, <2>3 DEF Returns, UntilToken
  <2>5. (Lacking - 1) * Milli < due' - cur_time
    BY <1>0, <2>1, <2>3, <2>4, WaitAsked
  <2>6. interval = 0 => in_flight < Preload
    <3>1. SUFFICES ASSUME interval = 0
                   PROVE  in_flight < Preload
      OBVIOUS
    <3>2. Elapsed + tokens < 0
      BY <2>1, <2>2, <3>1
    <3>3. Elapsed < MININTERVAL
      BY <1>0, <2>2, <3>2, Units
    <3>4. ~(in_flight >= Preload)
      BY <2>1, <3>1, <3>3 DEF Unanswered
    <3>5. in_flight \in Nat
      BY InFlightCounts
    <3>6. QED
      BY <3>4, <3>5, Units
  <2>7. QED
    BY <1>2, <2>1, <2>5, <2>6 DEF WaitInv
<1>5. pc = "send" => cur_time # Unset
  BY DEF ClockInv
<1>6. CASE Sent
  <2>1. /\ pc = "send" /\ ReturnsAfter(interval - tokens)
        /\ interval' = interval /\ tokens' = tokens /\ cur_time' = cur_time
    BY <1>6 DEF Sent, bucketVars
  <2>2. Lacking' = interval - tokens
    BY <2>1 DEF Lacking
  <2>3. interval - tokens \in Int /\ interval - tokens <= Most(0, interval - tokens)
    BY <1>0, MostOf
  <2>4. QED
    BY <1>5, <2>1, <2>2, <2>3, WaitReturns
<1>7. ASSUME pc = "send", Refund
      PROVE  WaitInv'
  <2>1. /\ ReturnsAfter(MININTERVAL) /\ cur_time' = cur_time
        /\ interval' = interval /\ tokens' = tokens + interval
    BY <1>7 DEF Refund
  <2>2. Lacking' = interval - (tokens + interval)
    BY <2>1 DEF Lacking
  <2>3. Most(0, MININTERVAL) \in Nat /\ MININTERVAL \in Int
    BY Units, MostOf
  <2>4. interval - (tokens + interval) <= Most(0, MININTERVAL)
    BY <1>0, <2>3
  <2>5. QED
    BY <1>5, <1>7, <2>1, <2>2, <2>3, <2>4, WaitReturns
<1>8. CASE SocketFull
  BY <1>7, <1>8 DEF SocketFull
<1>9. ASSUME NEW i \in 1 .. ntransmitted, ErrorArrived(i)
      PROVE  WaitInv'
  BY <1>7, <1>9 DEF ErrorArrived
<1>10. CASE NoBuffers \/ ShortSend
  BY <1>10 DEF NoBuffers, ShortSend, WaitInv
<1>11. CASE HardError
  <2>1. /\ pc = "send" /\ ReturnsAfter(SCHINT(interval')) /\ tokens' = 0
        /\ cur_time' = cur_time
    BY <1>11 DEF HardError
  <2>2. interval' \in Nat
    BY DEF TypeOK
  <2>3. /\ SCHINT(interval') \in Int /\ interval' <= SCHINT(interval')
    BY <2>2, ScheduledInterval
  <2>4. Most(0, SCHINT(interval')) \in Int
        /\ SCHINT(interval') <= Most(0, SCHINT(interval'))
    BY <2>3, MostOf
  <2>5. Lacking' = interval'
    <3>1. ASSUME NEW a \in Nat
          PROVE  a - 0 = a
      OBVIOUS
    <3>2. QED
      BY <2>1, <2>2, <3>1 DEF Lacking
  <2>6. Lacking' <= Most(0, SCHINT(interval'))
    <3>1. ASSUME NEW a \in Int, NEW b \in Int, NEW c \in Int, a <= b, b <= c
          PROVE  a <= c
      BY <3>1
    <3>2. QED
      BY <2>2, <2>3, <2>4, <2>5, <3>1
  <2>7. QED
    BY <1>5, <2>1, <2>3, <2>6, WaitReturns
<1>12. ASSUME NEW i \in 1 .. ntransmitted, Answer(i)
       PROVE  WaitInv'
  <2>1. /\ pc = "call" /\ tokens' = tokens /\ cur_time' = cur_time
        /\ ntransmitted' = ntransmitted
        /\ due' = IF interval' = interval THEN due ELSE Unset
    BY <1>12 DEF Answer
  <2>2. SUFFICES ASSUME interval' = interval
                 PROVE  WaitInv'
    BY <2>1 DEF WaitInv
  <2>3. Lacking' = Lacking /\ due' = due
    BY <2>1, <2>2 DEF Lacking
  <2>4. in_flight < Preload => in_flight' < Preload
    <3>1. in_flight' \in Nat /\ in_flight' <= in_flight
      BY <1>12, AnswerCounts DEF Answer
    <3>2. QED
      BY <3>1, InFlightCounts, Units
  <2>5. QED
    BY <2>1, <2>2, <2>3, <2>4 DEF WaitInv
<1>13. CASE Tick
  <2>1. pc' = pc /\ due' = due /\ UNCHANGED <<bucketVars, countVars>>
    BY <1>13 DEF Tick
  <2>2. QED
    BY <1>2, <2>1 DEF WaitInv
<1>14. ASSUME NEW by \in Int, SetClock(by)
       PROVE  WaitInv'
  BY <1>14 DEF SetClock, WaitInv
<1>15. ASSUME NEW by \in Jumps
       PROVE  by \in Int /\ -by \in Int
  BY PacingAssumption
<1>16. CASE UNCHANGED vars
  <2>1. pc' = pc /\ due' = due /\ UNCHANGED <<bucketVars, countVars>>
    BY <1>16 DEF vars
  <2>2. QED
    BY <1>2, <2>1 DEF WaitInv
<1>17. QED
  BY <1>1, <1>3, <1>4, <1>6, <1>8, <1>9, <1>10, <1>11, <1>12, <1>13, <1>14,
     <1>15, <1>16 DEF Next

(* Who has waited is let out.                                              *)
LEMMA WaitFollows ==
  ASSUME TypeOK, CountInv, WaitInv
  PROVE  WaitSuffices
<1> SUFFICES ASSUME pc = "call", due # Unset, cur_time # Unset,
                    Clock >= due + Milli
             PROVE  ~Unanswered /\ ntokens >= interval
  BY DEF WaitSuffices
<1>1. interval \in Nat /\ tokens \in Nat /\ Elapsed \in Int /\ Lacking \in Int
  BY ElapsedBounds DEF TypeOK, Lacking
<1>2. Lacking <= Elapsed
  BY <1>1, WaitedFor DEF WaitInv
<1>3. ntokens >= interval
  <2>1. Elapsed + tokens >= interval
    BY <1>1, <1>2 DEF Lacking
  <2>2. QED
    BY <2>1, BucketBounds
<1>4. ~Unanswered
  <2>1. SUFFICES ASSUME interval = 0, Elapsed < MININTERVAL
                 PROVE  ~(in_flight >= Preload)
    BY DEF Unanswered
  <2>2. MININTERVAL \in Int /\ in_flight \in Nat
    BY Units, InFlightCounts
  <2>3. ~((MININTERVAL - 1) * Milli < due - cur_time)
    <3>1. SUFFICES ASSUME (MININTERVAL - 1) * Milli < due - cur_time
                   PROVE  FALSE
      OBVIOUS
    <3>2. MININTERVAL <= Elapsed
      BY <2>2, <3>1, WaitedFor
    <3>3. QED
      BY <1>1, <2>1, <2>2, <3>2
  <2>4. in_flight < Preload
    BY <2>1, <2>3 DEF WaitInv
  <2>5. QED
    BY <2>2, <2>4, Units
<1>5. QED
  BY <1>3, <1>4

(* Whoever comes back to pinger() after the wait it asked for is let out:  *)
(* WaitSuffices, for any interval and clock.                               *)
THEOREM WaitsSuffice == Spec => []WaitSuffices
<1> DEFINE I == TypeOK /\ CountInv /\ ClockInv /\ WaitInv
<1>1. Init => I
  BY InitType, InitRate DEF Init, WaitInv
<1>2. I /\ [Next]_vars => I'
  BY TypeStep, CountStep, ClockStep, WaitStep
<1>3. I => WaitSuffices
  BY WaitFollows
<1>4. QED
  BY <1>1, <1>2, <1>3, PTL DEF Spec

(* A clock that is behind cur_time is so by what it was set back.          *)
LEMMA WaitedAtMost ==
  ASSUME TypeOK, ClockInv
  PROVE  WaitBounded
<1> DEFINE next == IF Unanswered THEN UntilFlood ELSE UntilToken
<1>1. SUFFICES ASSUME pc = "call", cur_time # Unset
               PROVE  next * Milli <= SCHINT(interval) * Milli + setback + Milli
  BY DEF WaitBounded
<1>2. /\ interval \in Nat /\ tokens \in Nat /\ setback \in Nat
      /\ Elapsed \in Int /\ ntokens \in Int
      /\ Clock \in Int /\ cur_time \in Int
  BY <1>1, ElapsedBounds, BucketBounds, Readings DEF TypeOK
<1> DEFINE top == SCHINT(interval)
<1>3. top \in Int /\ interval <= top /\ MININTERVAL <= top /\ top \in Nat
  BY <1>2, ScheduledInterval
<1>4. cur_time <= Clock + setback
  BY <1>1 DEF ClockInv
<1>5. next <= top \/ next <= top - Elapsed
  <2>1. CASE Unanswered
    BY <1>2, <1>3, <2>1, Units DEF UntilFlood
  <2>2. CASE ~Unanswered
    <3>1. CASE ntokens < interval
      <4>1. ntokens = Elapsed + tokens
        BY <1>1, <3>1, BucketBounds
      <4>2. interval - (Elapsed + tokens) <= top - Elapsed
        BY <1>2, <1>3
      <4>3. QED
        BY <2>2, <4>1, <4>2 DEF UntilToken
    <3>2. CASE ~(ntokens < interval)
      <4>1. interval - ntokens <= top
        BY <1>2, <1>3, <3>2
      <4>2. QED
        BY <2>2, <4>1 DEF UntilToken
    <3>3. QED
      BY <3>1, <3>2
  <2>3. QED
    BY <2>1, <2>2
<1>6. next \in Int
  BY <1>2, Units DEF UntilFlood, UntilToken
<1> HIDE DEF next
<1> DEFINE x == next * Milli
           y == top * Milli
           z == Elapsed * Milli
<1>7. x \in Int /\ y \in Int /\ z \in Int
  BY <1>2, <1>3, <1>6, Units
<1>8. Clock - cur_time - Milli < z
  BY <1>1, ElapsedBounds
<1>9. x <= y \/ x <= y - z
  <2>1. CASE next <= top
    BY <1>3, <1>6, <2>1, Units, ProductGrows
  <2>2. CASE next <= top - Elapsed
    <3>1. next * Milli <= (top - Elapsed) * Milli
      <4>1. top - Elapsed \in Int
        BY <1>2, <1>3
      <4>2. QED
        BY <1>6, <2>2, <4>1, Units, ProductGrows
    <3>2. (top - Elapsed) * Milli = y - z
      <4> HIDE DEF top
      <4>1. QED
        BY <1>2, <1>3, Units
    <3>3. QED
      BY <3>1, <3>2
  <2>3. QED
    BY <1>5, <2>1, <2>2
<1> HIDE DEF x, y, z, top
<1>10. x <= y + setback + Milli
  BY <1>2, <1>4, <1>7, <1>8, <1>9, Units
<1>11. QED
  BY <1>10 DEF x, y, top

(* pinger() asks for no longer a wait than its interval, and than what the *)
(* clock was set back: WaitBounded, for any interval and clock.            *)
THEOREM WaitsAreBounded == Spec => []WaitBounded
<1> DEFINE I == TypeOK /\ ClockInv
<1>1. Init => I
  BY InitType, InitRate
<1>2. I /\ [Next]_vars => I'
  BY TypeStep, ClockStep
<1>3. I => WaitBounded
  BY WaitedAtMost
<1>4. QED
  BY <1>1, <1>2, <1>3, PTL DEF Spec
=============================================================================
