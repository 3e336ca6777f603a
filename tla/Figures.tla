------------------------------- MODULE Figures -------------------------------
(***************************************************************************)
(* The round-trip figures: what gather_statistics() of ping_common.c adds  *)
(* for an answer, and what finish() makes of the sums -- the average and,  *)
(* by Newton's iteration in llsqrt(), the deviation.                       *)
(*                                                                         *)
(* Times are in microseconds.  A millisecond has Base * Base * Base of     *)
(* them, where Base stands for 10.  The sums are 64 bits wide: a square of *)
(* a minute is below 2^52.  None of this is reset between the runs of a    *)
(* process, and finish() divides the sums in place.                        *)
(***************************************************************************)
EXTENDS Integers

CONSTANTS
  Base,
  LongMax      \* tmin before the first answer

ASSUME FiguresAssumption == Base \in Nat \ {0} /\ LongMax \in Nat

VARIABLES
  nreceived, nrepeats, rcvd,
  tsum, tsum2, tmin, tmax,
  rtt,         \* the running average, eight times
  root,        \* of llsqrt(): [of, x, prev], where prev = -1 is 2^63 - 1
  untimed      \* how many answers were too short for a time stamp

countVars == <<nreceived, nrepeats, rcvd>>
sumVars == <<tsum, tsum2, tmin, tmax, rtt>>
figureVars == <<countVars, sumVars, root, untimed>>

FiguresTypeOK ==
  /\ nreceived \in Nat /\ nrepeats \in Nat /\ rcvd \subseteq Nat
  /\ tsum \in Nat /\ tsum2 \in Nat
  /\ tmin \in Nat /\ tmax \in Nat /\ rtt \in Nat
  /\ root \in [of : Nat, x : Nat, prev : Nat \cup {-1}]
  /\ untimed \in Nat

FiguresInit ==
  /\ nreceived = 0 /\ nrepeats = 0 /\ rcvd = {}
  /\ tsum = 0 /\ tsum2 = 0 /\ tmin = LongMax /\ tmax = 0 /\ rtt = 0
  /\ root = [of |-> 0, x |-> 0, prev |-> -1]
  /\ untimed = 0

-----------------------------------------------------------------------------
(* gather_statistics()                                                     *)

AddSample(trip) ==
  /\ tsum' = tsum + trip /\ tsum2' = tsum2 + trip * trip
  /\ tmin' = IF trip < tmin THEN trip ELSE tmin
  /\ tmax' = IF trip > tmax THEN trip ELSE tmax
  /\ rtt' = IF rtt = 0 THEN trip * 8 ELSE rtt + trip - rtt \div 8
  /\ UNCHANGED untimed

NoSample == untimed' = untimed + 1 /\ UNCHANGED sumVars

Count(seq) ==
  /\ IF seq \in rcvd
     THEN nrepeats' = nrepeats + 1 /\ UNCHANGED nreceived
     ELSE nreceived' = nreceived + 1 /\ UNCHANGED nrepeats
  /\ rcvd' = rcvd \cup {seq}

Milli == Base * Base * Base

(* Mutant: from 10 ms on the tenths are passed on as whole milliseconds.   *)
ShownTenfold(trip) ==
  LET whole == (trip \div Milli) * Milli
      part == trip % Milli
  IN  CASE trip >= Milli * Base * Base -> whole
        [] trip < Milli * Base * Base /\ trip >= Milli * Base ->
             whole + (part \div (Base * Base)) * Milli
        [] trip < Milli * Base /\ trip >= Milli ->
             whole + (part \div (Base * Base)) * Base
        [] trip < Milli -> trip

(* The time a result is given to Java with: whole milliseconds from 100 on *)
(* and tenths from 10 on; below, tenths again, but in the place of the     *)
(* hundredths; and microseconds below 1.                                   *)
Shown(trip) ==
  LET whole == (trip \div Milli) * Milli
      part == trip % Milli
  IN  CASE trip >= Milli * Base * Base -> whole
        [] trip < Milli * Base * Base /\ trip >= Milli * Base ->
             whole + (part \div (Base * Base)) * (Base * Base)
        [] trip < Milli * Base /\ trip >= Milli ->
             whole + (part \div (Base * Base)) * Base
        [] trip < Milli -> trip

-----------------------------------------------------------------------------
(* finish()                                                                *)

Answers == nreceived + nrepeats

(* Mutant: duplicates are summed, but not counted.                         *)
DivideSumsReceived ==
  /\ nreceived > 0
  /\ tsum' = tsum \div nreceived
  /\ tsum2' = tsum2 \div nreceived
  /\ root' = LET variance == tsum2' - tsum' * tsum'
             IN  [of |-> variance, x |-> variance, prev |-> -1]
  /\ UNCHANGED <<countVars, tmin, tmax, rtt, untimed>>

(* The average and the variance, and llsqrt() of the latter begins.        *)
DivideSums ==
  /\ nreceived > 0
  /\ tsum' = tsum \div Answers
  /\ tsum2' = tsum2 \div Answers
  /\ root' = LET variance == tsum2' - tsum' * tsum'
             IN  [of |-> variance, x |-> variance, prev |-> -1]
  /\ UNCHANGED <<countVars, tmin, tmax, rtt, untimed>>

Improving == root.x > 0 /\ (root.prev = -1 \/ root.x < root.prev)

(* Mutant: the quotient is not halved with the estimate.                   *)
NewtonUnhalved ==
  /\ Improving
  /\ root' = [root EXCEPT !.prev = root.x,
                          !.x = root.x \div 2 + root.of \div root.x]
  /\ UNCHANGED <<countVars, sumVars, untimed>>

(* while (x < prev) { prev = x; x = (x+(a/x))/2; }                         *)
Newton ==
  /\ Improving
  /\ root' = [root EXCEPT !.prev = root.x,
                          !.x = (root.x + root.of \div root.x) \div 2]
  /\ UNCHANGED <<countVars, sumVars, untimed>>

=============================================================================
