------------------------------- MODULE Pacing -------------------------------
(***************************************************************************)
(* When pinger() of ping_common.c lets a probe out: a bucket of tokens,    *)
(* one a millisecond, that is filled by the difference of two readings of  *)
(* the wall clock and emptied by an interval a probe; the flood mode (-f)  *)
(* that goes without interval as long as answers come; and the adaptive    *)
(* mode (-A), in which an answer sets the interval.  PingLoop takes what   *)
(* is decided here for a choice.                                           *)
(*                                                                         *)
(* gettimeofday() reads a clock of seconds and microseconds that somebody  *)
(* may set forward or back.  The difference of two readings is taken part  *)
(* by part, the microseconds truncated towards zero, so that it is rounded *)
(* down within a second and up over the turn of one.                       *)
(*                                                                         *)
(* cur_time and the bucket are static: a second run of the process goes on *)
(* where the first one left them.  That is the same bucket after a pause,  *)
(* which a call of pinger() may make at any time here.                     *)
(***************************************************************************)
EXTENDS SeqWindow

CONSTANTS
  Sec,             \* milliseconds of a second
  Milli,           \* microseconds of a millisecond
  MININTERVAL, MINUSERINTERVAL,
  Preload,
  Adaptive, Users, \* whether -A is given, and the user is not root
  Intervals,       \* -i, in milliseconds; 0 is -f
  Estimates,       \* what rtt/8 + rtt_addend may come to, in microseconds
  Starts,          \* what the clock may show at first
  Jumps,           \* by how much it may be set, either way
  MaxNow, MaxTransmit, MaxJumps   \* bounds of the model

ASSUME PacingAssumption ==
  /\ {Sec, Milli, MININTERVAL, MINUSERINTERVAL, Preload} \subseteq Nat \ {0}
  /\ Adaptive \subseteq BOOLEAN /\ Users \subseteq BOOLEAN
  /\ Intervals \subseteq Nat /\ Estimates \subseteq Nat /\ Jumps \subseteq Nat
  /\ Starts \subseteq Nat
  /\ {MaxNow, MaxTransmit, MaxJumps} \subseteq Nat

VARIABLES
  pc,              \* "call": before pinger(); "send": in send_probe()
  mode,            \* [adaptive, uid]: -A given; not root
  interval, tokens,
  peak,            \* the longest interval there was
  cur_time,        \* the clock when tokens were last taken
  ntransmitted, acked,
  now, offset,     \* time since the first call; what the clock shows more
  due,             \* the clock when the wait it asked for is over
  steady,          \* the clock was not set since cur_time was
  jumps, setback   \* how often it was set, and by how much back

bucketVars == <<interval, peak, tokens, cur_time>>
countVars == <<ntransmitted, acked>>
clockVars == <<now, offset, steady, jumps, setback>>
Modes == [adaptive : Adaptive, uid : Users]

vars == <<pc, mode, bucketVars, due, countVars, clockVars>>

Unset == -1

Least(a, b) == IF a <= b THEN a ELSE b
Most(a, b) == IF a >= b THEN a ELSE b

SCHINT(a) == Most(a, MININTERVAL)

Second == Sec * Milli

TypeOK ==
  /\ pc \in {"call", "send"} /\ mode \in Modes
  /\ interval \in Nat /\ peak \in Nat /\ tokens \in Nat
  /\ cur_time \in Nat \cup {Unset} /\ due \in Int
  /\ ntransmitted \in Nat /\ acked \in 0 .. SeqMod - 1
  /\ now \in Nat /\ offset \in Int /\ now + offset \in Nat
  /\ steady \in BOOLEAN /\ jumps \in Nat /\ setback \in Nat

(* setup() has refused a user an interval below MINUSERINTERVAL.           *)
Init ==
  /\ pc = "call" /\ mode \in Modes
  /\ interval \in Intervals /\ (mode.uid => interval >= MINUSERINTERVAL)
  /\ peak = interval
  /\ tokens = 0 /\ cur_time = Unset /\ due = Unset
  /\ ntransmitted = 0 /\ acked = 0
  /\ now = 0 /\ offset \in Starts
  /\ steady = TRUE /\ jumps = 0 /\ setback = 0

-----------------------------------------------------------------------------
(* Reading the clock.                                                      *)

Clock == now + offset

(* The division of C, which truncates towards zero.                        *)
Quotient(a, b) == IF a >= 0 THEN a \div b ELSE -((-a) \div b)

(* Mutants: microseconds that have gone below those of cur_time are not    *)
(* taken off; the seconds are forgotten.                                   *)
ElapsedUnborrowed ==
  (Clock \div Second - cur_time \div Second) * Sec
    + Most(0, Quotient((Clock % Second) - (cur_time % Second), Milli))

ElapsedUsecOnly ==
  Quotient((Clock % Second) - (cur_time % Second), Milli)

(* Milliseconds from cur_time to the clock, before tokens are added.       *)
Elapsed ==
  (Clock \div Second - cur_time \div Second) * Sec
    + Quotient((Clock % Second) - (cur_time % Second), Milli)

(* Of in_flight(): the model sends nothing while a whole half window is    *)
(* unanswered.  The next probe would invalidate acked and leave the choice *)
(* to the counters of answers and errors; the one after it would find      *)
(* acked at its own number, and in_flight() at 0 again.  AckWindow has     *)
(* that case.  Numbers may wrap as often as they like.                     *)
in_flight == U16(ntransmitted - acked)

WithinBounds == ntransmitted < MaxTransmit /\ in_flight < HalfWindow

-----------------------------------------------------------------------------
(* pinger() before the send, of a run that has not sent enough.            *)

(* "if we see no reply, they are limited to 100pps"                        *)
Unanswered ==
  interval = 0 /\ Elapsed < MININTERVAL /\ in_flight >= Preload

(* Mutant: what the bucket holds has no end.                               *)
ntokensUncapped == Elapsed + tokens

ntokens == Least(Elapsed + tokens, interval * Preload)

UntilFlood == MININTERVAL - Elapsed

UntilToken == interval - ntokens

(* pinger() returns next: before the send, by what the clock shows now;    *)
(* after it, by what was found before.                                     *)
Returns(next) ==
  /\ pc' = "call"
  /\ due' = Clock + Milli * Most(0, next)

ReturnsAfter(next) ==
  /\ pc' = "call"
  /\ due' = IF steady /\ interval' > 0
            THEN Clock + Milli * Most(0, next) ELSE Unset

TakeFirst ==
  /\ pc = "call" /\ cur_time = Unset /\ WithinBounds
  /\ cur_time' = Clock
  /\ tokens' = interval * (Preload - 1)
  /\ pc' = "send" /\ steady' = TRUE
  /\ UNCHANGED <<mode, interval, peak, due, countVars, now, offset,
                 jumps, setback>>

FloodWait ==
  /\ pc = "call" /\ cur_time # Unset /\ Unanswered
  /\ Returns(UntilFlood)
  /\ UNCHANGED <<mode, bucketVars, countVars, clockVars>>

NoTokens ==
  /\ pc = "call" /\ cur_time # Unset /\ ~Unanswered
  /\ ntokens < interval
  /\ Returns(UntilToken)
  /\ UNCHANGED <<mode, bucketVars, countVars, clockVars>>

(* Mutant: one millisecond too early.                                      *)
TakeTokensEager ==
  /\ pc = "call" /\ cur_time # Unset /\ ~Unanswered
  /\ ntokens + 1 >= interval /\ WithinBounds
  /\ cur_time' = Clock
  /\ tokens' = ntokens - interval
  /\ pc' = "send" /\ steady' = TRUE
  /\ UNCHANGED <<mode, interval, peak, due, countVars, now, offset,
                 jumps, setback>>

TakeTokens ==
  /\ pc = "call" /\ cur_time # Unset /\ ~Unanswered
  /\ ntokens >= interval /\ WithinBounds
  /\ cur_time' = Clock
  /\ tokens' = ntokens - interval
  /\ pc' = "send" /\ steady' = TRUE
  /\ UNCHANGED <<mode, interval, peak, due, countVars, now, offset,
                 jumps, setback>>

-----------------------------------------------------------------------------
(* What comes of the send.                                                 *)

AdvanceNtransmitted ==
  /\ ntransmitted' = ntransmitted + 1
  /\ acked' = AdvanceAcked(acked, ntransmitted + 1)

Sent ==
  /\ pc = "send"
  /\ AdvanceNtransmitted
  /\ UNCHANGED <<mode, bucketVars, clockVars>>
  /\ ReturnsAfter(interval - tokens)

(* The probe has not left: its tokens come back.                           *)
Refund ==
  /\ tokens' = tokens + interval
  /\ UNCHANGED <<interval, peak, cur_time>>
  /\ ReturnsAfter(MININTERVAL)

SocketFull ==
  /\ pc = "send"
  /\ Refund
  /\ UNCHANGED <<mode, countVars, clockVars>>

(* Fewer bytes taken than given: the probe does not count, but its tokens  *)
(* do not come back, and nothing can be said of them after the wait.       *)
ShortSend ==
  /\ pc = "send"
  /\ pc' = "call" /\ due' = Unset
  /\ UNCHANGED <<mode, bucketVars, countVars, clockVars>>

(* receive_error_msg() > 0: an ICMP error to probe i was pending.          *)
ErrorArrived(i) ==
  /\ pc = "send"
  /\ acked' = Acknowledge(acked, ntransmitted, U16(i))
  /\ Refund
  /\ UNCHANGED <<mode, ntransmitted, clockVars>>

(* update_interval(), rounding to a millisecond; for no estimate yet it    *)
(* computes the interval it has.                                           *)
Updated(est) ==
  LET rounded == (est + Milli \div 2) \div Milli
  IN  IF mode.uid THEN Most(rounded, MINUSERINTERVAL) ELSE rounded

UpdateInterval ==
  /\ \/ interval' = interval
     \/ mode.adaptive /\ \E est \in Estimates : interval' = Updated(est)
  /\ peak' = Most(peak, interval')

(* ENOBUFS, as long as it does not last: the wait is half an interval, for *)
(* which nothing can be said of the tokens.                                *)
NoBuffers ==
  /\ pc = "send"
  /\ tokens' = 0
  /\ UpdateInterval
  /\ pc' = "call" /\ due' = Unset
  /\ UNCHANGED <<mode, cur_time, countVars, clockVars>>

(* Any other error, and ENOBUFS in the end, which updates the interval     *)
(* too: the probe counts as sent.                                          *)
HardError ==
  /\ pc = "send"
  /\ AdvanceNtransmitted
  /\ tokens' = 0
  /\ UpdateInterval
  /\ UNCHANGED <<mode, cur_time, clockVars>>
  /\ ReturnsAfter(SCHINT(interval'))

-----------------------------------------------------------------------------
(* Between two calls of pinger(): gather_statistics() for an answer; at    *)
(* any time: time passes, the clock is set.                                *)
Answer(i) ==
  /\ pc = "call"
  /\ acked' = Acknowledge(acked, ntransmitted, U16(i))
  /\ UpdateInterval
  /\ due' = IF interval' = interval THEN due ELSE Unset
  /\ UNCHANGED <<pc, mode, tokens, cur_time, ntransmitted, clockVars>>

Tick ==
  /\ cur_time # Unset /\ now < MaxNow
  /\ now' = now + 1
  /\ UNCHANGED <<pc, mode, bucketVars, due, countVars, offset, steady,
                 jumps, setback>>

SetClock(by) ==
  /\ cur_time # Unset /\ jumps < MaxJumps /\ Clock + by >= 0
  /\ offset' = offset + by
  /\ steady' = FALSE /\ jumps' = jumps + 1
  /\ setback' = setback + Most(0, -by)
  /\ due' = Unset
  /\ UNCHANGED <<pc, mode, bucketVars, countVars, now>>

Next ==
  \/ TakeFirst \/ FloodWait \/ NoTokens \/ TakeTokens
  \/ Sent \/ SocketFull \/ ShortSend \/ NoBuffers \/ HardError
  \/ \E i \in 1 .. ntransmitted : ErrorArrived(i) \/ Answer(i)
  \/ Tick
  \/ \E by \in Jumps : SetClock(by) \/ SetClock(-by)

Spec == Init /\ [][Next]_vars

-----------------------------------------------------------------------------
(* Properties.                                                             *)

(* What the rounding of Elapsed may add up to: a millisecond each time the *)
(* second of the wall clock turns, which setting the clock may bring about *)
(* once more.                                                              *)
Rounding == (now \div Second + 1 + jumps) * Milli

(* "Check that packets < rate*time + preload": whatever is refused,        *)
(* refunded or lost, the probes counted as sent never run ahead of the     *)
(* clock that cannot be set by more than the preload, and by one more      *)
(* each time the wall clock is set.  In adaptive mode, for a user, the     *)
(* rate is that of MINUSERINTERVAL, and the preload is as long as the      *)
(* longest interval there was: what was saved up at that one may be spent  *)
(* at ever shorter ones.                                                   *)
RateBound ==
  LET step == IF mode.adaptive THEN MINUSERINTERVAL ELSE interval
  IN  (mode.adaptive => mode.uid) =>
        ntransmitted * step * Milli
          <= (1 + jumps) * Preload * peak * Milli + now + Rounding

(* "if we see no reply, they are limited to 100pps": without an interval   *)
(* no more than the preload is in flight, and one more every MININTERVAL.  *)
FloodBound ==
  interval = 0 /\ ~mode.adaptive =>
    (in_flight - Preload - jumps) * MININTERVAL * Milli <= now + Rounding

(* Whoever comes back to pinger() after the wait it asked for, and the     *)
(* millisecond that rounding may cost, is not sent away again.             *)
WaitSuffices ==
  pc = "call" /\ due # Unset /\ cur_time # Unset /\ Clock >= due + Milli
    => ~Unanswered /\ ntokens >= interval

(* A clock that was set back makes the engine wait for as much longer, and *)
(* nothing else makes it wait longer than its interval.                    *)
WaitBounded ==
  pc = "call" /\ cur_time # Unset =>
    LET next == IF Unanswered THEN UntilFlood ELSE UntilToken
    IN  next * Milli <= SCHINT(interval) * Milli + setback + Milli

=============================================================================
