------------------------------ MODULE AckWindow ------------------------------
(***************************************************************************)
(* A ping without end sends more probes than there are sequence numbers.   *)
(* This module follows `acked' over such a run: advance_ntransmitted() for *)
(* every probe, acknowledge() for every answer or ICMP error, of any probe *)
(* less than SeqMod old and in any order.  in_flight() is what main_loop() *)
(* and pinger() decide on; newest and overflowed remember what it should   *)
(* tell: the newest probe acknowledged, and whether HalfWindow probes ever *)
(* went without any.                                                       *)
(***************************************************************************)
EXTENDS SeqWindow

CONSTANT MaxTransmit    \* bound on the probe counter

ASSUME AckWindowAssumption == MaxTransmit \in Nat

VARIABLES ntransmitted, acked, newest, overflowed

vars == <<ntransmitted, acked, newest, overflowed>>

Gap == ntransmitted - newest

(* The counters only matter once acked is out of the half window.          *)
in_flight == InFlight(ntransmitted, acked, newest, 0)

TypeOK ==
  /\ ntransmitted \in Nat /\ newest \in 0 .. ntransmitted
  /\ acked \in 0 .. SeqMod - 1 /\ overflowed \in BOOLEAN

Init == ntransmitted = 0 /\ acked = 0 /\ newest = 0 /\ overflowed = FALSE

Transmit ==
  /\ ntransmitted < MaxTransmit
  /\ ntransmitted' = ntransmitted + 1
  /\ acked' = AdvanceAcked(acked, ntransmitted + 1)
  /\ overflowed' = (overflowed \/ Gap + 1 > HalfWindow)
  /\ UNCHANGED newest

Ack(i) ==
  /\ acked' = Acknowledge(acked, ntransmitted, U16(i))
  /\ newest' = IF i > newest THEN i ELSE newest
  /\ UNCHANGED <<ntransmitted, overflowed>>

Next ==
  \/ Transmit
  \/ \E i \in 1 .. ntransmitted : ntransmitted - i < SeqMod /\ Ack(i)

Spec == Init /\ [][Next]_vars

-----------------------------------------------------------------------------
(* As long as HalfWindow probes never went unanswered, in_flight() is the  *)
(* number of probes sent after the newest one acknowledged, however often  *)
(* the numbers wrapped and in whatever order the answers came.             *)
ExactWhileRecent ==
  ~overflowed => acked = U16(newest) /\ in_flight = Gap

(* An answer never makes in_flight() grow while it measures the window.    *)
AckShrinks ==
  [][ntransmitted' = ntransmitted /\ U16(ntransmitted - acked) <= HalfWindow
       => in_flight' <= in_flight]_vars

(* "Invalidate acked, if 16 bit seq overflows" (advance_ntransmitted()):   *)
(* once more than HalfWindow probes are unanswered, acked is out of the    *)
(* half window and in_flight() falls back to the counters.                 *)
InvalidatedOnOverflow ==
  Gap > HalfWindow => U16(ntransmitted - acked) > HalfWindow

=============================================================================
