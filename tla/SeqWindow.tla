------------------------------ MODULE SeqWindow ------------------------------
(***************************************************************************)
(* The arithmetic of echo sequence numbers in ping_common.h: the 16-bit    *)
(* number on the wire against the `long' counter of probes, the position   *)
(* of the newest acknowledged probe (`acked'), and the estimate of how     *)
(* many probes are in flight.                                              *)
(*                                                                         *)
(* SeqMod stands for 2^16.  A C expression of type __u16 is reduced with   *)
(* U16; an expression that C promotes to int is left unreduced, as in      *)
(* (__u16)ntransmitted - acked > 0x7FFF, which may be negative.            *)
(***************************************************************************)
EXTENDS Integers

CONSTANT SeqMod

ASSUME SeqModAssumption == SeqMod \in Nat /\ SeqMod >= 4 /\ SeqMod % 2 = 0

(* 0x7FFF: the largest distance at which one number precedes another.      *)
HalfWindow == SeqMod \div 2 - 1

(* Mutant: the cast is dropped.                                            *)
U16Uncast(n) == n

U16(n) == n % SeqMod

S16(n) == IF U16(n) <= HalfWindow THEN U16(n) ELSE U16(n) - SeqMod

(* in_flight(): the distance from acked to the last probe while acked is   *)
(* inside the half window, and otherwise what the counters leave over.     *)
InFlight(nt, ack, nr, ne) ==
  LET diff == U16(nt - ack)
  IN  IF diff <= HalfWindow THEN diff ELSE nt - nr - ne

(* Mutants of Acknowledge: the difference of the numbers is not cast back  *)
(* to 16 bits; the last answer wins, whichever probe it is for.            *)
AcknowledgeUncast(ack, nt, seq) ==
  IF /\ U16(nt - seq) <= HalfWindow
     /\ seq - ack > 0 \/ U16(nt) - ack > HalfWindow
  THEN seq
  ELSE ack

AcknowledgeLast(ack, nt, seq) ==
  IF U16(nt - seq) <= HalfWindow THEN seq ELSE ack

(* acknowledge(seq): acked after an answer to seq, when nt probes are out. *)
Acknowledge(ack, nt, seq) ==
  IF /\ U16(nt - seq) <= HalfWindow
     /\ S16(seq - ack) > 0 \/ U16(nt) - ack > HalfWindow
  THEN seq
  ELSE ack

(* advance_ntransmitted(): acked after the probe counter has become nt.    *)
AdvanceAcked(ack, nt) ==
  IF U16(nt) - ack > HalfWindow THEN U16(nt + 1) ELSE ack

=============================================================================
