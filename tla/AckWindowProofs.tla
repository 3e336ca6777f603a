--------------------------- MODULE AckWindowProofs ---------------------------
(***************************************************************************)
(* What in_flight() can be trusted with, proved of AckWindow for every     *)
(* modulus and any number of probes: MaxTransmit does not appear below.    *)
(***************************************************************************)
EXTENDS AckWindow, SeqWindowProofs

(* ExactWhileRecent with what it takes to keep it: while less than a half  *)
(* window is unanswered, acked is the newest probe's number.               *)
AckInv ==
  ~overflowed => Gap <= HalfWindow /\ acked = U16(newest)

(* The counters start at zero, which is a number of the wire.              *)
LEMMA InitType == Init => TypeOK
<1> SUFFICES ASSUME Init
             PROVE  TypeOK
  OBVIOUS
<1>1. ntransmitted \in Nat /\ newest \in 0 .. ntransmitted
  BY DEF Init
<1>2. acked \in 0 .. SeqMod - 1
  BY SeqModAssumption DEF Init
<1>3. overflowed \in BOOLEAN
  BY Zenon DEF Init
<1>4. QED
  BY <1>1, <1>2, <1>3 DEF TypeOK

(* Every step keeps the types.                                             *)
LEMMA TypeStep ==
  ASSUME TypeOK, [Next]_vars
  PROVE  TypeOK'
<1>1. CASE Transmit
  <2>1. ntransmitted' \in Nat /\ newest' \in 0 .. ntransmitted'
    BY <1>1 DEF Transmit, TypeOK
  <2>2. acked' \in 0 .. SeqMod - 1
    BY <1>1, AdvanceAckedType DEF Transmit, TypeOK
  <2>3. overflowed' \in BOOLEAN
    BY <1>1, Zenon DEF Transmit
  <2>4. QED
    BY <2>1, <2>2, <2>3 DEF TypeOK
<1>2. ASSUME NEW i \in 1 .. ntransmitted, Ack(i)
      PROVE  TypeOK'
  <2>1. acked' \in 0 .. SeqMod - 1
    <3>1. i \in Int /\ ntransmitted \in Int
      BY DEF TypeOK
    <3>2. QED
      BY <1>2, <3>1, AcknowledgeType DEF Ack, TypeOK
  <2>2. newest' \in 0 .. ntransmitted
    BY <1>2 DEF Ack, TypeOK
  <2>3. QED
    BY <1>2, <2>1, <2>2 DEF Ack, TypeOK
<1>3. CASE UNCHANGED vars
  BY <1>3 DEF vars, TypeOK
<1>4. QED
  BY <1>1, <1>2, <1>3 DEF Next

(* The variables of AckWindow have their types.                            *)
THEOREM AckTypeCorrect == Spec => []TypeOK
<1>1. Init => TypeOK
  BY InitType
<1>2. QED
  BY <1>1, TypeStep, PTL DEF Spec

-----------------------------------------------------------------------------
(* While AckInv says what acked is, it is in the half window of the last   *)
(* probe, and in_flight() measures the gap.                                *)
LEMMA GapMeasured ==
  ASSUME TypeOK, AckInv, ~overflowed
  PROVE  /\ U16(ntransmitted - acked) = Gap
         /\ Gap \in 0 .. HalfWindow
<1>1. Gap \in 0 .. HalfWindow
  BY HalfWindowSize DEF AckInv, Gap, TypeOK
<1>2. U16(ntransmitted - acked) = U16(Gap)
  BY U16Difference DEF AckInv, Gap, TypeOK
<1>3. QED
  BY <1>1, <1>2, U16Small, HalfWindowSize

(* A new probe leaves acked at the newest number, as long as the gap does  *)
(* not outgrow the half window.                                            *)
LEMMA TransmitKeeps ==
  ASSUME TypeOK, AckInv, Transmit
  PROVE  AckInv'
<1> SUFFICES ASSUME ~overflowed'
             PROVE  Gap' <= HalfWindow /\ acked' = U16(newest')
  BY DEF AckInv
<1>1. ~overflowed /\ Gap' = Gap + 1 /\ Gap + 1 <= HalfWindow
  <2>1. ~overflowed /\ ~(Gap + 1 > HalfWindow)
    BY Zenon DEF Transmit
  <2>2. QED
    BY <2>1, HalfWindowSize DEF Transmit, Gap, TypeOK
<1>2. Gap \in 0 .. HalfWindow /\ acked = U16(newest)
  BY <1>1, GapMeasured DEF AckInv
<1>3. U16((ntransmitted + 1) - acked) = Gap + 1
  <2>1. U16((ntransmitted + 1) - acked) = U16(Gap + 1)
    BY <1>2, U16Difference DEF Gap, TypeOK
  <2>2. QED
    BY <1>1, <1>2, <2>1, U16Small, HalfWindowSize
<1>4. AdvanceAcked(acked, ntransmitted + 1) = acked
  BY <1>1, <1>3, AdvanceInWindow DEF TypeOK
<1>5. QED
  BY <1>1, <1>2, <1>4 DEF Transmit

(* An answer moves acked to its number exactly if it is the newest.        *)
LEMMA AckKeeps ==
  ASSUME TypeOK, AckInv, NEW i \in 1 .. ntransmitted,
         ntransmitted - i < SeqMod, Ack(i)
  PROVE  AckInv'
<1> SUFFICES ASSUME ~overflowed
             PROVE  Gap' <= HalfWindow /\ acked' = U16(newest')
  BY DEF AckInv, Ack
<1>1. /\ U16(ntransmitted - acked) = Gap /\ Gap \in 0 .. HalfWindow
      /\ acked = U16(newest)
  BY GapMeasured DEF AckInv
<1>2. U16(ntransmitted - U16(i)) = ntransmitted - i
  <2>1. ntransmitted \in Int /\ i \in Int
    BY DEF TypeOK
  <2>2. ntransmitted - i \in 0 .. SeqMod - 1
    BY <2>1, SeqModAssumption
  <2>3. QED
    BY <2>1, <2>2, U16Difference, U16Small
<1>3. (ntransmitted - i < Gap) <=> (i > newest)
  BY DEF Gap, TypeOK
<1>4. acked' = IF i > newest THEN U16(i) ELSE acked
  <2>1. U16(i) \in 0 .. SeqMod - 1
    BY U16Type
  <2>2. acked' = IF ntransmitted - i < Gap THEN U16(i) ELSE acked
    BY <1>1, <1>2, <2>1, AcknowledgeInWindow DEF Ack, TypeOK
  <2>3. QED
    BY <1>3, <2>2
<1>5. QED
  BY <1>1, <1>4, HalfWindowSize DEF Ack, Gap, TypeOK

(* Every step keeps AckInv.                                                *)
LEMMA AckInvStep ==
  ASSUME TypeOK, AckInv, [Next]_vars
  PROVE  AckInv'
<1>1. CASE Transmit
  BY <1>1, TransmitKeeps
<1>2. ASSUME NEW i \in 1 .. ntransmitted, ntransmitted - i < SeqMod, Ack(i)
      PROVE  AckInv'
  BY <1>2, AckKeeps
<1>3. CASE UNCHANGED vars
  BY <1>3 DEF vars, AckInv, Gap
<1>4. QED
  BY <1>1, <1>2, <1>3 DEF Next

(* However often the numbers wrap and in whatever order the answers come:  *)
(* as long as a half window of probes never went unanswered, in_flight()   *)
(* is the number of probes after the newest one acknowledged.              *)
THEOREM InFlightIsExact == Spec => []ExactWhileRecent
<1>1. Init => TypeOK /\ AckInv
  <2> SUFFICES ASSUME Init
               PROVE  TypeOK /\ AckInv
    OBVIOUS
  <2>1. TypeOK
    BY InitType
  <2>2. U16(0) = 0
    BY U16Small, SeqModAssumption
  <2>3. Gap <= HalfWindow
    BY HalfWindowSize DEF Init, Gap
  <2>4. QED
    BY <2>1, <2>2, <2>3 DEF Init, AckInv
<1>2. TypeOK /\ AckInv /\ [Next]_vars => (TypeOK /\ AckInv)'
  BY TypeStep, AckInvStep
<1>3. TypeOK /\ AckInv => ExactWhileRecent
  BY GapMeasured DEF AckInv, ExactWhileRecent, in_flight, InFlight
<1>4. QED
  BY <1>1, <1>2, <1>3, PTL DEF Spec

-----------------------------------------------------------------------------
(* An answer never makes in_flight() grow while it measures the window,    *)
(* whether acked is the newest number by then or not.                      *)
THEOREM AnswersShrink == Spec => AckShrinks
<1> DEFINE Shrinks ==
      ntransmitted' = ntransmitted /\ U16(ntransmitted - acked) <= HalfWindow
        => in_flight' <= in_flight
<1>1. TypeOK /\ [Next]_vars => Shrinks
  <2> SUFFICES ASSUME TypeOK, [Next]_vars, ntransmitted' = ntransmitted,
                      U16(ntransmitted - acked) <= HalfWindow
               PROVE  in_flight' <= in_flight
    OBVIOUS
  <2>1. ntransmitted \in Int /\ acked \in Int
        /\ U16(ntransmitted - acked) \in 0 .. HalfWindow
        /\ in_flight = U16(ntransmitted - acked)
    BY U16Type, SeqModAssumption DEF TypeOK, in_flight, InFlight
  <2>2. CASE Transmit
    BY <2>2 DEF Transmit, TypeOK
  <2>3. ASSUME NEW i \in 1 .. ntransmitted, Ack(i)
        PROVE  in_flight' <= in_flight
    <3> DEFINE e == U16(ntransmitted - U16(i))
    <3>1. U16(i) \in 0 .. SeqMod - 1 /\ e \in 0 .. SeqMod - 1
      BY <2>1, U16Type
    <3>2. acked' = IF e < U16(ntransmitted - acked) THEN U16(i) ELSE acked
      BY <2>1, <2>3, <3>1, AcknowledgeInWindow DEF Ack, TypeOK
    <3>3. /\ U16(ntransmitted - acked') \in 0 .. HalfWindow
          /\ U16(ntransmitted - acked') <= U16(ntransmitted - acked)
      BY <2>1, <3>1, <3>2, HalfWindowSize
    <3>4. in_flight' = U16(ntransmitted - acked')
      BY <3>3 DEF in_flight, InFlight
    <3>5. QED
      BY <2>1, <3>3, <3>4
  <2>4. CASE UNCHANGED vars
    BY <2>1, <2>4 DEF vars, in_flight, InFlight
  <2>5. QED
    BY <2>2, <2>3, <2>4 DEF Next
<1>2. QED
  BY <1>1, AckTypeCorrect, PTL DEF Spec, AckShrinks

=============================================================================
