------------------------------ MODULE Checksum ------------------------------
(***************************************************************************)
(* The checksum of a probe: in_cksum() of ping_run.c, and its use by       *)
(* send_probe(), which sums a packet with an empty time stamp, reads the   *)
(* clock as late as it can, and then brings the checksum up to date with   *)
(* the words of the stamp alone.                                           *)
(*                                                                         *)
(* The loop of in_cksum() adds the words of its buffer; of a packet only   *)
(* that sum is kept.  Word stands for 2^16.  A packet has less than Word   *)
(* words, so that the accumulator does not overflow and two folds are      *)
(* enough.                                                                 *)
(***************************************************************************)
EXTENDS Integers

CONSTANT Word

ASSUME WordAssumption == Word \in Nat /\ Word >= 2

(* ~w as a u_short                                                         *)
Complement(w) == Word - 1 - (w % Word)

(* Mutant: the carry of the first fold is lost.                            *)
InCksumOneFold(sum, csum) ==
  Complement((csum + sum) \div Word + ((csum + sum) % Word))

(* in_cksum() of words with this sum, on top of csum.                      *)
InCksum(sum, csum) ==
  LET once == (csum + sum) \div Word + ((csum + sum) % Word)
  IN  Complement(once + once \div Word)

(* The words of a time stamp.                                              *)
StampSum(time) == (time \div Word) + (time % Word)

(* The checksum send_probe() writes into a packet with this stamp, the     *)
(* other words of which add up to rest.  With F_LATENCY the stamp is       *)
(* already there when the packet is summed.                                *)
ProbeChecksum(rest, stamp, latency) ==
  IF latency
  THEN InCksum(rest + StampSum(stamp), 0)
  ELSE InCksum(StampSum(stamp), Complement(InCksum(rest, 0)))

=============================================================================
