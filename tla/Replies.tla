------------------------------ MODULE Replies ------------------------------
(***************************************************************************)
(* What becomes of one answer: the time stamp and checksum its probe left  *)
(* with (send_probe()), the kernel's time stamp or the clock when it is    *)
(* received (main_loop()), the lookup of its sender's name, which the      *)
(* alarm may break off, and only then its count and round-trip time        *)
(* (gather_statistics()), its result, and at last the report (finish()).   *)
(*                                                                         *)
(* Counting has to be right whatever the signal breaks off, and times have *)
(* to be right whatever the thread, the resolver and somebody who sets the *)
(* clock do between two steps.  When probes are sent, and which errors     *)
(* count, is PingLoop's.                                                   *)
(***************************************************************************)
EXTENDS Checksum, Figures, NameLookup, Sequences

CONSTANTS
  npackets,    \* -c
  Latency,     \* whether -U is given
  Rest,        \* the sum of the words of a probe with number 0
  Kinds,       \* what an answer may be like
  Start, Delays, Jumps,
  MaxNow, MaxJumps, MaxFaults, MaxRuns  \* bounds of the model

ASSUME RepliesAssumption ==
  /\ npackets \in Nat \ {0} /\ Latency \subseteq BOOLEAN /\ Rest \in Nat
  /\ Kinds \subseteq {"whole", "truncated", "headless"}
  /\ Start \in Nat /\ Delays \subseteq Nat \ {0} /\ Jumps \subseteq Nat \ {0}
  /\ {MaxNow, MaxJumps, MaxFaults} \subseteq Nat /\ MaxRuns \in Nat \ {0}

VARIABLES
  pc,              \* "loop", "lookup", "gather", "newton" or "done"
  latency,         \* F_LATENCY
  ntransmitted, nerrors,
  wire,            \* probes whose answer may come
  inbox,           \* the socket's receive buffer
  errors,          \* how many refusals its error queue holds
  held,            \* the answer in packet[]; NoAnswer before the first
  result,          \* the time last given to ping_result()
  taken,           \* how many answers were received
  now, offset,     \* the time, and what the clock shows more
  back, forward,   \* by how much it was set
  faults,          \* copies the network made, and probes it refused
  runs

clockVars == <<now, offset, back, forward>>
netVars == <<wire, inbox, errors, faults>>
sendVars == <<latency, ntransmitted>>
handVars == <<held, result, taken, nerrors>>
vars == <<pc, runs, clockVars, netVars, sendVars, handVars,
          figureVars, lookupVars>>

Clock == now + offset

Probe == [seq : Nat, stamp : Nat, checksum : 0 .. Word - 1, sent : Nat]

NoAnswer == [seq |-> 0]

Answer == [seq : Nat, stamp : Nat, kind : Kinds, sent : Nat,
           arrived : Nat, tv : Nat, received : Nat]

TypeOK ==
  /\ LookupTypeOK /\ FiguresTypeOK
  /\ pc \in {"loop", "lookup", "gather", "newton", "done"}
  /\ latency \in BOOLEAN /\ ntransmitted \in 0 .. npackets /\ nerrors \in Nat
  /\ wire \subseteq Probe /\ inbox \in Seq(Answer) /\ errors \in Nat
  /\ held \in Answer \cup {NoAnswer} /\ result \in Nat \cup {-1}
  /\ taken \in Nat /\ now \in Nat /\ offset \in Int /\ Clock \in Nat
  /\ back \in Nat /\ forward \in Nat
  /\ faults \in 0 .. MaxFaults
  /\ runs \in 1 .. MaxRuns

Init ==
  /\ LookupInit /\ FiguresInit
  /\ pc = "loop" /\ latency \in Latency /\ ntransmitted = 0 /\ nerrors = 0
  /\ wire = {} /\ inbox = <<>> /\ errors = 0
  /\ held = NoAnswer /\ result = -1 /\ taken = 0
  /\ now = 0 /\ offset = Start /\ back = 0 /\ forward = 0
  /\ faults = 0 /\ runs = 1

-----------------------------------------------------------------------------
(* The thread in main_loop().                                              *)

Over == exiting \/ nreceived + nerrors >= npackets

SendProbe ==
  /\ pc = "loop" /\ ~Over /\ ntransmitted < npackets
  /\ ntransmitted' = ntransmitted + 1
  /\ rcvd' = rcvd \ {ntransmitted + 1}
  /\ wire' = wire \cup
       {[seq |-> ntransmitted + 1, stamp |-> Clock, sent |-> now,
         checksum |-> ProbeChecksum(Rest + ntransmitted + 1, Clock, latency)]}
  /\ alarm' = (ntransmitted + 1 = npackets)
  /\ UNCHANGED <<pc, runs, clockVars, inbox, errors, faults, latency,
                 handVars, nreceived, nrepeats, sumVars, root, untimed,
                 place, in_pr_addr, exiting>>

(* recvmsg() with a time stamp of the kernel's, or the clock; then         *)
(* parse_reply() evaluates its arguments.  Between two answers in a row    *)
(* the loop does not ask whether the run is over.                          *)
RecvReply ==
  /\ pc = "loop" /\ errors = 0 /\ inbox # <<>>
  /\ held' = [Head(inbox) EXCEPT !.tv = IF latency THEN Clock ELSE @,
                                 !.received = now]
  /\ inbox' = Tail(inbox)
  /\ taken' = taken + 1
  /\ Enter /\ pc' = "lookup"
  /\ UNCHANGED <<runs, clockVars, wire, errors, faults, sendVars,
                 result, nerrors, figureVars>>

(* receive_error_msg() counts, and looks the name up to print it.          *)
RecvError ==
  /\ pc = "loop" /\ errors > 0
  /\ errors' = errors - 1 /\ nerrors' = nerrors + 1
  /\ held' = NoAnswer
  /\ Enter /\ pc' = "lookup"
  /\ UNCHANGED <<runs, clockVars, wire, inbox, faults, sendVars,
                 result, taken, figureVars>>

LookUp ==
  /\ pc = "lookup" /\ Decide
  /\ UNCHANGED <<pc, runs, clockVars, netVars, sendVars, handVars, figureVars>>

ResolverAnswers ==
  /\ pc = "lookup" /\ Resolved
  /\ UNCHANGED <<pc, runs, clockVars, netVars, sendVars, handVars, figureVars>>

Return ==
  /\ pc = "lookup" /\ Leave
  /\ pc' = IF held = NoAnswer THEN "loop" ELSE "gather"
  /\ UNCHANGED <<runs, clockVars, netVars, sendVars, handVars, figureVars>>

-----------------------------------------------------------------------------
(* gather_statistics()                                                     *)

Timed == held.kind # "headless"

WentBack == Timed /\ held.tv < held.stamp

(* Countermeasures are taken once: the answer, and each one after it, is   *)
(* given the time at which it is looked at.                                *)
Trip ==
  LET tv == IF WentBack /\ ~latency THEN Clock ELSE held.tv
  IN  IF tv < held.stamp THEN 0 ELSE tv - held.stamp

Gather ==
  /\ pc = "gather"
  /\ IF Timed THEN AddSample(Trip) ELSE NoSample
  /\ latency' = (latency \/ WentBack)
  /\ Count(held.seq)
  /\ result' = IF held.kind = "whole" THEN Shown(Trip) ELSE -1
  /\ pc' = "loop"
  /\ UNCHANGED <<runs, clockVars, netVars, ntransmitted, held, taken, nerrors,
                 root, lookupVars>>

-----------------------------------------------------------------------------
(* finish(), and another run of the process, which has a socket of its     *)
(* own.                                                                    *)

Finish ==
  /\ pc = "loop" /\ Over
  /\ wire' = {} /\ inbox' = <<>> /\ errors' = 0
  /\ IF nreceived > 0
     THEN DivideSums /\ pc' = "newton"
     ELSE pc' = "done" /\ UNCHANGED figureVars
  /\ UNCHANGED <<runs, clockVars, faults, sendVars, handVars,
                 lookupVars>>

Improve ==
  /\ pc = "newton" /\ Newton
  /\ UNCHANGED <<pc, runs, clockVars, netVars, sendVars, handVars, lookupVars>>

Report ==
  /\ pc = "newton" /\ ~Improving
  /\ pc' = "done"
  /\ UNCHANGED <<runs, clockVars, netVars, sendVars, handVars, figureVars,
                 lookupVars>>

StartAgain ==
  /\ pc = "done" /\ runs < MaxRuns
  /\ pc' = "loop" /\ runs' = runs + 1
  /\ UNCHANGED <<clockVars, netVars, sendVars, handVars, figureVars,
                 lookupVars>>

-----------------------------------------------------------------------------
(* The signal is taken by the thread wherever it is, and may move it.      *)
SignalArrives ==
  /\ AlarmSignal
  /\ pc' = IF place' = "entered" THEN "lookup" ELSE pc
  /\ UNCHANGED <<runs, clockVars, netVars, sendVars, handVars, figureVars>>

Stop ==
  /\ StopPing
  /\ UNCHANGED <<pc, runs, clockVars, netVars, sendVars, handVars, figureVars>>

(* The network: an answer arrives, and may arrive again; a probe is        *)
(* refused.                                                                *)
Arrive(probe, kind, again) ==
  /\ faults' = faults + (IF again THEN 1 ELSE 0) /\ faults' <= MaxFaults
  /\ wire' = IF again THEN wire ELSE wire \ {probe}
  /\ inbox' = Append(inbox,
       [seq |-> probe.seq, stamp |-> probe.stamp, kind |-> kind,
        sent |-> probe.sent, arrived |-> now, tv |-> Clock, received |-> now])
  /\ UNCHANGED <<pc, runs, clockVars, errors, sendVars, handVars,
                 figureVars, lookupVars>>

Refuse(probe) ==
  /\ faults < MaxFaults
  /\ faults' = faults + 1 /\ errors' = errors + 1
  /\ wire' = wire \ {probe}
  /\ UNCHANGED <<pc, runs, clockVars, inbox, sendVars, handVars,
                 figureVars, lookupVars>>

(* The clock is not read for the figures of the report.                    *)
Running == pc \in {"loop", "lookup", "gather"}

Tick(by) ==
  /\ Running /\ now + by <= MaxNow
  /\ now' = now + by
  /\ UNCHANGED <<pc, runs, offset, back, forward, netVars, sendVars, handVars,
                 figureVars, lookupVars>>

(* Somebody sets the clock.                                                *)
SetForward(by) ==
  /\ Running /\ back + forward + by <= MaxJumps
  /\ offset' = offset + by /\ forward' = forward + by
  /\ UNCHANGED <<pc, runs, now, back, netVars, sendVars, handVars, figureVars,
                 lookupVars>>

SetBack(by) ==
  /\ Running /\ back + forward + by <= MaxJumps /\ Clock >= by
  /\ offset' = offset - by /\ back' = back + by
  /\ UNCHANGED <<pc, runs, now, forward, netVars, sendVars, handVars,
                 figureVars, lookupVars>>

Thread ==
  \/ SendProbe \/ RecvReply \/ RecvError \/ LookUp \/ Return \/ Gather
  \/ Finish \/ Improve \/ Report \/ StartAgain

Next ==
  \/ Thread \/ ResolverAnswers \/ SignalArrives \/ Stop
  \/ \E probe \in wire :
       \/ Refuse(probe)
       \/ \E kind \in Kinds, again \in BOOLEAN : Arrive(probe, kind, again)
  \/ \E by \in Delays : Tick(by)
  \/ \E by \in Jumps : SetForward(by) \/ SetBack(by)

(* The thread is scheduled and an armed timer expires; nothing is asked of *)
(* the resolver, or of the network.                                        *)
Fairness == WF_vars(Thread) /\ WF_vars(SignalArrives)

Spec == Init /\ [][Next]_vars /\ Fairness

-----------------------------------------------------------------------------
(* Properties.                                                             *)

(* However the checksum was come by -- of the whole packet, or patched     *)
(* after the stamp was put in -- the words of each probe that leaves add   *)
(* up to zero in one's complement, which is what the far end asks for and  *)
(* what in_cksum() itself finds.                                           *)
ProbesCheckOut ==
  \A probe \in wire :
    LET sum == Rest + probe.seq + StampSum(probe.stamp) + probe.checksum
    IN  /\ sum > 0 /\ sum % (Word - 1) = 0
        /\ InCksum(sum, 0) = 0

(* Whatever is summed, repeated, truncated, timed with a clock set back,   *)
(* or reported again: the report's average is no more than its maximum,    *)
(* and in a first report of whole answers no less than its minimum; the    *)
(* variance is no less than 0, and llsqrt() is its integer root or, just   *)
(* below a square, one more; and the running average that paces -A stays   *)
(* between the extremes.                                                   *)
FiguresSound ==
  /\ untimed < Answers => 8 * tmin <= rtt /\ rtt <= 8 * tmax
  /\ pc = "done" /\ nreceived > 0 =>
       /\ tsum <= tmax /\ (runs = 1 /\ untimed = 0 => tmin <= tsum)
       /\ root.of >= 0
       /\ root.x * root.x <= root.of + 1
       /\ (root.x + 1) * (root.x + 1) > root.of

(* Each answer taken from the socket is counted once: an alarm that breaks *)
(* off the lookup before its count neither loses it nor counts it twice.   *)
NoAnswerLost ==
  taken = Answers
    + (IF pc \in {"lookup", "gather"} /\ held # NoAnswer THEN 1 ELSE 0)

(* A round-trip time is that of the answer, from send_probe() to its       *)
(* arrival, or with F_LATENCY to recvmsg(), whatever the thread and the    *)
(* resolver did after; no more than the clock was set by is added or       *)
(* missing, and the time until it was counted.  The time given to Java is  *)
(* no more than that and less than a millisecond short of it.              *)
TimeHonest ==
  [][Answers' = Answers + 1 /\ untimed' = untimed =>
       LET trip == tsum' - tsum
           end == IF latency THEN held.received ELSE held.arrived
       IN  /\ held.arrived - held.sent <= trip + back
           /\ trip <= now - held.sent + forward
           /\ back + forward = 0 => trip = end - held.sent
           /\ result' # -1 => result' <= trip /\ trip < result' + Milli]_vars

(* The alarm ends a run, though the resolver may never answer.             *)
RunEnds == alarm ~> pc = "done"

=============================================================================
