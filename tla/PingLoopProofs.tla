--------------------------- MODULE PingLoopProofs ---------------------------
(***************************************************************************)
(* Proofs about PingLoop, for every value of its constants.                *)
(***************************************************************************)
EXTENDS PingLoop, SeqWindowProofs, FiniteSetTheorems

-----------------------------------------------------------------------------
(* Types.                                                                  *)

Delays == {"again", "tiny", "short", "full"}

(* schedule_exit() leaves a wait and a timer.                              *)
LEMMA ScheduleExitType ==
  ASSUME TypeOK, ScheduleExit
  PROVE  waittime' \in Nat /\ alarm' \in BOOLEAN
<1> DEFINE due == AllSent(ntransmitted') /\ waittime = 0
<1>1. /\ waittime' = IF due THEN ExitWait ELSE waittime
      /\ alarm' = IF due THEN ExitWait > 0 ELSE alarm
  BY DEF ScheduleExit
<1>2. waittime' \in Nat
  BY <1>1, PingLoopAssumption DEF TypeOK, ExitWait
<1>3. (ExitWait > 0) \in BOOLEAN
  OBVIOUS
<1> HIDE DEF due
<1>4. alarm' \in BOOLEAN
  BY <1>1, <1>3, Zenon DEF TypeOK
<1>5. QED
  BY <1>2, <1>4

(* After pinger() the thread is at one of three places.                    *)
LEMMA PingerReturnsType ==
  ASSUME TypeOK, NEW delays \in SUBSET Delays, PingerReturns(delays)
  PROVE  waittime' \in Nat /\ alarm' \in BOOLEAN
         /\ pc' \in {"check", "poll", "recv"}
<1>1. waittime' \in Nat /\ alarm' \in BOOLEAN
  BY ScheduleExitType DEF PingerReturns
<1>2. PICK delay \in delays : \E next \in Stretched(delay) : pc' = AfterDelay(next)
  BY DEF PingerReturns
<1>3. PICK next \in Stretched(delay) : pc' = AfterDelay(next)
  BY <1>2
<1>4. next \in Delays
  BY DEF Stretched, Delays
<1>5. pc' \in {"check", "poll", "recv"}
  BY <1>3, <1>4 DEF AfterDelay, Delays
<1>6. QED
  BY <1>1, <1>5

(* receive_error_msg() leaves the counter and the flag well typed.         *)
LEMMA ReceiveErrorMsgType ==
  ASSUME TypeOK, NEW e \in Entries, ReceiveErrorMsg(e)
  PROVE  nerrors' \in Nat /\ working_recverr' \in BOOLEAN
BY DEF TypeOK, ReceiveErrorMsg

(* acked after an entry of the error queue.                                *)
LEMMA AckedByType ==
  ASSUME TypeOK, NEW e \in Entries
  PROVE  AckedBy(e) \in 0 .. SeqMod - 1
<1>1. CASE e.kind = "icmp"
  <2>1. e.probe \in Int /\ ntransmitted \in Int
    BY DEF Entries, TypeOK
  <2>2. QED
    BY <1>1, <2>1, AcknowledgeType DEF AckedBy, TypeOK
<1>2. CASE e.kind # "icmp"
  BY <1>2 DEF AckedBy, TypeOK
<1>3. QED
  BY <1>1, <1>2

(* The error queue after a failed sendmsg().                               *)
LEMMA QueueAfterType ==
  ASSUME TypeOK, NEW errno
  PROVE  QueueAfter(errno) \in Seq(Entries)
<1>1. Entry("local", 0) \in Entries
  BY DEF Entry, Entries
<1>2. QED
  BY <1>1 DEF QueueAfter, TypeOK

(* advance_ntransmitted() keeps the counter and the window well typed.     *)
LEMMA AdvanceNtransmittedType ==
  ASSUME TypeOK, AdvanceNtransmitted
  PROVE  ntransmitted' \in Nat /\ acked' \in 0 .. SeqMod - 1
<1>1. ntransmitted + 1 \in Int
  BY DEF TypeOK
<1>2. QED
  BY <1>1, AdvanceAckedType DEF AdvanceNtransmitted, TypeOK

(* An answer leaves the network or stays in it.                            *)
LEMMA DeliveredType ==
  ASSUME TypeOK, NEW i, Delivered(i)
  PROVE  wire' \subseteq Nat /\ copies' \in Nat
<1>1. wire' \subseteq Nat
  BY DEF Delivered, TypeOK
<1>2. copies' \in Nat
  BY DEF Delivered, TypeOK
<1>3. QED
  BY <1>1, <1>2

(* A failed sendmsg() that finds an entry in the error queue.              *)
LEMMA SendFailsOnEntryType ==
  ASSUME TypeOK, NEW errno, SendFailsOnEntry(errno), rcvd' \subseteq rcvd
  PROVE  TypeOK'
<1> USE DEF stopVars, countVars, windowVars, sendVars, rawVars, netVars, runVars
<1> DEFINE q == QueueAfter(errno)
           e == Head(q)
<1>1. q \in Seq(Entries) /\ q # << >>
  BY QueueAfterType DEF SendFailsOnEntry
<1>2. e \in Entries /\ Tail(q) \in Seq(Entries)
  BY <1>1
<1>3. /\ errq' = Tail(q)
      /\ ReceiveErrorMsg(e)
      /\ UNCHANGED <<exiting, nreceived, nrepeats, sendVars, once, rawq,
                     half, wire, copies, notices, runVars>>
      /\ \/ /\ acked' = AckedBy(e)
            /\ UNCHANGED ntransmitted
            /\ PingerReturns({"tiny"})
         \/ AdvanceNtransmitted /\ PingerReturns({"full"})
         \/ pc' = "send" /\ UNCHANGED <<waittime, alarm, ntransmitted, acked>>
  BY DEF SendFailsOnEntry
<1> HIDE DEF q, e
<1>4. nerrors' \in Nat /\ working_recverr' \in BOOLEAN
  BY <1>2, <1>3, ReceiveErrorMsgType
<1>5. ntransmitted' \in Nat /\ acked' \in 0 .. SeqMod - 1
  BY <1>2, <1>3, AckedByType, AdvanceNtransmittedType DEF TypeOK
<1>6. {"tiny"} \in SUBSET Delays /\ {"full"} \in SUBSET Delays
  BY DEF Delays
<1>7. waittime' \in Nat /\ alarm' \in BOOLEAN
      /\ pc' \in {"check", "send", "poll", "recv"}
  BY <1>3, <1>6, PingerReturnsType DEF TypeOK
<1>8. QED
  BY <1>2, <1>3, <1>4, <1>5, <1>7 DEF TypeOK

(* Every step keeps the types.                                             *)
LEMMA TypeStep ==
  ASSUME TypeOK, [Next]_vars
  PROVE  TypeOK'
<1> USE DEF stopVars, countVars, windowVars, sendVars, rawVars, netVars, runVars
<1>1. CASE Finish
  <2>1. [transmitted |-> ntransmitted, received |-> nreceived,
         duplicates |-> nrepeats, errors |-> nerrors, loss |-> Loss] \in Reports
    BY DEF Reports, Loss, TypeOK
  <2>2. QED
    BY <1>1, <2>1 DEF Finish, TypeOK
<1>2. CASE LoopEnter
  BY <1>2 DEF LoopEnter, TypeOK
<1>3. CASE PingerIdle \/ PingerNoTokens
  <2>1. PICK delays \in SUBSET Delays : PingerReturns(delays)
    BY <1>3 DEF PingerIdle, PingerNoTokens, Delays
  <2>2. waittime' \in Nat /\ alarm' \in BOOLEAN /\ pc' \in {"check", "poll", "recv"}
    BY <2>1, PingerReturnsType
  <2>3. QED
    BY <1>3, <2>2 DEF PingerIdle, PingerNoTokens, TypeOK
<1>4. CASE PingerGo
  BY <1>4 DEF PingerGo, TypeOK
<1>5. CASE SendOk
  <2>1. PICK delays \in SUBSET Delays : PingerReturns(delays)
    BY <1>5 DEF SendOk, Delays
  <2>2. waittime' \in Nat /\ alarm' \in BOOLEAN /\ pc' \in {"check", "poll", "recv"}
    BY <2>1, PingerReturnsType
  <2>3. ntransmitted' \in Nat /\ acked' \in 0 .. SeqMod - 1
    BY <1>5, AdvanceNtransmittedType DEF SendOk
  <2>4. rcvd' \subseteq 0 .. SeqMod - 1 /\ wire' \subseteq Nat
    <3>1. rcvd' \subseteq 0 .. SeqMod - 1
      BY <1>5 DEF SendOk, SendProbe, TypeOK
    <3>2. wire' \subseteq Nat
      BY <1>5 DEF SendOk, TypeOK
    <3>3. QED
      BY <3>1, <3>2
  <2>5. oom_count' \in Nat
    BY <1>5 DEF SendOk
  <2>6. QED
    BY <1>5, <2>2, <2>3, <2>4, <2>5 DEF SendOk, TypeOK
<1>6. CASE SendBlocked
  <2>1. PingerReturns({"tiny"}) /\ {"tiny"} \in SUBSET Delays
    BY <1>6 DEF SendBlocked, Delays
  <2>2. waittime' \in Nat /\ alarm' \in BOOLEAN /\ pc' \in {"check", "poll", "recv"}
    BY <2>1, PingerReturnsType
  <2>3. QED
    BY <1>6, <2>2 DEF SendBlocked, SendProbe, TypeOK
<1>7. CASE SendNoBufs
  <2>1. PICK delays \in SUBSET Delays : PingerReturns(delays)
    BY <1>7 DEF SendNoBufs, Delays
  <2>2. waittime' \in Nat /\ alarm' \in BOOLEAN /\ pc' \in {"check", "poll", "recv"}
    BY <2>1, PingerReturnsType
  <2>3. ntransmitted' \in Nat /\ acked' \in 0 .. SeqMod - 1
    BY <1>7, AdvanceNtransmittedType DEF SendNoBufs, TypeOK
  <2>4. rcvd' \subseteq 0 .. SeqMod - 1
    BY <1>7 DEF SendNoBufs, SendProbe, TypeOK
  <2>5. oom_count' \in Nat
    BY <1>7 DEF SendNoBufs, TypeOK
  <2>6. QED
    BY <1>7, <2>2, <2>3, <2>4, <2>5 DEF SendNoBufs, TypeOK
<1>8. CASE SendFails
  <2>1. PICK errno \in SendFailures :
          SendFailsOnEntry(errno) \/ SendFailsBare(errno)
    BY <1>8 DEF SendFails
  <2>2. CASE SendFailsOnEntry(errno)
    BY <1>8, <2>2, SendFailsOnEntryType DEF SendFails, SendProbe
  <2>3. CASE SendFailsBare(errno)
    <3>1. ntransmitted' \in Nat /\ acked' \in 0 .. SeqMod - 1
      BY <2>3, AdvanceNtransmittedType DEF SendFailsBare, TypeOK
    <3>2. waittime' \in Nat /\ alarm' \in BOOLEAN
          /\ pc' \in {"check", "send", "poll", "recv"}
      <4>1. {"full"} \in SUBSET Delays
        BY DEF Delays
      <4>2. QED
        BY <2>3, <4>1, PingerReturnsType DEF SendFailsBare, TypeOK
    <3>3. confirm_flag' \in BOOLEAN
      BY <2>3 DEF SendFailsBare, TypeOK
    <3>4. QED
      BY <1>8, <2>3, <3>1, <3>2, <3>3
      DEF SendFails, SendProbe, SendFailsBare, TypeOK
  <2>4. QED
    BY <2>1, <2>2, <2>3
<1>9. CASE PollTimeout \/ PollReady \/ RecvNothing
  BY <1>9 DEF PollTimeout, PollReady, RecvNothing, TypeOK
<1>10. CASE RecvError
  <2>1. errq \in Seq(Entries) /\ errq # << >>
    BY <1>10 DEF RecvError, SockErr, TypeOK
  <2>2. Head(errq) \in Entries /\ Tail(errq) \in Seq(Entries)
    BY <2>1
  <2>3. nerrors' \in Nat /\ working_recverr' \in BOOLEAN
    BY <1>10, <2>2, ReceiveErrorMsgType DEF RecvError
  <2>4. acked' \in 0 .. SeqMod - 1
    BY <1>10, <2>2, AckedByType DEF RecvError
  <2>5. QED
    BY <1>10, <2>2, <2>3, <2>4 DEF RecvError, NextRecv, TypeOK
<1>11. ASSUME NEW i \in wire, RecvReply(i)
       PROVE  TypeOK'
  <2>1. i \in Int /\ ntransmitted \in Int
    BY <1>11 DEF TypeOK
  <2>2. acked' \in 0 .. SeqMod - 1 /\ U16(i) \in 0 .. SeqMod - 1
    BY <1>11, <2>1, U16Type, AcknowledgeType DEF RecvReply, TypeOK
  <2>3. wire' \subseteq Nat /\ copies' \in Nat
    BY <1>11, DeliveredType DEF RecvReply
  <2>4. rcvd' \subseteq 0 .. SeqMod - 1
    BY <1>11, <2>2 DEF RecvReply, TypeOK
  <2>5. nreceived' \in Nat /\ nrepeats' \in Nat
    BY <1>11 DEF RecvReply, TypeOK
  <2>6. QED
    BY <1>11, <2>2, <2>3, <2>4, <2>5 DEF RecvReply, NextRecv, TypeOK
<1>12. ASSUME NEW i \in rawq, RecvRawError(i)
       PROVE  TypeOK'
  <2>1. i \in Int /\ ntransmitted \in Int
    BY <1>12 DEF TypeOK
  <2>2. acked' \in 0 .. SeqMod - 1
    BY <1>12, <2>1, AcknowledgeType DEF RecvRawError, TypeOK
  <2>3. QED
    BY <1>12, <2>2 DEF RecvRawError, NextRecv, TypeOK
<1>13. CASE RecvIgnored
  BY <1>13 DEF RecvIgnored, NextRecv, TypeOK
<1>14. CASE AlarmFires \/ StopPing
  BY <1>14 DEF AlarmFires, StopPing, TypeOK
<1>15. ASSUME NEW i \in wire, NetError(i) \/ NetRawError(i)
       PROVE  TypeOK'
  <2>1. wire' \subseteq Nat /\ copies' \in Nat
    BY <1>15, DeliveredType DEF NetError, NetRawError, Network
  <2>2. Entry("icmp", i) \in Entries /\ i \in Nat
    BY <1>15 DEF Entry, Entries, TypeOK
  <2>3. CASE NetError(i)
    BY <2>1, <2>2, <2>3 DEF NetError, TypeOK
  <2>4. CASE NetRawError(i)
    <3>1. rawq' \subseteq Nat
      BY <2>2, <2>4 DEF NetRawError, TypeOK
    <3>2. half' \subseteq Nat
      BY <2>2, <2>4 DEF NetRawError, TypeOK
    <3>3. QED
      BY <2>1, <2>4, <3>1, <3>2 DEF NetRawError, TypeOK
  <2>5. QED
    BY <1>15, <2>3, <2>4
<1>16. ASSUME NEW i \in half, NetRawQueued(i)
       PROVE  TypeOK'
  <2>1. Entry("icmp", i) \in Entries
    BY <1>16 DEF Entry, Entries, TypeOK
  <2>2. QED
    BY <1>16, <2>1 DEF NetRawQueued, TypeOK
<1>17. ASSUME NEW kind \in Notices, NetNotice(kind)
       PROVE  TypeOK'
  <2>1. Entry(kind, 0) \in Entries
    BY <1>17, PingLoopAssumption DEF Entry, Entries
  <2>2. QED
    BY <1>17, <2>1 DEF NetNotice, TypeOK
<1>18. CASE UNCHANGED vars
  BY <1>18 DEF vars, TypeOK
<1>19. QED
  BY <1>1, <1>2, <1>3, <1>4, <1>5, <1>6, <1>7, <1>8, <1>9, <1>10, <1>11, <1>12,
     <1>13, <1>14, <1>15, <1>16, <1>17, <1>18
  DEF Next, Thread, Send, Receive, NetStep, Done

(* They have their types at first.                                         *)
LEMMA InitType ==
  ASSUME Init
  PROVE  TypeOK
<1>1. alarm \in BOOLEAN
  BY PingLoopAssumption, Zenon DEF Init
<1>2. npackets \in Nat
  BY PingLoopAssumption DEF Init
<1>3. 0 \in 0 .. SeqMod - 1
  BY SeqModAssumption
<1>4. errq \in Seq(Entries) /\ reports \in Seq(Reports)
  BY DEF Init
<1>5. wire \subseteq Nat /\ rawq \subseteq Nat /\ half \subseteq Nat
      /\ rcvd \subseteq 0 .. SeqMod - 1
  BY DEF Init
<1>6. QED
  BY <1>1, <1>2, <1>3, <1>4, <1>5 DEF Init, TypeOK

(* All variables have their types in every reachable state.                *)
THEOREM TypeCorrect == Spec => []TypeOK
<1>1. Init => TypeOK
  BY InitType
<1>2. TypeOK /\ [Next]_vars => TypeOK'
  BY TypeStep
<1>3. QED
  BY <1>1, <1>2, PTL DEF Spec

-----------------------------------------------------------------------------
(* What a step may do to the variables that decide when the run ends.      *)

(* A step of the thread that does not come back from pinger().             *)
CalmStep ==
  /\ UNCHANGED <<ntransmitted, npackets, waittime, alarm, exiting>>
  /\ \/ pc' = pc
     \/ pc = "top" /\ pc' \in {"check", "done"}
     \/ pc = "check" /\ pc' = "send" /\ ~Enough
     \/ pc \in {"poll", "recv"} /\ pc' \in {"top", "recv"}

(* A step that comes back from pinger(), perhaps with one more probe out.  *)
PingerStep ==
  /\ UNCHANGED <<npackets, exiting>>
  /\ \/ pc \in {"check", "send"} /\ ntransmitted' = ntransmitted
     \/ pc = "send" /\ ntransmitted' = ntransmitted + 1
  /\ ScheduleExit
  /\ pc' \in {"check", "poll", "recv"}

(* The timer or the other thread sets exiting.                             *)
SignalStep ==
  /\ UNCHANGED <<pc, ntransmitted, npackets, waittime>>
  /\ exiting' = TRUE
  /\ alarm' => alarm

LEMMA PingerReturnsStep ==
  ASSUME TypeOK, NEW delays \in SUBSET Delays, PingerReturns(delays)
  PROVE  ScheduleExit /\ pc' \in {"check", "poll", "recv"}
BY PingerReturnsType DEF PingerReturns

(* Every step is of one of these kinds.                                    *)
LEMMA StepShape ==
  ASSUME TypeOK, [Next]_vars
  PROVE  CalmStep \/ PingerStep \/ SignalStep
<1> USE DEF stopVars, countVars, windowVars, sendVars, rawVars, netVars, runVars
<1>1. CASE Finish \/ LoopEnter \/ PingerGo \/ PollTimeout \/ PollReady
           \/ RecvNothing
  BY <1>1 DEF Finish, LoopEnter, PingerGo, PollTimeout, PollReady,
              RecvNothing, CalmStep
<1>2. CASE PingerIdle \/ PingerNoTokens
  <2>1. PICK delays \in SUBSET Delays : PingerReturns(delays)
    BY <1>2 DEF PingerIdle, PingerNoTokens, Delays
  <2>2. QED
    BY <1>2, <2>1, PingerReturnsStep
    DEF PingerIdle, PingerNoTokens, PingerStep
<1>3. CASE SendOk \/ SendBlocked \/ SendNoBufs
  <2>1. PICK delays \in SUBSET Delays : PingerReturns(delays)
    BY <1>3 DEF SendOk, SendBlocked, SendNoBufs, Delays
  <2>2. ScheduleExit /\ pc' \in {"check", "poll", "recv"}
    BY <2>1, PingerReturnsStep
  <2>3. QED
    BY <1>3, <2>2
    DEF SendOk, SendBlocked, SendNoBufs, SendProbe, AdvanceNtransmitted,
        PingerStep
<1>4. CASE SendFails
  <2>1. PICK errno \in SendFailures :
          SendFailsOnEntry(errno) \/ SendFailsBare(errno)
    BY <1>4 DEF SendFails
  <2>2. pc = "send"
    BY <1>4 DEF SendFails, SendProbe
  <2>3. UNCHANGED <<npackets, exiting>>
    BY <2>1 DEF SendFailsOnEntry, SendFailsBare
  <2>4. \/ pc' = "send" /\ UNCHANGED <<ntransmitted, waittime, alarm>>
        \/ /\ ntransmitted' \in {ntransmitted, ntransmitted + 1}
           /\ PingerReturns({"tiny"}) \/ PingerReturns({"full"})
    BY <2>1 DEF SendFailsOnEntry, SendFailsBare, AdvanceNtransmitted
  <2>5. {"tiny"} \in SUBSET Delays /\ {"full"} \in SUBSET Delays
    BY DEF Delays
  <2>6. QED
    BY <2>2, <2>3, <2>4, <2>5, PingerReturnsStep DEF CalmStep, PingerStep
<1>5. CASE RecvError \/ RecvIgnored
  BY <1>5 DEF RecvError, RecvIgnored, NextRecv, CalmStep
<1>6. ASSUME NEW i, RecvReply(i) \/ RecvRawError(i)
      PROVE  CalmStep
  BY <1>6 DEF RecvReply, RecvRawError, NextRecv, CalmStep
<1>7. CASE AlarmFires \/ StopPing
  BY <1>7 DEF AlarmFires, StopPing, SignalStep
<1>8. ASSUME NEW i, NetError(i) \/ NetRawError(i) \/ NetRawQueued(i) \/ NetNotice(i)
      PROVE  CalmStep
  BY <1>8 DEF NetError, NetRawError, NetRawQueued, NetNotice, CalmStep
<1>9. CASE UNCHANGED vars
  BY <1>9 DEF vars, CalmStep
<1>10. QED
  BY <1>1, <1>2, <1>3, <1>4, <1>5, <1>6, <1>7, <1>8, <1>9
  DEF Next, Thread, Send, Receive, NetStep, Done

-----------------------------------------------------------------------------
(* No probe beyond -c, and a timer once the last one is out.               *)

(* What the three invariants rest on: a probe is only under way if one is  *)
(* still owed, and waittime remembers that the timer was armed.            *)
EndInv ==
  /\ NeverTooMany
  /\ pc = "send" => ~AllSent(ntransmitted)
  /\ AlarmAfterLast
  /\ waittime > 0 => alarm \/ exiting
  /\ LingerTime > 0 /\ AllSent(ntransmitted) /\ pc \in {"top", "poll", "recv"}
       => waittime > 0

LEMMA EndInvInit ==
  ASSUME Init
  PROVE  EndInv
BY PingLoopAssumption
DEF Init, EndInv, NeverTooMany, AlarmAfterLast, AllSent

(* Every step keeps the invariant.                                         *)
LEMMA EndInvStep ==
  ASSUME TypeOK, TypeOK', EndInv, [Next]_vars
  PROVE  EndInv'
<1>1. CASE CalmStep
  BY <1>1
  DEF CalmStep, EndInv, NeverTooMany, AlarmAfterLast, AllSent, Enough, TypeOK
<1>2. CASE PingerStep
  <2> DEFINE due == AllSent(ntransmitted') /\ waittime = 0
  <2>1. NeverTooMany'
    <3>1. CASE ntransmitted' = ntransmitted
      BY <1>2, <3>1 DEF PingerStep, EndInv, NeverTooMany
    <3>2. CASE pc = "send" /\ ntransmitted' = ntransmitted + 1
      <4>1. ~AllSent(ntransmitted) /\ npackets' = npackets
        BY <1>2, <3>2 DEF PingerStep, EndInv
      <4>2. npackets > 0 /\ ~Deadline => ntransmitted < npackets
        BY <4>1 DEF AllSent, TypeOK
      <4>3. QED
        BY <3>2, <4>1, <4>2 DEF NeverTooMany, TypeOK
    <3>3. QED
      BY <1>2, <3>1, <3>2 DEF PingerStep
  <2>2. (pc = "send" => ~AllSent(ntransmitted))'
    BY <1>2 DEF PingerStep
  <2>3. ExitWait \in Nat /\ (LingerTime > 0 => ExitWait > 0)
    BY PingLoopAssumption DEF ExitWait
  <2>4. CASE due
    <3>1. waittime' = ExitWait /\ (alarm' <=> ExitWait > 0)
      BY <1>2, <2>4 DEF PingerStep, ScheduleExit
    <3>2. AllSent(ntransmitted)'
      BY <1>2, <2>4 DEF PingerStep, AllSent
    <3>3. QED
      BY <2>1, <2>2, <2>3, <3>1, <3>2 DEF EndInv, AlarmAfterLast
  <2>5. CASE ~due
    <3>1. waittime' = waittime /\ alarm' = alarm
      BY <1>2, <2>5 DEF PingerStep, ScheduleExit
    <3>2. AlarmAfterLast'
      BY <1>2, <3>1
      DEF PingerStep, EndInv, AlarmAfterLast, AllSent, TypeOK
    <3>3. (waittime > 0 => alarm \/ exiting)'
      BY <1>2, <3>1 DEF PingerStep, EndInv
    <3>4. AllSent(ntransmitted)' => waittime' > 0
      BY <1>2, <2>5, <3>1 DEF PingerStep, AllSent, TypeOK
    <3>5. QED
      BY <2>1, <2>2, <3>2, <3>3, <3>4 DEF EndInv
  <2>6. QED
    BY <2>4, <2>5
<1>3. CASE SignalStep
  BY <1>3
  DEF SignalStep, EndInv, NeverTooMany, AlarmAfterLast, AllSent, TypeOK
<1>4. QED
  BY <1>1, <1>2, <1>3, StepShape

(* The inductive invariant holds of every run.                             *)
LEMMA EndInvariant == Spec => []EndInv
<1>1. Init => EndInv
  BY EndInvInit
<1>2. TypeOK /\ TypeOK' /\ EndInv /\ [Next]_vars => EndInv'
  BY EndInvStep
<1>3. QED
  BY <1>1, <1>2, TypeCorrect, PTL DEF Spec

(* No probe is sent beyond -c, whatever is resent, refused or refunded.    *)
THEOREM NoExtraProbe == Spec => []NeverTooMany
<1>1. EndInv => NeverTooMany
  BY DEF EndInv
<1>2. QED
  BY <1>1, EndInvariant, PTL

(* Once the last probe is out the thread never sleeps without a timer      *)
(* running, unless exiting is set already: the run cannot hang on answers  *)
(* that do not come.                                                       *)
THEOREM NeverHangs == Spec => []LingerArmed
<1>1. EndInv => LingerArmed
  BY DEF EndInv, LingerArmed
<1>2. QED
  BY <1>1, EndInvariant, PTL

(* The linger timer does not cut a run short: it only runs once every      *)
(* probe asked for is out.                                                 *)
THEOREM TimerNotEarly == Spec => []AlarmAfterLast
<1>1. EndInv => AlarmAfterLast
  BY DEF EndInv
<1>2. QED
  BY <1>1, EndInvariant, PTL

(* After exiting is set no probe is started.                               *)
THEOREM StopsSending == Spec => NoSendOnceExiting
<1>1. TypeOK /\ [Next]_vars
        => [exiting => /\ exiting'
                       /\ pc # "send" => pc' # "send"
                                        /\ ntransmitted' = ntransmitted]_vars
  <2>1. SUFFICES ASSUME TypeOK, [Next]_vars, exiting
                 PROVE  exiting' /\ (pc # "send" => pc' # "send"
                                      /\ ntransmitted' = ntransmitted)
    OBVIOUS
  <2>2. QED
    BY <2>1, StepShape DEF CalmStep, PingerStep, SignalStep, Enough
<1>2. QED
  BY <1>1, TypeCorrect, PTL DEF Spec, NoSendOnceExiting

-----------------------------------------------------------------------------
(* Arithmetic of the figures.                                              *)

(* A share of n in percent, as finish() computes it.                       *)
LEMMA Percent ==
  ASSUME NEW a \in Nat, NEW n \in Nat \ {0}, a <= n
  PROVE  (a * 100) \div n \in 0 .. 100
<1> DEFINE q == (a * 100) \div n
<1>1. q \in Int /\ n * q <= a * 100 /\ a * 100 < n * q + n
  OBVIOUS
<1>2. q >= 0
  BY <1>1
<1>3. q <= 100
  BY <1>1
<1>4. QED
  BY <1>1, <1>2, <1>3

-----------------------------------------------------------------------------
(* What a step may do to the figures.                                      *)

(* The figures are left alone, and only probes sent may be answered.       *)
IdleStep ==
  /\ UNCHANGED <<ntransmitted, nreceived, rcvd, reports, npackets>>
  /\ wire' \subseteq wire
  /\ pc' = "send" => pc = "send" \/ (ntransmitted < MaxTransmit /\ ~Enough)
  /\ pc' = "done" => pc = "done"
  /\ pc = "done" => pc' = "done"

(* An attempt to send: the probe goes out, is counted as sent, or is kept. *)
AttemptStep ==
  /\ SendProbe
  /\ pc' # "done"
  /\ UNCHANGED <<nreceived, reports, npackets>>
  /\ \/ ntransmitted' = ntransmitted /\ wire' = wire
     \/ /\ ntransmitted' = ntransmitted + 1 /\ pc' # "send"
        /\ wire' \subseteq wire \cup {ntransmitted + 1}

(* An answer is received.                                                  *)
AnswerStep(i) ==
  /\ i \in wire /\ pc = "recv" /\ pc' \notin {"send", "done"}
  /\ UNCHANGED <<ntransmitted, reports, npackets>>
  /\ wire' \subseteq wire
  /\ \/ /\ U16(i) \in rcvd
        /\ UNCHANGED <<nreceived, rcvd>>
     \/ /\ U16(i) \notin rcvd
        /\ nreceived' = nreceived + 1 /\ rcvd' = rcvd \cup {U16(i)}

LEMMA AfterDelayPlace ==
  ASSUME TypeOK, NEW delays \in SUBSET Delays, PingerReturns(delays)
  PROVE  pc' \notin {"send", "done"}
BY PingerReturnsType

(* Every step is of one of these kinds, or ends the run.                   *)
LEMMA FigureShape ==
  ASSUME TypeOK, [Next]_vars
  PROVE  IdleStep \/ AttemptStep \/ Finish \/ \E i \in wire : AnswerStep(i)
<1> USE DEF stopVars, countVars, windowVars, sendVars, rawVars, netVars, runVars
<1>1. CASE LoopEnter \/ PingerGo \/ PollTimeout \/ PollReady \/ RecvNothing
  BY <1>1 DEF LoopEnter, PingerGo, PollTimeout, PollReady, RecvNothing, IdleStep
<1>2. CASE PingerIdle \/ PingerNoTokens
  <2>1. PICK delays \in SUBSET Delays : PingerReturns(delays)
    BY <1>2 DEF PingerIdle, PingerNoTokens, Delays
  <2>2. pc' \notin {"send", "done"} /\ pc = "check"
    BY <1>2, <2>1, AfterDelayPlace DEF PingerIdle, PingerNoTokens
  <2>3. QED
    BY <1>2, <2>2 DEF PingerIdle, PingerNoTokens, IdleStep
<1>3. CASE SendOk \/ SendBlocked \/ SendNoBufs
  <2>1. PICK delays \in SUBSET Delays : PingerReturns(delays)
    BY <1>3 DEF SendOk, SendBlocked, SendNoBufs, Delays
  <2>2. pc' \notin {"send", "done"}
    BY <2>1, AfterDelayPlace
  <2>3. QED
    BY <1>3, <2>2
    DEF SendOk, SendBlocked, SendNoBufs, AdvanceNtransmitted, AttemptStep
<1>4. CASE SendFails
  <2>1. PICK errno \in SendFailures :
          SendFailsOnEntry(errno) \/ SendFailsBare(errno)
    BY <1>4 DEF SendFails
  <2>2. SendProbe
    BY <1>4 DEF SendFails
  <2>3. UNCHANGED <<nreceived, reports, npackets, wire>>
    BY <2>1 DEF SendFailsOnEntry, SendFailsBare
  <2>4. \/ pc' = "send" /\ UNCHANGED ntransmitted
        \/ /\ ntransmitted' \in {ntransmitted, ntransmitted + 1}
           /\ PingerReturns({"tiny"}) \/ PingerReturns({"full"})
    BY <2>1 DEF SendFailsOnEntry, SendFailsBare, AdvanceNtransmitted
  <2>5. {"tiny"} \in SUBSET Delays /\ {"full"} \in SUBSET Delays
    BY DEF Delays
  <2>6. \/ pc' = "send" /\ UNCHANGED ntransmitted
        \/ /\ ntransmitted' \in {ntransmitted, ntransmitted + 1}
           /\ pc' \notin {"send", "done"}
    BY <2>4, <2>5, AfterDelayPlace
  <2>7. QED
    BY <2>2, <2>3, <2>6 DEF AttemptStep
<1>5. CASE RecvError \/ RecvIgnored
  BY <1>5 DEF RecvError, RecvIgnored, NextRecv, IdleStep
<1>6. ASSUME NEW i \in wire, RecvReply(i)
      PROVE  AnswerStep(i)
  BY <1>6 DEF RecvReply, Delivered, NextRecv, AnswerStep
<1>7. ASSUME NEW i, RecvRawError(i)
      PROVE  IdleStep
  BY <1>7 DEF RecvRawError, NextRecv, IdleStep
<1>8. CASE AlarmFires \/ StopPing
  BY <1>8 DEF AlarmFires, StopPing, IdleStep
<1>9. ASSUME NEW i, NetError(i) \/ NetRawError(i) \/ NetRawQueued(i) \/ NetNotice(i)
      PROVE  IdleStep
  BY <1>9 DEF NetError, NetRawError, NetRawQueued, NetNotice, Network,
              Delivered, IdleStep
<1>10. CASE UNCHANGED vars
  BY <1>10 DEF vars, IdleStep
<1>11. QED
  BY <1>1, <1>2, <1>3, <1>4, <1>5, <1>6, <1>7, <1>8, <1>9, <1>10
  DEF Next, Thread, Send, Receive, NetStep, Done

-----------------------------------------------------------------------------
(* The statistics count distinct probes.                                   *)

(* The bits set are those of probes sent, and only these can be answered.  *)
CountInv ==
  /\ ntransmitted <= MaxTransmit
  /\ pc = "send" => ntransmitted < MaxTransmit
  /\ wire \subseteq 1 .. ntransmitted
  /\ rcvd \subseteq 1 .. ntransmitted
  /\ nreceived = Cardinality(rcvd)

(* A probe about to be sent has no bit to clear.                           *)
LEMMA NothingToClear ==
  ASSUME TypeOK, CountInv, MaxTransmit < SeqMod, SendProbe
  PROVE  rcvd' = rcvd
<1>1. ntransmitted + 1 \in 0 .. SeqMod - 1
  BY SeqModAssumption, PingLoopAssumption DEF TypeOK, CountInv, SendProbe
<1>2. U16(ntransmitted + 1) = ntransmitted + 1
  BY <1>1, U16Small
<1>3. ntransmitted + 1 \notin rcvd
  BY DEF CountInv, TypeOK
<1>4. QED
  BY <1>2, <1>3 DEF SendProbe

(* The number of an answer is that of its probe.                           *)
LEMMA AnswerNumber ==
  ASSUME TypeOK, CountInv, MaxTransmit < SeqMod, NEW i \in wire
  PROVE  U16(i) = i /\ i \in 1 .. ntransmitted
<1>1. i \in 1 .. ntransmitted
  BY DEF CountInv
<1>2. i \in 0 .. SeqMod - 1
  BY <1>1, SeqModAssumption, PingLoopAssumption DEF TypeOK, CountInv
<1>3. QED
  BY <1>1, <1>2, U16Small

(* Every step keeps the count.                                             *)
LEMMA CountInvStep ==
  ASSUME TypeOK, CountInv, MaxTransmit < SeqMod, [Next]_vars
  PROVE  CountInv'
<1>1. CASE IdleStep
  BY <1>1 DEF IdleStep, CountInv
<1>2. CASE AttemptStep
  <2>1. rcvd' = rcvd /\ nreceived' = nreceived /\ pc = "send"
    BY <1>2, NothingToClear DEF AttemptStep, SendProbe
  <2>2. CASE ntransmitted' = ntransmitted /\ wire' = wire
    BY <2>1, <2>2 DEF CountInv
  <2>3. CASE /\ ntransmitted' = ntransmitted + 1 /\ pc' # "send"
             /\ wire' \subseteq wire \cup {ntransmitted + 1}
    <3>1. ntransmitted' <= MaxTransmit
      BY <2>1, <2>3, PingLoopAssumption DEF CountInv, TypeOK
    <3>2. 1 .. ntransmitted \subseteq 1 .. ntransmitted'
          /\ ntransmitted + 1 \in 1 .. ntransmitted'
      BY <2>3 DEF TypeOK
    <3>3. QED
      BY <2>1, <2>3, <3>1, <3>2 DEF CountInv
  <2>4. QED
    BY <1>2, <2>2, <2>3 DEF AttemptStep
<1>3. CASE Finish
  BY <1>3 DEF Finish, CountInv, countVars, windowVars, netVars
<1>4. ASSUME NEW i \in wire, AnswerStep(i)
      PROVE  CountInv'
  <2>1. U16(i) = i /\ i \in 1 .. ntransmitted
    BY AnswerNumber
  <2>2. CASE i \in rcvd
    BY <1>4, <2>1, <2>2 DEF AnswerStep, CountInv
  <2>3. CASE i \notin rcvd
    <3>1. IsFiniteSet(rcvd)
      <4>1. IsFiniteSet(1 .. ntransmitted)
        BY FS_Interval DEF TypeOK
      <4>2. QED
        BY <4>1, FS_Subset DEF CountInv
    <3>2. Cardinality(rcvd \cup {i}) = Cardinality(rcvd) + 1
      BY <2>3, <3>1, FS_AddElement
    <3>3. nreceived' = nreceived + 1 /\ rcvd' = rcvd \cup {i}
      BY <1>4, <2>1, <2>3 DEF AnswerStep
    <3>4. QED
      BY <1>4, <2>1, <3>2, <3>3 DEF AnswerStep, CountInv
  <2>4. QED
    BY <2>2, <2>3
<1>5. QED
  BY <1>1, <1>2, <1>3, <1>4, FigureShape

(* The count holds of every run of fewer than SeqMod probes.               *)
LEMMA CountInvariant ==
  ASSUME MaxTransmit < SeqMod
  PROVE  Spec => []CountInv
<1>1. Init => CountInv
  BY PingLoopAssumption, FS_EmptySet DEF Init, CountInv
<1>2. TypeOK /\ CountInv /\ [Next]_vars => CountInv'
  BY CountInvStep
<1>3. QED
  BY <1>1, <1>2, TypeCorrect, PTL DEF Spec

(* nreceived is the number of distinct probes answered, all of them sent,  *)
(* as long as the numbers do not wrap.                                     *)
THEOREM CountsProbes == Spec => []CountMatches
<1>1. CASE MaxTransmit < SeqMod
  <2>1. CountInv => CountMatches
    BY DEF CountInv, CountMatches
  <2>2. QED
    BY <1>1, <2>1, CountInvariant, PTL
<1>2. CASE ~(MaxTransmit < SeqMod)
  <2>1. CountMatches
    BY <1>2 DEF CountMatches
  <2>2. QED
    BY <2>1, PTL
<1>3. QED
  BY <1>1, <1>2

-----------------------------------------------------------------------------
(* The report.                                                             *)

(* No more probes were answered than sent.                                 *)
LEMMA ReceivedBound ==
  ASSUME TypeOK, CountInv
  PROVE  nreceived <= ntransmitted
<1>1. IsFiniteSet(1 .. ntransmitted) /\ Cardinality(1 .. ntransmitted) = ntransmitted
  BY FS_Interval DEF TypeOK
<1>2. Cardinality(rcvd) <= Cardinality(1 .. ntransmitted)
  BY <1>1, FS_Subset DEF CountInv
<1>3. QED
  BY <1>1, <1>2 DEF CountInv

(* The loss is a percentage, or -1 if nothing was sent.                    *)
LEMMA LossRange ==
  ASSUME TypeOK, CountInv
  PROVE  Loss \in 0 .. 100 \/ (ntransmitted = 0 /\ Loss = -1)
<1>1. CASE ntransmitted = 0
  BY <1>1 DEF Loss
<1>2. CASE ntransmitted # 0
  <2>1. /\ ntransmitted - nreceived \in Nat
        /\ ntransmitted - nreceived <= ntransmitted
        /\ ntransmitted \in Nat \ {0}
    BY <1>2, ReceivedBound DEF TypeOK
  <2>2. ((ntransmitted - nreceived) * 100) \div ntransmitted \in 0 .. 100
    BY <2>1, Percent
  <2>3. QED
    BY <1>2, <2>2 DEF Loss
<1>3. QED
  BY <1>1, <1>2

(* Nothing is reported before the end.                                     *)
ReportInv == ReportSound /\ (pc # "done" => reports = << >>)

(* Every step keeps the reports sound.                                     *)
LEMMA ReportInvStep ==
  ASSUME TypeOK, CountInv, ReportInv, [Next]_vars
  PROVE  ReportInv'
<1>1. CASE IdleStep
  BY <1>1 DEF IdleStep, ReportInv, ReportSound
<1>2. CASE AttemptStep
  BY <1>2 DEF AttemptStep, SendProbe, ReportInv, ReportSound
<1>3. CASE Finish
  <2>1. reports = << >> /\ pc' = "done"
    BY <1>3 DEF Finish, ReportInv
  <2> DEFINE r == [transmitted |-> ntransmitted, received |-> nreceived,
                   duplicates |-> nrepeats, errors |-> nerrors, loss |-> Loss]
  <2>2. reports' = <<r>>
    BY <1>3, <2>1 DEF Finish
  <2>3. r.received <= r.transmitted
    BY ReceivedBound
  <2>4. r.loss \in 0 .. 100 \/ (r.transmitted = 0 /\ r.loss = -1)
    BY LossRange
  <2> HIDE DEF r
  <2>5. Len(reports') = 1 /\ \A k \in DOMAIN reports' : reports'[k] = r
    BY <2>2
  <2>6. QED
    BY <2>1, <2>3, <2>4, <2>5 DEF ReportInv, ReportSound
<1>4. ASSUME NEW i \in wire, AnswerStep(i)
      PROVE  ReportInv'
  BY <1>4 DEF AnswerStep, ReportInv, ReportSound
<1>5. QED
  BY <1>1, <1>2, <1>3, <1>4, FigureShape

(* So they are in every run of fewer than SeqMod probes.                   *)
LEMMA ReportInvariant ==
  ASSUME MaxTransmit < SeqMod
  PROVE  Spec => []ReportInv
<1>1. Init => ReportInv
  BY DEF Init, ReportInv, ReportSound
<1>2. TypeOK /\ CountInv /\ ReportInv /\ [Next]_vars => ReportInv'
  BY ReportInvStep
<1>3. QED
  BY <1>1, <1>2, TypeCorrect, CountInvariant, PTL DEF Spec

(* One report is made, at the end; it tells of no more answers than probes *)
(* and of a loss between 0 and 100 percent.  (Once the numbers wrap this   *)
(* fails: a probe that reuses a number clears its bit again and again      *)
(* while it is refused, and late duplicates count each time.)              *)
THEOREM ReportsAreSound ==
  ASSUME MaxTransmit < SeqMod
  PROVE  Spec => []ReportSound
<1>1. ReportInv => ReportSound
  BY DEF ReportInv
<1>2. QED
  BY <1>1, ReportInvariant, PTL

-----------------------------------------------------------------------------
(* Refinement.                                                             *)

(* What EchoRun sees as results, limit.                                    *)
LEMMA InitRefines == Init => Echo!EchoInit
<1>1. SUFFICES ASSUME Init PROVE Echo!EchoInit
  OBVIOUS
<1>2. (IF Deadline THEN 0 ELSE npackets) \in Nat
  BY <1>1, PingLoopAssumption DEF Init
<1>3. [k \in DOMAIN reports |->
         <<reports[k].transmitted, reports[k].received>>] = << >>
  BY <1>1 DEF Init
<1>4. QED
  BY <1>1, <1>2, <1>3 DEF Init, Echo!EchoInit

(* Every step of the run is one of EchoRun's or changes nothing it sees.   *)
LEMMA StepRefines ==
  ASSUME TypeOK, CountInv, ReportInv, NeverTooMany', MaxTransmit < SeqMod,
         [Next]_vars
  PROVE  [Echo!EchoNext]_(Echo!echoVars)
<1> DEFINE Results(rs) == [k \in DOMAIN rs |->
                             <<rs[k].transmitted, rs[k].received>>]
<1>1. reports = << >> => Results(reports) = << >>
  OBVIOUS
<1>2. CASE IdleStep
  BY <1>2 DEF IdleStep, Echo!echoVars
<1>3. CASE AttemptStep
  <2>1. rcvd' = rcvd /\ pc = "send" /\ UNCHANGED <<reports, npackets>>
    BY <1>3, NothingToClear DEF AttemptStep, SendProbe
  <2>2. CASE ntransmitted' = ntransmitted
    BY <2>1, <2>2 DEF Echo!echoVars
  <2>3. CASE ntransmitted' = ntransmitted + 1
    <3>1. Results(reports) = << >>
      BY <2>1, <1>1 DEF ReportInv
    <3>2. (IF Deadline THEN 0 ELSE npackets) > 0
            => ntransmitted < (IF Deadline THEN 0 ELSE npackets)
      BY <2>1, <2>3, PingLoopAssumption DEF NeverTooMany, TypeOK
    <3>3. Echo!SendNext
      BY <2>1, <2>3, <3>1, <3>2 DEF Echo!SendNext
    <3>4. QED
      BY <3>3 DEF Echo!EchoNext
  <2>4. QED
    BY <1>3, <2>2, <2>3 DEF AttemptStep
<1>4. CASE Finish
  <2>1. reports = << >> /\ UNCHANGED <<ntransmitted, rcvd, npackets>>
    BY <1>4 DEF Finish, ReportInv, countVars, windowVars
  <2>2. Results(reports') = << <<ntransmitted, Cardinality(rcvd)>> >>
    BY <1>4, <2>1 DEF Finish, CountInv
  <2>3. Echo!End
    <3>1. Results(reports) = << >>
      BY <2>1, <1>1
    <3>2. UNCHANGED <<IF Deadline THEN 0 ELSE npackets, ntransmitted, rcvd>>
      BY <2>1
    <3>3. Cardinality(rcvd) = Echo!Cardinality(rcvd)
      BY DEF Cardinality, Echo!Cardinality
    <3>4. QED
      BY <2>2, <3>1, <3>2, <3>3 DEF Echo!End
  <2>4. QED
    BY <2>3 DEF Echo!EchoNext
<1>5. ASSUME NEW i \in wire, AnswerStep(i)
      PROVE  [Echo!EchoNext]_(Echo!echoVars)
  <2>1. U16(i) = i /\ i \in 1 .. ntransmitted
    BY AnswerNumber
  <2>2. UNCHANGED <<ntransmitted, reports, npackets>> /\ pc = "recv"
    BY <1>5 DEF AnswerStep
  <2>3. CASE i \in rcvd
    BY <1>5, <2>1, <2>2, <2>3 DEF AnswerStep, Echo!echoVars
  <2>4. CASE i \notin rcvd
    <3>1. rcvd' = rcvd \cup {i}
      BY <1>5, <2>1, <2>4 DEF AnswerStep
    <3>2. Results(reports) = << >>
      BY <2>2, <1>1 DEF ReportInv
    <3>3. Echo!Answer
      BY <2>1, <2>2, <2>4, <3>1, <3>2 DEF Echo!Answer
    <3>4. QED
      BY <3>3 DEF Echo!EchoNext
  <2>5. QED
    BY <2>3, <2>4
<1>6. QED
  BY <1>2, <1>3, <1>4, <1>5, FigureShape

(* A run of fewer than SeqMod probes implements EchoRun.                   *)
THEOREM ImplementsPromise ==
  ASSUME MaxTransmit < SeqMod
  PROVE  Spec => ImplementsEchoRun
<1>1. TypeOK /\ CountInv /\ ReportInv /\ NeverTooMany' /\ [Next]_vars
        => [Echo!EchoNext]_(Echo!echoVars)
  BY StepRefines
<1>2. QED
  BY <1>1, InitRefines, TypeCorrect, CountInvariant, ReportInvariant,
     NoExtraProbe, PTL DEF Spec, ImplementsEchoRun, Echo!Spec

-----------------------------------------------------------------------------
(* The count of what was sent.                                             *)

(* Where the entries that ICMP queued stand.                               *)
Icmps(queue) == {k \in DOMAIN queue : queue[k].kind \in {"icmp"}}

(* A queue is finite, and so is any part of it.                            *)
LEMMA IcmpsFinite ==
  ASSUME NEW S, NEW queue \in Seq(S)
  PROVE  IsFiniteSet(Icmps(queue)) /\ Cardinality(Icmps(queue)) \in Nat
<1>1. IsFiniteSet(DOMAIN queue)
  BY FS_Interval
<1>2. QED
  BY <1>1, FS_Subset, FS_CardinalityType DEF Icmps

(* An entry that joins the queue counts if ICMP sent it.                   *)
LEMMA IcmpsAppend ==
  ASSUME NEW S, NEW queue \in Seq(S), NEW e \in S
  PROVE  LET n == Cardinality(Icmps(queue))
             m == Cardinality(Icmps(Append(queue, e)))
         IN  (e.kind = "icmp" => m = n + 1) /\ (e.kind # "icmp" => m = n)
<1> DEFINE n == Len(queue) + 1
<1>1. n \notin Icmps(queue)
  BY DEF Icmps
<1>2. Icmps(Append(queue, e))
        = IF e.kind = "icmp" THEN Icmps(queue) \cup {n} ELSE Icmps(queue)
  <2>1. /\ DOMAIN Append(queue, e) = DOMAIN queue \cup {n}
        /\ n \notin DOMAIN queue /\ Append(queue, e)[n] = e
        /\ \A k \in DOMAIN queue : Append(queue, e)[k] = queue[k]
    OBVIOUS
  <2> HIDE DEF n
  <2>2. QED
    BY <2>1 DEF Icmps
<1> HIDE DEF n
<1>3. IsFiniteSet(Icmps(queue)) /\ Cardinality(Icmps(queue)) \in Nat
  BY IcmpsFinite
<1>4. CASE e.kind = "icmp"
  <2>1. Cardinality(Icmps(queue) \cup {n}) = Cardinality(Icmps(queue)) + 1
    BY <1>1, <1>3, FS_AddElement
  <2>2. QED
    BY <1>2, <1>4, <2>1
<1>5. CASE e.kind # "icmp"
  BY <1>2, <1>3, <1>5
<1>6. QED
  BY <1>4, <1>5

(* The entry that leaves it no longer does.                                *)
LEMMA IcmpsTail ==
  ASSUME NEW S, NEW queue \in Seq(S), queue # << >>
  PROVE  LET n == Cardinality(Icmps(queue))
             m == Cardinality(Icmps(Tail(queue)))
         IN  /\ Head(queue).kind = "icmp" => n = m + 1
             /\ Head(queue).kind # "icmp" => n = m
<1> DEFINE rest == Icmps(queue) \ {1}
           next == [k \in Icmps(Tail(queue)) |-> k + 1]
<1>1. next \in Bijection(Icmps(Tail(queue)), rest)
  <2>1. /\ DOMAIN queue = 1 .. Len(queue) /\ Len(queue) >= 1
        /\ DOMAIN Tail(queue) = 1 .. Len(queue) - 1
        /\ \A k \in DOMAIN Tail(queue) : Tail(queue)[k] = queue[k + 1]
    OBVIOUS
  <2>2. /\ Icmps(Tail(queue)) \subseteq Int /\ rest \subseteq Int
        /\ \A k \in Int : k \in Icmps(Tail(queue)) <=> k + 1 \in rest
    BY <2>1 DEF Icmps
  <2> HIDE DEF rest
  <2>3. next \in [Icmps(Tail(queue)) -> rest]
    BY <2>2
  <2>4. ASSUME NEW k \in rest
        PROVE  \E j \in Icmps(Tail(queue)) : next[j] = k
    <3>1. k - 1 \in Int /\ (k - 1) + 1 = k
      BY <2>2
    <3>2. k - 1 \in Icmps(Tail(queue))
      BY <2>2, <3>1
    <3>3. QED
      BY <3>1, <3>2
  <2>5. IsInjective(next)
    BY <2>2 DEF IsInjective
  <2>6. QED
    BY <2>3, <2>4, <2>5, Zenon DEF Bijection, Injection, Surjection
<1>2. Cardinality(rest) = Cardinality(Icmps(Tail(queue)))
  <2>1. Tail(queue) \in Seq(S)
    OBVIOUS
  <2>2. IsFiniteSet(Icmps(Tail(queue)))
    BY <2>1, IcmpsFinite
  <2> HIDE DEF rest, next
  <2>3. QED
    BY <1>1, <2>2, FS_Bijection DEF ExistsBijection
<1>3. 1 \in Icmps(queue) <=> Head(queue).kind = "icmp"
  BY DEF Icmps
<1>4. Cardinality(rest) = IF 1 \in Icmps(queue)
                          THEN Cardinality(Icmps(queue)) - 1
                          ELSE Cardinality(Icmps(queue))
  BY IcmpsFinite, FS_RemoveElement
<1> HIDE DEF rest, next
<1>5. Cardinality(Icmps(queue)) \in Nat
  BY IcmpsFinite
<1>6. QED
  BY <1>2, <1>3, <1>4, <1>5

(* Every entry is still of one of these kinds when one of them joins, and  *)
(* when the first one leaves.                                              *)
LEMMA KindsKept ==
  ASSUME NEW S, NEW queue \in Seq(S), NEW kinds,
         \A k \in DOMAIN queue : queue[k].kind \in kinds
  PROVE  /\ \A e \in S : e.kind \in kinds =>
              \A k \in DOMAIN Append(queue, e) : Append(queue, e)[k].kind \in kinds
         /\ queue # << >> =>
              /\ Tail(queue) \in Seq(S)
              /\ \A k \in DOMAIN Tail(queue) : Tail(queue)[k].kind \in kinds
<1>1. ASSUME NEW e \in S, e.kind \in kinds, NEW k \in DOMAIN Append(queue, e)
      PROVE  Append(queue, e)[k].kind \in kinds
  <2>1. \/ k \in DOMAIN queue /\ Append(queue, e)[k] = queue[k]
        \/ Append(queue, e)[k] = e
    OBVIOUS
  <2>2. QED
    BY <1>1, <2>1
<1>2. ASSUME queue # << >>
      PROVE  /\ Tail(queue) \in Seq(S)
             /\ \A k \in DOMAIN Tail(queue) : Tail(queue)[k].kind \in kinds
  <2>1. /\ Tail(queue) \in Seq(S)
        /\ \A k \in DOMAIN Tail(queue) :
             k + 1 \in DOMAIN queue /\ Tail(queue)[k] = queue[k + 1]
    BY <1>2
  <2>2. QED
    BY <2>1
<1>3. QED
  BY <1>1, <1>2

(* What Conservation needs to be kept: only probes sent are on their way,  *)
(* and what is queued came from ICMP or is passed over.                    *)
FlightInv ==
  /\ wire \subseteq 1 .. ntransmitted
  /\ rawq = {} /\ half = {}
  /\ \A k \in DOMAIN errq : errq[k].kind \in {"icmp", "notice", "foreign"}
  /\ Conservation

(* The circumstances in which an error is told of once, and of a probe:    *)
(* not the raw socket, which gets it as a packet too; no local entry,      *)
(* which is counted apart from the send that caused it; no ICMP error that *)
(* quotes no probe.                                                        *)
ErrorsAreSingle ==
  UsingPingSocket /\ "EMSGSIZE" \notin SendErrors /\ "bare" \notin Notices

(* The probes whose answer may come are finitely many.                     *)
LEMMA WireFinite ==
  ASSUME TypeOK, FlightInv
  PROVE  IsFiniteSet(wire) /\ Cardinality(wire) \in Nat
<1>1. IsFiniteSet(1 .. ntransmitted)
  BY FS_Interval DEF TypeOK
<1>2. QED
  BY <1>1, FS_Subset, FS_CardinalityType DEF FlightInv

(* What is delivered leaves the network, or is a copy.                     *)
LEMMA DeliveredOnce ==
  ASSUME TypeOK, FlightInv, NEW i \in wire, Delivered(i)
  PROVE  /\ wire' \subseteq wire /\ Cardinality(wire') \in Nat
         /\ copies' \in Nat
         /\ Cardinality(wire') + 1 + copies = Cardinality(wire) + copies'
<1>1. Cardinality(wire) \in Nat /\ Cardinality(wire \ {i}) = Cardinality(wire) - 1
      /\ Cardinality(wire \ {i}) \in Nat
  BY WireFinite, FS_RemoveElement, FS_CardinalityType
<1>2. CASE wire' = wire \ {i} /\ copies' = copies
  BY <1>1, <1>2 DEF TypeOK
<1>3. CASE copies' = copies + 1 /\ wire' = wire
  BY <1>1, <1>3 DEF TypeOK
<1>4. QED
  BY <1>2, <1>3 DEF Delivered

(* The next attempt is one more than was sent, and is not on its way yet.  *)
LEMMA SentOnce ==
  ASSUME TypeOK, FlightInv
  PROVE  /\ wire \cup {ntransmitted + 1} \subseteq 1 .. (ntransmitted + 1)
         /\ Cardinality(wire \cup {ntransmitted + 1}) = Cardinality(wire) + 1
<1>1. ntransmitted + 1 \notin wire
  BY DEF FlightInv, TypeOK
<1>2. Cardinality(wire \cup {ntransmitted + 1}) = Cardinality(wire) + 1
  BY <1>1, WireFinite, FS_AddElement
<1>3. QED
  BY <1>2 DEF FlightInv, TypeOK

(* What a step may do to the counts, in these circumstances.               *)

Balance == <<nreceived, nrepeats, nerrors>>

(* Nothing is counted but perhaps a probe that has not left.               *)
QuietStep ==
  /\ UNCHANGED <<Balance, wire, errq, rawq, half, copies>>
  /\ ntransmitted' \in {ntransmitted, ntransmitted + 1}

DepartStep ==
  /\ UNCHANGED <<Balance, errq, rawq, half, copies>>
  /\ ntransmitted' = ntransmitted + 1
  /\ wire' = wire \cup {ntransmitted + 1}

ErrorStep ==
  /\ UNCHANGED <<ntransmitted, nreceived, nrepeats, wire, rawq, half, copies>>
  /\ errq # << >> /\ errq' = Tail(errq)
  /\ nerrors' = nerrors + (IF Head(errq).kind = "icmp" THEN 1 ELSE 0)

ReplyStep ==
  /\ UNCHANGED <<ntransmitted, nerrors, errq, rawq, half>>
  /\ \E i \in wire : Delivered(i)
  /\ \/ nreceived' = nreceived + 1 /\ nrepeats' = nrepeats
     \/ nrepeats' = nrepeats + 1 /\ nreceived' = nreceived

QueueStep ==
  /\ UNCHANGED <<ntransmitted, Balance, rawq, half>>
  /\ \/ \E i \in wire : Delivered(i) /\ errq' = Append(errq, Entry("icmp", i))
     \/ /\ UNCHANGED <<wire, copies>>
        /\ \E kind \in {"notice", "foreign"} : errq' = Append(errq, Entry(kind, 0))

(* The entry at the head of the queue is of a kind that is counted once.   *)
LEMMA HeadKind ==
  ASSUME TypeOK, FlightInv, errq # << >>
  PROVE  Head(errq).kind \in {"icmp", "notice", "foreign"}
<1>1. 1 \in DOMAIN errq /\ Head(errq) = errq[1]
  BY DEF TypeOK
<1>2. QED
  BY <1>1 DEF FlightInv

(* Reading it counts it exactly if it came from ICMP.                      *)
LEMMA ErrorCounted ==
  ASSUME TypeOK, FlightInv, errq # << >>, ReceiveErrorMsg(Head(errq))
  PROVE  nerrors' = nerrors + (IF Head(errq).kind = "icmp" THEN 1 ELSE 0)
BY HeadKind DEF ReceiveErrorMsg, NetworkError, TypeOK

(* Every step is of one of these kinds.                                    *)
LEMMA BalanceShape ==
  ASSUME TypeOK, FlightInv, ErrorsAreSingle, [Next]_vars
  PROVE  QuietStep \/ DepartStep \/ ErrorStep \/ ReplyStep \/ QueueStep
<1> USE DEF stopVars, countVars, windowVars, sendVars, rawVars, netVars,
            runVars, Balance
<1>1. CASE Finish \/ LoopEnter \/ PingerIdle \/ PingerNoTokens \/ PingerGo
  BY <1>1 DEF Finish, LoopEnter, PingerIdle, PingerNoTokens, PingerGo, QuietStep
<1>2. CASE PollTimeout \/ PollReady \/ RecvNothing \/ RecvIgnored
  BY <1>2 DEF PollTimeout, PollReady, RecvNothing, RecvIgnored, QuietStep
<1>3. CASE SendOk
  BY <1>3 DEF SendOk, AdvanceNtransmitted, DepartStep
<1>4. CASE SendBlocked \/ SendNoBufs
  BY <1>4 DEF SendBlocked, SendNoBufs, AdvanceNtransmitted, QuietStep
<1>5. CASE SendFails
  <2>1. PICK errno \in SendFailures :
          SendFailsOnEntry(errno) \/ SendFailsBare(errno)
    BY <1>5 DEF SendFails
  <2>2. QueueAfter(errno) = errq
    BY DEF QueueAfter, SendFailures, ErrorsAreSingle
  <2>3. CASE SendFailsOnEntry(errno)
    <3>1. /\ errq # << >> /\ errq' = Tail(errq) /\ ReceiveErrorMsg(Head(errq))
          /\ UNCHANGED <<nreceived, nrepeats, wire, rawq, half, copies>>
      BY <2>2, <2>3 DEF SendFailsOnEntry
    <3>2. ntransmitted' = ntransmitted
      BY <2>2, <2>3, <3>1, HeadKind DEF SendFailsOnEntry
    <3>3. QED
      BY <3>1, <3>2, ErrorCounted DEF ErrorStep
  <2>4. CASE SendFailsBare(errno)
    BY <2>4 DEF SendFailsBare, AdvanceNtransmitted, QuietStep
  <2>5. QED
    BY <2>1, <2>3, <2>4
<1>6. CASE RecvError
  <2>1. errq # << >>
    BY <1>6 DEF RecvError, SockErr
  <2>2. QED
    BY <1>6, <2>1, ErrorCounted DEF RecvError, ErrorStep
<1>7. ASSUME NEW i \in wire, RecvReply(i)
      PROVE  ReplyStep
  BY <1>7 DEF RecvReply, ReplyStep
<1>8. ASSUME NEW i \in rawq, RecvRawError(i)
      PROVE  FALSE
  BY <1>8 DEF FlightInv
<1>9. CASE AlarmFires \/ StopPing
  BY <1>9 DEF AlarmFires, StopPing, QuietStep
<1>10. ASSUME NEW i \in wire, NetError(i)
       PROVE  QueueStep
  BY <1>10 DEF NetError, Network, QueueStep
<1>11. ASSUME NEW i \in wire, NetRawError(i)
       PROVE  FALSE
  BY <1>11 DEF NetRawError, ErrorsAreSingle
<1>12. ASSUME NEW i \in half, NetRawQueued(i)
       PROVE  FALSE
  BY <1>12 DEF FlightInv
<1>13. ASSUME NEW kind \in Notices, NetNotice(kind)
       PROVE  QueueStep
  <2>1. kind \in {"notice", "foreign"}
    BY PingLoopAssumption DEF NoticeKinds, ErrorsAreSingle
  <2>2. QED
    BY <1>13, <2>1 DEF NetNotice, QueueStep
<1>14. CASE UNCHANGED vars
  BY <1>14 DEF vars, QuietStep
<1>15. QED
  BY <1>1, <1>2, <1>3, <1>4, <1>5, <1>6, <1>7, <1>8, <1>9, <1>10, <1>11,
     <1>12, <1>13, <1>14
  DEF Next, Thread, Send, Receive, NetStep, Done

(* The terms of the balance: what was counted, what is on its way, what    *)
(* ICMP has queued.                                                        *)
Counted == nreceived + nrepeats + nerrors
OnWire == Cardinality(wire)
InQueue == Cardinality(Icmps(errq))

LEMMA BalanceTerms ==
  /\ Conservation <=> Counted + OnWire + InQueue <= ntransmitted + copies
  /\ Conservation' <=> Counted' + OnWire' + InQueue' <= ntransmitted' + copies'
BY DEF Conservation, Queued, Counted, OnWire, InQueue, Icmps

(* They are numbers.                                                       *)
LEMMA BalanceType ==
  ASSUME TypeOK, FlightInv
  PROVE  /\ Counted \in Nat /\ OnWire \in Nat /\ InQueue \in Nat
         /\ Counted + OnWire + InQueue <= ntransmitted + copies
<1>1. Counted \in Nat
  BY DEF Counted, TypeOK
<1>2. OnWire \in Nat /\ InQueue \in Nat
  BY WireFinite, IcmpsFinite DEF OnWire, InQueue, TypeOK
<1>3. QED
  BY <1>1, <1>2, BalanceTerms DEF FlightInv

(* What may move between them: a probe is sent, or counted as sent; a      *)
(* queued error is counted; a probe or copy on its way is counted, or its  *)
(* error queued.                                                           *)
LEMMA BalanceMoves ==
  ASSUME NEW n \in Nat, NEW w \in Nat, NEW q \in Nat, NEW s \in Nat, NEW c \in Nat,
         n + w + q <= s + c
  PROVE  /\ n + w + q <= (s + 1) + c
         /\ n + (w + 1) + q <= (s + 1) + c
         /\ \A q2 \in Nat : q = q2 + 1 => (n + 1) + w + q2 <= s + c
         /\ \A w2 \in Nat, c2 \in Nat : w2 + 1 + c = w + c2
              => (n + 1) + w2 + q <= s + c2 /\ n + w2 + (q + 1) <= s + c2
OBVIOUS

(* A reply is counted, whether it is the first one or not.                 *)
LEMMA ReplyCounted ==
  ASSUME NEW r \in Nat, NEW p \in Nat, NEW e \in Nat
  PROVE  (r + 1) + p + e = (r + p + e) + 1 /\ r + (p + 1) + e = (r + p + e) + 1
         /\ r + p + (e + 1) = (r + p + e) + 1
OBVIOUS

(* Every step keeps the balance.                                           *)
LEMMA FlightInvStep ==
  ASSUME TypeOK, FlightInv, ErrorsAreSingle, [Next]_vars
  PROVE  FlightInv'
<1>1. /\ Counted \in Nat /\ OnWire \in Nat /\ InQueue \in Nat
      /\ ntransmitted \in Nat /\ copies \in Nat /\ errq \in Seq(Entries)
      /\ Counted + OnWire + InQueue <= ntransmitted + copies
  BY BalanceType DEF TypeOK
<1>2. Conservation' <=>
        Counted' + OnWire' + InQueue' <= ntransmitted' + copies'
  BY BalanceTerms
<1>3. CASE QuietStep
  <2>1. /\ OnWire' = OnWire /\ InQueue' = InQueue /\ Counted' = Counted
        /\ copies' = copies
    BY <1>3 DEF QuietStep, Balance, OnWire, InQueue, Counted
  <2>2. ntransmitted' = ntransmitted \/ ntransmitted' = ntransmitted + 1
    BY <1>3 DEF QuietStep
  <2>3. wire' \subseteq 1 .. ntransmitted'
    BY <1>1, <1>3, <2>2 DEF QuietStep, FlightInv
  <2>4. Conservation'
    BY <1>1, <1>2, <2>1, <2>2, BalanceMoves
  <2>5. QED
    BY <1>3, <2>3, <2>4 DEF QuietStep, FlightInv
<1>4. CASE DepartStep
  <2>1. OnWire' = OnWire + 1 /\ wire' \subseteq 1 .. ntransmitted'
    BY <1>4, SentOnce DEF DepartStep, OnWire
  <2>2. /\ Counted' = Counted /\ InQueue' = InQueue /\ copies' = copies
        /\ ntransmitted' = ntransmitted + 1
    BY <1>4 DEF DepartStep, Balance, Counted, InQueue
  <2>3. Conservation'
    BY <1>1, <1>2, <2>1, <2>2, BalanceMoves
  <2>4. QED
    BY <1>4, <2>1, <2>3 DEF DepartStep, FlightInv
<1>5. CASE ErrorStep
  <2>1. /\ OnWire' = OnWire /\ ntransmitted' = ntransmitted /\ copies' = copies
        /\ errq # << >> /\ errq' = Tail(errq)
    BY <1>5 DEF ErrorStep, OnWire
  <2>2. /\ errq' \in Seq(Entries)
        /\ \A k \in DOMAIN errq' : errq'[k].kind \in {"icmp", "notice", "foreign"}
    BY <1>1, <2>1, KindsKept DEF FlightInv
  <2>3. InQueue' \in Nat
    BY <2>2, IcmpsFinite DEF InQueue
  <2>4. Conservation'
    <3>1. CASE Head(errq).kind = "icmp"
      <4>1. InQueue = InQueue' + 1
        BY <1>1, <2>1, <3>1, IcmpsTail DEF InQueue
      <4>2. Counted' = Counted + 1
        BY <1>5, <3>1, ReplyCounted DEF ErrorStep, Counted, TypeOK
      <4>3. QED
        BY <1>1, <1>2, <2>1, <2>3, <4>1, <4>2, BalanceMoves
    <3>2. CASE Head(errq).kind # "icmp"
      <4>1. InQueue' = InQueue
        BY <1>1, <2>1, <3>2, IcmpsTail DEF InQueue
      <4>2. Counted' = Counted
        <5>1. nerrors' = nerrors + 0
          BY <1>5, <3>2 DEF ErrorStep
        <5>2. nerrors' = nerrors
          BY <5>1 DEF TypeOK
        <5>3. QED
          BY <1>5, <5>2 DEF ErrorStep, Counted
      <4>3. QED
        BY <1>1, <1>2, <2>1, <4>1, <4>2
    <3>3. QED
      BY <3>1, <3>2
  <2>5. QED
    BY <1>5, <2>2, <2>4 DEF ErrorStep, FlightInv
<1>6. CASE ReplyStep
  <2>1. PICK i \in wire : Delivered(i)
    BY <1>6 DEF ReplyStep
  <2>2. /\ wire' \subseteq wire /\ OnWire' \in Nat /\ copies' \in Nat
        /\ OnWire' + 1 + copies = OnWire + copies'
    BY <2>1, DeliveredOnce DEF OnWire
  <2>3. InQueue' = InQueue /\ ntransmitted' = ntransmitted
    BY <1>6 DEF ReplyStep, InQueue
  <2>4. Counted' = Counted + 1
    BY <1>6, ReplyCounted DEF ReplyStep, Counted, TypeOK
  <2>5. Conservation'
    BY <1>1, <1>2, <2>2, <2>3, <2>4, BalanceMoves
  <2>6. QED
    BY <1>6, <2>2, <2>5 DEF ReplyStep, FlightInv
<1>7. CASE QueueStep
  <2>1. ntransmitted' = ntransmitted /\ Counted' = Counted
    BY <1>7 DEF QueueStep, Balance, Counted
  <2>2. CASE \E i \in wire : Delivered(i) /\ errq' = Append(errq, Entry("icmp", i))
    <3>1. PICK i \in wire : Delivered(i) /\ errq' = Append(errq, Entry("icmp", i))
      BY <2>2
    <3>2. Entry("icmp", i) \in Entries /\ Entry("icmp", i).kind = "icmp"
      BY DEF Entry, Entries, TypeOK
    <3>3. InQueue' = InQueue + 1
      BY <1>1, <3>1, <3>2, IcmpsAppend DEF InQueue
    <3>4. /\ wire' \subseteq wire /\ OnWire' \in Nat /\ copies' \in Nat
          /\ OnWire' + 1 + copies = OnWire + copies'
      BY <3>1, DeliveredOnce DEF OnWire
    <3>5. \A k \in DOMAIN errq' : errq'[k].kind \in {"icmp", "notice", "foreign"}
      BY <1>1, <3>1, <3>2, KindsKept DEF FlightInv
    <3>6. Conservation'
      BY <1>1, <1>2, <2>1, <3>3, <3>4, BalanceMoves
    <3>7. QED
      BY <1>7, <3>4, <3>5, <3>6 DEF QueueStep, FlightInv
  <2>3. CASE /\ UNCHANGED <<wire, copies>>
             /\ \E kind \in {"notice", "foreign"} :
                  errq' = Append(errq, Entry(kind, 0))
    <3>1. PICK kind \in {"notice", "foreign"} :
            errq' = Append(errq, Entry(kind, 0))
      BY <2>3
    <3>2. Entry(kind, 0) \in Entries /\ Entry(kind, 0).kind = kind
      BY DEF Entry, Entries, NoticeKinds
    <3>3. InQueue' = InQueue
      BY <1>1, <3>1, <3>2, IcmpsAppend DEF InQueue
    <3>4. OnWire' = OnWire
      BY <2>3 DEF OnWire
    <3>5. \A k \in DOMAIN errq' : errq'[k].kind \in {"icmp", "notice", "foreign"}
      BY <1>1, <3>1, <3>2, KindsKept DEF FlightInv
    <3>6. Conservation'
      BY <1>1, <1>2, <2>1, <2>3, <3>3, <3>4
    <3>7. QED
      BY <1>7, <2>3, <3>5, <3>6 DEF QueueStep, FlightInv
  <2>4. QED
    BY <1>7, <2>2, <2>3 DEF QueueStep
<1>8. QED
  BY <1>3, <1>4, <1>5, <1>6, <1>7, BalanceShape

(* So the balance holds in every run.                                      *)
LEMMA FlightInvariant ==
  ASSUME ErrorsAreSingle
  PROVE  Spec => []FlightInv
<1>1. Init => FlightInv
  <2> SUFFICES ASSUME Init
               PROVE  FlightInv
    OBVIOUS
  <2>1. Icmps(errq) = {}
    BY DEF Init, Icmps
  <2>2. Cardinality(wire) = 0 /\ Cardinality(Icmps(errq)) = 0
    BY <2>1, FS_EmptySet DEF Init
  <2>3. Conservation
    BY <2>2 DEF Init, Conservation, Queued, Icmps
  <2>4. QED
    BY <2>3 DEF Init, FlightInv
<1>2. TypeOK /\ FlightInv /\ [Next]_vars => FlightInv'
  BY FlightInvStep
<1>3. QED
  BY <1>1, <1>2, TypeCorrect, PTL DEF Spec

(* What was counted, and what is still on its way or queued, never exceeds *)
(* what was sent and what the network copied: no probe is counted as an    *)
(* answer and as an error, however the two race.  The numbers may wrap.    *)
THEOREM ProbesAreConserved ==
  ASSUME ErrorsAreSingle
  PROVE  Spec => []Conservation
<1>1. FlightInv => Conservation
  BY DEF FlightInv
<1>2. QED
  BY <1>1, FlightInvariant, PTL

-----------------------------------------------------------------------------
(* A run that nobody stopped is over because it counted enough.            *)

CountedEnough ==
  pc = "done" /\ ~exiting => npackets > 0 /\ nreceived + nerrors >= npackets

(* The end is reached by Finish alone, and nothing is counted after it.    *)
LEMMA CountedEnoughStep ==
  ASSUME TypeOK, CountedEnough, Deadline = FALSE, [Next]_vars
  PROVE  CountedEnough'
<1> SUFFICES ASSUME pc' = "done", ~exiting'
             PROVE  npackets' > 0 /\ nreceived' + nerrors' >= npackets'
  BY DEF CountedEnough
<1> USE DEF stopVars, countVars, windowVars, sendVars, rawVars, netVars, runVars
<1>1. CASE pc = "done"
  <2>1. UNCHANGED <<npackets, nreceived, nerrors, exiting>>
    <3>1. ~Thread
      BY <1>1
      DEF Thread, Finish, LoopEnter, PingerIdle, PingerNoTokens, PingerGo,
          Send, SendOk, SendBlocked, SendNoBufs, SendFails, SendProbe,
          PollTimeout, PollReady, Receive, RecvNothing, RecvError,
          RecvIgnored, RecvReply, RecvRawError
    <3>2. ~NetStep
      BY <1>1 DEF NetStep, NetError, NetRawError, Network, NetRawQueued,
                  NetNotice
    <3>3. QED
      BY <3>1, <3>2 DEF Next, AlarmFires, StopPing, Done, vars
  <2>2. QED
    BY <1>1, <2>1 DEF CountedEnough
<1>2. CASE pc # "done"
  <2>1. Finish
    BY <1>2, FigureShape DEF IdleStep, AttemptStep, AnswerStep
  <2>2. QED
    BY <2>1 DEF Finish, ExitCondition
<1>3. QED
  BY <1>1, <1>2

(* Unless somebody stops it, a run with -c and without -w sends what it    *)
(* was asked for, less one probe for each duplicate the network made: as   *)
(* nothing else counts twice, it cannot have counted npackets answers and  *)
(* errors before.                                                          *)
THEOREM SendsWhatWasAsked ==
  ASSUME ErrorsAreSingle, Deadline = FALSE
  PROVE  Spec => []SendsAll
<1>1. Init => CountedEnough
  BY DEF Init, CountedEnough
<1>2. TypeOK /\ CountedEnough /\ [Next]_vars => CountedEnough'
  BY CountedEnoughStep
<1>3. TypeOK /\ FlightInv /\ CountedEnough => SendsAll
  <2> SUFFICES ASSUME TypeOK, FlightInv, CountedEnough, pc = "done",
                      npackets > 0, ~exiting
               PROVE  ntransmitted + copies - nrepeats >= npackets
    BY DEF SendsAll
  <2>1. Cardinality(wire) \in Nat /\ Cardinality(Icmps(errq)) \in Nat
    BY WireFinite, IcmpsFinite DEF TypeOK
  <2>2. nreceived + nrepeats + nerrors + Cardinality(wire)
          + Cardinality(Icmps(errq)) <= ntransmitted + copies
    BY <2>1 DEF FlightInv, Conservation, Queued, Icmps, TypeOK
  <2>3. nreceived + nerrors >= npackets
    BY DEF CountedEnough
  <2>4. QED
    BY <2>1, <2>2, <2>3 DEF TypeOK
<1>4. QED
  BY <1>1, <1>2, <1>3, TypeCorrect, FlightInvariant, PTL DEF Spec

=============================================================================
