-------------------------- MODULE PingProcessProofs --------------------------
(***************************************************************************)
(* What the globals that the runs of a process share do to its later runs, *)
(* proved of PingProcess for every value of the constants.  The fairness   *)
(* of ProcessFairSpec is not used.                                         *)
(***************************************************************************)
EXTENDS PingProcess, PingLoopProofs

-----------------------------------------------------------------------------
(* Types.                                                                  *)

(* A step of the process is one of the run under way, or starts another.   *)
LEMMA ProcessShape ==
  ASSUME [ProcessNext]_processVars
  PROVE  \/ [Next]_vars /\ UNCHANGED optsRead
         \/ \E times \in Times : StartAgain(times)
BY DEF ProcessNext, processVars, requestVars, Next

(* Starting a run keeps the types of PingLoop.                             *)
LEMMA StartAgainType ==
  ASSUME TypeOK, NEW times \in Times, StartAgain(times)
  PROVE  TypeOK'
<1> USE DEF StartAgain, OldAnswers, stopVars, countVars, windowVars, sendVars
<1>1. npackets' \in Nat
  BY PingLoopAssumption DEF TypeOK
<1>2. alarm' \in BOOLEAN /\ exiting' \in BOOLEAN
  BY Zenon DEF TypeOK
<1>3. confirm_flag' \in BOOLEAN /\ working_recverr' \in BOOLEAN
  BY DEF TypeOK
<1>4. wire' \subseteq Nat
  BY DEF TypeOK
<1>5. /\ pc' = "top" /\ rawq' \subseteq Nat /\ half' \subseteq Nat
      /\ errq' \in Seq(Entries)
  OBVIOUS
<1>6. QED
  BY <1>1, <1>2, <1>3, <1>4, <1>5 DEF TypeOK

(* The variables of PingLoop have their types in every run of a process.   *)
THEOREM ProcessTypeCorrect == ProcessSpec => []TypeOK
<1>1. ProcessInit => TypeOK
  BY InitType DEF ProcessInit
<1>2. TypeOK /\ [ProcessNext]_processVars => TypeOK'
  BY ProcessShape, TypeStep, StartAgainType
<1>3. QED
  BY <1>1, <1>2, PTL DEF ProcessSpec

-----------------------------------------------------------------------------
(* Only the first run sends.                                               *)

(* What ended the first run holds for good: exiting is not reset, the      *)
(* counters only grow, and a -c once read is not read again.  So a later   *)
(* run never gets past the top of main_loop().                             *)
RunInv ==
  /\ pc = "done" => reports # << >>
  /\ npackets > 0 => optsRead
  /\ reports # << >> => /\ ntransmitted = reports[1].transmitted
                        /\ pc \in {"top", "done"} /\ ExitCondition

(* A run that may end at once does so, or waits.                           *)
LEMMA OverShape ==
  ASSUME pc \in {"top", "done"}, ExitCondition, [Next]_vars
  PROVE  \/ Finish
         \/ /\ UNCHANGED <<pc, npackets, countVars, reports>>
            /\ exiting => exiting'
<1> USE DEF stopVars, countVars, windowVars, sendVars, rawVars, netVars, runVars
<1>1. CASE Thread
  BY <1>1
  DEF Thread, LoopEnter, PingerIdle, PingerNoTokens, PingerGo, Send, SendOk,
      SendBlocked, SendNoBufs, SendFails, SendProbe, PollTimeout, PollReady,
      Receive, RecvNothing, RecvError, RecvIgnored, RecvReply, RecvRawError
<1>2. CASE AlarmFires \/ StopPing
  BY <1>2 DEF AlarmFires, StopPing
<1>3. CASE NetStep
  BY <1>3 DEF NetStep, NetError, NetRawError, NetRawQueued, NetNotice
<1>4. CASE Done \/ UNCHANGED vars
  BY <1>4 DEF Done, vars
<1>5. QED
  BY <1>1, <1>2, <1>3, <1>4 DEF Next

(* Only Finish reports.                                                    *)
LEMMA ReportStep ==
  ASSUME TypeOK, [Next]_vars, ~Finish
  PROVE  /\ UNCHANGED <<reports, npackets>>
         /\ pc' = "done" => pc = "done"
BY FigureShape DEF IdleStep, AttemptStep, AnswerStep

(* Finish keeps the report of the first run, or makes it.                  *)
LEMMA FirstReport ==
  ASSUME TypeOK, Finish
  PROVE  /\ reports' # << >> /\ pc' = "done"
         /\ UNCHANGED <<npackets, ntransmitted>>
         /\ ExitCondition /\ ExitCondition'
         /\ reports'[1] = IF reports = << >>
                          THEN [transmitted |-> ntransmitted,
                                received |-> nreceived,
                                duplicates |-> nrepeats,
                                errors |-> nerrors, loss |-> Loss]
                          ELSE reports[1]
<1> DEFINE r == [transmitted |-> ntransmitted, received |-> nreceived,
                 duplicates |-> nrepeats, errors |-> nerrors, loss |-> Loss]
<1>1. reports' = Append(reports, r) /\ reports \in Seq(Reports)
  BY DEF Finish, TypeOK
<1> HIDE DEF r
<1>2. /\ reports' # << >>
      /\ reports'[1] = IF reports = << >> THEN r ELSE reports[1]
  BY <1>1
<1>3. /\ pc' = "done" /\ UNCHANGED <<npackets, ntransmitted>>
      /\ ExitCondition /\ ExitCondition'
  BY DEF Finish, ExitCondition, stopVars, countVars
<1>4. QED
  BY <1>2, <1>3 DEF r

(* Every step of a run keeps RunInv.                                       *)
LEMMA RunInvStep ==
  ASSUME TypeOK, RunInv, [Next]_vars, UNCHANGED optsRead
  PROVE  RunInv'
<1>1. CASE Finish
  BY <1>1, FirstReport DEF RunInv
<1>2. CASE ~Finish /\ reports = << >>
  BY <1>2, ReportStep DEF RunInv
<1>3. CASE ~Finish /\ reports # << >>
  <2>1. /\ UNCHANGED <<pc, npackets, countVars, reports>>
        /\ exiting => exiting'
    BY <1>3, OverShape DEF RunInv
  <2>2. ExitCondition'
    BY <1>3, <2>1 DEF RunInv, ExitCondition, countVars
  <2>3. QED
    BY <1>3, <2>1, <2>2 DEF RunInv, countVars
<1>4. QED
  BY <1>1, <1>2, <1>3

(* Starting another run keeps it: npackets may change only while it is 0.  *)
LEMMA RunInvAgain ==
  ASSUME TypeOK, RunInv, NEW times \in Times, StartAgain(times)
  PROVE  RunInv'
<1>1. reports # << >> /\ UNCHANGED <<reports, exiting, countVars>> /\ pc' = "top"
  BY DEF StartAgain, RunInv
<1>2. npackets' = IF optsRead THEN npackets ELSE times
  BY DEF StartAgain
<1>3. optsRead' = TRUE \/ (optsRead' = (optsRead \/ times > 0))
  BY DEF StartAgain
<1>4. npackets > 0 => npackets' = npackets
  BY <1>2 DEF RunInv
<1>5. npackets' > 0 => optsRead'
  BY <1>2, <1>3 DEF RunInv
<1>6. ExitCondition'
  BY <1>1, <1>4 DEF RunInv, ExitCondition, countVars
<1>7. QED
  BY <1>1, <1>5, <1>6 DEF RunInv, countVars

(* So it holds of every process.                                           *)
LEMMA RunInvariant == ProcessSpec => []RunInv
<1>1. ProcessInit => RunInv
  BY DEF ProcessInit, Init, RunInv
<1>2. TypeOK /\ RunInv /\ [ProcessNext]_processVars => RunInv'
  BY ProcessShape, RunInvStep, RunInvAgain
<1>3. QED
  BY <1>1, <1>2, ProcessTypeCorrect, PTL DEF ProcessSpec

(* However many runs a process starts, whatever they ask for and whichever *)
(* condition ended the first: none after it sends a probe.                 *)
THEOREM LaterRunsSendNothing == ProcessSpec => []OnlyFirstRunSends
<1>1. RunInv => OnlyFirstRunSends
  BY DEF RunInv, OnlyFirstRunSends
<1>2. QED
  BY <1>1, RunInvariant, PTL

=============================================================================
