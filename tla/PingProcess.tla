----------------------------- MODULE PingProcess -----------------------------
(***************************************************************************)
(* The process an application lives in: the library stays loaded and every *)
(* Ping.startPing() calls ping() again, on the globals the runs before     *)
(* left behind.  A new run opens a new socket (the old one is not closed,  *)
(* but nobody reads it any more), and setup() arms the timer again if a    *)
(* deadline is set.  It resets neither the counters, nor exiting, nor the  *)
(* static waittime of __schedule_exit(), nor a timer still running, nor    *)
(* getopt()'s optind: options already passed over are not read again, and  *)
(* Ping puts -c first.                                                     *)
(***************************************************************************)
EXTENDS PingLoop

CONSTANT MaxRuns      \* bound on the runs of the process

ASSUME PingProcessAssumption == MaxRuns \in Nat

VARIABLES
  optsRead,    \* optind has moved past the first option
  asked,       \* setTimes() of the run under way
  before,      \* ntransmitted when it started
  stopped      \* stopPing() was called during it

requestVars == <<asked, before, stopped>>
processVars == <<vars, optsRead, requestVars>>

ProcessInit ==
  /\ Init
  /\ asked = npackets /\ before = 0 /\ stopped = FALSE
  /\ optsRead \in BOOLEAN /\ (npackets > 0 => optsRead)

(* A ping socket has an ident of its own; the raw one goes by the pid, and *)
(* what the run before is still due reaches the next one's socket.         *)
OldAnswers == IF UsingPingSocket THEN {} ELSE wire

(* Mutant: the flag is reset, the counters are not.                        *)
StartAgainReset(times) ==
  /\ pc = "done" /\ Len(reports) < MaxRuns
  /\ pc' = "top" /\ exiting' = FALSE
  /\ npackets' = IF optsRead THEN npackets ELSE times
  /\ optsRead' \in {optsRead \/ times > 0, TRUE}
  /\ wire' = OldAnswers /\ errq' = << >> /\ rawq' = {} /\ half' = {}
  /\ alarm' = (alarm \/ Deadline)
  /\ asked' = times /\ before' = ntransmitted /\ stopped' = FALSE
  /\ UNCHANGED <<waittime, countVars, windowVars, sendVars,
                 working_recverr, once, copies, notices, reports>>

(* nativeStartPing() -> ping() up to main_loop(), for setTimes(times) and  *)
(* with or without another option.                                         *)
StartAgain(times) ==
  /\ pc = "done" /\ Len(reports) < MaxRuns
  /\ pc' = "top"
  /\ npackets' = IF optsRead THEN npackets ELSE times
  /\ optsRead' \in {optsRead \/ times > 0, TRUE}
  /\ wire' = OldAnswers /\ errq' = << >> /\ rawq' = {} /\ half' = {}
  /\ alarm' = (alarm \/ Deadline)
  /\ asked' = times /\ before' = ntransmitted /\ stopped' = FALSE
  /\ UNCHANGED <<exiting, waittime, countVars, windowVars, sendVars,
                 working_recverr, once, copies, notices, reports>>

ProcessNext ==
  \/ Thread /\ UNCHANGED <<optsRead, requestVars>>
  \/ AlarmFires /\ UNCHANGED <<optsRead, requestVars>>
  \/ NetStep /\ UNCHANGED <<optsRead, requestVars>>
  \/ StopPing /\ stopped' = TRUE /\ UNCHANGED <<optsRead, asked, before>>
  \/ \E times \in Times : StartAgain(times)
  \/ Done /\ UNCHANGED <<optsRead, requestVars>>

ProcessSpec == ProcessInit /\ [][ProcessNext]_processVars

ProcessFairness ==
  /\ WF_processVars(Thread /\ UNCHANGED <<optsRead, requestVars>>)
  /\ SF_processVars(PingerGo /\ UNCHANGED <<optsRead, requestVars>>)
  /\ WF_processVars(AlarmFires /\ UNCHANGED <<optsRead, requestVars>>)

ProcessFairSpec == ProcessSpec /\ ProcessFairness

-----------------------------------------------------------------------------
(* What ended the first run -- exiting, the counters against a -c that is  *)
(* not read again, nerrors against -w -- ends every later one before its   *)
(* first probe: only the first run of a process sends anything.            *)
OnlyFirstRunSends == reports # << >> => ntransmitted = reports[1].transmitted

(* However stale waittime and the timer are, every run that has a -c comes *)
(* to its end.                                                             *)
EveryRunEnds == (pc = "top" /\ npackets > 0) ~> pc = "done"

(* "set number of times to ping the address" (Ping.setTimes): a run that   *)
(* is not stopped sends at least as many probes as asked for.              *)
RunSendsTimes ==
  pc = "done" /\ asked > 0 /\ ~stopped => ntransmitted - before >= asked

=============================================================================
