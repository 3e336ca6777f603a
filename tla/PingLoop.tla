------------------------------ MODULE PingLoop ------------------------------
(***************************************************************************)
(* One run of the native ping engine: main_loop() of ping_common.c with    *)
(* everything it calls that changes state -- pinger(), schedule_exit(),    *)
(* gather_statistics() and finish() of ping_common.c, send_probe(),        *)
(* receive_error_msg() and parse_reply() of ping_run.c -- against          *)
(*   - the network, which answers a probe, refuses it, duplicates an       *)
(*     answer, delays it past later ones, or loses it;                     *)
(*   - SIGALRM, delivered at any moment once the timer is armed;           *)
(*   - stop_ping(), called by another thread at any moment.                *)
(*                                                                         *)
(* Time is abstract.  Whether the token bucket lets a probe out and how    *)
(* long pinger() asks to wait is a choice; a wait has one of four lengths, *)
(* the ones main_loop() tells apart:                                       *)
(*   "again"  next <= 0: call pinger() again at once                       *)
(*   "tiny"   at most one tick of the scheduler                            *)
(*   "short"  less than the interval                                       *)
(*   "full"   at least the interval: recvmsg() itself may wait that long   *)
(* Flood and adaptive modes (-f, -A) are not modelled: the interval is     *)
(* positive and constant.                                                  *)
(***************************************************************************)
EXTENDS SeqWindow, Sequences, FiniteSets

CONSTANTS
  Times,           \* the values -c may have; 0 is a ping without end
  Deadline,        \* -w given
  Preload,         \* -l, 1 unless given
  Quiet,           \* -q given
  UsingPingSocket, \* datagram ICMP socket, FALSE for the raw one
  LingerTime,      \* -W, what is waited for a first answer
  RttWait,         \* max(2*tmax, interval): what is waited once one came
  OomLimit,        \* refusals for want of buffers that make a hard error
  SendErrors,      \* what sendmsg() may fail with
  Notices,         \* what the error queue may hold besides our errors
  MaxTransmit,     \* bound on the probe counter
  MaxCopies,       \* bound on duplicated answers
  MaxNotices       \* bound on entries of Notices

Errnos == {"ENOBUFS", "EAGAIN", "EINVAL", "EMSGSIZE", "OTHER"}

NoticeKinds == {"notice", "foreign", "bare"}

ASSUME PingLoopAssumption ==
  /\ Times \subseteq Nat
  /\ {Deadline, Quiet, UsingPingSocket} \subseteq BOOLEAN
  /\ Preload \in Nat \ {0} /\ LingerTime \in Nat /\ RttWait \in Nat \ {0}
  /\ OomLimit \in Nat
  /\ SendErrors \subseteq Errnos /\ Notices \subseteq NoticeKinds
  /\ {MaxTransmit, MaxCopies, MaxNotices} \subseteq Nat

VARIABLES
  pc,              \* where the thread is
  exiting, npackets, ntransmitted, nreceived, nrepeats, nerrors,
  acked, rcvd,     \* newest acknowledged number; the bits set in rcvd_tbl
  oom_count, confirm_flag,
  waittime, alarm, \* of __schedule_exit(); the interval timer is running
  working_recverr, once,
  wire,            \* probes whose answer may still come
  errq,            \* the socket's error queue
  rawq, half,      \* raw socket: error packets unread, and not yet in errq
  copies, notices, \* how often the bounds on the network were used
  reports          \* the ping_statistics callbacks made

stopVars == <<exiting, waittime, alarm>>
countVars == <<ntransmitted, nreceived, nrepeats, nerrors>>
windowVars == <<acked, rcvd>>
sendVars == <<oom_count, confirm_flag>>
rawVars == <<working_recverr, once, rawq, half>>
netVars == <<wire, errq, copies, notices>>
runVars == <<npackets, reports>>
vars == <<pc, stopVars, countVars, windowVars, sendVars, rawVars, netVars,
          runVars>>

-----------------------------------------------------------------------------
(* Types.  An entry of the error queue names its probe if it has one.      *)

Entries == [kind : {"icmp", "local"} \cup NoticeKinds, probe : Nat]

Entry(kind, probe) == [kind |-> kind, probe |-> probe]

Reports == [transmitted : Nat, received : Nat, duplicates : Nat,
            errors : Nat, loss : Int]

TypeOK ==
  /\ pc \in {"top", "check", "send", "poll", "recv", "done"}
  /\ exiting \in BOOLEAN /\ alarm \in BOOLEAN
  /\ waittime \in Nat /\ npackets \in Nat
  /\ ntransmitted \in Nat /\ nreceived \in Nat
  /\ nrepeats \in Nat /\ nerrors \in Nat
  /\ acked \in 0 .. SeqMod - 1 /\ rcvd \subseteq 0 .. SeqMod - 1
  /\ oom_count \in Nat /\ confirm_flag \in BOOLEAN
  /\ working_recverr \in BOOLEAN /\ once \in Nat
  /\ wire \subseteq Nat /\ rawq \subseteq Nat /\ half \subseteq Nat
  /\ errq \in Seq(Entries)
  /\ copies \in Nat /\ notices \in Nat
  /\ reports \in Seq(Reports)

-----------------------------------------------------------------------------
(* setup() has armed the timer for a deadline; otherwise it is off.        *)
Init ==
  /\ pc = "top"
  /\ exiting = FALSE /\ waittime = 0 /\ alarm = Deadline
  /\ npackets \in Times
  /\ ntransmitted = 0 /\ nreceived = 0 /\ nrepeats = 0 /\ nerrors = 0
  /\ acked = 0 /\ rcvd = {}
  /\ oom_count = 0 /\ confirm_flag = TRUE
  /\ working_recverr = FALSE /\ once = 0 /\ rawq = {} /\ half = {}
  /\ wire = {} /\ errq = << >> /\ copies = 0 /\ notices = 0
  /\ reports = << >>

in_flight == InFlight(ntransmitted, acked, nreceived, nerrors)

(* The socket has a pending error as long as an error that came from the   *)
(* network is queued; a locally generated one leaves only the queue entry. *)
SockErr == \E k \in DOMAIN errq : errq[k].kind # "local"

-----------------------------------------------------------------------------
(* main_loop(): the exit conditions, and finish() once one of them holds.  *)

(* Mutant: the signal's flag is not tested.                                *)
ExitConditionNoSignal ==
  \/ npackets > 0 /\ nreceived + nerrors >= npackets
  \/ Deadline /\ nerrors > 0

ExitCondition ==
  \/ exiting
  \/ npackets > 0 /\ nreceived + nerrors >= npackets
  \/ Deadline /\ nerrors > 0

Loss == IF ntransmitted = 0
        THEN -1
        ELSE ((ntransmitted - nreceived) * 100) \div ntransmitted

Finish ==
  /\ pc = "top" /\ ExitCondition
  /\ pc' = "done"
  /\ reports' = Append(reports,
                  [transmitted |-> ntransmitted, received |-> nreceived,
                   duplicates |-> nrepeats, errors |-> nerrors, loss |-> Loss])
  /\ UNCHANGED <<npackets, stopVars, countVars, windowVars, sendVars, rawVars,
                 netVars>>

LoopEnter ==
  /\ pc = "top" /\ ~ExitCondition
  /\ pc' = "check"
  /\ UNCHANGED <<stopVars, countVars, windowVars, sendVars, rawVars, netVars,
                 runVars>>

-----------------------------------------------------------------------------
(* What follows a call of pinger() that asked for one of delays: first     *)
(* schedule_exit(), which once the last probe is out arms the timer and    *)
(* stretches the wait to its length, then the way to recvmsg().            *)

(* Mutant: one probe more.                                                 *)
AllSentStrict(nt) == npackets > 0 /\ nt > npackets /\ ~Deadline

AllSent(nt) == npackets > 0 /\ nt >= npackets /\ ~Deadline

ExitWait == IF nreceived > 0 THEN RttWait ELSE LingerTime

(* Mutants: the timer is armed only if nothing was received; one probe too *)
(* early.                                                                  *)
ScheduleExitUnanswered ==
  LET due == AllSent(ntransmitted') /\ waittime = 0
  IN  /\ waittime' = IF due THEN ExitWait ELSE waittime
      /\ alarm' = IF due THEN nreceived = 0 ELSE alarm

ScheduleExitEarly ==
  LET due == AllSent(ntransmitted' + 1) /\ waittime = 0
  IN  /\ waittime' = IF due THEN ExitWait ELSE waittime
      /\ alarm' = IF due THEN ExitWait > 0 ELSE alarm

ScheduleExit ==
  LET due == AllSent(ntransmitted') /\ waittime = 0
  IN  /\ waittime' = IF due THEN ExitWait ELSE waittime
      /\ alarm' = IF due THEN ExitWait > 0 ELSE alarm

(* The wait after schedule_exit(): RttWait is at least the interval, which *)
(* cannot be said of LingerTime.  The interval is taken for one of at      *)
(* least a scheduler's tick (MININTERVAL), as -i 0 alone would not be: it  *)
(* is then what main_loop() compares with, SCHINT(interval).               *)
Stretched(delay) ==
  IF waittime' = waittime \/ delay = "full" THEN {delay}
  ELSE IF nreceived > 0 THEN {"full"}
  ELSE {"short", "full"}

(* A wait of the interval or more is left to recvmsg().  A shorter one is  *)
(* a poll(), except that a tiny one with nothing in flight is spun away.   *)
AfterDelay(delay) ==
  CASE delay = "again" -> "check"
    [] delay = "full"  -> "recv"
    [] delay = "short" -> "poll"
    [] delay = "tiny"  -> IF in_flight' = 0 THEN "recv" ELSE "poll"

PingerReturns(delays) ==
  /\ ScheduleExit
  /\ \E delay \in delays : \E next \in Stretched(delay) :
       pc' = AfterDelay(next)

-----------------------------------------------------------------------------
(* pinger() up to send_probe().                                            *)

(* Mutant: exiting is left to main_loop().                                 *)
EnoughSent == AllSent(ntransmitted)

Enough == exiting \/ AllSent(ntransmitted)

(* `return 1000', whatever the interval is. *)
PingerIdle ==
  /\ pc = "check" /\ Enough
  /\ UNCHANGED <<exiting, countVars, windowVars, sendVars, rawVars, netVars,
                 runVars>>
  /\ PingerReturns({"short", "full"})

PingerNoTokens ==
  /\ pc = "check" /\ ~Enough
  /\ UNCHANGED <<exiting, countVars, windowVars, sendVars, rawVars, netVars,
                 runVars>>
  /\ PingerReturns({"tiny", "short", "full"})

PingerGo ==
  /\ pc = "check" /\ ~Enough
  /\ ntransmitted < MaxTransmit
  /\ pc' = "send"
  /\ UNCHANGED <<stopVars, countVars, windowVars, sendVars, rawVars, netVars,
                 runVars>>

-----------------------------------------------------------------------------
(* send_probe() and what pinger() makes of its result.  Every attempt      *)
(* clears the bit of the number it sends.                                  *)

(* Mutant: the bit of the probe before is cleared.                         *)
SendProbeLate == pc = "send" /\ rcvd' = rcvd \ {U16(ntransmitted)}

SendProbe == pc = "send" /\ rcvd' = rcvd \ {U16(ntransmitted + 1)}

AdvanceNtransmitted ==
  /\ ntransmitted' = ntransmitted + 1
  /\ acked' = AdvanceAcked(acked, ntransmitted + 1)

SendOk ==
  /\ SendProbe /\ ~SockErr
  /\ wire' = wire \cup {ntransmitted + 1}
  /\ oom_count' = 0
  /\ AdvanceNtransmitted
  /\ UNCHANGED <<exiting, nreceived, nrepeats, nerrors, confirm_flag, rawVars,
                 errq, copies, notices, runVars>>
  /\ PingerReturns(IF Preload = 1 THEN {"full"}
                   ELSE {"again", "tiny", "short", "full"})

(* EAGAIN, or fewer bytes taken than given.                                *)
SendBlocked ==
  /\ SendProbe /\ ~SockErr /\ "EAGAIN" \in SendErrors
  /\ UNCHANGED <<exiting, countVars, acked, sendVars, rawVars, netVars,
                 runVars>>
  /\ PingerReturns({"tiny"})

(* ENOBUFS or ENOMEM: wait, but count it as sent when it lasts too long.   *)
SendNoBufs ==
  /\ SendProbe /\ ~SockErr /\ "ENOBUFS" \in SendErrors
  /\ oom_count' = oom_count + 1
  /\ UNCHANGED <<exiting, nreceived, nrepeats, nerrors, confirm_flag, rawVars,
                 netVars, runVars>>
  /\ IF oom_count + 1 < OomLimit
     THEN /\ UNCHANGED <<ntransmitted, acked>>
          /\ PingerReturns({"short"})
     ELSE /\ AdvanceNtransmitted
          /\ PingerReturns({"full"})

-----------------------------------------------------------------------------
(* receive_error_msg() with entry e at the head of the queue.  It returns  *)
(* 1 for an error from the network and -1 for a local one; for an entry    *)
(* that is no error of ours it returns 0 and clears errno.                 *)

NetworkError(e) == e.kind \in {"icmp", "bare"}

(* Mutant: whatever ICMP sends counts as an error.                         *)
ReceiveErrorMsgAny(e) ==
  /\ nerrors' = IF e.kind = "local" /\ Quiet THEN nerrors ELSE nerrors + 1
  /\ working_recverr' = (\/ working_recverr
                         \/ ~UsingPingSocket /\ e.kind \in {"icmp", "notice"})

ReceiveErrorMsg(e) ==
  /\ nerrors' = IF NetworkError(e) \/ (e.kind = "local" /\ ~Quiet)
                THEN nerrors + 1 ELSE nerrors
  /\ working_recverr' = (\/ working_recverr
                         \/ ~UsingPingSocket /\ e.kind \in {"icmp", "notice"})

AckedBy(e) == IF e.kind = "icmp"
              THEN Acknowledge(acked, ntransmitted, U16(e.probe))
              ELSE acked

(* Any other failure of sendmsg(): an error already pending on the socket, *)
(* or one of the call, which for EMSGSIZE also queues a local entry.  The  *)
(* entry at the head of the queue, which need not be the cause, decides.   *)
SendFailures == (SendErrors \cap {"EINVAL", "EMSGSIZE", "OTHER"})
                  \cup (IF SockErr THEN {"pending"} ELSE {})

QueueAfter(errno) ==
  IF errno = "EMSGSIZE" THEN Append(errq, Entry("local", 0)) ELSE errq

SendFailsOnEntry(errno) ==
  /\ QueueAfter(errno) # << >>
  /\ LET e == Head(QueueAfter(errno))
     IN  /\ errq' = Tail(QueueAfter(errno))
         /\ ReceiveErrorMsg(e)
         /\ UNCHANGED <<exiting, nreceived, nrepeats, sendVars, once, rawq,
                        half, wire, copies, notices, runVars>>
         /\ \/ /\ NetworkError(e)
               /\ acked' = AckedBy(e)
               /\ UNCHANGED ntransmitted
               /\ PingerReturns({"tiny"})
            \/ /\ e.kind = "local"
               /\ AdvanceNtransmitted
               /\ PingerReturns({"full"})
            \/ /\ e.kind \in {"notice", "foreign"}
               /\ pc' = "send"
               /\ UNCHANGED <<waittime, alarm, ntransmitted, acked>>

(* Nothing queued: errno keeps its value.  EINVAL is blamed on MSG_CONFIRM *)
(* once.                                                                   *)
SendFailsBare(errno) ==
  /\ QueueAfter(errno) = << >>
  /\ UNCHANGED <<exiting, nreceived, nrepeats, nerrors, oom_count, rawVars,
                 netVars, runVars>>
  /\ IF errno = "EINVAL" /\ confirm_flag
     THEN /\ confirm_flag' = FALSE
          /\ pc' = "send"
          /\ UNCHANGED <<waittime, alarm, ntransmitted, acked>>
     ELSE /\ AdvanceNtransmitted
          /\ UNCHANGED confirm_flag
          /\ PingerReturns({"full"})

SendFails ==
  /\ SendProbe
  /\ \E errno \in SendFailures :
       SendFailsOnEntry(errno) \/ SendFailsBare(errno)

-----------------------------------------------------------------------------
(* poll() and the recvmsg() loop.  Nothing is read while the socket has a  *)
(* pending error.                                                          *)

PollTimeout ==
  /\ pc = "poll" /\ errq = << >>
  /\ pc' = "top"
  /\ UNCHANGED <<stopVars, countVars, windowVars, sendVars, rawVars, netVars,
                 runVars>>

PollReady ==
  /\ pc = "poll"
  /\ pc' = "recv"
  /\ UNCHANGED <<stopVars, countVars, windowVars, sendVars, rawVars, netVars,
                 runVars>>

RecvNothing ==
  /\ pc = "recv" /\ ~SockErr
  /\ pc' = "top"
  /\ UNCHANGED <<stopVars, countVars, windowVars, sendVars, rawVars, netVars,
                 runVars>>

(* "If nothing is in flight, break returns us to pinger."                  *)
NextRecv == pc' = IF in_flight' = 0 THEN "top" ELSE "recv"

RecvError ==
  /\ pc = "recv" /\ SockErr
  /\ errq' = Tail(errq)
  /\ ReceiveErrorMsg(Head(errq))
  /\ acked' = AckedBy(Head(errq))
  /\ UNCHANGED <<stopVars, ntransmitted, nreceived, nrepeats, rcvd, sendVars,
                 once, rawq, half, wire, copies, notices, runVars>>
  /\ NextRecv

(* The answer to probe i leaves the network, or stays as a second copy.    *)
Delivered(i) ==
  \/ wire' = wire \ {i} /\ UNCHANGED copies
  \/ copies < MaxCopies /\ copies' = copies + 1 /\ UNCHANGED wire

(* gather_statistics(): an answer counts unless its bit is set already.    *)
RecvReply(i) ==
  /\ pc = "recv" /\ ~SockErr
  /\ Delivered(i)
  /\ acked' = Acknowledge(acked, ntransmitted, U16(i))
  /\ IF U16(i) \in rcvd
     THEN /\ nrepeats' = nrepeats + 1
          /\ UNCHANGED <<nreceived, rcvd>>
     ELSE /\ nreceived' = nreceived + 1
          /\ rcvd' = rcvd \cup {U16(i)}
          /\ UNCHANGED nrepeats
  /\ UNCHANGED <<stopVars, ntransmitted, nerrors, sendVars, rawVars, errq,
                 notices, runVars>>
  /\ NextRecv

(* parse_reply() of an ICMP error that reached the raw socket as a packet: *)
(* not counted once the error queue is known to work, nor the first time.  *)
RecvRawError(i) ==
  /\ pc = "recv" /\ ~SockErr
  /\ rawq' = rawq \ {i}
  /\ acked' = Acknowledge(acked, ntransmitted, U16(i))
  /\ once' = IF working_recverr \/ once = 2 THEN once ELSE once + 1
  /\ nerrors' = IF working_recverr \/ once = 0 THEN nerrors ELSE nerrors + 1
  /\ UNCHANGED <<stopVars, ntransmitted, nreceived, nrepeats, rcvd, sendVars,
                 working_recverr, half, netVars, runVars>>
  /\ NextRecv

(* A packet for somebody else, or one parse_reply() makes nothing of.      *)
RecvIgnored ==
  /\ pc = "recv" /\ ~SockErr
  /\ UNCHANGED <<stopVars, countVars, windowVars, sendVars, rawVars, netVars,
                 runVars>>
  /\ NextRecv

-----------------------------------------------------------------------------
(* Signals, the other thread, and the network.                             *)

(* sigexit() on SIGALRM *)
AlarmFires ==
  /\ alarm
  /\ exiting' = TRUE /\ alarm' = FALSE
  /\ UNCHANGED <<pc, waittime, countVars, windowVars, sendVars, rawVars,
                 netVars, runVars>>

(* nativeStopPing() -> stop_ping() *)
StopPing ==
  /\ ~exiting
  /\ exiting' = TRUE
  /\ UNCHANGED <<pc, waittime, alarm, countVars, windowVars, sendVars, rawVars,
                 netVars, runVars>>

Network(i) == pc # "done" /\ i \in wire /\ Delivered(i)

(* The kernel queues the ICMP error that a probe provoked.                 *)
NetError(i) ==
  /\ UsingPingSocket \/ working_recverr
  /\ Network(i)
  /\ errq' = Append(errq, Entry("icmp", i))
  /\ UNCHANGED <<pc, stopVars, countVars, windowVars, sendVars, rawVars,
                 notices, runVars>>

(* On the raw socket the filter passes the packet itself too until         *)
(* working_recverr; it is delivered first and the queue entry later, or    *)
(* never where IP_RECVERR is broken for raw sockets.                       *)
NetRawError(i) ==
  /\ ~UsingPingSocket /\ ~working_recverr
  /\ Network(i)
  /\ rawq' = rawq \cup {i} /\ half' = half \cup {i}
  /\ UNCHANGED <<pc, stopVars, countVars, windowVars, sendVars,
                 working_recverr, once, errq, notices, runVars>>

NetRawQueued(i) ==
  /\ pc # "done"
  /\ half' = half \ {i}
  /\ errq' = Append(errq, Entry("icmp", i))
  /\ UNCHANGED <<pc, stopVars, countVars, windowVars, sendVars,
                 working_recverr, once, rawq, wire, copies, notices, runVars>>

NetNotice(kind) ==
  /\ pc # "done" /\ notices < MaxNotices
  /\ notices' = notices + 1
  /\ errq' = Append(errq, Entry(kind, 0))
  /\ UNCHANGED <<pc, stopVars, countVars, windowVars, sendVars, rawVars, wire,
                 copies, runVars>>

Done == pc = "done" /\ UNCHANGED vars

-----------------------------------------------------------------------------
Send == SendOk \/ SendBlocked \/ SendNoBufs \/ SendFails

Receive ==
  \/ RecvNothing \/ RecvError \/ RecvIgnored
  \/ \E i \in wire : RecvReply(i)
  \/ \E i \in rawq : RecvRawError(i)

Thread ==
  \/ Finish \/ LoopEnter \/ PingerIdle \/ PingerNoTokens \/ PingerGo \/ Send
  \/ PollTimeout \/ PollReady \/ Receive

NetStep ==
  \/ \E i \in wire : NetError(i) \/ NetRawError(i)
  \/ \E i \in half : NetRawQueued(i)
  \/ \E kind \in Notices : NetNotice(kind)

Next == Thread \/ AlarmFires \/ StopPing \/ NetStep \/ Done

Spec == Init /\ [][Next]_vars

(* The thread runs while it can.  Time passes, so that a loop which keeps  *)
(* asking for a token gets one, and an armed timer expires.  Nothing is    *)
(* assumed of the network or of stop_ping().                               *)
Fairness == WF_vars(Thread) /\ SF_vars(PingerGo) /\ WF_vars(AlarmFires)

FairSpec == Spec /\ Fairness

-----------------------------------------------------------------------------
(* Properties.                                                             *)

(* A run is never asked for a probe beyond -c, whatever is resent, refused *)
(* or refunded: pinger() tests the counter before it takes tokens and the  *)
(* count goes up after the send.                                           *)
NeverTooMany == npackets > 0 /\ ~Deadline => ntransmitted <= npackets

(* The statistics count probes, not packets: while numbers do not wrap,    *)
(* nreceived is the number of distinct probes answered, all of them sent.  *)
CountMatches ==
  MaxTransmit < SeqMod => /\ rcvd \subseteq 1 .. ntransmitted
                          /\ nreceived = Cardinality(rcvd)

(* Wherever the thread may sleep after the last probe, something is bound  *)
(* to wake it for good: the timer runs or exiting is set already.          *)
LingerArmed ==
  LingerTime > 0 /\ AllSent(ntransmitted) /\ pc \in {"top", "poll", "recv"}
    => alarm \/ exiting

(* The linger timer only runs when every probe of -c is out.               *)
AlarmAfterLast == alarm /\ ~Deadline => AllSent(ntransmitted)

(* Statistics are delivered once, when the loop is over, and the loss they *)
(* give is a percentage, or -1 if nothing was sent.                        *)
ReportSound ==
  /\ Len(reports) = IF pc = "done" THEN 1 ELSE 0
  /\ \A k \in DOMAIN reports :
       LET r == reports[k]
       IN  /\ r.received <= r.transmitted
           /\ r.loss \in 0 .. 100 \/ (r.transmitted = 0 /\ r.loss = -1)

(* What the network still holds plus what was counted never exceeds what   *)
(* was sent, so an exit by "nreceived + nerrors >= npackets" comes after   *)
(* the last probe: each probe is counted once, as an answer or an error.   *)
(* That is false of EMSGSIZE queued behind a notice, whose own entry is    *)
(* counted later; the run leaves it out.                                   *)
Queued(kinds) == Cardinality({k \in DOMAIN errq : errq[k].kind \in kinds})

Conservation ==
  nreceived + nrepeats + nerrors + Cardinality(wire) + Queued({"icmp"})
    <= ntransmitted + copies

(* A run that nobody stopped sends as many probes as it was asked for,     *)
(* less one for each copy of an answer that was not told for a duplicate:  *)
(* a probe both answered and refused counts twice, and nothing else may    *)
(* end the run before its last probe.                                      *)
SendsAll ==
  pc = "done" /\ npackets > 0 /\ ~exiting
    => ntransmitted + copies - nrepeats >= npackets

(* Once exiting is set no new probe is started: at most the one under way  *)
(* leaves, and nothing resets the flag.                                    *)
NoSendOnceExiting ==
  [][exiting => /\ exiting'
                /\ pc # "send" => pc' # "send" /\ ntransmitted' = ntransmitted]_vars

(* The run as its user sees it: see EchoRun.  While numbers do not wrap,   *)
(* the detailed run implements it.                                         *)
Echo == INSTANCE EchoRun WITH
          limit <- IF Deadline THEN 0 ELSE npackets,
          sent <- ntransmitted,
          answered <- rcvd,
          results <- [k \in DOMAIN reports |->
                        <<reports[k].transmitted, reports[k].received>>]

ImplementsEchoRun == Echo!Spec

(* A ping with -w ends whatever the network does, and so does one that was *)
(* told to stop.  For one with -c see EveryRunEnds in PingProcess.         *)
DeadlineEnds == Deadline => <>(pc = "done")

StopEnds == exiting ~> pc = "done"

=============================================================================
