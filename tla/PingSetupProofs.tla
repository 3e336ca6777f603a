--------------------------- MODULE PingSetupProofs ---------------------------
(***************************************************************************)
(* Proofs about PingSetup, for every set of options and hosts, root or     *)
(* not, and any number of calls.                                           *)
(***************************************************************************)
EXTENDS PingSetup, TLAPS

-----------------------------------------------------------------------------
(* Stages by what holds in them.                                           *)

(* main_loop() is near: the ICMP socket and the destination were checked.  *)
Ready == {"device", "group", "mtu", "bind", "filter", "recverr", "ip options",
          "socket options", "datalen", "malloc", "start", "setup",
          "setup mark", "loop", "end"}

(* A user's rate for a group was checked.                                  *)
Grouped == Ready \ {"device", "group"}

(* A user's rate was checked.                                              *)
Paced == {"setup mark", "loop", "end"}

(* The probe socket is open.                                               *)
Probing == {"probe device", "probe tos", "probe mark", "connect",
            "getsockname"}

(* The ICMP socket was opened, or not.                                     *)
Opened == {"options", "args", "resolve", "probe", "icmp"} \cup Probing
            \cup Ready

(* Nothing of the inventory changes from stage s to stage t.               *)
Carries(s, t) ==
  /\ s \in Opened /\ t \in Opened
  /\ t \in Probing <=> s \in Probing
  /\ t \in Ready => s \in Ready
  /\ t \in Grouped => s \in Grouped
  /\ t \in Paced => s \in Paced
  /\ s \in {"loop", "end"} => t \in {"loop", "end"}

One(b) == IF b THEN 1 ELSE 0

SetupInv ==
  /\ TypeOK
  /\ stage = "icmp" /\ resolved => source # "any"
  /\ stage \in Ready => icmp_sock # "none" /\ (resolved => whereto # "any")
  /\ stage # "idle" => (probe_fd <=> stage \in Probing)
  /\ stage \in Grouped /\ Group /\ ~root =>
       \/ interval = "normal"
       \/ stage \in {"loop", "end"} /\ "adaptive" \in flags
  /\ stage \in Paced /\ ~root => interval # "tiny"
  /\ stage \in {"caps", "socket"} => open = openBefore
  /\ stage \in Opened =>
       open = openBefore + One(icmp_sock # "none") + One(probe_fd)
  /\ LeakBounded

-----------------------------------------------------------------------------
(* What a step does to the callbacks.                                      *)

Started == {"setup", "setup mark", "loop", "end"}

Same(s, t) ==
  /\ s \in Started <=> t \in Started
  /\ s = "end" <=> t = "end"
  /\ s = "loop" => t = "loop"

Quiet ==
  /\ UNCHANGED callbacks
  /\ \/ stage # "idle" /\ stage' # "idle" /\ Same(stage, stage')
     \/ stage = "probe" /\ stage' = "idle"

Errs ==
  /\ stage \notin {"idle", "loop", "end"} /\ Tell("error")
  /\ stage' = "idle" \/ Same(stage, stage')

Reports ==
  \/ stage = "start" /\ stage' = "setup" /\ Tell("start")
  \/ stage = "loop" /\ stage' = "loop" /\ Tell("result")
  \/ stage = "loop" /\ stage' = "end" /\ Tell("statistics")

Ends ==
  /\ stage \notin {"idle", "setup", "setup mark", "loop"}
  /\ stage' = "idle" /\ Tell("end")

Enters == stage = "idle" /\ stage' = "caps" /\ callbacks' = <<"enter">>

(* Every action has one of these shapes.                                   *)
LEMMA HeardShape ==
  ASSUME TypeOK, Next
  PROVE  Quiet \/ Errs \/ Reports \/ Ends \/ Enters
<1> USE DEF Quiet, Errs, Reports, Ends, Enters, Same, Started
<1>1. CASE NativeStartPing
  BY <1>1 DEF NativeStartPing, Proceed, ProceedWarned, Return, Fail, usage,
      MayWarn, MayFail
<1>2. CASE LimitCapabilities
  BY <1>2 DEF LimitCapabilities, Proceed, ProceedWarned, Return, Fail, usage,
      MayWarn, MayFail
<1>3. CASE OpenIcmp
  BY <1>3 DEF OpenIcmp, Proceed, ProceedWarned, Return, Fail, usage,
      MayWarn, MayFail
<1>4. CASE OptionsRead
  BY <1>4 DEF OptionsRead, Proceed, ProceedWarned, Return, Fail, usage,
      MayWarn, MayFail
<1>5. CASE OptionsRejected
  BY <1>5 DEF OptionsRejected, Proceed, ProceedWarned, Return, Fail, usage,
      MayWarn, MayFail
<1>6. CASE CountArguments
  BY <1>6 DEF CountArguments, Proceed, ProceedWarned, Return, Fail, usage,
      MayWarn, MayFail
<1>7. CASE Resolve
  BY <1>7 DEF Resolve, Proceed, ProceedWarned, Return, Fail, usage,
      MayWarn, MayFail
<1>8. CASE ProbeSkipped
  BY <1>8 DEF ProbeSkipped, Proceed, ProceedWarned, Return, Fail, usage,
      MayWarn, MayFail
<1>9. CASE ProbeRefused
  BY <1>9 DEF ProbeRefused, Proceed, ProceedWarned, Return, Fail, usage,
      MayWarn, MayFail
<1>10. CASE ProbeOpened
  BY <1>10 DEF ProbeOpened, Proceed, ProceedWarned, Return, Fail, usage,
      MayWarn, MayFail
<1>11. CASE ProbeDevice
  BY <1>11 DEF ProbeDevice, Proceed, ProceedWarned, Return, Fail, usage,
      MayWarn, MayFail
<1>12. CASE ProbeTos
  BY <1>12 DEF ProbeTos, Proceed, ProceedWarned, Return, Fail, usage,
      MayWarn, MayFail
<1>13. CASE ProbeMark
  BY <1>13 DEF ProbeMark, Proceed, ProceedWarned, Return, Fail, usage,
      MayWarn, MayFail
<1>14. CASE Connect
  BY <1>14 DEF Connect, Proceed, ProceedWarned, Return, Fail, usage,
      MayWarn, MayFail
<1>15. CASE GetSockname
  BY <1>15 DEF GetSockname, Proceed, ProceedWarned, Return, Fail, usage,
      MayWarn, MayFail
<1>16. CASE CheckIcmp
  BY <1>16 DEF CheckIcmp, Proceed, ProceedWarned, Return, Fail, usage,
      MayWarn, MayFail
<1>17. CASE BindDevice
  BY <1>17 DEF BindDevice, Proceed, ProceedWarned, Return, Fail, usage,
      MayWarn, MayFail
<1>18. CASE CheckGroup
  BY <1>18 DEF CheckGroup, Proceed, ProceedWarned, Return, Fail, usage,
      MayWarn, MayFail
<1>19. CASE SetMtu
  BY <1>19 DEF SetMtu, Proceed, ProceedWarned, Return, Fail, usage,
      MayWarn, MayFail
<1>20. CASE BindSource
  BY <1>20 DEF BindSource, Proceed, ProceedWarned, Return, Fail, usage,
      MayWarn, MayFail
<1>21. CASE SetFilter
  BY <1>21 DEF SetFilter, Proceed, ProceedWarned, Return, Fail, usage,
      MayWarn, MayFail
<1>22. CASE SetRecvErr
  BY <1>22 DEF SetRecvErr, Proceed, ProceedWarned, Return, Fail, usage,
      MayWarn, MayFail
<1>23. CASE SetIpOptions
  BY <1>23 DEF SetIpOptions, Proceed, ProceedWarned, Return, Fail, usage,
      MayWarn, MayFail
<1>24. CASE SetSocketOptions
  BY <1>24 DEF SetSocketOptions, Proceed, ProceedWarned, Return, Fail, usage,
      MayWarn, MayFail
<1>25. CASE CheckDatalen
  BY <1>25 DEF CheckDatalen, Proceed, ProceedWarned, Return, Fail, usage,
      MayWarn, MayFail
<1>26. CASE Malloc
  BY <1>26 DEF Malloc, Proceed, ProceedWarned, Return, Fail, usage,
      MayWarn, MayFail
<1>27. CASE PingStart
  BY <1>27 DEF PingStart, Proceed, ProceedWarned, Return, Fail, usage,
      MayWarn, MayFail
<1>28. CASE Setup
  BY <1>28 DEF Setup, Proceed, ProceedWarned, Return, Fail, usage,
      MayWarn, MayFail
<1>29. CASE SetupMark
  BY <1>29 DEF SetupMark, Proceed, ProceedWarned, Return, Fail, usage,
      MayWarn, MayFail
<1>30. CASE LoopReport
  BY <1>30 DEF LoopReport, Proceed, ProceedWarned, Return, Fail, usage,
      MayWarn, MayFail
<1>31. CASE LoopFinish
  BY <1>31 DEF LoopFinish, Proceed, ProceedWarned, Return, Fail, usage,
      MayWarn, MayFail
<1>32. CASE LoopAdapt
  BY <1>32 DEF LoopAdapt, callVars
<1>33. CASE PingEnd
  BY <1>33 DEF PingEnd, Proceed, ProceedWarned, Return, Fail, usage,
      MayWarn, MayFail
<1>34. QED
  BY <1>1, <1>2, <1>3, <1>4, <1>5, <1>6, <1>7, <1>8, <1>9, <1>10, <1>11,
     <1>12, <1>13, <1>14, <1>15, <1>16, <1>17, <1>18, <1>19, <1>20, <1>21,
     <1>22, <1>23, <1>24, <1>25, <1>26, <1>27, <1>28, <1>29, <1>30, <1>31,
     <1>32, <1>33
  DEF Next

(* A callback more has been heard, and nothing is forgotten.               *)
LEMMA HeardAppend ==
  ASSUME TypeOK, NEW x, Tell(x), NEW kind
  PROVE  /\ Heard!Heard(kind)' <=> Heard!Heard(kind) \/ x = kind
         /\ callbacks' # << >> /\ callbacks' # callbacks
<1>1. callbacks \in Seq({"enter", "error", "start", "result", "statistics",
                         "end"})
  BY DEF TypeOK
<1>2. callbacks' = Append(callbacks, x)
  BY DEF Tell
<1>3. Len(callbacks') = Len(callbacks) + 1 /\ Len(callbacks) \in Nat
  BY <1>1, <1>2
<1>4. DOMAIN callbacks = 1 .. Len(callbacks)
        /\ DOMAIN callbacks' = 1 .. Len(callbacks) + 1
  BY <1>1, <1>2
<1>5. \A k \in 1 .. Len(callbacks) + 1 :
        callbacks'[k] = IF k = Len(callbacks) + 1 THEN x ELSE callbacks[k]
  BY <1>1, <1>2
<1>6. Heard!Heard(kind)' <=> \E k \in DOMAIN callbacks' : callbacks'[k] = kind
  BY DEF Heard!Heard
<1>7. Heard!Heard(kind) <=> \E k \in DOMAIN callbacks : callbacks[k] = kind
  BY DEF Heard!Heard
<1>8. Heard!Heard(kind)' <=> Heard!Heard(kind) \/ x = kind
  BY <1>3, <1>4, <1>5, <1>6, <1>7
<1>9. QED
  BY <1>1, <1>3, <1>8

(* What the caller has heard tells where the call is.                      *)
HeardInv ==
  stage # "idle" =>
    /\ callbacks # << >> /\ ~Heard!Heard("end")
    /\ Heard!Heard("start") <=> stage \in Started
    /\ Heard!Heard("statistics") <=> stage = "end"
    /\ Heard!Heard("result") => stage \in {"loop", "end"}

(* A call begins with one callback.                                        *)
LEMMA HeardEnter ==
  ASSUME Enters, NEW kind
  PROVE  Heard!Heard(kind)' <=> kind = "enter"
<1>1. callbacks' = <<"enter">>
  BY DEF Enters
<1>2. Heard!Heard(kind)' <=> \E k \in DOMAIN callbacks' : callbacks'[k] = kind
  BY DEF Heard!Heard
<1>3. QED
  BY <1>1, <1>2

(* Every step keeps what the caller has heard in step with the stage.      *)
LEMMA HeardInvStep ==
  ASSUME TypeOK, HeardInv, Next
  PROVE  HeardInv'
<1>1. CASE Quiet
  <2>1. \A kind : Heard!Heard(kind)' <=> Heard!Heard(kind)
    BY <1>1 DEF Quiet, Heard!Heard
  <2>2. QED
    BY <1>1, <2>1 DEF Quiet, HeardInv, Same
<1>2. CASE Errs
  BY <1>2, HeardAppend DEF Errs, HeardInv, Same
<1>3. CASE Reports
  BY <1>3, HeardAppend DEF Reports, HeardInv, Started
<1>4. CASE Ends
  BY <1>4 DEF Ends, HeardInv
<1>5. CASE Enters
  <2>1. callbacks' = <<"enter">> /\ stage' = "caps"
    BY <1>5 DEF Enters
  <2>2. callbacks' # << >>
    BY <2>1
  <2>3. ~Heard!Heard("end")' /\ ~Heard!Heard("start")'
          /\ ~Heard!Heard("statistics")' /\ ~Heard!Heard("result")'
    BY <1>5, HeardEnter
  <2>4. QED
    BY <2>1, <2>2, <2>3 DEF HeardInv, Started
<1>6. QED
  BY <1>1, <1>2, <1>3, <1>4, <1>5, HeardShape

(* Every step of a call is one that PingCallbacks allows.                  *)
LEMMA HeardRefines ==
  ASSUME TypeOK, HeardInv, Next
  PROVE  [Heard!Next]_(Heard!callbackVars)
<1> USE DEF HeardInv
<1>1. CASE Quiet
  <2>1. CASE stage # "idle" /\ stage' # "idle"
    BY <1>1, <2>1 DEF Quiet, Heard!callbackVars
  <2>2. CASE stage = "probe" /\ stage' = "idle"
    BY <1>1, <2>2
    DEF Quiet, Heard!Next, Heard!Return, Heard!Talking, Started
  <2>3. QED
    BY <1>1, <2>1, <2>2 DEF Quiet
<1>2. CASE Errs
  BY <1>2
  DEF Errs, Tell, Heard!Next, Heard!Error, Heard!Talking, Heard!Say
<1>3. CASE Reports
  BY <1>3
  DEF Reports, Tell, Heard!Next, Heard!Start, Heard!During, Heard!Talking,
      Heard!Say, Started
<1>4. CASE Ends
  BY <1>4
  DEF Ends, Tell, Heard!Next, Heard!End, Heard!Talking, Heard!Say, Started
<1>5. CASE Enters
  BY <1>5 DEF Enters, Heard!Next, Heard!Enter
<1>6. QED
  BY <1>1, <1>2, <1>3, <1>4, <1>5, HeardShape

-----------------------------------------------------------------------------
(* Types.                                                                  *)

(* One more callback of a known kind is still a sequence of known kinds.   *)
LEMMA TellType ==
  ASSUME TypeOK, NEW kind \in {"enter", "error", "start", "result",
                               "statistics", "end"}, Tell(kind)
  PROVE  callbacks' \in Seq({"enter", "error", "start", "result",
                             "statistics", "end"})
BY DEF TypeOK, Tell

(* The callbacks and the place of a call keep their types.                 *)
LEMMA HeardType ==
  ASSUME TypeOK, Next
  PROVE  callbacks' \in Seq({"enter", "error", "start", "result",
                             "statistics", "end"})
<1>1. CASE Quiet
  BY <1>1 DEF Quiet, TypeOK
<1>2. CASE Errs
  BY <1>2, TellType DEF Errs
<1>3. CASE Reports
  BY <1>3, TellType DEF Reports
<1>4. CASE Ends
  BY <1>4, TellType DEF Ends
<1>5. CASE Enters
  BY <1>5 DEF Enters
<1>6. QED
  BY <1>1, <1>2, <1>3, <1>4, <1>5, HeardShape

-----------------------------------------------------------------------------
(* The inventory of a call.                                                *)

(* A step that only moves on, or returns.                                  *)
Calm ==
  /\ OnlyCall /\ ret' \in {-1, 0, 2}
  /\ \/ Carries(stage, stage') /\ (stage' = "icmp" => source # "any")
     \/ stage = "caps" /\ stage' = "socket"
     \/ stage = "caps" /\ stage' = "idle"
     \/ /\ stage \in Opened /\ stage' = "idle"
        /\ ret' = 0 => stage \notin Probing

CalmActions ==
  \/ LimitCapabilities \/ ProbeSkipped \/ ProbeRefused \/ ProbeDevice
  \/ ProbeTos \/ ProbeMark \/ Connect \/ BindDevice \/ SetMtu \/ BindSource
  \/ SetFilter \/ SetRecvErr \/ SetIpOptions \/ SetSocketOptions \/ CheckDatalen
  \/ Malloc \/ PingStart \/ SetupMark \/ LoopFinish \/ PingEnd

(* Most actions are calm.                                                  *)
LEMMA CalmShape ==
  ASSUME TypeOK, CalmActions
  PROVE  Calm
<1> USE DEF TypeOK, Calm, Carries, Opened, Probing, Ready, Grouped, Paced
<1>1. CASE LimitCapabilities
  BY <1>1 DEF LimitCapabilities, Proceed, ProceedWarned, Return, Fail, usage,
      MayWarn, MayFail
<1>2. CASE ProbeSkipped
  BY <1>2 DEF ProbeSkipped, Proceed, ProceedWarned, Return, Fail, usage,
      MayWarn, MayFail
<1>3. CASE ProbeRefused
  BY <1>3 DEF ProbeRefused, Proceed, ProceedWarned, Return, Fail, usage,
      MayWarn, MayFail
<1>4. CASE ProbeDevice
  <2>1. /\ stage = "probe device" /\ OnlyCall
        /\ \/ stage' = "probe tos" /\ ret' = ret
           \/ stage' = "idle" /\ ret' = 2
    BY <1>4 DEF ProbeDevice, Proceed, Return, Fail, MayFail
  <2>2. CASE stage' = "probe tos" /\ ret' = ret
    BY <2>1, <2>2
  <2>3. CASE stage' = "idle" /\ ret' = 2
    <3>1. ret' # 0 /\ ret' \in {-1, 0, 2}
      BY <2>3
    <3>2. stage \in Opened
      BY <2>1
    <3>3. stage \in Opened /\ stage' = "idle"
            /\ (ret' = 0 => stage \notin Probing)
      BY <2>3, <3>1, <3>2
    <3>4. QED
      BY <2>1, <3>1, <3>3, Zenon
  <2>4. QED
    BY <2>1, <2>2, <2>3
<1>5. CASE ProbeTos
  BY <1>5 DEF ProbeTos, Proceed, ProceedWarned, Return, Fail, usage,
      MayWarn, MayFail
<1>6. CASE ProbeMark
  BY <1>6 DEF ProbeMark, Proceed, ProceedWarned, Return, Fail, usage,
      MayWarn, MayFail
<1>7. CASE Connect
  <2>1. /\ stage = "connect" /\ OnlyCall
        /\ \/ stage' = "getsockname" /\ ret' = ret
           \/ stage' = "idle" /\ ret' = 2
    BY <1>7 DEF Connect, Proceed, Return, Fail, MayFail
  <2>2. CASE stage' = "getsockname" /\ ret' = ret
    BY <2>1, <2>2
  <2>3. CASE stage' = "idle" /\ ret' = 2
    <3>1. ret' # 0 /\ ret' \in {-1, 0, 2}
      BY <2>3
    <3>2. stage \in Opened
      BY <2>1
    <3>3. stage \in Opened /\ stage' = "idle"
            /\ (ret' = 0 => stage \notin Probing)
      BY <2>3, <3>1, <3>2
    <3>4. QED
      BY <2>1, <3>1, <3>3, Zenon
  <2>4. QED
    BY <2>1, <2>2, <2>3
<1>8. CASE BindDevice
  BY <1>8 DEF BindDevice, Proceed, ProceedWarned, Return, Fail, usage,
      MayWarn, MayFail
<1>9. CASE SetMtu
  BY <1>9 DEF SetMtu, Proceed, ProceedWarned, Return, Fail, usage,
      MayWarn, MayFail
<1>10. CASE BindSource
  BY <1>10 DEF BindSource, Proceed, ProceedWarned, Return, Fail, usage,
      MayWarn, MayFail
<1>11. CASE SetFilter
  BY <1>11 DEF SetFilter, Proceed, ProceedWarned, Return, Fail, usage,
      MayWarn, MayFail
<1>12. CASE SetRecvErr
  BY <1>12 DEF SetRecvErr, Proceed, ProceedWarned, Return, Fail, usage,
      MayWarn, MayFail
<1>13. CASE SetIpOptions
  BY <1>13 DEF SetIpOptions, Proceed, ProceedWarned, Return, Fail, usage,
      MayWarn, MayFail
<1>14. CASE SetSocketOptions
  BY <1>14 DEF SetSocketOptions, Proceed, ProceedWarned, Return, Fail, usage,
      MayWarn, MayFail
<1>15. CASE CheckDatalen
  BY <1>15 DEF CheckDatalen, Proceed, ProceedWarned, Return, Fail, usage,
      MayWarn, MayFail
<1>16. CASE Malloc
  BY <1>16 DEF Malloc, Proceed, ProceedWarned, Return, Fail, usage,
      MayWarn, MayFail
<1>17. CASE PingStart
  BY <1>17 DEF PingStart, Proceed, ProceedWarned, Return, Fail, usage,
      MayWarn, MayFail
<1>18. CASE SetupMark
  BY <1>18 DEF SetupMark, Proceed, ProceedWarned, Return, Fail, usage,
      MayWarn, MayFail
<1>19. CASE LoopFinish
  BY <1>19 DEF LoopFinish, Proceed, ProceedWarned, Return, Fail, usage,
      MayWarn, MayFail
<1>20. CASE PingEnd
  BY <1>20 DEF PingEnd, Proceed, ProceedWarned, Return, Fail, usage,
      MayWarn, MayFail
<1>21. QED
  BY <1>1, <1>2, <1>3, <1>4, <1>5, <1>6, <1>7, <1>8, <1>9, <1>10, <1>11,
     <1>12, <1>13, <1>14, <1>15, <1>16, <1>17, <1>18, <1>19, <1>20
  DEF CalmActions

(* Moving on keeps the inventory.                                          *)
LEMMA CalmStep ==
  ASSUME SetupInv, Next, Calm
  PROVE  SetupInv'
<1>1. TypeOK
  BY DEF SetupInv
<1>2. /\ UNCHANGED <<flags, interval, pmtudisc, argc, whereto, source,
                     resolved, routed, icmp_sock, using_ping_socket,
                     probe_fd, open, root, calls, openBefore>>
      /\ ret' \in {-1, 0, 2}
  BY DEF Calm, OnlyCall, settingVars, addressVars, socketVars, historyVars
<1>3. stage' \in Stages
  BY DEF Calm, Carries, Opened, Probing, Ready, Stages
<1>4. TypeOK'
  BY <1>1, <1>2, <1>3, HeardType DEF TypeOK
<1>5. CASE Carries(stage, stage') /\ (stage' = "icmp" => source # "any")
  <2>1. /\ stage \in Opened /\ stage' \in Opened
        /\ stage \notin {"idle", "caps", "socket"}
        /\ stage' \notin {"idle", "caps", "socket"}
    BY <1>5 DEF Carries, Opened, Probing, Ready
  <2>2. /\ stage' = "icmp" /\ resolved' => source' # "any"
        /\ stage' \in Ready =>
             icmp_sock' # "none" /\ (resolved' => whereto' # "any")
        /\ stage' \in Grouped /\ Group' /\ ~root' =>
             \/ interval' = "normal"
             \/ stage' \in {"loop", "end"} /\ "adaptive" \in flags'
        /\ stage' \in Paced /\ ~root' => interval' # "tiny"
    BY <1>2, <1>5 DEF SetupInv, Carries, Group
  <2>3. probe_fd' <=> stage' \in Probing
    BY <1>2, <1>5, <2>1 DEF SetupInv, Carries
  <2>4. open' = openBefore' + One(icmp_sock # "none")' + One(probe_fd)'
    BY <1>2, <2>1 DEF SetupInv
  <2>5. LeakBounded'
    BY <2>1 DEF LeakBounded
  <2>6. QED
    BY <1>4, <2>1, <2>2, <2>3, <2>4, <2>5 DEF SetupInv
<1>6. CASE stage = "caps" /\ stage' = "socket"
  <2>1. LeakBounded'
    BY <1>2, <1>6 DEF SetupInv, LeakBounded
  <2>2. stage' \notin Opened /\ stage' \notin Ready /\ stage' \notin Grouped
          /\ stage' \notin Paced /\ stage' \notin Probing
    BY <1>6 DEF Opened, Probing, Ready, Grouped, Paced
  <2>3. stage \notin Probing
    BY <1>6 DEF Probing
  <2>4. ~probe_fd /\ open = openBefore
    BY <1>6, <2>3 DEF SetupInv
  <2>5. QED
    BY <1>2, <1>4, <1>6, <2>1, <2>2, <2>4 DEF SetupInv
<1>7. CASE stage = "caps" /\ stage' = "idle"
  <2>1. open = openBefore /\ open \in Nat
    BY <1>7 DEF SetupInv, TypeOK
  <2>2. LeakBounded'
    BY <1>2, <2>1 DEF LeakBounded
  <2>3. QED
    BY <1>2, <1>4, <1>7, <2>2
    DEF SetupInv, Opened, Probing, Ready, Grouped, Paced
<1>8. CASE /\ stage \in Opened /\ stage' = "idle"
           /\ ret' = 0 => stage \notin Probing
  <2>1. /\ open = openBefore + One(icmp_sock # "none") + One(probe_fd)
        /\ probe_fd <=> stage \in Probing
        /\ openBefore \in Nat
    BY <1>8 DEF SetupInv, TypeOK, Opened, Probing, Ready
  <2>2. LeakBounded'
    BY <1>2, <1>8, <2>1 DEF LeakBounded, One
  <2>3. QED
    BY <1>2, <1>4, <1>8, <2>2
    DEF SetupInv, Opened, Probing, Ready, Grouped, Paced
<1>9. QED
  BY <1>5, <1>6, <1>7, <1>8 DEF Calm

(* A return is free of the inventory's other parts.                        *)
LEMMA IdleStep ==
  ASSUME TypeOK', LeakBounded', stage' = "idle"
  PROVE  SetupInv'
BY DEF SetupInv, Opened, Probing, Ready, Grouped, Paced

(* While options and addresses are read no socket is touched.              *)
LEMMA ReadingStep ==
  ASSUME SetupInv, TypeOK', stage \in {"options", "args", "resolve"},
         stage' \in {"args", "resolve", "probe", "idle"},
         UNCHANGED <<icmp_sock, using_ping_socket, probe_fd, open,
                     openBefore>>
  PROVE  SetupInv'
<1>1. stage \in Opened /\ stage \notin Probing /\ stage # "idle"
  BY DEF Opened, Probing
<1>2. ~probe_fd /\ open = openBefore + One(icmp_sock # "none") + One(probe_fd)
  BY <1>1 DEF SetupInv
<1>3. openBefore \in Nat
  BY DEF SetupInv, TypeOK
<1>4. LeakBounded'
  BY <1>2, <1>3 DEF LeakBounded, SetupInv, One
<1>5. CASE stage' = "idle"
  BY <1>4, <1>5, IdleStep
<1>6. CASE stage' # "idle"
  <2>1. stage' \notin Probing /\ stage' \notin Ready /\ stage' \notin Grouped
          /\ stage' \notin Paced /\ stage' \notin {"caps", "socket"}
    BY <1>6 DEF Probing, Ready, Grouped, Paced
  <2>2. QED
    BY <1>2, <1>4, <2>1 DEF SetupInv
<1>7. QED
  BY <1>5, <1>6

(* The type is kept by a step that keeps each of its parts.                *)
LEMMA TypeKept ==
  ASSUME TypeOK, Next, stage' \in Stages,
         flags' = flags \/ flags' \subseteq AllFlags \cup {"hops"},
         interval' = interval \/ interval' \in {"tiny", "short", "normal"},
         pmtudisc' = pmtudisc \/ pmtudisc' \in {"unset", "do", "other"},
         argc' = argc \/ argc' \in -1 .. 2,
         whereto' = whereto \/ whereto' \in Destinations \cup {"self"},
         source' = source \/ source' \in {"any", "given", "found"},
         resolved' = resolved \/ resolved' \in BOOLEAN,
         routed' = routed \/ routed' \in BOOLEAN,
         icmp_sock' = icmp_sock \/ icmp_sock' \in {"none", "dgram", "raw"},
         using_ping_socket' = using_ping_socket
             \/ using_ping_socket' \in BOOLEAN,
         probe_fd' = probe_fd \/ probe_fd' \in BOOLEAN,
         open' = open \/ open' \in Nat,
         ret' = ret \/ ret' \in {-1, 0, 2},
         root' = root, calls' \in Nat,
         openBefore' = openBefore \/ openBefore' \in Nat
  PROVE  TypeOK'
<1>1. callbacks' \in Seq({"enter", "error", "start", "result", "statistics",
                          "end"})
  BY HeardType
<1>2. flags' \subseteq AllFlags \cup {"hops"}
  BY DEF TypeOK
<1>3. interval' \in {"tiny", "short", "normal"}
  BY DEF TypeOK
<1>4. pmtudisc' \in {"unset", "do", "other"}
  BY DEF TypeOK
<1>5. argc' \in -1 .. 2
  BY DEF TypeOK
<1>6. whereto' \in Destinations \cup {"self"}
  BY DEF TypeOK
<1>7. source' \in {"any", "given", "found"}
  BY DEF TypeOK
<1>8. routed' \in BOOLEAN /\ resolved' \in BOOLEAN
  BY DEF TypeOK
<1>9. icmp_sock' \in {"none", "dgram", "raw"}
  BY DEF TypeOK
<1>10. using_ping_socket' \in BOOLEAN
  BY DEF TypeOK
<1>11. probe_fd' \in BOOLEAN
  BY DEF TypeOK
<1>12. open' \in Nat
  BY DEF TypeOK
<1>13. ret' \in {-1, 0, 2}
  BY DEF TypeOK
<1>14. root' \in BOOLEAN
  BY DEF TypeOK
<1>15. openBefore' \in Nat
  BY DEF TypeOK
<1>16. QED
  BY <1>1, <1>2, <1>3, <1>4, <1>5, <1>6, <1>7, <1>8, <1>9,
     <1>10, <1>11, <1>12, <1>13, <1>14, <1>15
  DEF TypeOK

(* The getopt() loop leaves settings.                                      *)
LEMMA SetType ==
  ASSUME TypeOK, NEW given \in SUBSET Flags, Set(given)
  PROVE  /\ flags' \subseteq AllFlags \cup {"hops"}
         /\ interval' \in {"tiny", "short", "normal"}
         /\ pmtudisc' \in {"unset", "do", "other"}
         /\ source' \in {"any", "given", "found"}
<1>1. Settings(given) \subseteq AllFlags
  BY PingSetupAssumption DEF Settings, AllFlags
<1>2. flags' \subseteq AllFlags \cup {"hops"}
  BY <1>1 DEF Set, TypeOK
<1>3. QED
  BY <1>2 DEF Set, TypeOK

(* Every step keeps the inventory: the calm ones together, the others one  *)
(* by one.                                                                 *)
LEMMA SetupInvStep ==
  ASSUME SetupInv, Next
  PROVE  SetupInv'
<1>1. TypeOK
  BY DEF SetupInv
<1>2. callbacks' \in Seq({"enter", "error", "start", "result", "statistics",
                          "end"})
  BY <1>1, HeardType
<1>3. CASE CalmActions
  BY <1>1, <1>3, CalmShape, CalmStep
<1>4. CASE NativeStartPing
  <2>1. /\ stage' = "caps" /\ openBefore' = open /\ probe_fd' = FALSE
        /\ calls' = calls + 1
        /\ UNCHANGED <<flags, interval, pmtudisc, argc, whereto, source,
                       resolved, routed, icmp_sock, using_ping_socket, open,
                       root, ret>>
    BY <1>4 DEF NativeStartPing, settingVars, addressVars
  <2>2. TypeOK'
    <3>1. stage' \in Stages
      BY <2>1 DEF Stages
    <3>2. calls' \in Nat /\ openBefore' \in Nat
      BY <1>1, <2>1 DEF TypeOK
    <3>3. probe_fd' \in BOOLEAN
      BY <2>1
    <3>4. QED
      BY <1>1, <2>1, <3>1, <3>2, <3>3, TypeKept
  <2>3. LeakBounded'
    BY <1>1, <2>1 DEF LeakBounded
  <2>4. stage' \notin Probing /\ stage' \notin Ready /\ stage' \notin Grouped
          /\ stage' \notin Paced /\ stage' \notin Opened
    BY <2>1 DEF Probing, Ready, Grouped, Paced, Opened
  <2>5. QED
    BY <2>1, <2>2, <2>3, <2>4 DEF SetupInv
<1>5. CASE OpenIcmp
  <2>1. /\ stage = "socket" /\ stage' = "options"
        /\ icmp_sock' \in {"none", "dgram", "raw"}
        /\ open' = IF icmp_sock' = "none" THEN open ELSE open + 1
        /\ using_ping_socket' = (using_ping_socket /\ icmp_sock' = "dgram")
        /\ UNCHANGED <<flags, interval, pmtudisc, argc, whereto, source,
                       resolved, routed, probe_fd, root, calls, openBefore,
                       ret>>
    BY <1>5
    DEF OpenIcmp, Proceed, settingVars, addressVars, historyVars
  <2>2. stage' \in Stages /\ open' \in Nat /\ using_ping_socket' \in BOOLEAN
    BY <1>1, <2>1 DEF TypeOK, Stages
  <2>3. TypeOK'
    <3>1. stage' \in Stages
      BY <2>1, <2>2 DEF Stages
    <3>2. calls' \in Nat
      BY <1>1, <2>1, <2>2 DEF TypeOK
    <3>3. QED
      BY <1>1, <2>1, <2>2, <3>1, <3>2, TypeKept
  <2>4. LeakBounded'
    BY <2>1 DEF LeakBounded
  <2>5. stage' \notin Probing /\ stage' \notin Ready /\ stage' \notin Grouped
          /\ stage' \notin Paced /\ stage \notin Probing
    BY <2>1 DEF Probing, Ready, Grouped, Paced
  <2>6. ~probe_fd /\ open = openBefore /\ open \in Nat
    BY <1>1, <2>1, <2>5 DEF SetupInv, TypeOK
  <2>7. open' = openBefore' + One(icmp_sock # "none")' + One(probe_fd)'
    BY <2>1, <2>6 DEF One
  <2>8. QED
    BY <2>1, <2>3, <2>4, <2>5, <2>6, <2>7 DEF SetupInv
<1>6. CASE OptionsRead
  <2>1. /\ stage = "options" /\ stage' = "args"
        /\ UNCHANGED <<argc, whereto, resolved, routed, icmp_sock,
                       using_ping_socket, probe_fd, open, root, calls,
                       openBefore, ret>>
    BY <1>6 DEF OptionsRead, Proceed, socketVars, historyVars
  <2>2. PICK given \in SUBSET Flags : Set(given)
    BY <1>6 DEF OptionsRead
  <2>3. TypeOK'
    <3>1. stage' \in Stages
      BY <2>1, <2>2 DEF Stages
    <3>2. /\ flags' \subseteq AllFlags \cup {"hops"}
          /\ interval' \in {"tiny", "short", "normal"}
          /\ pmtudisc' \in {"unset", "do", "other"}
          /\ source' \in {"any", "given", "found"}
      BY <1>1, <2>2, SetType
    <3>3. calls' \in Nat
      BY <1>1, <2>1, <2>2 DEF TypeOK
    <3>4. QED
      BY <1>1, <2>1, <2>2, <3>1, <3>2, <3>3, TypeKept
  <2>4. QED
    BY <2>1, <2>3, ReadingStep
<1>7. CASE OptionsRejected
  <2>1. /\ stage = "options" /\ stage' = "idle" /\ ret' \in {-1, 0, 2}
        /\ UNCHANGED <<argc, whereto, resolved, routed, icmp_sock,
                       using_ping_socket, probe_fd, open, root, calls,
                       openBefore>>
    BY <1>7
    DEF OptionsRejected, Fail, Return, usage, socketVars, historyVars
  <2>2. PICK given \in SUBSET Flags : Set(given)
    BY <1>7 DEF OptionsRejected
  <2>3. TypeOK'
    <3>1. stage' \in Stages
      BY <2>1, <2>2 DEF Stages
    <3>2. /\ flags' \subseteq AllFlags \cup {"hops"}
          /\ interval' \in {"tiny", "short", "normal"}
          /\ pmtudisc' \in {"unset", "do", "other"}
          /\ source' \in {"any", "given", "found"}
      BY <1>1, <2>2, SetType
    <3>3. calls' \in Nat
      BY <1>1, <2>1, <2>2 DEF TypeOK
    <3>4. QED
      BY <1>1, <2>1, <2>2, <3>1, <3>2, <3>3, TypeKept
  <2>4. QED
    BY <2>1, <2>3, ReadingStep
<1>8. CASE CountArguments
  <2>1. /\ stage = "args" /\ stage' \in {"resolve", "idle"}
        /\ ret' \in {ret, -1} /\ argc' \in -1 .. 2
        /\ flags' \in {flags, flags \cup {"hops"}}
        /\ UNCHANGED <<interval, pmtudisc, whereto, source, resolved, routed,
                       icmp_sock, using_ping_socket, probe_fd, open, root,
                       calls, openBefore>>
    BY <1>8
    DEF CountArguments, Proceed, Return, usage, socketVars, historyVars
  <2>2. TypeOK'
    <3>1. stage' \in Stages
      BY <2>1 DEF Stages
    <3>2. calls' \in Nat /\ flags' \subseteq AllFlags \cup {"hops"}
      BY <1>1, <2>1 DEF TypeOK
    <3>3. QED
      BY <1>1, <2>1, <3>1, <3>2, TypeKept
  <2>3. QED
    BY <2>1, <2>2, ReadingStep
<1>9. CASE Resolve
  <2>1. PICK host \in Hosts :
          /\ Lookup(host)
          /\ IF argc > 0 /\ host = "unknown"
             THEN Tell("end") /\ Return(2)
             ELSE Proceed("probe")
    BY <1>9 DEF Resolve
  <2>2. /\ whereto' \in Destinations \cup {"self"}
        /\ routed' \in BOOLEAN /\ resolved' \in BOOLEAN
    BY <1>1, <2>1, PingSetupAssumption DEF Lookup, TypeOK, Destinations
  <2>3. /\ stage = "resolve" /\ stage' \in {"probe", "idle"}
        /\ ret' \in {ret, 2}
        /\ UNCHANGED <<flags, interval, pmtudisc, argc, source, icmp_sock,
                       using_ping_socket, probe_fd, open, root, calls,
                       openBefore>>
    BY <1>9, <2>1
    DEF Resolve, Lookup, Proceed, Return, settingVars, socketVars, historyVars
  <2>4. TypeOK'
    <3>1. stage' \in Stages
      BY <2>2, <2>3 DEF Stages
    <3>2. calls' \in Nat
      BY <1>1, <2>2, <2>3 DEF TypeOK
    <3>3. QED
      BY <1>1, <2>2, <2>3, <3>1, <3>2, TypeKept
  <2>5. QED
    BY <2>3, <2>4, ReadingStep
<1>10. CASE ProbeOpened
  <2>1. /\ stage = "probe" /\ stage' = "probe device"
        /\ probe_fd' = TRUE /\ open' = open + 1
        /\ UNCHANGED <<flags, interval, pmtudisc, argc, whereto, source,
                       resolved, routed, icmp_sock, using_ping_socket, root,
                       calls, openBefore, ret>>
    BY <1>10
    DEF ProbeOpened, Proceed, settingVars, addressVars, historyVars
  <2>2. TypeOK'
    <3>1. stage' \in Stages
      BY <2>1 DEF Stages
    <3>2. calls' \in Nat /\ open' \in Nat
      <4>1. calls \in Nat /\ open \in Nat
        BY <1>1 DEF TypeOK
      <4>2. calls' = calls /\ open' = open + 1
        BY <2>1
      <4>3. QED
        BY <4>1, <4>2
    <3>3. probe_fd' \in BOOLEAN
      BY <2>1
    <3>4. QED
      BY <1>1, <2>1, <3>1, <3>2, <3>3, TypeKept
  <2>3. /\ stage \in Opened /\ stage \notin Probing
        /\ stage' \in Probing /\ stage' \notin Ready
        /\ stage' \notin Grouped /\ stage' \notin Paced
    BY <2>1 DEF Opened, Probing, Ready, Grouped, Paced
  <2>4. ~probe_fd /\ open = openBefore + One(icmp_sock # "none") + One(probe_fd)
    BY <2>1, <2>3 DEF SetupInv
  <2>5. openBefore \in Nat
    BY <1>1 DEF TypeOK
  <2>6. open' = openBefore' + One(icmp_sock # "none")' + One(probe_fd)'
    <3>1. One(probe_fd) = 0 /\ One(probe_fd)' = 1
      BY <2>1, <2>4 DEF One
    <3>2. One(icmp_sock # "none")' = One(icmp_sock # "none")
            /\ One(icmp_sock # "none") \in Nat
      BY <2>1 DEF One
    <3>3. open = openBefore + One(icmp_sock # "none") + One(probe_fd)
      BY <2>4
    <3>4. open' = open + 1 /\ openBefore' = openBefore
      BY <2>1
    <3>5. QED
      BY <2>5, <3>1, <3>2, <3>3, <3>4
  <2>7. LeakBounded'
    BY <1>1, <2>1 DEF LeakBounded
  <2>8. QED
    BY <2>1, <2>2, <2>3, <2>6, <2>7 DEF SetupInv
<1>11. CASE GetSockname
  <2>1. /\ stage = "getsockname" /\ source' \in {"any", "found"}
        /\ \/ /\ stage' = "icmp" /\ ret' = ret
              /\ ~probe_fd' /\ open' = open - 1
              /\ resolved => source' = "found"
           \/ stage' = "idle" /\ ret' = 2 /\ UNCHANGED <<probe_fd, open>>
        /\ probe_fd' \in {probe_fd, FALSE}
        /\ UNCHANGED <<flags, interval, pmtudisc, argc, whereto, resolved,
                       routed, icmp_sock, using_ping_socket, root, calls,
                       openBefore>>
    BY <1>11
    DEF GetSockname, Found, MayWarn, Proceed, ProceedWarned, Fail, Return,
        settingVars, historyVars
  <2>2. stage \in Opened /\ stage \in Probing
    BY <2>1 DEF Opened, Probing
  <2>3. probe_fd /\ open = openBefore + One(icmp_sock # "none") + One(probe_fd)
    BY <2>1, <2>2 DEF SetupInv
  <2>4. openBefore \in Nat
    BY <1>1 DEF TypeOK
  <2>6. CASE stage' = "icmp"
    <3>1. /\ ret' = ret /\ ~probe_fd' /\ open' = open - 1
          /\ resolved' => source' # "any"
      BY <2>1, <2>6
    <3>2. open' = openBefore' + One(icmp_sock # "none")' + One(probe_fd)'
            /\ open' \in Nat
      BY <2>1, <2>3, <2>4, <3>1 DEF One
    <3>3. TypeOK'
      <4>1. stage' \in Stages
        BY <2>1, <2>6, <3>1, <3>2 DEF Stages
      <4>2. calls' \in Nat
        BY <1>1, <2>1, <2>6, <3>1, <3>2 DEF TypeOK
      <4>3. QED
        BY <1>1, <2>1, <2>6, <3>1, <3>2, <4>1, <4>2, TypeKept
    <3>4. stage' \notin Probing /\ stage' \notin Ready /\ stage' \notin Grouped
            /\ stage' \notin Paced
      BY <2>6 DEF Probing, Ready, Grouped, Paced
    <3>5. QED
      BY <2>6, <3>1, <3>2, <3>3, <3>4 DEF SetupInv, LeakBounded
  <2>7. CASE stage' = "idle"
    <3>1. ret' = 2 /\ probe_fd' = probe_fd /\ open' = open
      BY <2>1, <2>7
    <3>2. TypeOK'
      <4>1. stage' \in Stages
        BY <2>1, <2>7, <3>1 DEF Stages
      <4>2. calls' \in Nat
        BY <1>1, <2>1, <2>7, <3>1 DEF TypeOK
      <4>3. QED
        BY <1>1, <2>1, <2>7, <3>1, <4>1, <4>2, TypeKept
    <3>3. LeakBounded'
      BY <2>1, <2>3, <2>4, <3>1 DEF LeakBounded, One
    <3>4. QED
      BY <2>7, <3>2, <3>3, IdleStep
  <2>8. QED
    BY <2>1, <2>6, <2>7
<1>12. CASE CheckIcmp
  <2>1. /\ stage = "icmp"
        /\ whereto' = Destination
        /\ \/ stage' = "device" /\ ret' = ret /\ icmp_sock # "none"
           \/ stage' = "idle" /\ ret' = 2
        /\ UNCHANGED <<flags, interval, pmtudisc, argc, source, resolved,
                       routed, icmp_sock, using_ping_socket, probe_fd, open,
                       root, calls, openBefore>>
    BY <1>12
    DEF CheckIcmp, Proceed, Fail, Return, settingVars, socketVars, historyVars
  <2>2. whereto' \in Destinations \cup {"self"}
          /\ (resolved' => whereto' # "any")
    BY <1>1, <2>1 DEF SetupInv, Destination, TypeOK, Destinations
  <2>3. TypeOK'
    <3>1. stage' \in Stages
      BY <2>1, <2>2 DEF Stages
    <3>2. calls' \in Nat
      BY <1>1, <2>1, <2>2 DEF TypeOK
    <3>3. QED
      BY <1>1, <2>1, <2>2, <3>1, <3>2, TypeKept
  <2>4. stage \in Opened /\ stage \notin Probing
    BY <2>1 DEF Opened, Probing
  <2>5. ~probe_fd /\ open = openBefore + One(icmp_sock # "none") + One(probe_fd)
    BY <2>1, <2>4 DEF SetupInv
  <2>7. CASE stage' = "device"
    <3>1. stage' \notin Probing /\ stage' \notin Grouped /\ stage' \notin Paced
      BY <2>7 DEF Probing, Ready, Grouped, Paced
    <3>2. icmp_sock' # "none"
      BY <2>1, <2>7
    <3>3. QED
      BY <2>1, <2>2, <2>3, <2>5, <2>7, <3>1, <3>2
      DEF SetupInv, LeakBounded
  <2>8. CASE stage' = "idle"
    <3>1. openBefore \in Nat
      BY <1>1 DEF TypeOK
    <3>2. LeakBounded'
      BY <2>1, <2>5, <2>8, <3>1 DEF LeakBounded, One
    <3>3. QED
      BY <2>3, <2>8, <3>2, IdleStep
  <2>9. QED
    BY <2>1, <2>7, <2>8
<1>13. CASE CheckGroup
  <2>1. /\ stage = "group"
        /\ \/ stage' = "idle" /\ ret' = 2
           \/ /\ stage' = "mtu" /\ ret' = ret
              /\ Group /\ ~root => interval = "normal"
        /\ pmtudisc' \in {pmtudisc, "do"}
        /\ UNCHANGED <<flags, interval, argc, whereto, source, resolved,
                       routed, icmp_sock, using_ping_socket, probe_fd, open,
                       root, calls, openBefore>>
    BY <1>13
    DEF CheckGroup, Proceed, Fail, Return, addressVars, socketVars, historyVars
  <2>2. TypeOK'
    <3>1. stage' \in Stages
      BY <2>1 DEF Stages
    <3>2. calls' \in Nat
      BY <1>1, <2>1 DEF TypeOK
    <3>3. QED
      BY <1>1, <2>1, <3>1, <3>2, TypeKept
  <2>3. stage \in Opened /\ stage \in Ready /\ stage \notin Probing
    BY <2>1 DEF Opened, Ready, Probing
  <2>4. /\ ~probe_fd /\ icmp_sock # "none" /\ (resolved => whereto # "any")
        /\ open = openBefore + One(icmp_sock # "none") + One(probe_fd)
    BY <2>1, <2>3 DEF SetupInv
  <2>6. CASE stage' = "mtu"
    <3>1. stage' \notin Probing /\ stage' \notin Paced
      BY <2>6 DEF Probing, Paced
    <3>2. Group' /\ ~root' => interval' = "normal"
      BY <2>1, <2>6 DEF Group
    <3>3. QED
      BY <2>1, <2>2, <2>4, <2>6, <3>1, <3>2 DEF SetupInv, LeakBounded
  <2>7. CASE stage' = "idle"
    <3>1. openBefore \in Nat
      BY <1>1 DEF TypeOK
    <3>2. LeakBounded'
      BY <2>1, <2>4, <2>7, <3>1 DEF LeakBounded, One
    <3>3. QED
      BY <2>2, <2>7, <3>2, IdleStep
  <2>8. QED
    BY <2>1, <2>6, <2>7
<1>14. CASE Setup
  <2>1. /\ stage = "setup"
        /\ interval' = IF "flood" \in flags /\ "interval" \notin flags
                       THEN "tiny" ELSE interval
        /\ \/ stage' = "idle" /\ ret' = 2
           \/ /\ stage' = "setup mark" /\ ret' = ret
              /\ ~root => interval' # "tiny"
        /\ UNCHANGED <<flags, pmtudisc, argc, whereto, source, resolved,
                       routed, icmp_sock, using_ping_socket, probe_fd, open,
                       root, calls, openBefore>>
    BY <1>14
    DEF Setup, MayFail, Proceed, Fail, Return, addressVars, socketVars,
        historyVars
  <2>2. TypeOK'
    <3>1. stage' \in Stages
      BY <2>1 DEF Stages
    <3>2. calls' \in Nat
      BY <1>1, <2>1 DEF TypeOK
    <3>3. QED
      BY <1>1, <2>1, <3>1, <3>2, TypeKept
  <2>3. /\ stage \in Opened /\ stage \in Ready /\ stage \notin Probing
        /\ stage \in Grouped
    BY <2>1 DEF Opened, Ready, Grouped, Probing
  <2>4. /\ ~probe_fd /\ icmp_sock # "none" /\ (resolved => whereto # "any")
        /\ open = openBefore + One(icmp_sock # "none") + One(probe_fd)
        /\ Group /\ ~root => interval = "normal"
    BY <2>1, <2>3 DEF SetupInv
  <2>6. CASE stage' = "setup mark"
    <3>1. stage' \notin Probing
      BY <2>6 DEF Probing
    <3>2. ~root' => interval' # "tiny"
      BY <2>1, <2>6
    <3>3. Group' /\ ~root' => interval' = "normal"
      BY <2>1, <2>4, <3>2 DEF Group
    <3>4. QED
      BY <2>1, <2>2, <2>4, <2>6, <3>1, <3>2, <3>3
      DEF SetupInv, LeakBounded
  <2>7. CASE stage' = "idle"
    <3>1. openBefore \in Nat
      BY <1>1 DEF TypeOK
    <3>2. LeakBounded'
      BY <2>1, <2>4, <2>7, <3>1 DEF LeakBounded, One
    <3>3. QED
      BY <2>2, <2>7, <3>2, IdleStep
  <2>8. QED
    BY <2>1, <2>6, <2>7
<1>15. CASE LoopReport \/ LoopAdapt
  <2>1. /\ stage = "loop" /\ stage' = "loop" /\ interval' \in Adapted
        /\ UNCHANGED <<flags, pmtudisc, argc, whereto, source, resolved,
                       routed, icmp_sock, using_ping_socket, probe_fd, open,
                       root, calls, openBefore, ret>>
    BY <1>15
    DEF LoopReport, LoopAdapt, callVars, addressVars, socketVars, historyVars
  <2>2. /\ interval' \in {"tiny", "short", "normal"}
        /\ ~root => interval' = interval \/ interval' # "tiny"
        /\ interval' = interval \/ "adaptive" \in flags
    BY <1>1, <2>1 DEF Adapted, TypeOK
  <2>3. TypeOK'
    <3>1. stage' \in Stages
      BY <2>1 DEF Stages
    <3>2. calls' \in Nat
      BY <1>1, <2>1 DEF TypeOK
    <3>3. QED
      BY <1>1, <2>1, <2>2, <3>1, <3>2, TypeKept
  <2>4. /\ stage \in Opened /\ stage \in Ready /\ stage \notin Probing
        /\ stage \in Grouped /\ stage \in Paced
    BY <2>1 DEF Opened, Ready, Grouped, Paced, Probing
  <2>5. /\ ~root' => interval' # "tiny"
        /\ Group' /\ ~root' => interval' = "normal" \/ "adaptive" \in flags'
    BY <2>1, <2>2, <2>4 DEF SetupInv, Group
  <2>6. /\ ~probe_fd' /\ icmp_sock' # "none" /\ (resolved' => whereto' # "any")
        /\ open' = openBefore' + One(icmp_sock # "none")' + One(probe_fd)'
    BY <2>1, <2>4 DEF SetupInv
  <2>7. QED
    BY <2>1, <2>3, <2>4, <2>5, <2>6 DEF SetupInv, LeakBounded
<1>16. QED
  BY <1>3, <1>4, <1>5, <1>6, <1>7, <1>8, <1>9, <1>10, <1>11, <1>12, <1>13,
     <1>14, <1>15
  DEF Next, CalmActions

(* A step that changes nothing.                                            *)
LEMMA SetupStutter ==
  ASSUME SetupInv, HeardInv, UNCHANGED vars
  PROVE  SetupInv' /\ HeardInv'
<1>1. UNCHANGED <<stage, flags, interval, pmtudisc, argc, whereto, source,
                  resolved, routed, icmp_sock, using_ping_socket, probe_fd,
                  open, callbacks, ret, root, calls, openBefore>>
  BY DEF vars, settingVars, addressVars, socketVars, callVars, historyVars
<1>2. TypeOK'
  BY <1>1 DEF SetupInv, TypeOK
<1>3. SetupInv'
  BY <1>1, <1>2 DEF SetupInv, Group, LeakBounded
<1>4. HeardInv'
  BY <1>1 DEF HeardInv, Heard!Heard
<1>5. QED
  BY <1>3, <1>4

(* Both invariants hold before the first call.                             *)
LEMMA SetupInvInit ==
  ASSUME Init
  PROVE  SetupInv /\ HeardInv
<1>1. TypeOK
  <2>1. stage \in Stages /\ whereto \in Destinations \cup {"self"}
    BY DEF Init, Stages, Destinations
  <2>2. flags \subseteq AllFlags \cup {"hops"}
    BY DEF Init
  <2>3. callbacks \in Seq({"enter", "error", "start", "result", "statistics",
                           "end"})
    BY DEF Init
  <2>4. argc \in -1 .. 2 /\ open \in Nat /\ ret \in {-1, 0, 2}
          /\ calls \in Nat /\ openBefore \in Nat
    BY DEF Init
  <2>5. QED
    BY <2>1, <2>2, <2>3, <2>4 DEF Init, TypeOK
<1>2. stage = "idle" /\ LeakBounded
  BY DEF Init, LeakBounded
<1>3. QED
  BY <1>1, <1>2
  DEF SetupInv, HeardInv, Opened, Probing, Ready, Grouped, Paced

(* They hold in every state.                                               *)
LEMMA SetupInvariant == Spec => [](SetupInv /\ HeardInv)
<1>1. Init => SetupInv /\ HeardInv
  BY SetupInvInit
<1>2. SetupInv /\ HeardInv /\ [Next]_vars => (SetupInv /\ HeardInv)'
  <2>1. SetupInv => TypeOK
    BY DEF SetupInv
  <2>2. QED
    BY <2>1, SetupInvStep, HeardInvStep, SetupStutter
<1>3. QED
  BY <1>1, <1>2, PTL DEF Spec

-----------------------------------------------------------------------------
(* What a caller can rely on.                                              *)

(* Every variable keeps its type; there are never fewer than no open       *)
(* descriptors.                                                            *)
THEOREM SetupTypeCorrect == Spec => []TypeOK
<1>1. SetupInv => TypeOK
  BY DEF SetupInv
<1>2. QED
  BY <1>1, SetupInvariant, PTL

(* main_loop() has a socket, the probe socket is closed, and once any call *)
(* of the process looked a host up there is a destination, whichever of    *)
(* the calls before it failed.                                             *)
THEOREM LoopIsReady == Spec => []ReadyToPing
<1>1. SetupInv => ReadyToPing
  BY DEF SetupInv, ReadyToPing, Ready, Probing
<1>2. QED
  BY <1>1, SetupInvariant, PTL

(* A user's interval is never below MINUSERINTERVAL, and for a group it is *)
(* a second unless -A moved it, with the options of all calls.             *)
THEOREM UserIsPaced == Spec => []UserPaced
<1>1. ASSUME SetupInv, stage = "loop", ~root
      PROVE  /\ interval # "tiny"
             /\ Group /\ "adaptive" \notin flags => interval = "normal"
  <2>1. stage \in Grouped /\ stage \in Paced
    BY <1>1 DEF Grouped, Ready, Paced
  <2>2. QED
    BY <1>1, <2>1 DEF SetupInv
<1>2. SetupInv => UserPaced
  BY <1>1 DEF UserPaced
<1>3. QED
  BY <1>2, SetupInvariant, PTL

(* A call leaks two descriptors at most.                                   *)
THEOREM LeakIsBounded == Spec => []LeakBounded
<1>1. SetupInv => LeakBounded
  BY DEF SetupInv
<1>2. QED
  BY <1>1, SetupInvariant, PTL

(* No call returns without a callback of its own, but for the one failure. *)
THEOREM FailuresAreHeard == Spec => ReturnHeard
<1>1. ASSUME TypeOK, Next, stage \notin {"idle", "probe"}, stage' = "idle"
      PROVE  callbacks' # callbacks
  BY <1>1, HeardShape, HeardAppend DEF Quiet, Errs, Reports, Ends, Enters
<1>2. SetupInv => TypeOK
  BY DEF SetupInv
<1>3. UNCHANGED vars => stage' = stage
  BY DEF vars, callVars
<1>4. SetupInv /\ [Next]_vars =>
        [stage \notin {"idle", "probe"} /\ stage' = "idle"
           => callbacks' # callbacks]_vars
  BY <1>1, <1>2
<1>5. QED
  BY <1>4, SetupInvariant, PTL DEF Spec, ReturnHeard

(* Whatever fails and however often it is called, the caller hears each    *)
(* call in the order PingCallbacks promises.                               *)
THEOREM CallbacksInOrder == Spec => ImplementsCallbacks
<1>1. Init => Heard!Silent
  BY DEF Init, Heard!Silent
<1>2. SetupInv => TypeOK
  BY DEF SetupInv
<1>3. UNCHANGED vars => UNCHANGED Heard!callbackVars
  BY DEF vars, callVars, Heard!callbackVars
<1>4. SetupInv /\ HeardInv /\ [Next]_vars => [Heard!Next]_(Heard!callbackVars)
  BY <1>2, <1>3, HeardRefines
<1>5. QED
  BY <1>1, <1>4, SetupInvariant, PTL DEF Spec, ImplementsCallbacks, Heard!Spec

=============================================================================
