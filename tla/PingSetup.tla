------------------------------ MODULE PingSetup ------------------------------
(***************************************************************************)
(* Calls of startPing(), one after the other in one process: JNI's         *)
(* nativeStartPing(), and ping() of ping_run.c from limit_capabilities()   *)
(* through the choice of a socket, the options, the resolver, the choice   *)
(* of a source address, the socket options, setup() and main_loop() to the *)
(* return.  Any system call may fail.  What main_loop() does is PingLoop;  *)
(* here it only makes callbacks.                                           *)
(*                                                                         *)
(* A call starts from the globals the earlier ones left: options (here     *)
(* flags), interval, pmtudisc, source, whereto, using_ping_socket and      *)
(* getopt()'s optind.  No descriptor but probe_fd is ever closed, and that *)
(* one not by the early returns.                                           *)
(***************************************************************************)
EXTENDS Integers, Sequences

CONSTANTS
  Flags,       \* the settings the options of a call may make
  Hosts,       \* what the last argument may name
  MaxCalls,    \* bound on calls
  MaxReports   \* bound on callbacks of main_loop()

AllFlags == {"broadcast", "tos", "rroute", "timestamp", "device", "source",
             "pmtudisc", "interval", "adaptive", "flood", "mark", "noloop",
             "ttl", "strict", "oversize"}

Destinations == {"any", "unicast", "broadcast", "multicast"}

ASSUME PingSetupAssumption ==
  /\ Flags \subseteq AllFlags
  /\ Hosts \subseteq Destinations \cup {"unknown"}
  /\ MaxCalls \in Nat /\ MaxReports \in Nat

VARIABLES
  stage,       \* where ping() is
  flags, interval, pmtudisc,    \* settings; interval is in one of three ranges
  argc,        \* arguments left after the options
  whereto, source,
  resolved,    \* whereto.sin_family is AF_INET: some call looked a host up
  routed,      \* nroute > 0: the probe socket is connected to a hop
  icmp_sock, using_ping_socket,
  probe_fd,    \* the socket that finds the source address is open
  open,        \* descriptors the process has open
  callbacks, ret,
  root,        \* uid is 0
  calls, openBefore             \* calls made; open when this one began

settingVars == <<flags, interval, pmtudisc>>
addressVars == <<argc, whereto, source, resolved, routed>>
socketVars == <<icmp_sock, using_ping_socket, probe_fd, open>>
callVars == <<stage, callbacks, ret>>
historyVars == <<root, calls, openBefore>>
vars == <<settingVars, addressVars, socketVars, callVars, historyVars>>

Stages == {"idle", "caps", "socket", "options", "args", "resolve", "probe",
           "probe device", "probe tos", "probe mark", "connect",
           "getsockname", "icmp", "device", "group", "mtu", "bind",
           "filter", "recverr", "ip options", "socket options", "datalen",
           "malloc", "start", "setup", "setup mark", "loop", "end"}

TypeOK ==
  /\ stage \in Stages
  /\ flags \subseteq AllFlags \cup {"hops"}
  /\ interval \in {"tiny", "short", "normal"}
  /\ pmtudisc \in {"unset", "do", "other"}
  /\ argc \in -1 .. 2
  /\ whereto \in Destinations \cup {"self"}
  /\ source \in {"any", "given", "found"}
  /\ resolved \in BOOLEAN /\ routed \in BOOLEAN
  /\ icmp_sock \in {"none", "dgram", "raw"} /\ using_ping_socket \in BOOLEAN
  /\ probe_fd \in BOOLEAN /\ open \in Nat
  /\ callbacks \in Seq({"enter", "error", "start", "result", "statistics",
                        "end"})
  /\ ret \in {-1, 0, 2}
  /\ root \in BOOLEAN /\ calls \in Nat /\ openBefore \in Nat

Init ==
  /\ stage = "idle"
  /\ flags = {} /\ interval = "normal" /\ pmtudisc = "unset"
  /\ argc = 0 /\ whereto = "any" /\ source = "any"
  /\ resolved = FALSE /\ routed = FALSE
  /\ icmp_sock = "none" /\ using_ping_socket = TRUE
  /\ probe_fd = FALSE /\ open = 0
  /\ callbacks = << >> /\ ret = 0
  /\ root \in BOOLEAN /\ calls = 0 /\ openBefore = 0

-----------------------------------------------------------------------------
(* How a stage ends: going on, returning, or either with a callback.       *)

Tell(kind) == callbacks' = Append(callbacks, kind)

Proceed(next) == stage' = next /\ UNCHANGED <<callbacks, ret>>

ProceedWarned(next) == stage' = next /\ Tell("error") /\ UNCHANGED ret

Return(code) == stage' = "idle" /\ ret' = code

Fail == Tell("error") /\ Return(2)

usage == Tell("end") /\ Return(-1)

(* A step that warns, or fails, if condition holds and something fails.    *)
MayWarn(condition, next) == Proceed(next) \/ (condition /\ ProceedWarned(next))

MayFail(condition, next) == Proceed(next) \/ (condition /\ Fail)

OnlyCall == UNCHANGED <<settingVars, addressVars, socketVars, historyVars>>

-----------------------------------------------------------------------------
(* nativeStartPing() -> on_enter, ping().                                  *)
NativeStartPing ==
  /\ stage = "idle" /\ calls < MaxCalls
  /\ stage' = "caps" /\ callbacks' = <<"enter">>
  /\ calls' = calls + 1 /\ openBefore' = open
  /\ probe_fd' = FALSE
  /\ UNCHANGED <<settingVars, addressVars, icmp_sock, using_ping_socket, open,
                 root, ret>>

LimitCapabilities ==
  /\ stage = "caps"
  /\ Proceed("socket") \/ (Tell("error") /\ Return(-1))
  /\ OnlyCall

(* The datagram socket, or else the raw one.  An error is left for later.  *)
OpenIcmp ==
  /\ stage = "socket"
  /\ icmp_sock' \in {"none", "dgram", "raw"}
  /\ open' = IF icmp_sock' = "none" THEN open ELSE open + 1
  /\ using_ping_socket' = (using_ping_socket /\ icmp_sock' = "dgram")
  /\ Proceed("options")
  /\ UNCHANGED <<settingVars, addressVars, probe_fd, historyVars>>

-----------------------------------------------------------------------------
(* The getopt() loop.  Settings accumulate over the calls of the process.  *)
(* Only a TOS and a size can be taken back.  -R excludes -T; -Q sets a     *)
(* socket option at once; -I 0.0.0.0 is a source like any other, but is    *)
(* then looked for.  Any option may have a bad value, whose error is       *)
(* returned after it and the ones before it were set.                      *)

Settings(given) ==
  IF "source" \in given THEN (given \ {"source"}) \cup {"strict"} ELSE given

Set(given) ==
  /\ \E undone \in SUBSET (Flags \cap {"tos", "oversize"}) :
       flags' = (flags \ undone) \cup Settings(given)
  /\ IF "interval" \in given THEN interval' \in {"tiny", "short", "normal"}
                             ELSE UNCHANGED interval
  /\ IF "pmtudisc" \in given THEN pmtudisc' \in {"do", "other"}
                             ELSE UNCHANGED pmtudisc
  /\ source' \in IF "source" \in given THEN {"given", "any"} ELSE {source}
  /\ ~({"rroute", "timestamp"} \subseteq flags')

OptionsRead ==
  /\ stage = "options"
  /\ \E given \in SUBSET Flags :
       Set(given) /\ ("tos" \in given => icmp_sock # "none")
  /\ Proceed("args")
  /\ UNCHANGED <<argc, whereto, resolved, routed, socketVars, historyVars>>

OptionsRejected ==
  /\ stage = "options"
  /\ \E given \in SUBSET Flags : Set(given)
  /\ \/ Fail
     \/ Tell("end") /\ Return(0)      \* -V
     \/ usage                         \* an unknown option
  /\ UNCHANGED <<argc, whereto, resolved, routed, socketVars, historyVars>>

(* argc after the options: less than nothing when an earlier call left     *)
(* optind beyond the arguments of this one.  Several hosts are a route.    *)
CountArguments ==
  /\ stage = "args"
  /\ argc' \in 0 .. 2 \cup (IF calls > 1 THEN {-1} ELSE {})
  /\ \/ argc' = 0 /\ usage /\ UNCHANGED flags
     \/ argc' \in {-1, 1} /\ Proceed("resolve") /\ UNCHANGED flags
     \/ argc' = 2 /\ usage /\ UNCHANGED flags
     \/ /\ argc' = 2 /\ "rroute" \notin flags
        /\ flags' = IF "timestamp" \in flags THEN flags
                    ELSE flags \cup {"hops"}
        /\ Proceed("resolve")
  /\ UNCHANGED <<interval, pmtudisc, whereto, source, resolved, routed,
                 socketVars, historyVars>>

(* whereto is cleared before the host is looked up; without arguments left *)
(* it stays what it was.  All hosts but the last become the route.         *)
Lookup(host) ==
  /\ whereto' = IF argc <= 0 THEN whereto
                ELSE IF host = "unknown" THEN "any" ELSE host
  /\ resolved' = (resolved \/ argc > 0)
  /\ CASE argc < 2 -> UNCHANGED routed
       [] argc = 2 /\ host = "unknown" -> routed' \in {routed, TRUE}
       [] OTHER -> routed' = TRUE
  /\ UNCHANGED <<settingVars, argc, source, socketVars, historyVars>>

(* Mutant: an unknown host is reported but not given up.                 *)
ResolveAnyway ==
  /\ stage = "resolve"
  /\ \E host \in Hosts :
       /\ Lookup(host)
       /\ IF argc > 0 /\ host = "unknown"
          THEN stage' = "probe" /\ Tell("end") /\ UNCHANGED ret
          ELSE Proceed("probe")

Resolve ==
  /\ stage = "resolve"
  /\ \E host \in Hosts :
       /\ Lookup(host)
       /\ IF argc > 0 /\ host = "unknown"
          THEN Tell("end") /\ Return(2)
          ELSE Proceed("probe")

-----------------------------------------------------------------------------
(* The source address: that of a datagram socket connected to the          *)
(* destination.  Once known it is kept, for the later calls too.           *)

ProbeSkipped ==
  /\ stage = "probe" /\ source # "any"
  /\ Proceed("icmp")
  /\ OnlyCall

(* perror() alone: the caller hears nothing. *)
ProbeRefused ==
  /\ stage = "probe" /\ source = "any"
  /\ Return(2) /\ UNCHANGED callbacks
  /\ OnlyCall

ProbeOpened ==
  /\ stage = "probe" /\ source = "any"
  /\ probe_fd' = TRUE /\ open' = open + 1
  /\ Proceed("probe device")
  /\ UNCHANGED <<settingVars, addressVars, icmp_sock, using_ping_socket,
                 historyVars>>

ProbeDevice ==
  /\ stage = "probe device"
  /\ MayFail("device" \in flags, "probe tos")
  /\ OnlyCall

ProbeTos ==
  /\ stage = "probe tos"
  /\ MayWarn("tos" \in flags, "probe mark")
  /\ OnlyCall

ProbeMark ==
  /\ stage = "probe mark"
  /\ MayWarn("mark" \in flags, "connect")
  /\ OnlyCall

(* The kernel refuses a broadcast address with EACCES.                     *)
Connect ==
  /\ stage = "connect"
  /\ \/ /\ whereto = "broadcast" /\ ~routed => "broadcast" \in flags
        /\ Proceed("getsockname")
     \/ Fail
  /\ OnlyCall

(* What getsockname() finds.  Before the first lookup of the process       *)
(* sin_family is 0, for which connect() only undoes a connection: the      *)
(* socket has no address.                                                  *)
Found == IF resolved THEN "found" ELSE "any"

(* Mutant: the probe socket is closed only where a device was checked.   *)
GetSocknameUnclosed ==
  /\ stage = "getsockname"
  /\ \/ /\ MayWarn("device" \in flags, "icmp")
        /\ source' = Found
        /\ probe_fd' = ("device" \notin flags)
        /\ open' = IF probe_fd' THEN open ELSE open - 1
     \/ /\ Fail
        /\ source' \in {"any"} \cup (IF "device" \in flags THEN {Found} ELSE {})
        /\ UNCHANGED <<probe_fd, open>>
  /\ UNCHANGED <<settingVars, argc, whereto, resolved, routed, icmp_sock,
                 using_ping_socket, historyVars>>

(* Mutant: both sockets are closed, the ICMP one even if there is none.  *)
GetSocknameClosesBoth ==
  /\ stage = "getsockname"
  /\ MayWarn("device" \in flags, "icmp")
  /\ source' = Found /\ probe_fd' = FALSE /\ open' = open - 2
  /\ UNCHANGED <<settingVars, argc, whereto, resolved, routed, icmp_sock,
                 using_ping_socket, historyVars>>

(* getsockname(), the check that the device has this address, close().     *)
GetSockname ==
  /\ stage = "getsockname"
  /\ \/ /\ MayWarn("device" \in flags, "icmp")
        /\ source' = Found /\ probe_fd' = FALSE /\ open' = open - 1
     \/ /\ Fail
        /\ source' \in {"any"} \cup (IF "device" \in flags THEN {Found} ELSE {})
        /\ UNCHANGED <<probe_fd, open>>
  /\ UNCHANGED <<settingVars, argc, whereto, resolved, routed, icmp_sock,
                 using_ping_socket, historyVars>>

-----------------------------------------------------------------------------
(* The ICMP socket and its options.                                        *)

(* No destination means oneself, if a source address is known.             *)
Destination ==
  IF whereto = "any" /\ source # "any" THEN "self" ELSE whereto

(* Mutant: that there is no socket is left to setsockopt() to find.      *)
CheckIcmpLater ==
  /\ stage = "icmp"
  /\ whereto' = Destination
  /\ Proceed("device")
  /\ UNCHANGED <<settingVars, argc, source, resolved, routed, socketVars,
                 historyVars>>

(* Mutant: the failure of socket() only goes to perror().                *)
CheckIcmpSilent ==
  /\ stage = "icmp"
  /\ whereto' = Destination
  /\ IF icmp_sock = "none" THEN Return(2) /\ UNCHANGED callbacks
                           ELSE Proceed("device")
  /\ UNCHANGED <<settingVars, argc, source, resolved, routed, socketVars,
                 historyVars>>

(* Now a failure of OpenIcmp counts.                                       *)
CheckIcmp ==
  /\ stage = "icmp"
  /\ whereto' = Destination
  /\ IF icmp_sock = "none" THEN Fail ELSE Proceed("device")
  /\ UNCHANGED <<settingVars, argc, source, resolved, routed, socketVars,
                 historyVars>>

BindDevice ==
  /\ stage = "device"
  /\ MayFail("device" \in flags, "group")
  /\ OnlyCall

Group == "broadcast" \in flags \/ whereto = "multicast"

(* Users may ping a group only slowly, and unfragmented.                   *)
CheckGroup ==
  /\ stage = "group"
  /\ IF Group /\ ~root /\ (interval # "normal" \/ pmtudisc = "other")
     THEN Fail /\ UNCHANGED pmtudisc
     ELSE /\ pmtudisc' = IF Group /\ pmtudisc = "unset" THEN "do" ELSE pmtudisc
          /\ Proceed("mtu")
  /\ UNCHANGED <<flags, interval, addressVars, socketVars, historyVars>>

SetMtu ==
  /\ stage = "mtu"
  /\ MayFail(pmtudisc # "unset", "bind")
  /\ OnlyCall

BindSource ==
  /\ stage = "bind"
  /\ MayFail("strict" \in flags, "filter")
  /\ OnlyCall

SetFilter ==
  /\ stage = "filter"
  /\ MayWarn(~using_ping_socket, "recverr")
  /\ OnlyCall

SetRecvErr ==
  /\ stage = "recverr"
  /\ MayWarn(TRUE, "ip options")
  /\ OnlyCall

SetIpOptions ==
  /\ stage = "ip options"
  /\ MayFail(flags \cap {"rroute", "timestamp", "hops"} # {}, "socket options")
  /\ OnlyCall

SetSocketOptions ==
  /\ stage = "socket options"
  /\ MayFail(flags \cap {"broadcast", "noloop", "ttl"} # {}, "datalen")
  /\ OnlyCall

CheckDatalen ==
  /\ stage = "datalen"
  /\ \/ "oversize" \notin flags /\ Proceed("malloc")
     \/ "oversize" \in flags /\ Fail
     \/ "oversize" \in flags /\ root /\ ProceedWarned("malloc")
  /\ OnlyCall

Malloc ==
  /\ stage = "malloc"
  /\ MayFail(TRUE, "start")
  /\ OnlyCall

PingStart ==
  /\ stage = "start"
  /\ Tell("start") /\ stage' = "setup" /\ UNCHANGED ret
  /\ OnlyCall

-----------------------------------------------------------------------------
(* setup(), main_loop(), the return.                                       *)

(* Mutant: flooding is looked at after the interval was checked.         *)
SetupFloodLate ==
  /\ stage = "setup"
  /\ interval' = IF "flood" \in flags /\ "interval" \notin flags
                 THEN "tiny" ELSE interval
  /\ \/ interval = "tiny" /\ ~root /\ Fail
     \/ interval = "tiny" /\ root /\ Proceed("setup mark")
     \/ interval # "tiny" /\ Proceed("setup mark")
  /\ UNCHANGED <<flags, pmtudisc, addressVars, socketVars, historyVars>>

(* -f without -i is an interval of 0.  An -i may also be too long for the  *)
(* preload.                                                                *)
Setup ==
  /\ stage = "setup"
  /\ interval' = IF "flood" \in flags /\ "interval" \notin flags
                 THEN "tiny" ELSE interval
  /\ \/ interval' = "tiny" /\ ~root /\ Fail
     \/ interval' = "tiny" /\ root /\ Proceed("setup mark")
     \/ interval' # "tiny" /\ MayFail("interval" \in flags, "setup mark")
  /\ UNCHANGED <<flags, pmtudisc, addressVars, socketVars, historyVars>>

SetupMark ==
  /\ stage = "setup mark"
  /\ MayWarn("mark" \in flags, "loop")
  /\ OnlyCall

(* With -A answers and a full device move the interval (update_interval()),*)
(* for this call and the later ones.                                       *)
Adapted ==
  IF "adaptive" \notin flags THEN {interval}
  ELSE {"short", "normal"} \cup (IF root THEN {"tiny"} ELSE {})

(* Answers, as long as main_loop() runs; it reports no errors.             *)
LoopReport ==
  /\ stage = "loop" /\ Len(callbacks) < MaxReports
  /\ Tell("result")
  /\ interval' \in Adapted
  /\ UNCHANGED <<stage, ret, flags, pmtudisc, addressVars, socketVars,
                 historyVars>>

(* The interval also moves when sending fails, or with -q.                 *)
LoopAdapt ==
  /\ stage = "loop"
  /\ interval' \in Adapted
  /\ UNCHANGED <<callVars, flags, pmtudisc, addressVars, socketVars,
                 historyVars>>

LoopFinish ==
  /\ stage = "loop"
  /\ Tell("statistics") /\ stage' = "end" /\ UNCHANGED ret
  /\ OnlyCall

PingEnd ==
  /\ stage = "end"
  /\ Tell("end") /\ Return(0)
  /\ OnlyCall

Next ==
  \/ NativeStartPing \/ LimitCapabilities \/ OpenIcmp
  \/ OptionsRead \/ OptionsRejected \/ CountArguments \/ Resolve
  \/ ProbeSkipped \/ ProbeRefused \/ ProbeOpened \/ ProbeDevice \/ ProbeTos
  \/ ProbeMark \/ Connect \/ GetSockname
  \/ CheckIcmp \/ BindDevice \/ CheckGroup \/ SetMtu \/ BindSource
  \/ SetFilter \/ SetRecvErr \/ SetIpOptions \/ SetSocketOptions
  \/ CheckDatalen \/ Malloc \/ PingStart
  \/ Setup \/ SetupMark \/ LoopReport \/ LoopAdapt \/ LoopFinish \/ PingEnd

Spec == Init /\ [][Next]_vars

-----------------------------------------------------------------------------
(* Properties.                                                             *)

(* Whatever fails, and whatever earlier calls left behind, the caller      *)
(* hears one call in the order PingCallbacks promises.                     *)
Heard == INSTANCE PingCallbacks WITH heard <- callbacks, over <- (stage = "idle")

ImplementsCallbacks == Heard!Spec

(* No call returns without a word, except that a failure to open the       *)
(* socket that finds the source address only goes to perror().             *)
ReturnHeard ==
  [][stage \notin {"idle", "probe"} /\ stage' = "idle"
       => callbacks' # callbacks]_vars

(* "ping_end will not be called when error happen" (ping_ops).             *)
EndMeansNoError == ~(Heard!Heard("end") /\ Heard!Heard("error"))

(* main_loop() starts with a socket although its failure is only looked at *)
(* ten stages later, with the probe socket closed, and with a destination  *)
(* unless no call of the process ever looked one up.                       *)
ReadyToPing ==
  stage = "loop" => /\ icmp_sock # "none" /\ ~probe_fd
                    /\ resolved => whereto # "any"

(* Whichever options, of this call or of an earlier one, set the interval, *)
(* although -f sets it after the group was checked, and whatever -A makes  *)
(* of it: a user pings no faster than MINUSERINTERVAL; a group no faster   *)
(* than once a second, but for -A, which is free to go below that.         *)
UserPaced ==
  stage = "loop" /\ ~root =>
    /\ interval # "tiny"
    /\ Group /\ "adaptive" \notin flags => interval = "normal"

(* A call leaks its ICMP socket, and, if it fails, possibly the other one; *)
(* never more.                                                             *)
LeakBounded ==
  stage = "idle" => open <= openBefore + (IF ret = 0 THEN 1 ELSE 2)

=============================================================================
