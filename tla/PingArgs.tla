------------------------------ MODULE PingArgs ------------------------------
(***************************************************************************)
(* How a request made with Ping.onAddress(), setTimes(), setTimeOutMillis()*)
(* and setTimeToLive() reaches the globals of the engine:                  *)
(* PingOptions.convertParam() makes it an argument vector, and ping()      *)
(* takes that apart with getopt().  getopt() goes on where optind stands,  *)
(* and nobody sets it back between the calls of a process.                 *)
(*                                                                         *)
(* Every option convertParam() writes takes a value, so that an option is  *)
(* two slots of the vector and its k-th one begins at slot 2k - 1; slot 0  *)
(* is "ping" and the last one, an odd one, the address.  There is no "--"  *)
(* before the address: getopt(), which stops at the first word without a   *)
(* dash, reads one with a dash as an option.                               *)
(***************************************************************************)
EXTENDS Integers, Sequences

CONSTANTS
  Addresses,    \* that gethostbyname() knows
  Unknown,      \* one that it does not
  Dashed,       \* that getopt() takes for an option of ping()'s usage: "-h"
  TimesAsked, TimeoutsAsked, TtlsAsked,    \* 0: not asked for
  MaxLinger,    \* INT_MAX / 1000000, the longest -W in seconds
  IntSize,      \* 2^31, where an int ends
  MaxTtl,       \* 255
  MaxCalls      \* bound on calls

ASSUME PingArgsAssumption ==
  /\ Dashed \cap (Addresses \cup {Unknown}) = {} /\ Unknown \notin Addresses
  /\ TimesAsked \cup TimeoutsAsked \cup TtlsAsked \subseteq Nat
  /\ {MaxLinger, MaxTtl, MaxCalls} \subseteq Nat
  /\ IntSize \in Nat /\ MaxLinger * 1000 < IntSize

Requests == [address : Addresses \cup {Unknown} \cup Dashed,
             times : TimesAsked, timeoutMillis : TimeoutsAsked,
             timeToLive : TtlsAsked]

(* No address.  ping() makes it the source address, which it knows once    *)
(* some call has looked a host up (see PingSetup).                         *)
ThisHost == "0.0.0.0"

MAXWAIT == 10

VARIABLES
  stage, request, optind, argc,
  npackets, lingertime, ttl,     \* ttl is 0 while F_TTL is not set
  whereto,
  calls, start,                  \* calls made; optind when this one began
  dashed                         \* some address of the process had a dash

globals == <<optind, npackets, lingertime, ttl, whereto>>
history == <<calls, start, dashed>>
vars == <<stage, request, argc, globals, history>>

TypeOK ==
  /\ stage \in {"idle", "options", "args", "run"}
  /\ request \in Requests
  /\ optind \in Nat /\ start \in Nat
  /\ argc \in Int /\ npackets \in Nat /\ lingertime \in Int /\ ttl \in Nat
  /\ whereto \in Addresses \cup {ThisHost}
  /\ calls \in Nat /\ dashed \in BOOLEAN

Init ==
  /\ stage = "idle" /\ request \in Requests
  /\ optind = 1 /\ start = 1 /\ argc = 0
  /\ npackets = 0 /\ lingertime = MAXWAIT * 1000 /\ ttl = 0
  /\ whereto = ThisHost /\ calls = 0 /\ dashed = FALSE

-----------------------------------------------------------------------------
(* convertParam(): the options with their values, and the slots in all.    *)

Given(letter, value) ==
  IF value > 0 THEN << <<letter, value>> >> ELSE << >>

Options(r) ==
  Given("c", r.times) \o Given("W", r.timeoutMillis) \o Given("t", r.timeToLive)

(* Mutant: the vector starts with the first option.                        *)
SlotsUnnamed(r) == 2 * Len(Options(r)) + 1

Slots(r) == 1 + 2 * Len(Options(r)) + 1

(* startPing() -> nativeStartPing() -> ping() *)
StartPing ==
  /\ stage = "idle" /\ calls < MaxCalls
  /\ stage' = "options"
  /\ request' \in Requests
  /\ calls' = calls + 1 /\ start' = optind
  /\ dashed' = (dashed \/ request'.address \in Dashed)
  /\ UNCHANGED <<argc, globals>>

-----------------------------------------------------------------------------
(* One turn of the getopt() loop.                                          *)

next == (optind + 1) \div 2

MoreOptions == optind % 2 = 1 /\ next <= Len(Options(request))

(* The address, if it looks like one.                                      *)
DashAhead == optind = Slots(request) - 1 /\ request.address \in Dashed

Read(letter) == MoreOptions /\ Options(request)[next][1] = letter

optarg == Options(request)[next][2]

Return == stage' = "idle"

(* Mutant: only the letter is stepped over.                                *)
OptionCLetter ==
  /\ stage = "options" /\ Read("c")
  /\ npackets' = optarg /\ optind' = optind + 1
  /\ UNCHANGED <<stage, request, argc, lingertime, ttl, whereto, history>>

OptionC ==
  /\ stage = "options" /\ Read("c")
  /\ npackets' = optarg /\ optind' = optind + 2
  /\ UNCHANGED <<stage, request, argc, lingertime, ttl, whereto, history>>

(* What an int makes of a product.                                         *)
AsInt(n) ==
  IF n < IntSize THEN n ELSE ((n + IntSize) % (2 * IntSize)) - IntSize

(* Mutant: the value is compared in milliseconds.                          *)
OptionWMillis ==
  /\ stage = "options" /\ Read("W")
  /\ lingertime' = optarg /\ optind' = optind + 2
  /\ IF optarg > MaxLinger * 1000 THEN Return ELSE UNCHANGED stage
  /\ UNCHANGED <<request, argc, npackets, ttl, whereto, history>>

(* A bad value is stored, and multiplied, before it is refused.            *)
OptionW ==
  /\ stage = "options" /\ Read("W")
  /\ lingertime' = AsInt(optarg * 1000) /\ optind' = optind + 2
  /\ IF optarg > MaxLinger THEN Return ELSE UNCHANGED stage
  /\ UNCHANGED <<request, argc, npackets, ttl, whereto, history>>

OptionT ==
  /\ stage = "options" /\ Read("t")
  /\ ttl' = optarg /\ optind' = optind + 2
  /\ IF optarg > MaxTtl THEN Return ELSE UNCHANGED stage
  /\ UNCHANGED <<request, argc, npackets, lingertime, whereto, history>>

(* usage(), from within the loop.                                          *)
OptionAddress ==
  /\ stage = "options" /\ DashAhead
  /\ optind' = optind + 1 /\ Return
  /\ UNCHANGED <<request, argc, npackets, lingertime, ttl, whereto, history>>

(* The end of the vector, or a word without a dash: the address, or a      *)
(* value if optind was left between two pairs.                             *)
OptionsDone ==
  /\ stage = "options" /\ ~MoreOptions /\ ~DashAhead
  /\ argc' = Slots(request) - optind
  /\ stage' = "args"
  /\ UNCHANGED <<request, globals, history>>

-----------------------------------------------------------------------------
(* What is left of the arguments.                                          *)

(* Mutant: an unknown host is reported but not given up.                   *)
ArgumentsAnyway ==
  /\ stage = "args"
  /\ IF argc > 0 /\ request.address \in Addresses
     THEN whereto' = request.address
     ELSE UNCHANGED whereto
  /\ stage' = "run"
  /\ UNCHANGED <<request, argc, optind, npackets, lingertime, ttl, history>>

(* The words left are looked up in turn; the last one is the destination,  *)
(* those before it a route.  A value will do as an address; an option does *)
(* not, so that two words can be looked up and no more.                    *)
Found == argc \in {1, 2} /\ request.address \in Addresses

(* Mutant: what the lookup returns is not tested.                          *)
ArgumentsUntested ==
  /\ stage = "args"
  /\ whereto' = IF argc > 0 THEN request.address ELSE whereto
  /\ IF argc = 0 THEN Return ELSE stage' = "run"
  /\ UNCHANGED <<request, argc, optind, npackets, lingertime, ttl, history>>

(* Nothing left: usage().  A word left: whereto is cleared for each and    *)
(* filled in if the lookup succeeds.  With optind beyond the vector the    *)
(* loop over the hosts does nothing, and whereto is what it was.           *)
Arguments ==
  /\ stage = "args"
  /\ \/ argc = 0 /\ Return /\ UNCHANGED whereto
     \/ argc > 0 /\ Found /\ whereto' = request.address /\ stage' = "run"
     \/ argc > 0 /\ ~Found /\ whereto' = ThisHost /\ Return
     \/ argc < 0 /\ stage' = "run" /\ UNCHANGED whereto
  /\ UNCHANGED <<request, argc, optind, npackets, lingertime, ttl, history>>

(* Sockets, setup() and main_loop(): see PingSetup and PingLoop.           *)
Run ==
  /\ stage = "run"
  /\ Return
  /\ UNCHANGED <<request, argc, globals, history>>

Next ==
  \/ StartPing \/ OptionC \/ OptionW \/ OptionT \/ OptionAddress
  \/ OptionsDone \/ Arguments \/ Run

Spec == Init /\ [][Next]_vars

-----------------------------------------------------------------------------
(* As long as no address began with a dash, no request ends in usage() for *)
(* want of arguments, however far earlier calls moved optind: slots come   *)
(* in pairs.  After one such address, any later request may.               *)
UsageNeedsDash == stage = "args" /\ argc = 0 => dashed

(* A call that finds optind where getopt() starts carries out all of its   *)
(* request; the timeout is in seconds.                                     *)
FreshHonoured ==
  stage = "run" /\ start = 1 =>
    /\ request.times > 0 => npackets = request.times
    /\ request.timeoutMillis > 0 => lingertime = 1000 * request.timeoutMillis
    /\ request.timeToLive > 0 => ttl = request.timeToLive

(* A call whose vector reaches beyond optind pings the address it names,   *)
(* or nothing, even where getopt() stops at a value.                       *)
AddressHonoured ==
  stage = "run" /\ start < Slots(request) => whereto = request.address

(* "Set the address to ping" (Ping.onAddress()).                           *)
PingsItsAddress == stage = "run" => whereto = request.address

=============================================================================
