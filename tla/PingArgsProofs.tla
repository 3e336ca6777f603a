--------------------------- MODULE PingArgsProofs ---------------------------
(***************************************************************************)
(* Proofs about PingArgs, for every set of requests and every number of    *)
(* calls: what becomes of a request that shares getopt()'s optind with the *)
(* ones before it.                                                         *)
(***************************************************************************)
EXTENDS PingArgs, SequenceTheorems, TLAPS

Letters == {"c", "W", "t"}

Chosen == Letters \X Nat

(* The value a request gives to an option.                                 *)
Value(r, letter) == CASE letter = "c" -> r.times
                      [] letter = "W" -> r.timeoutMillis
                      [] letter = "t" -> r.timeToLive

-----------------------------------------------------------------------------
(* convertParam().                                                         *)

(* One option, or none.                                                    *)
LEMMA GivenShape ==
  ASSUME NEW letter \in Letters, NEW value \in Nat
  PROVE  /\ Given(letter, value) \in Seq(Chosen)
         /\ Len(Given(letter, value)) \in Nat /\ Len(Given(letter, value)) <= 1
         /\ value > 0 <=> Len(Given(letter, value)) = 1
         /\ value > 0 => Given(letter, value)[1] = <<letter, value>>
BY DEF Given, Chosen

(* Where the k-th element of three joined sequences of at most one lies.   *)
LEMMA Place ==
  ASSUME NEW k \in Nat, NEW l \in Nat, NEW m \in Nat, NEW n \in Nat,
         k >= 1, k <= l + m + n, l <= 1, m <= 1, n <= 1
  PROVE  /\ k <= l => k = 1 /\ l = 1
         /\ k > l /\ k <= l + m => k - l = 1 /\ m = 1
         /\ k > l + m => k - l - m = 1 /\ n = 1 /\ ~(k <= l)
OBVIOUS

(* The fields of a request are numbers.                                    *)
LEMMA RequestType ==
  ASSUME NEW r \in Requests
  PROVE  r.times \in Nat /\ r.timeoutMillis \in Nat /\ r.timeToLive \in Nat
BY PingArgsAssumption DEF Requests

(* The options are those the request asks for, each with its value.        *)
LEMMA OptionsShape ==
  ASSUME NEW r \in Requests
  PROVE  /\ Options(r) \in Seq(Chosen)
         /\ \A k \in 1 .. Len(Options(r)) :
              /\ Options(r)[k][1] \in Letters
              /\ Options(r)[k][2] = Value(r, Options(r)[k][1])
         /\ \A letter \in Letters :
              Value(r, letter) > 0 =>
                \E k \in 1 .. Len(Options(r)) : Options(r)[k][1] = letter
<1> DEFINE c == Given("c", r.times)
           w == Given("W", r.timeoutMillis)
           t == Given("t", r.timeToLive)
<1>1. /\ c \in Seq(Chosen)
      /\ Len(c) \in Nat /\ Len(c) <= 1
      /\ r.times > 0 <=> Len(c) = 1
      /\ r.times > 0 => c[1] = <<"c", r.times>>
  BY GivenShape, RequestType DEF Letters
<1>2. /\ w \in Seq(Chosen)
      /\ Len(w) \in Nat /\ Len(w) <= 1
      /\ r.timeoutMillis > 0 <=> Len(w) = 1
      /\ r.timeoutMillis > 0 => w[1] = <<"W", r.timeoutMillis>>
  BY GivenShape, RequestType DEF Letters
<1>3. /\ t \in Seq(Chosen)
      /\ Len(t) \in Nat /\ Len(t) <= 1
      /\ r.timeToLive > 0 <=> Len(t) = 1
      /\ r.timeToLive > 0 => t[1] = <<"t", r.timeToLive>>
  BY GivenShape, RequestType DEF Letters
<1>4. Options(r) = (c \o w) \o t
  BY DEF Options
<1> HIDE DEF c, w, t
<1>5. /\ Options(r) \in Seq(Chosen)
      /\ Len(Options(r)) = Len(c) + Len(w) + Len(t)
  BY <1>1, <1>2, <1>3, <1>4, ConcatProperties
<1>6. ASSUME NEW k \in 1 .. Len(Options(r))
      PROVE  Options(r)[k] = IF k <= Len(c) THEN c[k]
                             ELSE IF k <= Len(c) + Len(w) THEN w[k - Len(c)]
                             ELSE t[k - Len(c) - Len(w)]
  <2>1. Len(c) \in Nat /\ Len(w) \in Nat /\ Len(t) \in Nat
    BY <1>1, <1>2, <1>3
  <2>2. /\ c \o w \in Seq(Chosen)
        /\ Len(c \o w) = Len(c) + Len(w)
        /\ \A i \in 1 .. Len(c) + Len(w) :
             (c \o w)[i] = IF i <= Len(c) THEN c[i] ELSE w[i - Len(c)]
    BY <1>1, <1>2, ConcatProperties
  <2>3. \A i \in 1 .. Len(c \o w) + Len(t) :
          Options(r)[i] = IF i <= Len(c \o w) THEN (c \o w)[i]
                          ELSE t[i - Len(c \o w)]
    BY <1>3, <1>4, <2>2, ConcatProperties
  <2>4. k \in Nat /\ k >= 1 /\ k <= Len(c) + Len(w) + Len(t)
    BY <1>5, <2>1
  <2>5. Options(r)[k] = IF k <= Len(c) + Len(w) THEN (c \o w)[k]
                        ELSE t[k - (Len(c) + Len(w))]
    BY <2>1, <2>2, <2>3, <2>4
  <2>6. k - (Len(c) + Len(w)) = k - Len(c) - Len(w)
    BY <2>1, <2>4
  <2>7. QED
    BY <2>1, <2>2, <2>4, <2>5, <2>6
<1>7. ASSUME NEW k \in 1 .. Len(Options(r))
      PROVE  \/ Options(r)[k] = <<"c", r.times>>
             \/ Options(r)[k] = <<"W", r.timeoutMillis>>
             \/ Options(r)[k] = <<"t", r.timeToLive>>
  <2>1. /\ Len(c) \in Nat /\ Len(c) <= 1
        /\ Len(w) \in Nat /\ Len(w) <= 1
        /\ Len(t) \in Nat /\ Len(t) <= 1
    BY <1>1, <1>2, <1>3
  <2>2. k \in Nat /\ k >= 1 /\ k <= Len(c) + Len(w) + Len(t)
    BY <1>5, <2>1
  <2>3. /\ k <= Len(c) => k = 1 /\ Len(c) = 1
        /\ k > Len(c) /\ k <= Len(c) + Len(w) => k - Len(c) = 1 /\ Len(w) = 1
        /\ k > Len(c) + Len(w) =>
             k - Len(c) - Len(w) = 1 /\ Len(t) = 1 /\ ~(k <= Len(c))
    BY <2>1, <2>2, Place
  <2>4. CASE k <= Len(c)
    BY <1>1, <1>6, <2>3, <2>4
  <2>5. CASE k > Len(c) /\ k <= Len(c) + Len(w)
    <3>1. Options(r)[k] = w[k - Len(c)]
      BY <1>6, <2>1, <2>2, <2>5
    <3>2. QED
      BY <1>2, <2>3, <2>5, <3>1
  <2>6. CASE k > Len(c) + Len(w)
    <3>1. Options(r)[k] = t[k - Len(c) - Len(w)]
      BY <1>6, <2>1, <2>2, <2>3, <2>6
    <3>2. QED
      BY <1>3, <2>3, <2>6, <3>1
  <2>7. QED
    BY <2>1, <2>2, <2>4, <2>5, <2>6
<1>8. ASSUME NEW k \in 1 .. Len(Options(r))
      PROVE  /\ Options(r)[k][1] \in Letters
             /\ Options(r)[k][2] = Value(r, Options(r)[k][1])
  BY <1>7 DEF Letters, Value
<1>9. r.times > 0 => \E k \in 1 .. Len(Options(r)) : Options(r)[k][1] = "c"
  <2>1. SUFFICES ASSUME r.times > 0
                 PROVE  /\ 1 \in 1 .. Len(Options(r))
                        /\ Options(r)[1][1] = "c"
    OBVIOUS
  <2>2. 1 \in 1 .. Len(Options(r)) /\ Options(r)[1] = c[1]
    BY <1>1, <1>2, <1>3, <1>5, <1>6, <2>1
  <2>3. QED
    BY <1>1, <2>1, <2>2
<1>10. r.timeoutMillis > 0 =>
         \E k \in 1 .. Len(Options(r)) : Options(r)[k][1] = "W"
  <2>1. SUFFICES ASSUME r.timeoutMillis > 0
                 PROVE  /\ Len(c) + 1 \in 1 .. Len(Options(r))
                        /\ Options(r)[Len(c) + 1][1] = "W"
    OBVIOUS
  <2>2. /\ Len(c) + 1 \in 1 .. Len(Options(r))
        /\ Options(r)[Len(c) + 1] = w[1]
    BY <1>1, <1>2, <1>3, <1>5, <1>6, <2>1
  <2>3. QED
    BY <1>2, <2>1, <2>2
<1>11. r.timeToLive > 0 =>
         \E k \in 1 .. Len(Options(r)) : Options(r)[k][1] = "t"
  <2>1. SUFFICES ASSUME r.timeToLive > 0
                 PROVE  /\ Len(c) + Len(w) + 1 \in 1 .. Len(Options(r))
                        /\ Options(r)[Len(c) + Len(w) + 1][1] = "t"
    OBVIOUS
  <2>2. /\ Len(c) + Len(w) + 1 \in 1 .. Len(Options(r))
        /\ Options(r)[Len(c) + Len(w) + 1] = t[1]
    BY <1>1, <1>2, <1>3, <1>5, <1>6, <2>1
  <2>3. QED
    BY <1>3, <2>1, <2>2
<1>12. QED
  BY <1>5, <1>8, <1>9, <1>10, <1>11 DEF Letters, Value

-----------------------------------------------------------------------------
(* The invariant.                                                          *)

(* A later option of the request under way is the one named.               *)
Unread(letter) ==
  \E k \in 1 .. Len(Options(request)) :
    k >= next /\ Options(request)[k][1] = letter

(* The global that belongs to the option has the value asked for.          *)
Honoured(letter) ==
  CASE letter = "c" -> npackets = request.times
    [] letter = "W" -> lingertime = 1000 * request.timeoutMillis
    [] letter = "t" -> ttl = request.timeToLive

(* optind stays inside a vector it started in; argc is what it leaves.     *)
SlotsInv ==
  /\ stage \in {"options", "args"} /\ start < Slots(request)
       => optind < Slots(request)
  /\ stage = "args" => argc = Slots(request) - optind

(* What a fresh call was asked for is set or still to be read.             *)
FreshInv ==
  /\ stage \in {"options", "args", "run"} /\ start = 1
       => \A letter \in Letters :
            Value(request, letter) > 0 => Honoured(letter) \/ Unread(letter)
  /\ stage \in {"options", "args", "run"} /\ start = 1 => optind % 2 = 1
  /\ stage \in {"args", "run"} => ~MoreOptions

(* Only an address with a dash moves optind between a pair.                *)
DashInv ==
  /\ ~dashed => optind % 2 = 1
  /\ stage # "idle" /\ request.address \in Dashed => dashed

ArgsInv == TypeOK /\ SlotsInv /\ FreshInv /\ DashInv /\ AddressHonoured

(* An option that getopt() returns has the value of the request.           *)
LEMMA ReadShape ==
  ASSUME TypeOK, NEW letter \in Letters, Read(letter)
  PROVE  /\ next \in 1 .. Len(Options(request))
         /\ optarg = Value(request, letter)
         /\ optarg \in Nat
<1>1. request \in Requests /\ optind \in Nat /\ optind % 2 = 1
  BY DEF TypeOK, Read, MoreOptions
<1>2. Options(request) \in Seq(Chosen)
  BY <1>1, OptionsShape
<1>3. Len(Options(request)) \in Nat
  BY <1>2
<1>4. next \in 1 .. Len(Options(request))
  BY <1>1, <1>3 DEF next, Read, MoreOptions
<1>5. optarg = Value(request, letter)
  BY <1>1, <1>4, OptionsShape DEF optarg, Read
<1>6. Value(request, letter) \in Nat
  BY <1>1, RequestType DEF Value, Letters
<1>7. QED
  BY <1>4, <1>5, <1>6

(* Reading an option uses up its two slots, and nothing beyond.            *)
LEMMA OptionSlots ==
  ASSUME TypeOK, NEW letter \in Letters, Read(letter),
         optind' = optind + 2, request' = request
  PROVE  /\ optind' \in Nat /\ optind' % 2 = 1
         /\ next' = next + 1
         /\ optind' < Slots(request)'
<1>1. optind \in Nat /\ optind % 2 = 1 /\ request \in Requests
  BY DEF TypeOK, Read, MoreOptions
<1>2. next \in 1 .. Len(Options(request)) /\ Len(Options(request)) \in Nat
  BY <1>1, ReadShape, OptionsShape
<1>3. optind' \in Nat /\ optind' % 2 = 1
  BY <1>1
<1>4. next' = next + 1
  BY <1>1 DEF next
<1>5. optind + 1 = 2 * next
  BY <1>1 DEF next
<1>6. optind + 2 < 2 + 2 * Len(Options(request))
  BY <1>1, <1>2, <1>5
<1>7. QED
  BY <1>2, <1>3, <1>4, <1>6 DEF Slots

(* The other options stay unread.                                          *)
LEMMA OthersUnread ==
  ASSUME TypeOK, NEW letter \in Letters, NEW other \in Letters \ {letter},
         Read(letter), optind' = optind + 2, request' = request, Unread(other)
  PROVE  Unread(other)'
<1>1. PICK k \in 1 .. Len(Options(request)) :
        k >= next /\ Options(request)[k][1] = other
  BY DEF Unread
<1>2. Options(request)[next][1] = letter /\ next \in Nat
  BY ReadShape DEF Read
<1>3. k # next
  BY <1>1, <1>2
<1>4. k \in Nat
  BY <1>1
<1>5. k >= next + 1
  BY <1>1, <1>2, <1>3, <1>4
<1>6. next' = next + 1
  BY OptionSlots
<1>7. QED
  BY <1>1, <1>5, <1>6 DEF Unread

(* What the three option actions have in common.                           *)
LEMMA OptionStep ==
  ASSUME ArgsInv, NEW letter \in Letters, Read(letter), stage = "options",
         stage' \in {"options", "idle"},
         optind' = optind + 2, request' = request, start' = start,
         dashed' = dashed, stage' = "options" => Honoured(letter)',
         \A other \in Letters \ {letter} : Honoured(other) => Honoured(other)'
  PROVE  SlotsInv' /\ FreshInv' /\ DashInv' /\ AddressHonoured'
<1>1. TypeOK /\ FreshInv /\ DashInv
  BY DEF ArgsInv
<1>2. SlotsInv'
  BY <1>1, OptionSlots DEF SlotsInv
<1>3. AddressHonoured'
  BY DEF AddressHonoured
<1>4. ASSUME start' = 1, stage' = "options", NEW other \in Letters,
             Value(request, other)' > 0
      PROVE  Honoured(other)' \/ Unread(other)'
  <2>1. CASE other = letter
    BY <1>4, <2>1
  <2>2. CASE other # letter
    <3>1. Value(request, other) > 0
      BY <1>4 DEF Value
    <3>2. Honoured(other) \/ Unread(other)
      BY <1>1, <1>4, <3>1 DEF FreshInv
    <3>3. Unread(other) => Unread(other)'
      BY <1>1, <2>2, OthersUnread
    <3>4. QED
      BY <2>2, <3>2, <3>3
  <2>3. QED
    BY <2>1, <2>2
<1>5. FreshInv'
  BY <1>1, <1>4, OptionSlots DEF FreshInv
<1>6. DashInv'
  BY <1>1, OptionSlots DEF DashInv
<1>7. QED
  BY <1>2, <1>3, <1>5, <1>6

LEMMA ArgsInit ==
  ASSUME Init
  PROVE  ArgsInv
<1>1. dashed \in BOOLEAN
  BY DEF Init
<1>2. TypeOK
  BY <1>1 DEF Init, TypeOK, MAXWAIT
<1>3. optind % 2 = 1 /\ stage = "idle"
  BY DEF Init
<1>4. QED
  BY <1>2, <1>3 DEF ArgsInv, SlotsInv, FreshInv, DashInv, AddressHonoured

(* What an int holds is a number, and the one meant if it fits.            *)
LEMMA IntShape ==
  ASSUME NEW n \in Nat
  PROVE  AsInt(n) \in Int /\ (n < IntSize => AsInt(n) = n)
<1>1. IntSize \in Nat /\ (n + IntSize) % (2 * IntSize) \in Int
  <2>1. /\ IntSize \in Nat /\ IntSize > 0
        /\ 2 * IntSize \in Nat /\ 2 * IntSize > 0
    BY PingArgsAssumption
  <2>2. n + IntSize \in Nat
    BY <2>1
  <2>3. QED
    BY <2>1, <2>2
<1>2. QED
  BY <1>1 DEF AsInt

LEMMA ArgsStep ==
  ASSUME ArgsInv, [Next]_vars
  PROVE  ArgsInv'
<1>1. TypeOK /\ SlotsInv /\ FreshInv /\ DashInv /\ AddressHonoured
  BY DEF ArgsInv
<1>2. CASE StartPing
  <2>1. /\ stage' = "options" /\ request' \in Requests
        /\ start' = optind /\ optind' = optind /\ argc' = argc
        /\ npackets' = npackets /\ lingertime' = lingertime /\ ttl' = ttl
        /\ whereto' = whereto /\ calls' = calls + 1
        /\ dashed' = (dashed \/ request'.address \in Dashed)
    BY <1>2 DEF StartPing, globals
  <2>2. TypeOK' /\ DashInv'
    <3>1. dashed' \in BOOLEAN
      BY <1>1, <2>1, Zenon DEF TypeOK
    <3>2. TypeOK'
      BY <1>1, <2>1, <3>1 DEF TypeOK
    <3>3. (~dashed' => ~dashed) /\ (request'.address \in Dashed => dashed')
      BY <2>1, Zenon
    <3>4. QED
      BY <1>1, <2>1, <3>2, <3>3 DEF DashInv
  <2>3. SlotsInv' /\ AddressHonoured'
    BY <2>1 DEF SlotsInv, AddressHonoured
  <2>4. ASSUME start' = 1, NEW letter \in Letters, Value(request, letter)' > 0
        PROVE  Unread(letter)'
    <3>1. next' = 1
      BY <2>1, <2>4 DEF next
    <3>2. Value(request', letter) > 0
      BY <2>4 DEF Value
    <3>3. PICK k \in 1 .. Len(Options(request')) :
            Options(request')[k][1] = letter
      BY <2>1, <3>2, OptionsShape
    <3>4. k >= next'
      BY <3>1
    <3>5. QED
      BY <3>3, <3>4 DEF Unread
  <2>5. FreshInv'
    BY <2>1, <2>4 DEF FreshInv
  <2>6. QED
    BY <2>2, <2>3, <2>5 DEF ArgsInv
<1>3. CASE OptionC
  <2>1. /\ stage = "options" /\ Read("c") /\ stage' = stage
        /\ npackets' = optarg /\ optind' = optind + 2
        /\ request' = request /\ argc' = argc /\ lingertime' = lingertime
        /\ ttl' = ttl /\ whereto' = whereto /\ calls' = calls
        /\ start' = start /\ dashed' = dashed
    BY <1>3 DEF OptionC, history
  <2>2. optarg = request.times /\ optarg \in Nat
    BY <1>1, <2>1, ReadShape DEF Letters, Value
  <2>3. TypeOK'
    BY <1>1, <2>1, <2>2, OptionSlots DEF TypeOK, Letters
  <2>4. Honoured("c")' /\ (Honoured("W") => Honoured("W")')
          /\ (Honoured("t") => Honoured("t")')
    BY <2>1, <2>2 DEF Honoured
  <2>5. SlotsInv' /\ FreshInv' /\ DashInv' /\ AddressHonoured'
    BY <2>1, <2>4, OptionStep DEF Letters
  <2>6. QED
    BY <2>3, <2>5 DEF ArgsInv
<1>4. CASE OptionW
  <2>1. /\ stage = "options" /\ Read("W") /\ stage' \in {"options", "idle"}
        /\ lingertime' = AsInt(optarg * 1000) /\ optind' = optind + 2
        /\ stage' = "options" => ~(optarg > MaxLinger)
        /\ request' = request /\ argc' = argc /\ npackets' = npackets
        /\ ttl' = ttl /\ whereto' = whereto /\ calls' = calls
        /\ start' = start /\ dashed' = dashed
    BY <1>4 DEF OptionW, Return, history
  <2>2. optarg = request.timeoutMillis /\ optarg \in Nat
    BY <1>1, <2>1, ReadShape DEF Letters, Value
  <2>3. TypeOK'
    <3>1. optarg * 1000 \in Nat
      BY <2>2
    <3>2. lingertime' \in Int
      BY <2>1, <3>1, IntShape
    <3>3. QED
      BY <1>1, <2>1, <3>2, OptionSlots DEF TypeOK, Letters
  <2>4. /\ stage' = "options" => Honoured("W")'
        /\ Honoured("c") => Honoured("c")'
        /\ Honoured("t") => Honoured("t")'
    <3>1. ASSUME stage' = "options"
          PROVE  lingertime' = 1000 * request'.timeoutMillis
      <4>1. MaxLinger \in Nat /\ MaxLinger * 1000 < IntSize /\ IntSize \in Nat
        BY PingArgsAssumption
      <4>2. optarg * 1000 \in Nat /\ optarg * 1000 < IntSize
              /\ optarg * 1000 = 1000 * optarg
        BY <2>1, <2>2, <3>1, <4>1
      <4>3. lingertime' = optarg * 1000
        BY <2>1, <4>2, IntShape
      <4>4. QED
        BY <2>1, <2>2, <4>2, <4>3
    <3>2. stage' = "options" => Honoured("W")'
      BY <3>1 DEF Honoured
    <3>3. QED
      BY <2>1, <3>2 DEF Honoured
  <2>5. SlotsInv' /\ FreshInv' /\ DashInv' /\ AddressHonoured'
    BY <2>1, <2>4, OptionStep DEF Letters
  <2>6. QED
    BY <2>3, <2>5 DEF ArgsInv
<1>5. CASE OptionT
  <2>1. /\ stage = "options" /\ Read("t") /\ stage' \in {"options", "idle"}
        /\ ttl' = optarg /\ optind' = optind + 2
        /\ request' = request /\ argc' = argc /\ npackets' = npackets
        /\ lingertime' = lingertime /\ whereto' = whereto /\ calls' = calls
        /\ start' = start /\ dashed' = dashed
    BY <1>5 DEF OptionT, Return, history
  <2>2. optarg = request.timeToLive /\ optarg \in Nat
    BY <1>1, <2>1, ReadShape DEF Letters, Value
  <2>3. TypeOK'
    BY <1>1, <2>1, <2>2, OptionSlots DEF TypeOK, Letters
  <2>4. Honoured("t")' /\ (Honoured("c") => Honoured("c")')
          /\ (Honoured("W") => Honoured("W")')
    BY <2>1, <2>2 DEF Honoured
  <2>5. SlotsInv' /\ FreshInv' /\ DashInv' /\ AddressHonoured'
    BY <2>1, <2>4, OptionStep DEF Letters
  <2>6. QED
    BY <2>3, <2>5 DEF ArgsInv
<1>6. CASE OptionAddress
  <2>1. /\ stage = "options" /\ request.address \in Dashed /\ stage' = "idle"
        /\ optind' = optind + 1
        /\ UNCHANGED <<request, argc, npackets, lingertime, ttl, whereto,
                       calls, start, dashed>>
    BY <1>6 DEF OptionAddress, DashAhead, Return, history
  <2>2. dashed
    BY <1>1, <2>1 DEF DashInv
  <2>3. TypeOK'
    BY <1>1, <2>1 DEF TypeOK
  <2>4. QED
    BY <2>1, <2>2, <2>3
    DEF ArgsInv, SlotsInv, FreshInv, DashInv, AddressHonoured
<1>7. CASE OptionsDone
  <2>1. /\ stage = "options" /\ ~MoreOptions /\ stage' = "args"
        /\ argc' = Slots(request) - optind
        /\ UNCHANGED <<request, optind, npackets, lingertime, ttl, whereto,
                       calls, start, dashed>>
    BY <1>7 DEF OptionsDone, globals, history
  <2>2. Slots(request) \in Int
    BY <1>1, OptionsShape DEF Slots, TypeOK
  <2>3. TypeOK'
    BY <1>1, <2>1, <2>2 DEF TypeOK
  <2>4. SlotsInv' /\ AddressHonoured'
    BY <1>1, <2>1 DEF SlotsInv, AddressHonoured
  <2>5. ~MoreOptions'
    BY <2>1 DEF MoreOptions, next
  <2>6. ASSUME start' = 1, NEW letter \in Letters, Value(request, letter)' > 0
        PROVE  Honoured(letter)' \/ Unread(letter)'
    <3>1. Value(request, letter) > 0
      BY <2>1, <2>6 DEF Value
    <3>2. Honoured(letter) \/ Unread(letter)
      BY <1>1, <2>1, <2>6, <3>1 DEF FreshInv
    <3>3. QED
      BY <2>1, <3>2 DEF Honoured, Unread, next
  <2>7. FreshInv' /\ DashInv'
    BY <1>1, <2>1, <2>5, <2>6 DEF FreshInv, DashInv
  <2>8. QED
    BY <2>3, <2>4, <2>7 DEF ArgsInv
<1>8. CASE Arguments
  <2>1. /\ stage = "args"
        /\ UNCHANGED <<request, argc, optind, npackets, lingertime, ttl, calls,
                       start, dashed>>
        /\ \/ stage' = "idle" /\ whereto' \in {whereto, ThisHost}
           \/ /\ stage' = "run" /\ argc > 0
              /\ request.address \in Addresses /\ whereto' = request.address
           \/ stage' = "run" /\ argc < 0 /\ whereto' = whereto
    BY <1>8 DEF Arguments, Found, Return, history
  <2>2. TypeOK'
    BY <1>1, <2>1 DEF TypeOK
  <2>3. SlotsInv'
    BY <2>1 DEF SlotsInv
  <2>4. AddressHonoured'
    <3>1. SUFFICES ASSUME stage' = "run", start < Slots(request)
                   PROVE  whereto' = request.address
      BY <2>1 DEF AddressHonoured
    <3>2. optind < Slots(request) /\ argc = Slots(request) - optind
      BY <1>1, <2>1, <3>1 DEF SlotsInv
    <3>3. Slots(request) \in Int /\ optind \in Int
      BY <1>1, OptionsShape DEF Slots, TypeOK
    <3>4. ~(argc < 0)
      BY <3>2, <3>3
    <3>5. QED
      BY <2>1, <3>1, <3>4
  <2>5. FreshInv' /\ DashInv'
    BY <1>1, <2>1
    DEF FreshInv, DashInv, Honoured, Unread, MoreOptions, next, Value
  <2>6. QED
    BY <2>2, <2>3, <2>4, <2>5 DEF ArgsInv
<1>9. CASE Run
  <2>1. /\ stage' = "idle"
        /\ UNCHANGED <<request, argc, optind, npackets, lingertime, ttl,
                       whereto, calls, start, dashed>>
    BY <1>9 DEF Run, Return, globals, history
  <2>2. TypeOK'
    BY <1>1, <2>1 DEF TypeOK
  <2>3. QED
    BY <1>1, <2>1, <2>2
    DEF ArgsInv, SlotsInv, FreshInv, DashInv, AddressHonoured
<1>10. CASE UNCHANGED vars
  <2>1. UNCHANGED <<stage, request, argc, optind, npackets, lingertime, ttl,
                    whereto, calls, start, dashed>>
    BY <1>10 DEF vars, globals, history
  <2>2. TypeOK'
    BY <1>1, <2>1 DEF TypeOK
  <2>3. SlotsInv' /\ AddressHonoured'
    BY <1>1, <2>1 DEF SlotsInv, AddressHonoured
  <2>4. FreshInv' /\ DashInv'
    BY <1>1, <2>1
    DEF FreshInv, DashInv, Honoured, Unread, MoreOptions, next, Value
  <2>5. QED
    BY <2>2, <2>3, <2>4 DEF ArgsInv
<1>11. QED
  BY <1>2, <1>3, <1>4, <1>5, <1>6, <1>7, <1>8, <1>9, <1>10 DEF Next

LEMMA ArgsInvariant == Spec => []ArgsInv
<1>1. Init => ArgsInv
  BY ArgsInit
<1>2. ArgsInv /\ [Next]_vars => ArgsInv'
  BY ArgsStep
<1>3. QED
  BY <1>1, <1>2, PTL DEF Spec

-----------------------------------------------------------------------------
(* What a caller can rely on.                                              *)

(* Until an address begins with a dash, getopt() stays between the pairs   *)
(* of option and value, and no request is left without arguments: the      *)
(* slots left are odd, whatever optind the calls before left behind.       *)
THEOREM DashlessNeverUsage == Spec => []UsageNeedsDash
<1>1. ASSUME ArgsInv, stage = "args", ~dashed
      PROVE  argc # 0
  <2>1. optind \in Nat /\ optind % 2 = 1 /\ argc = Slots(request) - optind
    BY <1>1 DEF ArgsInv, TypeOK, SlotsInv, DashInv
  <2>2. Len(Options(request)) \in Nat
    BY <1>1, OptionsShape DEF ArgsInv, TypeOK
  <2>3. Slots(request) \in Nat /\ Slots(request) % 2 = 0
    BY <2>2 DEF Slots
  <2>4. QED
    BY <2>1, <2>3
<1>2. ArgsInv => UsageNeedsDash
  BY <1>1 DEF UsageNeedsDash
<1>3. QED
  BY <1>2, ArgsInvariant, PTL

(* A call that finds optind where getopt() starts pings as often, waits as *)
(* long (in seconds) and goes as far as it was asked to.                   *)
THEOREM FreshCallHonoured == Spec => []FreshHonoured
<1>1. ASSUME ArgsInv, stage = "run", start = 1, NEW letter \in Letters,
             Value(request, letter) > 0
      PROVE  Honoured(letter)
  <2>1. Honoured(letter) \/ Unread(letter)
    BY <1>1 DEF ArgsInv, FreshInv
  <2>2. ~MoreOptions
    BY <1>1 DEF ArgsInv, FreshInv
  <2>3. request \in Requests /\ optind \in Nat /\ optind % 2 = 1
    BY <1>1 DEF ArgsInv, TypeOK, FreshInv
  <2>4. Len(Options(request)) \in Nat /\ next \in Nat
    BY <2>3, OptionsShape DEF next
  <2>5. ~Unread(letter)
    BY <2>2, <2>3, <2>4 DEF Unread, MoreOptions
  <2>6. QED
    BY <2>1, <2>5
<1>2. ArgsInv => FreshHonoured
  BY <1>1 DEF FreshHonoured, Letters, Value, Honoured
<1>3. QED
  BY <1>2, ArgsInvariant, PTL

(* A call whose vector reaches beyond the optind it finds pings the        *)
(* address it names.                                                       *)
THEOREM AddressRead == Spec => []AddressHonoured
<1>1. ArgsInv => AddressHonoured
  BY DEF ArgsInv
<1>2. QED
  BY <1>1, ArgsInvariant, PTL

(* Every variable keeps its type.                                          *)
THEOREM ArgsTypeCorrect == Spec => []TypeOK
<1>1. ArgsInv => TypeOK
  BY DEF ArgsInv
<1>2. QED
  BY <1>1, ArgsInvariant, PTL

=============================================================================
