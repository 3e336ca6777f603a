# A TLA+ model of the AndroidAPMTools ping library

The repository holds an Android library (`src/ping`) that runs the `ping` of
iputils inside an application's process, and a demo application (`src/app`).
This directory models the library's native engine and the way its Java API
reaches it, model-checks the models with TLC, and proves the most important
properties of the engine for every value of the constants with TLAPS.

Contents: [the system](#the-system) · [modules](#modules-and-code) ·
[runs](#runs) · [bounds](#bounds) · [fairness](#fairness) ·
[disagreements found](#disagreements-found) · [proofs](#proofs) ·
[not modelled](#what-is-not-modelled) · [plan](#plan)

## The system

| Component | Where | State it keeps | Operations | What makes it correct |
|---|---|---|---|---|
| Run engine | `ping_common.c` `main_loop`, `pinger`, `schedule_exit`, `gather_statistics`, `finish`; `ping_run.c` `send_probe`, `receive_error_msg`, `parse_reply` | counters, `exiting`, `acked`, `rcvd_tbl`, `oom_count`, `confirm_flag`, `waittime`, the interval timer, the socket's error queue | one round: exit test, perhaps a probe, perhaps a wait, everything there is to receive | never more probes than asked for; each probe counts once; every sleep after the last probe has an end; a stopped run stops; the report fits what happened |
| Sequence window | `ping_common.h` `acknowledge`, `advance_ntransmitted`, `in_flight` | `acked` (16 bits) against a `long` counter | as named | `in_flight()` is exact while a recent probe was acknowledged, across the wrap |
| Process lifetime | all of the above | every global and function-level static, which no call resets; `optind` | `startPing()` after `startPing()`, `stopPing()` | the second call does what the first did |
| Call set-up | `ping.cpp` `nativeStartPing`, `ping_run.c` `ping` | options, addresses, descriptors, `using_ping_socket` | about thirty system calls, each of which may fail | callbacks in order, no silent failure, nothing used that was not opened, privileged rates refused |
| Requests | `Ping.java`, `PingOptions.java`, the `getopt()` loop | `npackets`, `lingertime`, `ttl`, `whereto` | `onAddress`, `setTimes`, `setTimeOutMillis`, `setTimeToLive`, `startPing` | the engine does what was asked for |
| Pacing | `pinger`, `update_interval` | `cur_time`, `tokens`, `interval` | take a token, wait, refund, adapt | no more than `preload` probes ahead of one per interval; the wait it names is enough, and no longer than needed |
| Round-trip figures | `gather_statistics`, `finish`, `llsqrt` | `tmin`, `tmax`, `tsum`, `tsum2`, `rtt` | time an answer, add a sample, report | a time is that of the answer; min <= avg <= max, mdev a root of the variance |
| Checksum | `in_cksum`, `send_probe` | - | compute, patch | the sum of a packet with its checksum is 0 |
| Name lookup | `pr_addr`, `sigexit` | `in_pr_addr`, a `jmp_buf` | look up, `longjmp` out of it | the alarm ends every lookup, and no answer is lost or counted twice by it |
| JNI bridge | `ping.cpp` | one global `callback2Java`, one `ops` | forward each callback | the right object, on the right thread |
| Observer list (demo) | `SysNetController.java` | a list of callbacks | add, remove, notify | no change while notifying |

`Ping.startPing()` calls `PingOptions.convertParam()` and, on the same thread,
`nativeStartPing()`, which calls `ping()`: it parses the options, resolves the
host, finds a source address, sets the sockets up and enters `main_loop()`.
From there the engine calls back through `ops` into Java: `onEnter`, `onStart`,
`onResult`, `onError`, `onStatistics`, `onEnd`. Two things reach a run from
outside: `stop_ping()`, on another thread, and SIGALRM; both only set
`exiting`. Through the Java API a run has preload 1, an interval of a second,
no deadline, a datagram ICMP socket and an ordinary user; the engine has more
options than that and the model keeps them as constants.

What is hard here: a flag set by another thread between any two steps;
answers and ICMP errors lost, duplicated, reordered and late; an error queue
whose head is not the cause of the failure that made somebody look; 16-bit
numbers against a `long` counter; a timer armed once by whichever call comes
first; failures of `sendmsg()` that are retried, waited out, counted or blamed on
a flag; and a program written to run once per process that is called again and
again in the same one. `PROJECT.json` lists each place under "hazards".

## Modules and code

    SeqWindow       arithmetic of sequence numbers       (constant module)
      AckWindow     acked over a run without end
      PingLoop      one run of the engine      --implements-->  EchoRun
        PingProcess runs one after another in one process
      Pacing        pinger()'s bucket on a clock that may be set
    PingSetup       calls of ping() around the run --implements--> PingCallbacks
    Checksum        in_cksum() and the patched checksum   (constant module)
    Figures         sums, extremes, llsqrt()
    NameLookup      pr_addr() and the alarm
      Replies       Checksum + Figures + NameLookup: one answer from probe to report
    PingArgs        from a Java request to the engine's globals

    SeqWindowProofs                 lemmas on 16-bit numbers, used by the next four
      AckWindowProofs, PacingProofs, PingLoopProofs -> PingProcessProofs
    RepliesProofs, PingSetupProofs, PingArgsProofs

**SeqWindow.** `U16` and `S16` are the casts `(__u16)` and `(__s16)`; where C
promotes to `int` and does not cast back, as in
`(__u16)ntransmitted - acked > 0x7FFF`, the model does not reduce either.
`SeqMod` stands for 2^16.

**PingLoop.** The program counter names the place in `main_loop()`: `top` (exit
conditions), `check` (in `pinger()` before the bucket), `send` (at the label
`resend`), `poll`, `recv` (the `recvmsg()` loop), `done`. Each action is one
branch with everything it calls: `SendOk` is a successful `send_probe()`, the
reset of `oom_count`, `advance_ntransmitted()`, the return to `main_loop()`,
`schedule_exit()` and the choice of the next wait. Names are the code's.
Three abstractions:

- *Time.* A wait has one of the four lengths that `main_loop()` tells apart
  (`again`, `tiny`, `short`, `full`); the token bucket lets a probe out or not by
  choice. The length decides whether the thread calls `pinger()` again, spins,
  polls or blocks in `recvmsg()`. A wait stretched by `schedule_exit()` is `full`
  when it is at least the interval by its definition, and may be either when
  it is the linger time.
- *The kernel.* `errq` is the socket's error queue in order. As long as it holds
  an entry that came from the network the socket has a pending error, which
  `sendmsg()` and `recvmsg()` return before anything else; a locally generated
  entry only sits in the queue. Entries are `icmp` (one of our probes was
  refused), `local` (EMSGSIZE), `notice` (a redirect or source quench for one
  of our probes, which is no error), `foreign` (an error of somebody else's
  probe) and `bare` (a message without an IP_RECVERR part, which counts).
  For the raw socket an ICMP error is also a packet (`rawq`), whose entry in
  the queue follows later or never (`half`).
- *The network.* `wire` is the set of probes whose answer may still come. An
  answer is delivered in any order, is duplicated by staying on the wire, and is
  lost by never being taken.

**EchoRun** is what a user is promised: probes 1, 2, 3, ... up to the number
asked for, each answered at most once and after it was sent, one result at the
end. `PingLoop` implements it under `limit <- npackets` (0 with `-w`, which does
not stop at `-c` probes), `sent <- ntransmitted`, `answered <- rcvd` and the first two figures of
the report.

**PingProcess** starts the engine again on the state the run before left:
counters, `exiting`, `waittime`, a timer still running, the `-c` in force. Only
the socket is new; a raw one still gets the answers the run before is due, since its
`ident` is the pid.

**PingSetup** is one action per stage of `ping()`, with the stage reached, the
settings that later stages look at, the addresses, the sockets and the
callbacks. Any system call may fail. A stage ends by going on, by going on with
a warning, by failing with `on_error` and 2, or in one of the other ways the
code has: `usage()`, `ping_end` for an unknown host, or `perror()` alone.
`main_loop()` makes callbacks (`LoopReport`, `LoopFinish`) and, under `-A`, moves the
global interval (`LoopAdapt`). `resolved` says whether `whereto` ever got an address family:
without one, which takes an `optind` beyond the first vectors of a process, `connect()` finds no
source address, and the loop starts with the destination 0.0.0.0.

**PingCallbacks** is the order of callbacks a caller can rely on. It allows `onEnd` after an
error, which the header does not (see [disagreements](#disagreements-found)).

**Pacing** is `pinger()` with its arithmetic: `Elapsed` is the difference of two
readings of a clock of seconds and microseconds, part by part, truncated towards
zero as C does; `TakeFirst`, `FloodWait`, `NoTokens` and `TakeTokens` are the ways through
the test "packets < rate*time + preload", and `Sent`, `SocketFull`, `ShortSend`,
`ErrorArrived`, `NoBuffers` and `HardError` what the send makes of the tokens. `now`
is a time nobody can set and `offset` what the clock shows more, so that the
properties can speak of real time. `due` is when the wait that `pinger()` asked
for is over, and `peak` the longest interval so far: a bucket filled at a long interval
may be spent at ever shorter ones, so it is the preload at `peak` that bounds what is
saved up. The model lets no probe out while a whole half window is unanswered: the next one would
invalidate `acked` and leave `in_flight()` to the counters, and the one after it find it at 0
(`ack_overflow`). An answer, or an error, may set the interval in adaptive mode to any of
`Estimates`, which stand for `rtt/8 + rtt_addend`. A second run of a process
starts with the `cur_time` and `tokens` of the first, which is this bucket after a pause.

**Checksum**, **Figures** and **NameLookup** hold a part each: `InCksum` and
`ProbeChecksum` work on the sum of the words of a packet; `AddSample`, `Count`,
`DivideSums` and `Newton` are actions on the sums and counters, one Newton step a
step; `Enter`, `Decide`, `Resolved` and `Leave` are the places of the thread in
`pr_addr()`, and `SigExit` moves it from any of them to where `setjmp()` returns a second
time. **Replies** puts them together around one answer: `SendProbe` stamps and
sums the packet, `Arrive` gives it the kernel's time, `RecvReply` takes it out of
the socket and enters the lookup that the call of `gather_statistics()` evaluates
first, `Gather` is `gather_statistics()`, and `Finish`, `Improve` and `Report` are
`finish()`. The signal may come between any two of them, and the clock be set. In
the figures `Base` stands for 10, in the checksum `Word` for 2^16. Which probes are
sent when, and which errors count, is `PingLoop`'s; here an error is a refusal that
is counted before its lookup.

**PingArgs** follows an argument vector through `getopt()`: two slots for each
option, `optind` carried over from call to call. There is no `--` before the address, so
that `getopt()` takes one that begins with a dash (`Dashed`) for an option: `usage()`, and an
`optind` between two pairs, from which a later call reads its words as addresses (`Found`).

## Runs

Passing runs:

| Run | Instance | Shows |
|---|---|---|
| `loop` | ping socket, preload 2, `-c` 0 or 3, every send failure but EMSGSIZE, one duplicate, one notice | no probe too many, each counts once, counts match the bits, all of `-c` are sent but for one at most for each copy not told for a duplicate, the linger timer is armed when it must and not before, the report is sound, no probe after a stop; `EchoRun` is implemented |
| `loop_deadline` | `-w`, `-q`, raw socket, preload 3, four sequence numbers | the run ends by its deadline, and after a stop, though an error arrives twice or its second half never |
| `ack_window` | 8 numbers, 20 probes, acknowledgements in any order | `in_flight()` is exact while no half window went unanswered; an answer never makes it grow |
| `process` | three runs in one process, each with `-c` 0, 1 or 2 | only the first sends; every run with `-c` ends, though probes and answers are lost and sends fail |
| `setup` | root or a user, two calls, any subset of five options | callbacks keep their order, one silent failure and no other, the loop has its sockets, and a destination if one was ever looked up; a user's rate is bounded, and a group's without `-A`; descriptors leak at most two a call |
| `requests` | three requests of all kinds, one address with a dash | no request is left without arguments before an address had a dash, fresh ones are carried out, addresses are honoured when `optind` allows |
| `pacing` | adaptive or not, root or a user, `-i` 0 or 4, a clock that starts at every point of its second and is set once | probes never run ahead of rate and preload, but by one preload each time the clock is set; flood without answers is limited; the wait `pinger()` names suffices, and only a clock set back makes it longer |
| `replies` | two probes, one duplicate or refusal, `-U` or not, a resolver that may never answer, a clock set once, two runs | every packet's checksum is right; answers are counted once whatever the alarm breaks off; times, average, deviation and results are right within the bounds named; the alarm ends the run |

Runs that find a violation are the [disagreements](#disagreements-found).

Every property of a passing run has a mutant in `PROJECT.json`: a definition of
the model changed as a plausible bug would change the code, under which TLC
finds the property violated. The mutants stand before the definition they
change, each with a comment that says what it does.

## Bounds

- `MaxTransmit` (probes), `MaxCopies` (duplicates), `MaxNotices` (foreign queue
  entries), `MaxRuns`, `MaxCalls`, `MaxReports` (callbacks of the loop). Two or
  three probes give every order of two answers, an answer against an error and a late
  answer against a later probe; a copy and a notice each interfere once with
  any of them. `MaxTransmit` equals or exceeds `-c`, so that the bound never
  stands in for the guard that is checked, and a run without end (`-c` 0) may
  stop sending there as if tokens never came.
- `SeqMod` is 16 where numbers must not wrap, 4 and 8 where they must. With
  4 numbers and 3 probes the number cleared for a next probe and `acked` after
  a half window wrap; with 8 and 20 `acked` goes round twice and both sides of
  the half window are met at every offset.
- `OomLimit` 2 gives one wait and one give-up (in the code 20, from a linger
  time of 10 s and waits of half a second).
- `LingerTime` 2 and `RttWait` 1 only differ from 0 and from each other.
- `Sec` 3 and `Milli` 2 make a second of six readings of the clock, so that the
  microseconds of two readings differ by every amount of either sign; `Starts` are
  all six. `Jumps` is five seconds less one reading, so that a clock that is set also
  changes its microseconds, and set forward it fills the bucket. `MaxNow` is longer than
  an interval, and five probes use up a preload of 2 twice. `Estimates` give a user an interval at
  his minimum and one above it, both shorter than his `-i`.
- `Base` 2 makes a millisecond 8 long; the delay 30 and the jump 20 give trips of
  0, 10, 20, 30 and 50, which are in all four formats of a result, and an answer that is
  negative at first and positive when taken again. `Word` 8 makes the sums carry. `MaxFaults`
  is one copy or one refusal.
- `MaxLinger` 4 and `IntSize` 16384 stand for 2147 s and 2^31: a timeout of 5 is refused, and the
  product of a refused 17 wraps to a negative linger time.
- Two calls make state stale; three runs or requests let what the second
  leaves behind meet a third.
- Deadlock is checked in every `PingLoop` and `PingProcess` run (a finished run
  stutters by `Done`). `AckWindow`, `PingSetup`, `PingArgs`, `Pacing` and
  `Replies` stop when their bound on probes, calls or time is used up.

`PingSetup` takes the options that later stages, or later calls, look at
together (`-i`, `-f`, `-A`, `-I` with a device, `-s`). The others each give their own stage
one more way to fail or to warn, which the stages above have too; `-b` makes a group as a
multicast address does. `setup_end` needs one option that warns and one call.

## Fairness

`Fairness == WF(Thread) /\ SF(PingerGo) /\ WF(AlarmFires)`. The thread is
scheduled. Time passes: a loop that keeps asking the bucket is given a token
(strong, because the wait in between leaves `check`), which is what `ntokens +=
tokens` does with every elapsed millisecond, and an armed interval timer expires. Nothing is assumed
of the network, which may drop everything, nor of `stop_ping()`, nor of
`sendmsg()` succeeding. `PingProcess` assumes the same of each run. Liveness is not checked
where no fairness is stated.

`WaitSuffices` of `Pacing` is why the strong fairness of `PingerGo` is justified: whoever
comes back to `pinger()` after the wait it asked for, and a millisecond for rounding,
finds a token, and `WaitBounded` says that the wait is finite whatever was done to the
clock.

`Replies` assumes `WF(Thread)` and `WF(SignalArrives)`: the thread is scheduled and an armed timer
expires. The resolver (`ResolverAnswers`) is not part of `Thread`: it may never return.

## Disagreements found

Each is a run that expects a violation, of a property that says what the
repository says.

| Run | The repository says | The code does |
|---|---|---|
| `ack_overflow` | "Invalidate acked, if 16 bit seq overflows" | the invalidation lasts for one probe: the next has the number `acked` was set to, and `in_flight()` is 0; and the test is false once the number has wrapped below `acked` |
| `setup_end` | "ping_end will not be called when error happen" (`ping_common.h:113`) | a warning is an error callback, and the call goes on to its end; and `ping_end` is the only callback for an unknown host |
| `process_times` | "set number of times to ping the address" | the second `startPing()` of a process sends nothing |
| `requests_address` | "Set the address to ping" | with fewer options than an earlier call the address is never read |

`PingProcess` and `PingArgs` state what remains true in their place:
`OnlyFirstRunSends`, `FreshHonoured`, `AddressHonoured`.

More were met on the way, and have no run:

- `Ping.java:74` says "the timeout for each ping in milliseconds", and `-W` takes seconds: `lingertime` is
  a thousand times what was asked for, or the value is refused (beyond 2147). `FreshHonoured` says
  that the engine keeps to seconds.
- A run may end before its last probe: one both answered and refused counts
  twice towards `nreceived + nerrors >= npackets`. `SendsAll` allows for one probe for each copy
  the network made. It is false, and so is `Conservation`, when the local entry of an EMSGSIZE stands behind a
  notice: the send counts as a probe and its entry later as an error.
- In adaptive mode the bucket is capped by the interval of the moment, so that one bucket
  filled at a long interval pays for more than `preload` probes when the interval shrinks
  from probe to probe.
- EAGAIN is retried without a count, so a device whose buffer stays full keeps a
  run with `-c` going for ever, and `EveryRunEnds` is checked without it.
- With `-A` the interval falls below the once a second that a user was held to for a group, and the
  later calls of the process are checked against the interval it left.
- The interval that the check of a group looks at is that of `-i`; only in `setup()` does `-f` set it
  to 0, where a user is refused.
- A call whose `optind` is beyond its vector pings what the calls before left in `whereto`: in a
  process that never looked a host up, 0.0.0.0 with no address family.
- A later call of a process does not ask "Do you want to ping broadcast? Then -b",
  because the check is part of finding a source address, which the first call
  did. The kernel still refuses each send without SO_BROADCAST.
- The JSON of a result between 1 and 10 ms prints tenths with two digits: 1.9 ms
  become 1.09 (`ping_common.c:1002`). `Shown` computes what Java gets, and
  `TimeHonest` says what is left: not more than the time, and less than a
  millisecond short of it.
- `nchecksum` ("replies with bad checksum") never counts: `parse_reply()` computes
  `csfailed` and passes 0.
- A second report of a process divides `tsum` and `tsum2` again; answers too short
  for a time stamp are divided by though never summed, and if no other came, the
  minimum is LONG_MAX. The time of a second report is negative, since `start_time`
  is set and `cur_time` is not.
- The deviation is that of sums truncated to whole microseconds: the variance may be too
  large by nearly twice the average. `llsqrt()` returns one too much just below a square.
- After the clock went back once, times are taken when the answer is looked at,
  for the rest of the process; the one answer that was measured twice includes the
  lookup of its name.
- `stop_ping()` does not wake a thread in the resolver. Only the alarm does, which is
  not armed before the last of `-c` probes.

## Proofs

Every invariant that a passing run checks, every action property and both refinements
are theorems; only liveness is not. All theorems hold from the named
`...Assumption` of the model's module, which says of each constant what its type is in
the code, and from the hypotheses named below.

`PingLoopProofs`, for every set of errors, notices and values of `-c`, and every bound:

| Theorem | Says |
|---|---|
| `TypeCorrect` | `Spec => []TypeOK` |
| `NoExtraProbe` | `Spec => []NeverTooMany` |
| `NeverHangs` | `Spec => []LingerArmed` |
| `TimerNotEarly` | `Spec => []AlarmAfterLast` |
| `StopsSending` | `Spec => NoSendOnceExiting` |
| `CountsProbes` | `Spec => []CountMatches` |
| `ReportsAreSound` | `MaxTransmit < SeqMod` implies `Spec => []ReportSound` |
| `ImplementsPromise` | `MaxTransmit < SeqMod` implies `Spec => ImplementsEchoRun` |
| `ProbesAreConserved` | `ErrorsAreSingle` implies `Spec => []Conservation` |
| `SendsWhatWasAsked` | `ErrorsAreSingle` without `-w` implies `Spec => []SendsAll` |

A run of fewer than `SeqMod` probes is the hypothesis of the two theorems about the
report because `nreceived` is no count of distinct answers beyond it.
`ErrorsAreSingle` is a ping socket whose sends do not fail with EMSGSIZE and whose queue has
no message without an IP_RECVERR part: with any of the three an error can
count twice, and the properties are false (see [above](#disagreements-found)).

`TypeOK` is inductive as it stands; its proof has a step for each action, with
lemmas for what the operators of `SeqWindow`, `ScheduleExit` and `ReceiveErrorMsg` return.

The properties about the end of a run depend on few variables, so the
twenty-odd actions are first sorted into three shapes (`StepShape`): `CalmStep`
leaves the counter and the timer alone, `PingerStep` is a return of `pinger()`
that perhaps counts a probe and calls `schedule_exit()`, `SignalStep` is the timer or
`stop_ping()`. On these shapes `EndInv` is inductive. It adds to the properties
that the thread is at `send` only below `-c`, without which a send could count beyond
it, and that the timer having been armed (`waittime > 0`) leaves it running
until `exiting` is set, without which a second visit to
`schedule_exit()`, which does nothing, would break `LingerArmed`.

The properties about counts have shapes of their own (`FigureShape`): a step is
idle, an attempt to send, an answer, or the report. `CountInv` adds that what is on the wire
was sent and that no bit above the counter is set, so that the bit an attempt
clears was never set (`NothingToClear`) and an answer's number names its probe
(`AnswerNumber`). Beyond `SeqMod` probes that is false, and
so is the property. `ReportInv` adds that there is no report before `done`.
The refinement then maps `IdleStep` to a stutter, an attempt to `SendNext` or a
stutter, an answer to `Answer` or a stutter (a duplicate), and `Finish` to `End`.

For `Conservation` a step moves a probe between what is on the wire, queued and counted
(`BalanceShape`). `FlightInv` adds that only probes sent are on the wire and that every entry
of the queue came from ICMP or is passed over; the entries are counted as the finite set of the places
where they stand (`IcmpsAppend`, `IcmpsTail`). `SendsAll` follows with `CountedEnough`: a run that nobody stopped is
over because it counted `npackets` answers and errors, and those are of as many probes and copies.

`AckWindowProofs`, for a run without end, and `PingProcessProofs`, for any number of runs:

| Theorem | Says |
|---|---|
| `AckTypeCorrect` | `Spec => []TypeOK` of `AckWindow` |
| `InFlightIsExact` | `Spec => []ExactWhileRecent` |
| `AnswersShrink` | `Spec => AckShrinks` |
| `ProcessTypeCorrect` | `ProcessSpec => []TypeOK` of `PingLoop` |
| `LaterRunsSendNothing` | `ProcessSpec => []OnlyFirstRunSends` |

`AckInv` says that until a half window went unanswered `acked` is the number of the newest
answer, which is at most half a window back. It rests on two lemmas of
`SeqWindowProofs`: what `advance_ntransmitted()` and `acknowledge()` do while `acked` is inside the half
window (`AdvanceInWindow`, `AcknowledgeInWindow`), where comparing two reduced
numbers is comparing their distances from the last probe. `RunInv` of
`PingProcessProofs` says that after the first report the exit condition holds, as no
counter goes back, and a run that starts there sees it before it sends.

`PacingProofs`, for every unit of time, interval, preload, estimate, setting of the clock
and number of probes, the numbers wrapping or not:

| Theorem | Says |
|---|---|
| `PacingTypeCorrect` | `Spec => []TypeOK` of `Pacing` |
| `RateIsBounded` | `Spec => []RateBound` |
| `FloodIsBounded` | `Spec => []FloodBound` |
| `WaitsSuffice` | `Spec => []WaitSuffices` |
| `WaitsAreBounded` | `Spec => []WaitBounded` |

`RateInv` is an account. What is owed is the probes sent, at a step each, and the tokens
held. While the clock is steady it never exceeds what is saved (the preload at `peak`), what the
clock shows to have passed, and what is allowed for each time the clock was set (a preload and
a millisecond). Once the clock was set, nothing is known of what the bucket will hold: then only
probes and the tokens taken for one count, without the preload, until the bucket is filled again,
which is what the next allowance is for.
That readings of the clock are subtracted part by part costs a millisecond a turn of the
second (`PartwiseDifference`, `SecondsOfSum`). `FloodInv` is the same
account for what is in flight beyond the preload; it needs that an answer, for whichever
probe and however late, never makes `in_flight()` grow (`AnswerCounts`). `WaitInv` says
that waiting until `due` lets pass what the bucket lacks. `ClockInv` says that a clock
is behind `cur_time` only by what it was set back.

`RepliesProofs`, for every payload, clock, resolver and number of runs:

| Theorem | Says |
|---|---|
| `RepliesTypeCorrect` | `Spec => []TypeOK` of `Replies` |
| `AnswersAreCounted` | `Spec => []NoAnswerLost` |
| `FiguresAreSound` | `Spec => []FiguresSound` |
| `TimesAreHonest` | `Spec => TimeHonest` |
| `ProbesAreChecked` | `PacketIsShort` implies `Spec => []ProbesCheckOut` |

- `PlaceInv`: the thread is in `pr_addr()` exactly at `lookup`, `in_pr_addr` is set only
  there, and the rest of `gather_statistics()` is reached only with an answer. From it
  `LossInv`: the answers taken are those counted, and one more while an answer is pending. The
  signal's jump out of the lookup keeps both.
- `TypeOK` needs that the variance is not negative. `VarianceInv` says that the number of
  answers times `tsum2` is at least the square of `tsum`; it is kept by a sample, by
  an answer too short for a time stamp, and by the division of both sums in place.
- `FiguresInv`: the running average is between eight times `tmin` and `tmax`; `tsum` is between
  as many times them; and the successor of each estimate of Newton's method has a square above the
  radicand (`RootFromAbove`), so that the method stops at the root or, just below a square,
  at the one above (`RootWhereItStops`).
- `TimesInv`: each stamp on the way differs from the time it was made at by no more than the clock
  was set by, forward and back; setting the clock only loosens that (`SentLoosens` and the
  others).
- `ProbesInv`: each checksum is what `send_probe()` computed of its packet. That the packet then
  sums to 0 is `ChecksumCompletes`, from `Folding` (folding a sum keeps it modulo `Word - 1`) and
  `ComplementCompletes`. Folding twice is enough for a sum below `Word * Word`, which
  is `PacketIsShort`: in the code, a packet of fewer than 65536 words.

`PingSetupProofs` holds, from `PingSetupAssumption`, for every set of options and
hosts, for root and users, and for any number of calls; `PingArgsProofs`, from
`PingArgsAssumption`, for every choice of addresses and values and any number of
requests:

| Theorem | Says |
|---|---|
| `SetupTypeCorrect` | `Spec => []TypeOK` of `PingSetup` |
| `LoopIsReady` | `Spec => []ReadyToPing` |
| `UserIsPaced` | `Spec => []UserPaced` |
| `LeakIsBounded` | `Spec => []LeakBounded` |
| `FailuresAreHeard` | `Spec => ReturnHeard` |
| `CallbacksInOrder` | `Spec => ImplementsCallbacks` |
| `ArgsTypeCorrect` | `Spec => []TypeOK` of `PingArgs` |
| `DashlessNeverUsage` | `Spec => []UsageNeedsDash` |
| `FreshCallHonoured` | `Spec => []FreshHonoured` |
| `AddressRead` | `Spec => []AddressHonoured` |

The properties of `PingSetup` are about the loop or the return, many stages after
the check they rest on. `SetupInv` carries what was established to where it is
used: from which stage on the socket and, if any was looked up, the destination are known (`Ready`),
a group's rate (`Grouped`, where only `-A` in the loop undoes it) and a user's rate (`Paced`) were
checked, where the probe socket is open (`Probing`), that a source was found for a host that was looked up, and that until the return the open descriptors are
those before the call and the one or two opened since. The twenty actions that
change none of this are one shape (`CalmShape`, `CalmStep`); the other thirteen have a case
each in `SetupInvStep`. For the callbacks an action is quiet, an error, a report, an
end or an entry (`HeardShape`); `HeardInv` says which callbacks a stage implies were
heard, and each shape is then a step of `PingCallbacks` or a stutter.

In `PingArgs` the vector of a request is `"ping"`, pairs of an option and its value,
and the address: an even number of slots. `getopt()` moves `optind` by pairs and the engine
never resets it, so it stays odd (`DashInv`) until an address was read as an option; the
arguments left are odd and so never none: `DashlessNeverUsage`. `SlotsInv` adds that `optind` stays inside a vector
that it was inside of at the start, which is what reaching the address takes.
`FreshInv` says that in a call that starts at slot 1 each value asked for is already
honoured or its option is still unread (`OptionStep`: an option read is
honoured, the others keep their state); when no option is left, all are honoured. A value that was
accepted is small enough not to wrap (`IntShape`).

Only model-checked: liveness (`StopEnds`, `DeadlineEnds`, `EveryRunEnds`, `RunEnds`),
which is out of the prover's reach. The inductive invariants were checked with TLC on the
instances of the runs before they were proved; `RateBound` was wrong until then, for
intervals that shrink, and `peak` is what the proof showed to be missing.

## What is not modelled

- In `PingLoop`: `pipesize` and the screen width that flood mode looks at; `-O`; SIGQUIT's
  status line; the value of MSG_CONFIRM, of which only that it is given up once is kept.
  `Pacing` and `Replies` are models beside it, not refinements of it: each takes from it
  what it needs (when to send, when to stop) more freely than it is.
- In `PingLoop` the interval is at least `MININTERVAL` and SO_RCVTIMEO could be set (no
  F_FLOOD_POLL), as in every run through the Java class. EMSGSIZE only occurs in
  `process` and `loop_deadline`, which say nothing of `Conservation`.
- In `Pacing` no probe is sent while a half window is unanswered, beyond which `in_flight()` is not
  what its name says.
- In `PingArgs` a dashed address is one that `getopt()` refuses as a whole (`-h`). One that is a run of
  letters it knows, or wants a value, is left out, as is the pointer that `getopt()` keeps inside a word
  of several letters from call to call; `-V`, which ends the same way, is in `PingSetup`.
- A signal taken by another thread than the one in `pr_addr()`, and two threads in the bridge:
  undefined behaviour, a jump onto a foreign stack and a race on freed memory, whose
  outcomes cannot be enumerated.
- Output (`pr_icmph`, `pr_options`, `print_timestamp`, `status`, the text of
  `usage`), the JSON text of callbacks but for times, the packet filter, the rest of the
  capability code (which switches the uid around single calls), the demo application, build files and
  resources: they keep no state that a property of the library could be about.
- The JNI functions are named `Java_android_net_tool_ping_*` while the Java class
  is `android.apm.tool.ping.Ping`. The model takes the call to reach them.

## Plan

The plan of modules, runs and theorems is carried out. What could be added:

1. `ReportSound` for runs of `SeqMod` probes and more needs a received table of bits
   that are cleared and set again, and a weaker statement: late duplicates can
   make `nreceived` exceed the probes answered.
2. Pacing after a half window went unanswered: what the limit of a flood still is when
   `in_flight()` restarts from 0 every half window.
3. `Conservation` on the raw socket, with the double counts of `ErrorsAreSingle`'s complement
   named and bounded instead of excluded.
