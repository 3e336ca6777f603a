---------------------------- MODULE PingCallbacks ----------------------------
(***************************************************************************)
(* What a caller of startPing() hears, whatever goes on below: onEnter     *)
(* first; then errors and warnings, none of them after the first result;   *)
(* at most one onStart, results only between onStart and the one           *)
(* onStatistics; onEnd at most once and last, and once the ping started    *)
(* only after its statistics.  The header promises more, that nobody hears *)
(* both an error and onEnd; the engine does not keep that (EndMeansNoError *)
(* of PingSetup).                                                          *)
(***************************************************************************)
EXTENDS Sequences

VARIABLES
  heard,   \* the callbacks of the call under way, in order
  over     \* the call has returned

callbackVars == <<heard, over>>

Heard(kind) == \E k \in DOMAIN heard : heard[k] = kind

Say(kind) == heard' = Append(heard, kind)

Talking == heard # << >> /\ ~over /\ ~Heard("end")

Silent == heard = << >> /\ over = TRUE

Enter == over /\ heard' = <<"enter">> /\ over' = FALSE

(* After an error the call may return at once.                             *)
Error ==
  /\ Talking /\ ~Heard("result") /\ ~Heard("statistics")
  /\ Say("error") /\ over' \in BOOLEAN

Start ==
  /\ Talking /\ ~Heard("start")
  /\ Say("start") /\ over' = FALSE

During(kind) ==
  /\ Talking /\ Heard("start") /\ ~Heard("statistics")
  /\ Say(kind) /\ over' = FALSE

End ==
  /\ Talking /\ (Heard("start") => Heard("statistics"))
  /\ Say("end") /\ over' = TRUE

(* A failure nobody hears of.                                              *)
Return == Talking /\ ~Heard("start") /\ over' = TRUE /\ UNCHANGED heard

Next == Enter \/ Error \/ Start \/ During("result") \/ During("statistics") \/ End \/ Return

Spec == Silent /\ [][Next]_callbackVars

=============================================================================
