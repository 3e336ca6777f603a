----------------------------- MODULE NameLookup -----------------------------
(***************************************************************************)
(* pr_addr() of ping_run.c, which asks the resolver for the name of an     *)
(* address, and sigexit() of ping_common.c, which jumps out of it:         *)
(*                                                                         *)
(*    in_pr_addr = !setjmp(pr_addr_jmp);                                   *)
(*    if (exiting || ... || !gethostbyaddr(...)) address else name         *)
(*    in_pr_addr = 0;                                                      *)
(*                                                                         *)
(* The signal sets exiting and, when it finds in_pr_addr set, continues    *)
(* the ping thread behind setjmp(), which now returns 1; so in_pr_addr is  *)
(* cleared, and exiting makes the second try stop at the address.          *)
(* stop_ping() sets exiting too, but interrupts nothing.                   *)
(*                                                                         *)
(* SIGALRM is taken by the ping thread here.  setup() leaves it unblocked  *)
(* in every thread of the process; on another one longjmp() would leave    *)
(* for a foreign stack, of which nothing can be said.                      *)
(***************************************************************************)

VARIABLES
  place,       \* of the thread in pr_addr(); "out" of it
  in_pr_addr, exiting,
  alarm        \* the interval timer is running

lookupVars == <<place, in_pr_addr, exiting, alarm>>

LookupTypeOK ==
  /\ place \in {"out", "entered", "resolver", "found"}
  /\ {in_pr_addr, exiting, alarm} \subseteq BOOLEAN

LookupInit ==
  place = "out" /\ in_pr_addr = FALSE /\ exiting = FALSE /\ alarm = FALSE

-----------------------------------------------------------------------------
Enter ==
  /\ place = "out"
  /\ place' = "entered" /\ in_pr_addr' = TRUE
  /\ UNCHANGED <<exiting, alarm>>

(* -n is not given.                                                        *)
Decide ==
  /\ place = "entered"
  /\ place' = IF exiting THEN "found" ELSE "resolver"
  /\ UNCHANGED <<in_pr_addr, exiting, alarm>>

(* gethostbyaddr() returns, whenever the resolver likes.                   *)
Resolved ==
  /\ place = "resolver"
  /\ place' = "found"
  /\ UNCHANGED <<in_pr_addr, exiting, alarm>>

(* Mutant: the flag is left to the next call.                              *)
LeaveFlagged ==
  /\ place = "found"
  /\ place' = "out"
  /\ UNCHANGED <<in_pr_addr, exiting, alarm>>

Leave ==
  /\ place = "found"
  /\ place' = "out" /\ in_pr_addr' = FALSE
  /\ UNCHANGED <<exiting, alarm>>

-----------------------------------------------------------------------------
(* sigexit(): the handler returns to where the thread was, or into the     *)
(* frame of the last pr_addr().                                            *)

(* Mutant: the handler only sets the flag.                                 *)
SigExitReturns ==
  /\ exiting' = TRUE
  /\ UNCHANGED <<place, in_pr_addr>>

SigExit ==
  /\ exiting' = TRUE
  /\ IF in_pr_addr
     THEN place' = "entered" /\ in_pr_addr' = FALSE
     ELSE UNCHANGED <<place, in_pr_addr>>

AlarmSignal == alarm /\ SigExit /\ alarm' = FALSE

(* stop_ping() on another thread                                           *)
StopPing ==
  /\ ~exiting
  /\ exiting' = TRUE
  /\ UNCHANGED <<place, in_pr_addr, alarm>>

=============================================================================
