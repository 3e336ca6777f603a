------------------------------ MODULE EchoRun ------------------------------
(***************************************************************************)
(* What a run of ping promises its user, free of packets, queues, timers   *)
(* and threads: it sends probes 1, 2, 3, ..., no more than it was asked    *)
(* for; each probe is answered at most once, and only after it was sent;   *)
(* and at the end, once, it tells how many were sent and how many of them  *)
(* were answered.  After that nothing changes.                             *)
(***************************************************************************)
EXTENDS Naturals, FiniteSets, Sequences

VARIABLES
  limit,     \* probes asked for, 0 for a run without end
  sent,      \* number of the last probe sent
  answered,  \* the probes answered
  results    \* << >> until the end, then the one result <<sent, received>>

echoVars == <<limit, sent, answered, results>>

EchoInit ==
  limit \in Nat /\ sent = 0 /\ answered = {} /\ results = << >>

SendNext ==
  /\ results = << >>
  /\ limit > 0 => sent < limit
  /\ sent' = sent + 1
  /\ UNCHANGED <<limit, answered, results>>

Answer ==
  /\ results = << >>
  /\ \E i \in 1 .. sent : i \notin answered /\ answered' = answered \cup {i}
  /\ UNCHANGED <<limit, sent, results>>

End ==
  /\ results = << >>
  /\ results' = << <<sent, Cardinality(answered)>> >>
  /\ UNCHANGED <<limit, sent, answered>>

EchoNext == SendNext \/ Answer \/ End

Spec == EchoInit /\ [][EchoNext]_echoVars

=============================================================================
