-------------------------- MODULE ScheduleContract --------------------------
(***************************************************************************)
(* What the durable scheduler promises of one due time, without workers,   *)
(* claims or leases: it is taken up once, tried at most MaxTries times one *)
(* after the other, or skipped, and ends with one outcome that stays.      *)
(***************************************************************************)
EXTENDS Naturals

CONSTANTS
  MaxTries,     \* tries an occurrence may take: one and the retries
  Outcomes      \* how a try can settle

VARIABLE
  course        \* of each occurrence taken up: open or its outcome, and the
                \* tries begun

Init == course = <<>>

TakeUp(o) ==
  /\ o \notin DOMAIN course
  /\ \E phase \in {"open", "skipped"} :
       course' = [p \in DOMAIN course \cup {o} |->
                    IF p = o THEN [phase |-> phase, tries |-> 1] ELSE course[p]]

\* A try failed and the next one is scheduled in the same step.
Retry(o) ==
  /\ o \in DOMAIN course
  /\ course[o].phase = "open" /\ course[o].tries < MaxTries
  /\ course' = [course EXCEPT ![o].tries = @ + 1]

Settle(o) ==
  /\ o \in DOMAIN course
  /\ course[o].phase = "open"
  /\ \E outcome \in Outcomes : course' = [course EXCEPT ![o].phase = outcome]

Next == \E o \in DOMAIN course' : TakeUp(o) \/ Retry(o) \/ Settle(o)

Spec == Init /\ [][Next]_course
=============================================================================
