------------------------------ MODULE QueuedJob -----------------------------
(***************************************************************************)
(* One BullMQ job, as the code uses the library: it is added once under    *)
(* its own id, delivered to one worker at a time, and ends completed or    *)
(* failed.  A processor that throws uses up an attempt.  The job of a      *)
(* worker that died is delivered again once (maxStalledCount is left at    *)
(* its default, 1).  The composing modules use the actions as conjuncts.   *)
(***************************************************************************)
EXTENDS Naturals

CONSTANT Attempts   \* opts.attempts of queue.add

VARIABLES
  job,      \* the job's state
  thrown,   \* deliveries that ended with an exception
  stalled   \* deliveries that ended with their worker

JobTypeOK ==
  /\ job \in {"none", "waiting", "active", "completed", "failed"}
  /\ thrown \in 0 .. Attempts /\ stalled \in 0 .. 2

JobInit == job = "none" /\ thrown = 0 /\ stalled = 0

Add == job = "none" /\ job' = "waiting" /\ UNCHANGED <<thrown, stalled>>

Take == job = "waiting" /\ job' = "active" /\ UNCHANGED <<thrown, stalled>>

Complete == job = "active" /\ job' = "completed" /\ UNCHANGED <<thrown, stalled>>

Throw ==
  /\ job = "active"
  /\ thrown' = thrown + 1
  /\ job' = IF thrown' < Attempts THEN "waiting" ELSE "failed"
  /\ UNCHANGED stalled

Stall ==
  /\ job = "active"
  /\ stalled' = stalled + 1
  /\ job' = IF stalled' <= 1 THEN "waiting" ELSE "failed"
  /\ UNCHANGED thrown

=============================================================================
