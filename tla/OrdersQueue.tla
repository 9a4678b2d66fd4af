---------------------------- MODULE OrdersQueue ----------------------------
(***************************************************************************)
(* The "orders" queue of BullMQ as queue.module.ts configures it and       *)
(* orders.service.ts and orders.processor.ts use it: one job per order,    *)
(* three attempts with a backoff, one worker that handles one job at a     *)
(* time, and redelivery of a job whose worker stalled.  Only the life of a *)
(* job is here; what its steps do to the order is in OrderPipeline.tla.    *)
(***************************************************************************)
EXTENDS Integers, FiniteSets

CONSTANTS JobIds,       \* orders a job may be added for
          Attempts,     \* the "attempts" option of the job
          MaxStalls,    \* stalls after which BullMQ gives a job up
          MaxErrors,    \* bound: attempts of a job that the database fails
          MaxDeaths     \* bound: times the worker dies with a job

VARIABLES job,          \* job[o]: state of the job of order o
          failures,     \* failures[o]: attempts of it that threw
          stalls        \* stalls[o]: times its worker stopped renewing its lock

queueVars == <<job, failures, stalls>>

JobStates == {"absent", "waiting", "sleeping", "written", "delayed", "completed", "failed"}
Active(o) == job[o] \in {"sleeping", "written"}

QInit ==
    /\ job = [o \in JobIds |-> "absent"]
    /\ failures = [o \in JobIds |-> 0]
    /\ stalls = [o \in JobIds |-> 0]

\* ordersQueue.add
Add(o) ==
    /\ job[o] = "absent"
    /\ job' = [job EXCEPT ![o] = "waiting"]
    /\ UNCHANGED <<failures, stalls>>

\* The worker takes a job and process() begins with its three seconds of sleep.
Start(o) ==
    /\ job[o] = "waiting"
    /\ \A q \in JobIds : ~Active(q)
    /\ job' = [job EXCEPT ![o] = "sleeping"]
    /\ UNCHANGED <<failures, stalls>>

\* process() wakes up, executes updateMany and returns.
Write(o) ==
    /\ job[o] = "sleeping"
    /\ job' = [job EXCEPT ![o] = "written"]
    /\ UNCHANGED <<failures, stalls>>

Complete(o) ==
    /\ job[o] = "written"
    /\ job' = [job EXCEPT ![o] = "completed"]
    /\ UNCHANGED <<failures, stalls>>

\* Mutant of Retried: the add call has no "attempts" option.
NeverRetried(o) == FALSE
Retried(o) == failures[o] + 1 < Attempts

\* updateMany throws; the job is retried after a backoff, or given up.
Fail(o) ==
    /\ job[o] = "sleeping"
    /\ failures[o] < MaxErrors
    /\ failures' = [failures EXCEPT ![o] = @ + 1]
    /\ job' = [job EXCEPT ![o] = IF Retried(o) THEN "delayed" ELSE "failed"]
    /\ UNCHANGED stalls

\* The backoff is over.
Promote(o) ==
    /\ job[o] = "delayed"
    /\ job' = [job EXCEPT ![o] = "waiting"]
    /\ UNCHANGED <<failures, stalls>>

\* The worker dies with the job, before or after its write; the stalled-job
\* check hands the job out again, or gives it up.
Stall(o) ==
    /\ Active(o)
    /\ stalls[o] < MaxDeaths
    /\ stalls' = [stalls EXCEPT ![o] = @ + 1]
    /\ job' = [job EXCEPT ![o] = IF stalls[o] < MaxStalls THEN "waiting" ELSE "failed"]
    /\ UNCHANGED failures
=============================================================================
