--------------------------- MODULE OrderPipeline ---------------------------
(***************************************************************************)
(* Orders.tla composed with the queue: the last step of a checkout adds    *)
(* the job, and OrdersProcessor.process, run by the worker at least once,  *)
(* makes the automatic transition NEW -> PROCESSING while administrators   *)
(* change the same order.                                                  *)
(***************************************************************************)
EXTENDS Orders

CONSTANTS Attempts, MaxStalls, MaxErrors, MaxDeaths

ASSUME QueueAssumption ==
    /\ Attempts \in Nat \ {0} /\ MaxStalls \in Nat
    /\ MaxErrors \in Nat /\ MaxDeaths \in Nat

VARIABLES job, failures, stalls,
          writer        \* history: writer[c], who changed the status of order c last

Q == INSTANCE OrdersQueue WITH JobIds <- Checkouts

queueVars == <<job, failures, stalls>>
pipelineVars == <<vars, queueVars, writer>>

Writers == {"nobody", "checkout", "admin", "worker"}

PipelineInit ==
    /\ Init
    /\ Q!QInit
    /\ writer = [c \in Checkouts |-> "nobody"]

\* Statements of a checkout before and after its commit.
CheckoutStep(c) ==
    /\ \/ ReadCart(c)
       \/ \E p \in Products : DecrementLine(c, p) \/ RejectLine(c, p)
       \/ PlaceOrder(c)
       \/ InvalidateCache(c)
    /\ UNCHANGED <<queueVars, writer>>

CommitStep(c) ==
    /\ Commit(c)
    /\ writer' = [writer EXCEPT ![c] = "checkout"]
    /\ UNCHANGED queueVars

\* Mutant of EnqueueStep: the checkout is answered without adding the job.
EnqueueForgotten(c) ==
    /\ Enqueue(c)
    /\ UNCHANGED <<queueVars, writer>>

EnqueueStep(c) ==
    /\ Enqueue(c)
    /\ Q!Add(c)
    /\ UNCHANGED writer

\* Statements of updateStatus that write no status, and those that do.
AdminStep(s) ==
    /\ \/ \E o \in Checkouts, st \in Statuses : ReadOrder(s, o, st)
       \/ \E p \in Products : RestockLine(s, p)
       \/ InvalidateCache(s)
    /\ UNCHANGED <<queueVars, writer>>

AdminWrites(s) ==
    /\ CancelOrder(s) \/ WriteStatus(s)
    /\ writer' = IF status' = status THEN writer
                 ELSE [writer EXCEPT ![target[s]] = "admin"]
    /\ UNCHANGED queueVars

\* Mutant of WorkerWrites: order.update without "status: NEW" in its where.
WorkerWritesAlways(c) ==
    /\ Q!Write(c)
    /\ status' = [status EXCEPT ![c] = "PROCESSING"]
    /\ writer' = [writer EXCEPT ![c] = "worker"]
    /\ UNCHANGED <<shelfVars, cart, restocks, requestVars>>

\* Mutant of WorkerWrites: the job has another name, and process returns.
WorkerIgnoresJob(c) ==
    /\ Q!Write(c)
    /\ UNCHANGED <<vars, writer>>

\* updateMany where the status is NEW: it writes the order, or finds nothing.
WorkerWrites(c) ==
    /\ Q!Write(c)
    /\ \/ AutoProcess(c) /\ writer' = [writer EXCEPT ![c] = "worker"]
       \/ status[c] # "NEW" /\ UNCHANGED <<vars, writer>>

\* The queue moves a job on without touching the order.
QueueStep(c) ==
    /\ Q!Start(c) \/ Q!Complete(c) \/ Q!Promote(c)
    /\ UNCHANGED <<vars, writer>>

QueueFailure(c) ==
    /\ Q!Fail(c) \/ Q!Stall(c)
    /\ UNCHANGED <<vars, writer>>

PipelineNext ==
    \/ \E c \in Checkouts :
          \/ CheckoutStep(c) \/ CommitStep(c) \/ EnqueueStep(c)
          \/ WorkerWrites(c) \/ QueueStep(c) \/ QueueFailure(c)
    \/ \E s \in Updates : AdminStep(s) \/ AdminWrites(s)
    \/ /\ (\E r \in Requests : Rollback(r) \/ Lose(r)) \/ Environment
       /\ UNCHANGED <<queueVars, writer>>

PipelineSpec == PipelineInit /\ [][PipelineNext]_pipelineVars

-----------------------------------------------------------------------------
(* Fairness: a checkout that has committed is served to its end unless the *)
(* process dies, and the worker keeps taking and finishing jobs.           *)

ServeCommitted(c) ==
    \/ InvalidateCache(c) /\ UNCHANGED <<queueVars, writer>>
    \/ EnqueueStep(c)

FairPipelineSpec ==
    /\ PipelineSpec
    /\ \A c \in Checkouts :
          /\ WF_pipelineVars(ServeCommitted(c))
          /\ WF_pipelineVars(WorkerWrites(c))
          /\ WF_pipelineVars(QueueStep(c))

-----------------------------------------------------------------------------
(* Properties *)

\* Every variable of the composition has its type, and a job exists exactly
\* for the checkouts that were answered with their order.
PipelineTypeOK ==
    /\ TypeOK
    /\ job \in [Checkouts -> Q!JobStates]
    /\ failures \in [Checkouts -> 0 .. Attempts]
    /\ stalls \in [Checkouts -> 0 .. MaxDeaths]
    /\ writer \in [Checkouts -> Writers]
    /\ \A c \in Checkouts : job[c] # "absent" <=> pc[c] = "ok"

\* A status other than NEW that an administrator set is changed by nobody
\* but an administrator, however often the job of the order is redelivered
\* (orders.processor.ts:12-13).
AdminDecisionStands ==
    [][\A c \in Checkouts :
          writer[c] = "admin" /\ status[c] # "NEW" /\ status'[c] # status[c]
             => writer'[c] = "admin"]_pipelineVars

\* The comment of the processor, to the letter: the job never overwrites a
\* status that an administrator changed while it was in flight.
WorkerNeverClobbers ==
    [][\A c \in Checkouts :
          writer[c] = "admin" => writer'[c] # "worker"]_pipelineVars

\* No order stays in the NEW that its checkout gave it: the job, or an
\* administrator, moves it on.
OrdersGetProcessed ==
    \A c \in Checkouts :
        status[c] = "NEW" /\ writer[c] = "checkout" ~> writer[c] # "checkout"

\* A completed job has done its work, also when it was retried or redelivered.
CompletedJobsProcessed ==
    \A c \in Checkouts : job[c] = "completed" => writer[c] \in {"admin", "worker"}

\* The composition only restricts when the worker acts: every one of its
\* behaviours is a behaviour of Orders.tla, whose properties it inherits.
ImplementsOrders == Spec
=============================================================================
