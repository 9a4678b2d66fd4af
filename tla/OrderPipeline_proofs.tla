------------------------- MODULE OrderPipeline_proofs -------------------------
(***************************************************************************)
(* Checkout, administrators and the queue together: every step of the      *)
(* composition is a step of Orders.tla, so its properties are inherited;   *)
(* and the queue, with any number of retries and redeliveries, undoes no   *)
(* decision of an administrator and completes no job undone.               *)
(***************************************************************************)
EXTENDS OrderPipeline, Orders_proofs

USE DEF Requests, NoOrder

\* A step of the composition is a step of Orders, or invisible to it.
LEMMA PipelineStepIsOrdersStep ==
    ASSUME [PipelineNext]_pipelineVars PROVE [Next]_vars
<1>1. CASE UNCHANGED pipelineVars
  BY <1>1 DEF pipelineVars
<1>2. ASSUME NEW c \in Checkouts, CheckoutStep(c) \/ CommitStep(c) \/ EnqueueStep(c)
      PROVE  [Next]_vars
  BY <1>2 DEF CheckoutStep, CommitStep, EnqueueStep, Next, Checkout
<1>3. ASSUME NEW c \in Checkouts, WorkerWrites(c) \/ QueueStep(c) \/ QueueFailure(c)
      PROVE  [Next]_vars
  BY <1>3 DEF WorkerWrites, QueueStep, QueueFailure, Next
<1>4. ASSUME NEW s \in Updates, AdminStep(s) \/ AdminWrites(s) PROVE [Next]_vars
  BY <1>4 DEF AdminStep, AdminWrites, Next, UpdateStatus
<1>5. CASE (\E r \in Requests : Rollback(r) \/ Lose(r)) \/ Environment
  BY <1>5 DEF Next
<1> QED BY <1>1, <1>2, <1>3, <1>4, <1>5 DEF PipelineNext

\* Whatever holds of Orders holds of the composition.
THEOREM PipelineImplementsOrders == PipelineSpec => ImplementsOrders
<1>1. PipelineInit => Init
  BY DEF PipelineInit
<1>2. [PipelineNext]_pipelineVars => [Next]_vars
  BY PipelineStepIsOrdersStep
<1> QED BY <1>1, <1>2, PTL DEF PipelineSpec, ImplementsOrders, Spec

-----------------------------------------------------------------------------
(* The invariant of the queue *)

JobTypes ==
    /\ job \in [Checkouts -> Q!JobStates]
    /\ failures \in [Checkouts -> 0 .. Attempts]
    /\ stalls \in [Checkouts -> 0 .. MaxDeaths]
    /\ writer \in [Checkouts -> Writers]
    /\ \A c \in Checkouts : job[c] # "failed" => failures[c] < Attempts

\* A checkout that has committed has its order, one that was answered its job.
JobsAreAnswered ==
    \A c \in Checkouts :
        /\ job[c] # "absent" <=> pc[c] = "ok"
        /\ pc[c] \in {"invalidate", "enqueue", "ok"} => Placed(c)

\* An order has somebody who wrote its status, NEW if that was its checkout;
\* when the job has written, it was somebody else.
WritersAgree ==
    \A c \in Checkouts :
        /\ writer[c] # "nobody" <=> Placed(c)
        /\ writer[c] = "checkout" => status[c] = "NEW"
        /\ job[c] \in {"written", "completed"} => writer[c] \in {"admin", "worker"}

QueueInv == JobTypes /\ JobsAreAnswered /\ WritersAgree

LEMMA QueueInit ==
    ASSUME PipelineInit PROVE QueueInv
<1>1. JobTypes
  BY QueueAssumption DEF PipelineInit, Q!QInit, JobTypes, Q!JobStates, Writers
<1>2. JobsAreAnswered /\ WritersAgree
  BY DEF PipelineInit, Init, Q!QInit, JobsAreAnswered, WritersAgree, Placed
<1> QED BY <1>1, <1>2 DEF QueueInv

\* Steps that write no status and leave the queue alone keep the invariant, if
\* they answer or commit nothing.
LEMMA QuietStep ==
    ASSUME QueueInv, UNCHANGED <<queueVars, writer, status>>,
           \A c \in Checkouts : /\ pc'[c] = "ok" <=> pc[c] = "ok"
                                /\ pc'[c] \in {"invalidate", "enqueue"} => Placed(c)
    PROVE  QueueInv'
BY DEF QueueInv, JobTypes, JobsAreAnswered, WritersAgree, queueVars, Placed

LEMMA CheckoutKeepsQueue ==
    ASSUME SafetyInv, QueueInv, NEW c \in Checkouts,
           CheckoutStep(c) \/ CommitStep(c) \/ EnqueueStep(c)
    PROVE  QueueInv'
<1>0. pc \in [Requests -> Phases] /\ status \in [Checkouts -> Statuses \cup {NoOrder}]
  BY DEF SafetyInv, TypeOK
<1>1. ASSUME CheckoutStep(c) PROVE QueueInv'
  <2>1. UNCHANGED <<queueVars, writer, status>>
    BY <1>1 DEF CheckoutStep, ReadCart, DecrementLine, RejectLine, PlaceOrder, InvalidateCache
  <2>2. \A d \in Checkouts : /\ pc'[d] = "ok" <=> pc[d] = "ok"
                             /\ pc'[d] \in {"invalidate", "enqueue"} => Placed(d)
    BY <1>0, <1>1 DEF CheckoutStep, ReadCart, DecrementLine, RejectLine, PlaceOrder,
                      InvalidateCache, QueueInv, JobsAreAnswered
  <2> QED BY <2>1, <2>2, QuietStep
<1>2. ASSUME CommitStep(c) PROVE QueueInv'
  <2>1. /\ pc[c] = "commit" /\ pc' = [pc EXCEPT ![c] = "invalidate"]
        /\ status' = [status EXCEPT ![c] = "NEW"]
        /\ writer' = [writer EXCEPT ![c] = "checkout"] /\ UNCHANGED queueVars
    BY <1>2 DEF CommitStep, Commit
  <2>2. JobTypes'
    BY <2>1 DEF QueueInv, JobTypes, queueVars, Writers
  <2>3. JobsAreAnswered'
    BY <1>0, <2>1 DEF QueueInv, JobsAreAnswered, queueVars, Placed
  <2>4. job[c] = "absent"
    BY <2>1 DEF QueueInv, JobsAreAnswered
  <2>5. WritersAgree'
    BY <1>0, <2>1, <2>4 DEF QueueInv, JobTypes, WritersAgree, queueVars, Placed
  <2> QED BY <2>2, <2>3, <2>5 DEF QueueInv
<1>3. ASSUME EnqueueStep(c) PROVE QueueInv'
  <2>1. /\ pc[c] = "enqueue" /\ pc' = [pc EXCEPT ![c] = "ok"]
        /\ job' = [job EXCEPT ![c] = "waiting"] /\ job[c] = "absent"
        /\ UNCHANGED <<failures, stalls, writer, status>>
    BY <1>3 DEF EnqueueStep, Enqueue, Q!Add
  <2>2. JobTypes'
    BY <2>1 DEF QueueInv, JobTypes, Q!JobStates
  <2>3. JobsAreAnswered'
    BY <1>0, <2>1 DEF QueueInv, JobTypes, JobsAreAnswered, Placed
  <2>4. WritersAgree'
    BY <2>1 DEF QueueInv, JobTypes, WritersAgree, Placed
  <2> QED BY <2>2, <2>3, <2>4 DEF QueueInv
<1> QED BY <1>1, <1>2, <1>3

LEMMA AdminKeepsQueue ==
    ASSUME SafetyInv, QueueInv, NEW s \in Updates, AdminStep(s) \/ AdminWrites(s)
    PROVE  QueueInv'
<1>0. /\ pc \in [Requests -> Phases] /\ status \in [Checkouts -> Statuses \cup {NoOrder}]
      /\ s \notin Checkouts
  BY RequestsAssumption DEF SafetyInv, TypeOK
<1>1. ASSUME AdminStep(s) PROVE QueueInv'
  <2>1. UNCHANGED <<queueVars, writer, status>>
    BY <1>1 DEF AdminStep, ReadOrder, RestockLine, InvalidateCache
  <2>2. \A d \in Checkouts : pc'[d] = pc[d]
    BY <1>0, <1>1 DEF AdminStep, ReadOrder, RestockLine, InvalidateCache
  <2> QED BY <2>1, <2>2, QuietStep DEF QueueInv, JobsAreAnswered
<1>2. ASSUME AdminWrites(s) PROVE QueueInv'
  <2> DEFINE o == target[s]
  <2>1. o \in Checkouts /\ Placed(o) /\ wanted[s] \in Statuses
    BY <1>2 DEF AdminWrites, CancelOrder, WriteStatus, SafetyInv, UpdatesHaveOrders
  <2>2. PICK st \in Statuses : status' = [status EXCEPT ![o] = st]
    BY <1>2, <2>1 DEF AdminWrites, CancelOrder, WriteStatus, Statuses
  <2>3. \A d \in Checkouts : pc'[d] = pc[d]
    BY <1>0, <1>2 DEF AdminWrites, CancelOrder, WriteStatus
  <2>4. /\ UNCHANGED queueVars
        /\ writer' = IF status' = status THEN writer ELSE [writer EXCEPT ![o] = "admin"]
    BY <1>2 DEF AdminWrites
  <2>5. \A d \in Checkouts : Placed(d)' <=> Placed(d)
    BY <1>0, <2>1, <2>2 DEF Placed, Statuses
  <2>6. JobTypes'
    BY <2>1, <2>4 DEF QueueInv, JobTypes, queueVars, Writers
  <2>7. JobsAreAnswered'
    BY <2>3, <2>4, <2>5 DEF QueueInv, JobsAreAnswered, queueVars
  <2>8. CASE status' = status
    <3>1. WritersAgree'
      BY <2>4, <2>5, <2>8 DEF QueueInv, WritersAgree, queueVars
    <3> QED BY <2>6, <2>7, <3>1 DEF QueueInv
  <2>9. CASE status' # status
    <3>1. writer'[o] = "admin"
      BY <2>1, <2>4, <2>9 DEF QueueInv, JobTypes
    <3>2. \A d \in Checkouts \ {o} : writer'[d] = writer[d] /\ status'[d] = status[d]
      BY <1>0, <2>2, <2>4, <2>9 DEF QueueInv, JobTypes
    <3>3. WritersAgree'
      BY <2>1, <2>4, <2>5, <3>1, <3>2 DEF QueueInv, WritersAgree, queueVars
    <3> QED BY <2>6, <2>7, <3>3 DEF QueueInv
  <2> QED BY <2>8, <2>9
<1> QED BY <1>1, <1>2

\* The write of the worker: it made the order PROCESSING, or found it moved on
\* by somebody who is not its checkout.
LEMMA WorkerKeepsQueue ==
    ASSUME SafetyInv, QueueInv, NEW c \in Checkouts, WorkerWrites(c)
    PROVE  QueueInv'
<1>0. status \in [Checkouts -> Statuses \cup {NoOrder}]
  BY DEF SafetyInv, TypeOK
<1>1. job[c] = "sleeping" /\ job' = [job EXCEPT ![c] = "written"] /\ UNCHANGED <<failures, stalls>>
  BY DEF WorkerWrites, Q!Write
<1>2. pc' = pc
  BY DEF WorkerWrites, AutoProcess, requestVars, vars
<1>3. \/ /\ status[c] = "NEW" /\ status' = [status EXCEPT ![c] = "PROCESSING"]
         /\ writer' = [writer EXCEPT ![c] = "worker"]
      \/ status[c] # "NEW" /\ UNCHANGED <<status, writer>>
  BY DEF WorkerWrites, AutoProcess, vars
<1>4. JobTypes'
  BY <1>1, <1>3 DEF QueueInv, JobTypes, Q!JobStates, Writers
<1>5. Placed(c)
  BY <1>1 DEF QueueInv, JobsAreAnswered
<1>6. \A d \in Checkouts : Placed(d)' <=> Placed(d)
  BY <1>0, <1>3, <1>5 DEF Placed
<1>7. JobsAreAnswered'
  BY <1>1, <1>2, <1>6 DEF QueueInv, JobTypes, JobsAreAnswered
<1>8. writer'[c] \in {"admin", "worker"}
  BY <1>3, <1>5 DEF QueueInv, JobTypes, WritersAgree, Writers
<1>9. \A d \in Checkouts \ {c} : /\ writer'[d] = writer[d] /\ status'[d] = status[d]
                                 /\ job'[d] = job[d]
  BY <1>0, <1>1, <1>3 DEF QueueInv, JobTypes
<1>10. WritersAgree'
  BY <1>5, <1>6, <1>8, <1>9 DEF QueueInv, WritersAgree
<1> QED BY <1>4, <1>7, <1>10 DEF QueueInv

\* The queue hands a job out, completes it, retries it or gives it up.
LEMMA QueueKeepsQueue ==
    ASSUME QueueInv, NEW c \in Checkouts, QueueStep(c) \/ QueueFailure(c)
    PROVE  QueueInv'
<1>1. UNCHANGED <<pc, status, writer>>
  BY DEF QueueStep, QueueFailure, vars, requestVars
<1>2. \A d \in Checkouts : Placed(d)' <=> Placed(d)
  BY <1>1 DEF Placed
<1>3. /\ job[c] # "absent" /\ job'[c] # "absent"
      /\ job'[c] \in {"written", "completed"} => job[c] = "written"
      /\ \A d \in Checkouts \ {c} : job'[d] = job[d]
  BY DEF QueueStep, QueueFailure, Q!Start, Q!Complete, Q!Promote, Q!Fail, Q!Stall, Q!Active,
         QueueInv, JobTypes
<1>4. ASSUME QueueStep(c) PROVE JobTypes'
  BY <1>1, <1>4 DEF QueueStep, Q!Start, Q!Complete, Q!Promote, QueueInv, JobTypes, Q!JobStates
<1>5. ASSUME Q!Fail(c) PROVE JobTypes'
  BY <1>1, <1>5, QueueAssumption DEF Q!Fail, Q!Retried, QueueInv, JobTypes, Q!JobStates
<1>6. ASSUME Q!Stall(c) PROVE JobTypes'
  BY <1>1, <1>6, QueueAssumption DEF Q!Stall, Q!Active, QueueInv, JobTypes, Q!JobStates
<1>7. JobTypes'
  BY <1>4, <1>5, <1>6 DEF QueueFailure
<1>8. JobsAreAnswered'
  BY <1>1, <1>2, <1>3 DEF QueueInv, JobsAreAnswered
<1>9. WritersAgree'
  BY <1>1, <1>2, <1>3 DEF QueueInv, WritersAgree
<1> QED BY <1>7, <1>8, <1>9 DEF QueueInv

LEMMA RestKeepsQueue ==
    ASSUME SafetyInv, QueueInv, UNCHANGED <<queueVars, writer>>,
           (\E r \in Requests : Rollback(r) \/ Lose(r)) \/ Environment
    PROVE  QueueInv'
<1>0. pc \in [Requests -> Phases]
  BY DEF SafetyInv, TypeOK
<1>1. status' = status
  BY DEF Rollback, Lose, Environment, SetCartItem, RemoveCartItem, SetStock, RemoveProduct
<1>2. \A d \in Checkouts : /\ pc'[d] = "ok" <=> pc[d] = "ok"
                           /\ pc'[d] \in {"invalidate", "enqueue"} => pc'[d] = pc[d]
  BY <1>0 DEF Rollback, Lose, TxPhases, Environment, SetCartItem, RemoveCartItem, SetStock,
              RemoveProduct, requestVars
<1> QED BY <1>1, <1>2, QuietStep DEF QueueInv, JobsAreAnswered

LEMMA QueueInvStep ==
    ASSUME SafetyInv, QueueInv, [PipelineNext]_pipelineVars PROVE QueueInv'
<1>1. CASE UNCHANGED pipelineVars
  BY <1>1 DEF pipelineVars, vars, requestVars, queueVars, QueueInv, JobTypes, JobsAreAnswered,
              WritersAgree, Placed
<1>2. CASE PipelineNext
  BY <1>2, CheckoutKeepsQueue, AdminKeepsQueue, WorkerKeepsQueue, QueueKeepsQueue, RestKeepsQueue
  DEF PipelineNext
<1> QED BY <1>1, <1>2

-----------------------------------------------------------------------------
(* Theorems *)

\* The inductive invariant of the composition (orders.service.ts:100-106,
\* orders.processor.ts).
THEOREM QueueInvHolds == PipelineSpec => [](SafetyInv /\ QueueInv)
<1>1. PipelineSpec => []SafetyInv
  BY PipelineImplementsOrders, SafetyInvHolds, PTL DEF ImplementsOrders
<1>2. PipelineInit => QueueInv
  BY QueueInit
<1>3. SafetyInv /\ QueueInv /\ [PipelineNext]_pipelineVars => QueueInv'
  BY QueueInvStep
<1> QED BY <1>1, <1>2, <1>3, PTL DEF PipelineSpec

\* Types, and a job exists exactly for the checkouts that were answered with
\* their order (orders.service.ts:102-106).
THEOREM PipelineTypeCorrect == PipelineSpec => []PipelineTypeOK
<1>1. SafetyInv /\ QueueInv => PipelineTypeOK
  BY DEF SafetyInv, QueueInv, JobTypes, JobsAreAnswered, PipelineTypeOK
<1> QED BY <1>1, QueueInvHolds, PTL

\* A job that completed has done its work, or found it done, however often it
\* was retried or redelivered (orders.processor.ts:25-35).
THEOREM CompletedJobsAreProcessed == PipelineSpec => []CompletedJobsProcessed
<1>1. QueueInv => CompletedJobsProcessed
  BY DEF QueueInv, WritersAgree, CompletedJobsProcessed
<1> QED BY <1>1, QueueInvHolds, PTL

\* Redelivered jobs and checkouts change no status other than NEW that an
\* administrator set (orders.processor.ts:12-13).
THEOREM AdminDecisionsStand == PipelineSpec => AdminDecisionStands
<1> DEFINE Stands == \A c \in Checkouts :
          writer[c] = "admin" /\ status[c] # "NEW" /\ status'[c] # status[c]
             => writer'[c] = "admin"
<1>1. SafetyInv /\ QueueInv /\ [PipelineNext]_pipelineVars => [Stands]_pipelineVars
  <2> SUFFICES ASSUME SafetyInv, QueueInv, PipelineNext, NEW c \in Checkouts,
                      writer[c] = "admin", status[c] # "NEW", status'[c] # status[c]
               PROVE  writer'[c] = "admin"
    OBVIOUS
  <2>0. /\ status \in [Checkouts -> Statuses \cup {NoOrder}]
        /\ writer \in [Checkouts -> Writers]
    BY DEF SafetyInv, TypeOK, QueueInv, JobTypes
  <2>1. ASSUME NEW d \in Checkouts, CheckoutStep(d) \/ EnqueueStep(d) PROVE FALSE
    BY <2>1 DEF CheckoutStep, EnqueueStep, ReadCart, DecrementLine, RejectLine, PlaceOrder,
                InvalidateCache, Enqueue
  <2>2. ASSUME NEW d \in Checkouts, CommitStep(d) PROVE FALSE
    <3>1. Placed(c)
      BY DEF QueueInv, WritersAgree
    <3>2. c = d /\ pc[d] = "commit"
      BY <2>0, <2>2 DEF CommitStep, Commit
    <3> QED BY <3>1, <3>2 DEF SafetyInv, OrdersAreCommitted
  <2>3. ASSUME NEW d \in Checkouts, WorkerWrites(d) PROVE FALSE
    BY <2>0, <2>3 DEF WorkerWrites, AutoProcess, vars
  <2>4. ASSUME NEW d \in Checkouts, QueueStep(d) \/ QueueFailure(d) PROVE FALSE
    BY <2>4 DEF QueueStep, QueueFailure, vars
  <2>5. ASSUME NEW s \in Updates, AdminStep(s) PROVE FALSE
    BY <2>5 DEF AdminStep, ReadOrder, RestockLine, InvalidateCache
  <2>6. ASSUME NEW s \in Updates, AdminWrites(s) PROVE writer'[c] = "admin"
    BY <2>0, <2>6 DEF AdminWrites, CancelOrder, WriteStatus
  <2>7. ASSUME (\E r \in Requests : Rollback(r) \/ Lose(r)) \/ Environment PROVE FALSE
    BY <2>7 DEF Rollback, Lose, Environment, SetCartItem, RemoveCartItem, SetStock, RemoveProduct
  <2> QED BY <2>1, <2>2, <2>3, <2>4, <2>5, <2>6, <2>7 DEF PipelineNext
<1> QED BY <1>1, QueueInvHolds, PTL DEF PipelineSpec, AdminDecisionStands
=============================================================================
