---------------------------- MODULE AdminOrders ----------------------------
(***************************************************************************)
(* AdminOrdersPage against OrdersService.updateStatus: the dialog of an    *)
(* order, its status buttons and their one mutation, while the worker of   *)
(* the queue moves new orders on.  This is where the assumption comes from *)
(* that an administrator sends one status change at a time (Overlap of     *)
(* Orders.tla): it holds for as long as neither the administrator nor the  *)
(* connection leaves a change that the server is working on.               *)
(***************************************************************************)
EXTENDS Naturals, FiniteSets

CONSTANTS
    OrderIds,
    Requests,       \* status changes that can be in flight at once
    Choices,        \* statuses that the administrator uses, of the five there are
    MaxFailures     \* bound on the answers that are lost, or left behind with the page

VARIABLES
    status,     \* status[o]: Order.status
    restocked,  \* restocked[o]: times that the units of o went back
    mounted,    \* is the page open?
    filter,     \* the status that the table is filtered by, or All
    table,      \* table[o]: the status that the table has for o, or Unlisted
    selected,   \* the order of the dialog with the status it shows, or Nothing
    request,    \* request[r]: phase, order and new status of a change
    pending,    \* the request that the mounted page waits for, or Unlisted
    left,       \* history: did the administrator, or the connection, leave a change alone?
    failures

pageVars == <<mounted, filter, table, selected, pending, left>>
vars == <<status, restocked, pageVars, request, failures>>

ORDER_STATUSES == {"NEW", "PROCESSING", "SHIPPED", "COMPLETED", "CANCELLED"}
FINAL_STATUSES == {"COMPLETED", "CANCELLED"}
All == "All"
Unlisted == "none"
Nothing == [order |-> Unlisted, status |-> Unlisted]
Idle == [phase |-> "idle", order |-> Unlisted, to |-> Unlisted]

\* findAllAdmin: the orders of the filter.
Listed(f) == [o \in OrderIds |-> IF f \in {All, status[o]} THEN status[o] ELSE Unlisted]

Init ==
    /\ status = [o \in OrderIds |-> "NEW"]
    /\ restocked = [o \in OrderIds |-> 0]
    /\ mounted = TRUE /\ filter = All /\ table = Listed(All)
    /\ selected = Nothing /\ pending = Unlisted
    /\ request = [r \in Requests |-> Idle]
    /\ left = FALSE /\ failures = 0

-----------------------------------------------------------------------------
(* The page *)

\* Mutant of Controls: the buttons do not look at isPending.
ControlsAlways ==
    IF ~mounted THEN {"visit"}
    ELSE IF selected = Nothing THEN {"filter", "select"} ELSE {"close", "status"}
Controls ==
    IF ~mounted THEN {"visit"}
    ELSE IF selected = Nothing THEN {"filter", "select"}
    ELSE {"close"} \cup (IF pending = Unlisted THEN {"status"} ELSE {})

SetFilter(f) ==
    /\ "filter" \in Controls
    /\ filter' = f /\ table' = Listed(f)
    /\ UNCHANGED <<status, restocked, mounted, selected, pending, left, request, failures>>

Select(o) ==
    /\ "select" \in Controls /\ table[o] # Unlisted
    /\ selected' = [order |-> o, status |-> table[o]]
    /\ UNCHANGED <<status, restocked, mounted, filter, table, pending, left, request, failures>>

Close ==
    /\ "close" \in Controls
    /\ selected' = Nothing
    /\ UNCHANGED <<status, restocked, mounted, filter, table, pending, left, request, failures>>

ChangeStatus(r, s) ==
    /\ "status" \in Controls /\ request[r] = Idle
    /\ request' = [request EXCEPT ![r] = [phase |-> "sent", order |-> selected.order, to |-> s]]
    /\ pending' = r
    /\ UNCHANGED <<status, restocked, mounted, filter, table, selected, left, failures>>

\* Another page, and back: a new page knows of no mutation.
Leave ==
    /\ mounted
    /\ mounted' = FALSE /\ selected' = Nothing /\ pending' = Unlisted
    /\ filter' = All /\ table' = [o \in OrderIds |-> Unlisted]
    /\ IF pending = Unlisted THEN UNCHANGED <<left, failures>>
       ELSE failures < MaxFailures /\ failures' = failures + 1 /\ left' = TRUE
    /\ UNCHANGED <<status, restocked, request>>

Visit ==
    /\ "visit" \in Controls
    /\ mounted' = TRUE /\ table' = Listed(All)
    /\ UNCHANGED <<status, restocked, filter, selected, pending, left, request, failures>>

-----------------------------------------------------------------------------
(* updateStatus: the read with its checks, then the write *)

Read(r) ==
    /\ request[r].phase = "sent"
    /\ request' = [request EXCEPT ![r].phase =
                      IF status[request[r].order] \in FINAL_STATUSES THEN "refused" ELSE "read"]
    /\ UNCHANGED <<status, restocked, pageVars, failures>>

\* Mutant of Cancels: the status that is written is not looked at.
CancelsAlways(r) == TRUE
Cancels(r) == request[r].to = "CANCELLED"

Write(r) ==
    /\ request[r].phase \in {"read", "alone"}
    /\ status' = [status EXCEPT ![request[r].order] = request[r].to]
    /\ restocked' = IF Cancels(r) THEN [restocked EXCEPT ![request[r].order] = @ + 1] ELSE restocked
    /\ request' = [request EXCEPT ![r] =
                      IF @.phase = "alone" THEN Idle ELSE [@ EXCEPT !.phase = "written"]]
    /\ UNCHANGED <<pageVars, failures>>

AutoProcess(o) ==
    /\ status[o] = "NEW"
    /\ status' = [status EXCEPT ![o] = "PROCESSING"]
    /\ UNCHANGED <<restocked, pageVars, request, failures>>

-----------------------------------------------------------------------------
(* The answer: the table is fetched again, and then the dialog shows the   *)
(* updated order, also when it was closed or shows another one.            *)

\* The buttons are there again.
Released(r) == pending' = IF pending = r THEN Unlisted ELSE pending

Answered(r) ==
    /\ request' = [request EXCEPT ![r] = Idle]
    /\ Released(r)
    /\ UNCHANGED <<status, restocked, mounted, filter, left>>

Succeeds(r) ==
    /\ request[r].phase = "written"
    /\ IF pending = r
          THEN /\ table' \in {Listed(filter), table}
               /\ selected' = [order |-> request[r].order, status |-> request[r].to]
          ELSE UNCHANGED <<table, selected>>
    /\ Answered(r) /\ UNCHANGED failures

Refused(r) ==
    /\ request[r].phase = "refused"
    /\ Answered(r) /\ UNCHANGED <<table, selected, failures>>

\* The request is lost before it is served, or its answer is.
Lost(r) ==
    /\ request[r].phase \in {"sent", "written", "refused"} /\ failures < MaxFailures
    /\ failures' = failures + 1
    /\ Answered(r) /\ UNCHANGED <<table, selected>>

\* The connection breaks while the server works: a toast, but the change goes on
\* alone.
Breaks(r) ==
    /\ request[r].phase = "read" /\ failures < MaxFailures
    /\ failures' = failures + 1
    /\ request' = [request EXCEPT ![r].phase = "alone"]
    /\ Released(r)
    /\ left' = TRUE
    /\ UNCHANGED <<status, restocked, mounted, filter, table, selected>>

-----------------------------------------------------------------------------
Next ==
    \/ Close \/ Leave \/ Visit
    \/ \E f \in Choices \cup {All} : SetFilter(f)
    \/ \E o \in OrderIds : Select(o) \/ AutoProcess(o)
    \/ \E r \in Requests :
          \/ \E s \in Choices : ChangeStatus(r, s)
          \/ Read(r) \/ Write(r) \/ Succeeds(r) \/ Refused(r) \/ Lost(r) \/ Breaks(r)

Spec == Init /\ [][Next]_vars

-----------------------------------------------------------------------------
(* Properties *)

InFlight(r) == request[r].phase # "idle"

\* Types; and the answer that the mounted page waits for will come.
TypeOK ==
    /\ status \in [OrderIds -> ORDER_STATUSES]
    /\ restocked \in [OrderIds -> Nat]
    /\ mounted \in BOOLEAN /\ filter \in ORDER_STATUSES \cup {All}
    /\ table \in [OrderIds -> ORDER_STATUSES \cup {Unlisted}]
    /\ selected \in [order : OrderIds, status : ORDER_STATUSES] \cup {Nothing}
    /\ pending \in Requests \cup {Unlisted}
    /\ request \in [Requests -> {Idle} \cup [phase : {"sent", "refused", "read", "alone", "written"},
                                             order : OrderIds, to : ORDER_STATUSES]]
    /\ left \in BOOLEAN /\ failures \in 0 .. MaxFailures
    /\ pending # Unlisted => mounted /\ request[pending].phase \notin {"idle", "alone"}
    /\ selected # Nothing => mounted

\* However dialogs are closed and opened while answers are due or get lost, an
\* administrator who stays on the page never has a final status overwritten, and
\* cancels an order once.  It ends where a change that the server is working on is
\* left alone, and the next one overlaps it (AdminOrdersPage.tsx:143,
\* orders.service.ts:137).
CancelledOnce ==
    ~left => \A o \in OrderIds : restocked[o] = IF status[o] = "CANCELLED" THEN 1 ELSE 0

\* Why: until then, what is in flight is what the page waits for, and the status
\* that passed the check still holds when the write comes.
OneChange ==
    ~left => \A r \in Requests :
        /\ InFlight(r) => pending = r /\ request[r].phase # "alone"
        /\ request[r].phase = "read" => status[request[r].order] \notin FINAL_STATUSES

PageInv == TypeOK /\ OneChange /\ CancelledOnce
=============================================================================
