---------------------------- MODULE HttpPipeline ----------------------------
(***************************************************************************)
(* What a request passes before and after the handler of its route: the    *)
(* guards of AppModule and of the route, the body's validation, and the    *)
(* filter that turns every exception into an answer.  Each is a step: time *)
(* goes on and other requests pass in between.                             *)
(***************************************************************************)
EXTENDS Naturals, FiniteSets

CONSTANTS
    Slots,          \* requests of one address in flight
    Routes,         \* routes it asks for
    GlobalLimit,    \* requests of a route in a minute (100)
    LoginLimit      \* those of POST /auth/login (5)

VARIABLES
    request,    \* request[s]: route, token, whether the body is valid, and how far it has come
    answer,     \* answer[s]: status of the answer, 0 before
    hits,       \* hits[x]: requests for x that the throttler counted
    ran,        \* history: ran[x], handlers of x that ran in this minute
    effects     \* history: effects[s], did the handler of s change anything?

vars == <<request, answer, hits, ran, effects>>

-----------------------------------------------------------------------------
(* The decorators of the controllers *)

\* @Public; POST /auth/refresh has a guard of its own behind these, see Session.tla.
PublicRoutes ==
    {"POST /auth/register", "POST /auth/login", "POST /auth/refresh",
     "GET /categories", "GET /categories/:id", "GET /products", "GET /products/:id"}
AdminRoutes ==
    {"POST /products", "PATCH /products/:id", "DELETE /products/:id", "POST /products/:id/image",
     "POST /categories", "PATCH /categories/:id", "DELETE /categories/:id",
     "GET /orders/admin/all", "PATCH /orders/:id/status",
     "GET /analytics/summary", "GET /analytics/top-products", "GET /analytics/sales-by-day",
     "GET /analytics/export.csv"}
LimitOf(x) == IF x = "POST /auth/login" THEN LoginLimit ELSE GlobalLimit

Tokens == {"none", "CUSTOMER", "ADMIN"}
NoRequest == [route |-> "none", token |-> "none", valid |-> TRUE, at |-> "free"]

Init ==
    /\ request = [s \in Slots |-> NoRequest]
    /\ answer = [s \in Slots |-> 0]
    /\ hits = [x \in Routes |-> 0] /\ ran = [x \in Routes |-> 0]
    /\ effects = [s \in Slots |-> FALSE]

Goes(s, stage) == request' = [request EXCEPT ![s].at = stage]
Answer(s, status) == Goes(s, "answered") /\ answer' = [answer EXCEPT ![s] = status]

-----------------------------------------------------------------------------
Arrive(s, x, token, valid) ==
    /\ request[s].at = "free"
    /\ request' = [request EXCEPT ![s] = [route |-> x, token |-> token, valid |-> valid, at |-> "jwt"]]
    /\ UNCHANGED <<answer, hits, ran, effects>>

\* The client reads the answer and asks for something else.
Read(s) ==
    /\ request[s].at = "answered"
    /\ request' = [request EXCEPT ![s] = NoRequest]
    /\ answer' = [answer EXCEPT ![s] = 0]
    /\ effects' = [effects EXCEPT ![s] = FALSE]
    /\ UNCHANGED <<hits, ran>>

\* JwtAuthGuard; the token may have expired.
JwtAuthGuard(s) ==
    LET q == request[s] IN
    /\ q.at = "jwt"
    /\ \/ (q.route \in PublicRoutes \/ q.token # "none") /\ Goes(s, "throttler") /\ UNCHANGED answer
       \/ q.route \notin PublicRoutes /\ Answer(s, 401)
    /\ UNCHANGED <<hits, ran, effects>>

\* Mutant of Exceeded: the limit of the login is forgotten.
ExceededGlobally(x) == hits[x] >= GlobalLimit
Exceeded(x) == hits[x] >= LimitOf(x)

\* ThrottlerGuard: one counter per address and route.
ThrottlerGuard(s) ==
    LET x == request[s].route IN
    /\ request[s].at = "throttler"
    /\ IF Exceeded(x)
          THEN Answer(s, 429) /\ UNCHANGED hits
          ELSE /\ hits' = [hits EXCEPT ![x] = @ + 1]
               /\ Goes(s, "roles") /\ UNCHANGED answer
    /\ UNCHANGED <<ran, effects>>

\* RolesGuard of the routes that have one.
RolesGuard(s) ==
    LET q == request[s] IN
    /\ q.at = "roles"
    /\ IF q.route \in AdminRoutes /\ q.token # "ADMIN"
          THEN Answer(s, 403)
          ELSE Goes(s, "pipe") /\ UNCHANGED answer
    /\ UNCHANGED <<hits, ran, effects>>

\* ValidationPipe with forbidNonWhitelisted.
ValidationPipe(s) ==
    /\ request[s].at = "pipe"
    /\ IF request[s].valid
          THEN Goes(s, "handler") /\ UNCHANGED answer
          ELSE Answer(s, 400)
    /\ UNCHANGED <<hits, ran, effects>>

\* HttpExceptionFilter.
StatusOf(exception) ==
    CASE exception = "P2002" -> 409
      [] exception = "P2003" -> 400
      [] exception \in {"P2025", "NotFoundException"} -> 404
      [] OTHER -> 500
Exceptions == {"P2002", "P2003", "P2025", "P2034", "NotFoundException", "Error"}

\* The handler commits and succeeds, or throws before its commit, or (an Error of
\* Redis after the commit) behind it.
Handler(s) ==
    LET x == request[s].route IN
    /\ request[s].at = "handler"
    /\ ran' = [ran EXCEPT ![x] = @ + 1]
    /\ \/ Answer(s, 200) /\ effects' = [effects EXCEPT ![s] = TRUE]
       \/ \E e \in Exceptions : Answer(s, StatusOf(e)) /\ UNCHANGED effects
       \/ Answer(s, StatusOf("Error")) /\ effects' = [effects EXCEPT ![s] = TRUE]
    /\ UNCHANGED hits

\* The throttler forgets: a minute is over.
Minute ==
    /\ hits # [x \in Routes |-> 0]
    /\ hits' = [x \in Routes |-> 0] /\ ran' = [x \in Routes |-> 0]
    /\ UNCHANGED <<request, answer, effects>>

Next ==
    \/ \E s \in Slots :
          \/ \E x \in Routes, t \in Tokens, b \in BOOLEAN : Arrive(s, x, t, b)
          \/ Read(s) \/ JwtAuthGuard(s) \/ ThrottlerGuard(s) \/ RolesGuard(s)
          \/ ValidationPipe(s) \/ Handler(s)
    \/ Minute

Spec == Init /\ [][Next]_vars

-----------------------------------------------------------------------------
(* Properties *)

Stages == {"free", "jwt", "throttler", "roles", "pipe", "handler", "answered"}
Statuses == {0, 200, 400, 401, 403, 404, 409, 429, 500}
TypeOK ==
    /\ request \in [Slots -> [route : Routes \cup {"none"}, token : Tokens,
                              valid : BOOLEAN, at : Stages]]
    /\ answer \in [Slots -> Statuses]
    /\ hits \in [Routes -> Nat] /\ ran \in [Routes -> Nat]
    /\ effects \in [Slots -> BOOLEAN]
    /\ \A s \in Slots :
          /\ (answer[s] # 0) = (request[s].at = "answered")
          /\ request[s].at # "free" => request[s].route \in Routes

\* A request that is refused with a status below 500 has changed nothing; what
\* changed something had the role that its route declares and a body of known
\* fields; and of one route no more handlers run in a minute than its limit
\* allows and were on their way when it began, even when the requests come in
\* at once (app.module.ts:24, 39-42, http-exception.filter.ts:40-64).
RefusalsAreClean ==
    /\ \A s \in Slots : answer[s] \in 400 .. 499 => ~effects[s]
    /\ \A s \in Slots :
          effects[s] =>
             /\ request[s].valid
             /\ request[s].route \in PublicRoutes \/ request[s].token # "none"
             /\ request[s].route \in AdminRoutes => request[s].token = "ADMIN"
    /\ \A x \in Routes : ran[x] <= LimitOf(x) + Cardinality(Slots)

\* Why: what each guard has let pass; and the requests that the throttler has
\* counted and the handler has not seen.
Allowed(s) ==
    LET q == request[s] IN
    /\ q.at \in {"throttler", "roles", "pipe", "handler"} =>
          q.route \in PublicRoutes \/ q.token # "none"
    /\ q.at \in {"pipe", "handler"} => (q.route \in AdminRoutes => q.token = "ADMIN")
    /\ q.at = "handler" => q.valid
    /\ effects[s] =>
          /\ answer[s] \in {200, 500} /\ q.valid
          /\ q.route \in PublicRoutes \/ q.token # "none"
          /\ q.route \in AdminRoutes => q.token = "ADMIN"
OnTheWay(x) == {s \in Slots : request[s].route = x /\ request[s].at \in {"roles", "pipe", "handler"}}
Throttled(x) ==
    /\ hits[x] <= LimitOf(x)
    /\ ran[x] + Cardinality(OnTheWay(x)) <= hits[x] + Cardinality(Slots)

GuardInv == TypeOK /\ (\A s \in Slots : Allowed(s)) /\ (\A x \in Routes : Throttled(x))
=============================================================================
