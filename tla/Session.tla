------------------------------- MODULE Session -------------------------------
(***************************************************************************)
(* The session of one account in one browser: AuthService's tokens, the    *)
(* cookie jar that the tabs share, the store of each tab and the axios     *)
(* client of each tab with its single-flight refresh.                      *)
(*                                                                         *)
(* issueTokens hands out an access and a refresh token together: both are  *)
(* the number of the pair, and 0 is none.  The store is persisted in       *)
(* localStorage but read by a tab only when it opens, so each tab has its  *)
(* own copy.                                                               *)
(***************************************************************************)
EXTENDS Naturals, Sequences, SequencesExt

CONSTANTS
    Tabs,
    Requests,       \* calls of the API other than /auth
    TabOf,          \* TabOf[r]: the tab that sends r
    BaseUrl,        \* path of VITE_API_URL, as a sequence of segments
    MaxTokens,      \* bound on the pairs issued before a new login
    Disturbances    \* may answers get lost and cookies expire?

VARIABLES
    issued,     \* number of the newest pair
    expired,    \* pairs whose access token has expired
    hash,       \* User.refreshTokenHash: the pair it was computed from
    jar,        \* the refreshToken cookie
    store,      \* store[t]: accessToken of tab t's auth store
    login,      \* login[t]: none, sent, or granted
    logout,     \* logout[t]: none, sent, done, or denied
    refresh,    \* refresh[t]: none, sent, matched, granted, or refused
    ticket,     \* ticket[t]: the cookie sent with, or pair granted by, a refresh
    badge,      \* badge[t]: the access token sent with a logout
    pass,       \* pass[t]: the pair granted by a login
    pc,         \* pc[r]: where request r is
    carries,    \* carries[r]: its access token
    sends,      \* sends[r]: how often it was sent (twice: _retry)
    signedOut,  \* history: a logout was served, and no login since
    patient,    \* do logouts overlap no other call of the browser?
    disturbed   \* history: something else than a tab ended the session

callVars == <<login, logout, refresh, ticket, badge, pass>>
requestVars == <<pc, carries, sends>>
serverVars == <<issued, hash>>
vars == <<serverVars, expired, jar, store, callVars, requestVars, signedOut, disturbed, patient>>

NONE == [t \in Tabs |-> "none"]
ZERO == [t \in Tabs |-> 0]

\* Either nobody is signed in, or every tab has read the pair of one login.
Init ==
    /\ issued \in {0, 1} /\ hash = issued /\ jar = issued
    /\ store = [t \in Tabs |-> issued]
    /\ expired = {}
    /\ login = NONE /\ logout = NONE /\ refresh = NONE
    /\ ticket = ZERO /\ badge = ZERO /\ pass = ZERO
    /\ pc = [r \in Requests |-> "idle"]
    /\ carries = [r \in Requests |-> 0]
    /\ sends = [r \in Requests |-> 0]
    /\ signedOut = FALSE /\ disturbed = FALSE /\ patient \in BOOLEAN

Pending(r) == pc[r] \in {"sent", "denied", "waiting"}
CallsQuiet == login = NONE /\ logout = NONE /\ refresh = NONE
BrowserQuiet == CallsQuiet /\ \A r \in Requests : ~Pending(r)

-----------------------------------------------------------------------------
(* Cookies (RFC 6265): one is sent to the paths below its own. *)

CookiePath == <<"auth">>
RefreshPath == BaseUrl \o <<"auth", "refresh">>
CookieIsSent == IsPrefix(CookiePath, RefreshPath)
SentCookie == IF CookieIsSent THEN jar ELSE 0

\* JwtAuthGuard: a bearer token is accepted until it expires; a logout does
\* not revoke it.
Valid(token) == token # 0 /\ token \notin expired

\* Mutant of Matches: only the newest refresh token has the stored hash.
MatchesExactly(token) == token = hash

\* bcrypt.compare reads 72 bytes, and those of a refresh token are the header
\* and the start of the account's id: every token of the account matches.
Matches(token) == token # 0 /\ hash # 0

-----------------------------------------------------------------------------
(* Login: AuthController.login, whose answer goes to setAuth. *)

Login(t) ==
    /\ store[t] = 0 /\ login[t] = "none"
    /\ issued < MaxTokens
    /\ patient => logout = NONE
    /\ login' = [login EXCEPT ![t] = "sent"]
    /\ UNCHANGED <<serverVars, expired, jar, store, logout, refresh, ticket, badge, pass,
                   requestVars, signedOut, disturbed>>

\* issueTokens signs a pair and stores its hash.
Issue == issued' = issued + 1 /\ hash' = issued + 1

LoginServed(t) ==
    /\ login[t] = "sent"
    /\ Issue
    /\ login' = [login EXCEPT ![t] = "granted"]
    /\ pass' = [pass EXCEPT ![t] = issued + 1]
    /\ signedOut' = FALSE
    /\ UNCHANGED <<expired, jar, store, logout, refresh, ticket, badge, requestVars, disturbed>>

\* setRefreshCookie and setAuth.
LoginAnswered(t) ==
    /\ login[t] = "granted"
    /\ jar' = pass[t]
    /\ store' = [store EXCEPT ![t] = pass[t]]
    /\ login' = [login EXCEPT ![t] = "none"]
    /\ pass' = [pass EXCEPT ![t] = 0]
    /\ UNCHANGED <<serverVars, expired, logout, refresh, ticket, badge, requestVars,
                   signedOut, disturbed>>

-----------------------------------------------------------------------------
(* Logout: it needs an access token that is still valid, and being below   *)
(* /auth/ it is not retried; useLogout clears the store either way.        *)

Logout(t) ==
    /\ store[t] # 0 /\ logout[t] = "none"
    /\ patient => BrowserQuiet
    /\ logout' = [logout EXCEPT ![t] = "sent"]
    /\ badge' = [badge EXCEPT ![t] = store[t]]
    /\ UNCHANGED <<serverVars, expired, jar, store, login, refresh, ticket, pass, requestVars,
                   signedOut, disturbed>>

\* Mutant of LoggedOut: the server keeps the hash.
KeepsHash == hash
LoggedOut == 0

LogoutServed(t) ==
    /\ logout[t] = "sent"
    /\ IF Valid(badge[t])
          THEN /\ hash' = LoggedOut
               /\ logout' = [logout EXCEPT ![t] = "done"]
               /\ signedOut' = TRUE /\ disturbed' = TRUE
          ELSE /\ logout' = [logout EXCEPT ![t] = "denied"]
               /\ UNCHANGED <<hash, signedOut, disturbed>>
    /\ UNCHANGED <<issued, expired, jar, store, login, refresh, ticket, badge, pass, requestVars>>

LogoutAnswered(t) ==
    /\ logout[t] \in {"done", "denied"}
    /\ jar' = IF logout[t] = "done" THEN 0 ELSE jar
    /\ store' = [store EXCEPT ![t] = 0]
    /\ logout' = [logout EXCEPT ![t] = "none"]
    /\ badge' = [badge EXCEPT ![t] = 0]
    /\ UNCHANGED <<serverVars, expired, login, refresh, ticket, pass, requestVars,
                   signedOut, disturbed>>

\* "Exit admin" of AdminSidebar clears the store and calls nobody.
ExitAdmin(t) ==
    /\ store[t] # 0
    /\ store' = [store EXCEPT ![t] = 0]
    /\ UNCHANGED <<serverVars, expired, jar, callVars, requestVars, signedOut, disturbed>>

-----------------------------------------------------------------------------
(* Requests of the API *)

\* The request interceptor attaches the token of the store.
Send(r) ==
    /\ pc[r] = "idle"
    /\ store[TabOf[r]] # 0
    /\ patient => logout = NONE
    /\ pc' = [pc EXCEPT ![r] = "sent"]
    /\ carries' = [carries EXCEPT ![r] = store[TabOf[r]]]
    /\ sends' = [sends EXCEPT ![r] = 1]
    /\ UNCHANGED <<serverVars, expired, jar, store, callVars, signedOut, disturbed>>

\* The server's verdict; an accepted answer changes nothing in the client.
Served(r) ==
    /\ pc[r] = "sent"
    /\ pc' = [pc EXCEPT ![r] = IF Valid(carries[r]) THEN "ok" ELSE "denied"]
    /\ UNCHANGED <<serverVars, expired, jar, store, callVars, carries, sends, signedOut, disturbed>>

\* Mutant of MayRetry: the _retry mark is forgotten.
AlwaysRetry(r) == TRUE
MayRetry(r) == sends[r] = 1

\* The response interceptor gets a 401: the first of a request joins the
\* refresh of its tab, or starts one with the cookie the browser sends along.
Denied(r) ==
    LET t == TabOf[r] IN
    /\ pc[r] = "denied"
    /\ \/ /\ MayRetry(r)
          /\ pc' = [pc EXCEPT ![r] = "waiting"]
          /\ IF refresh[t] = "none"
                THEN /\ refresh' = [refresh EXCEPT ![t] = "sent"]
                     /\ ticket' = [ticket EXCEPT ![t] = SentCookie]
                ELSE UNCHANGED <<refresh, ticket>>
       \/ /\ ~MayRetry(r)
          /\ pc' = [pc EXCEPT ![r] = "rejected"]
          /\ UNCHANGED <<refresh, ticket>>
    /\ UNCHANGED <<serverVars, expired, jar, store, login, logout, badge, pass, carries, sends,
                   signedOut, disturbed>>

-----------------------------------------------------------------------------
(* Refresh *)

\* JwtRefreshGuard and AuthService.refresh up to the comparison of the hash.
RefreshServed(t) ==
    /\ refresh[t] = "sent"
    /\ refresh' = [refresh EXCEPT ![t] = IF Matches(ticket[t]) THEN "matched" ELSE "refused"]
    /\ UNCHANGED <<serverVars, expired, jar, store, login, logout, ticket, badge, pass,
                   requestVars, signedOut, disturbed>>

\* issueTokens writes the hash without another look at the row.
RefreshIssues(t) ==
    /\ refresh[t] = "matched"
    /\ Issue
    /\ refresh' = [refresh EXCEPT ![t] = "granted"]
    /\ ticket' = [ticket EXCEPT ![t] = issued + 1]
    /\ UNCHANGED <<expired, jar, store, login, logout, badge, pass, requestVars,
                   signedOut, disturbed>>

Waiting(t) == {r \in Requests : TabOf[r] = t /\ pc[r] = "waiting"}

\* setAuth, then everybody who waits sends again with the new token.
RefreshGranted(t) ==
    /\ refresh[t] = "granted"
    /\ jar' = ticket[t]
    /\ store' = [store EXCEPT ![t] = ticket[t]]
    /\ refresh' = [refresh EXCEPT ![t] = "none"]
    /\ ticket' = [ticket EXCEPT ![t] = 0]
    /\ pc' = [r \in Requests |-> IF r \in Waiting(t) THEN "sent" ELSE pc[r]]
    /\ carries' = [r \in Requests |-> IF r \in Waiting(t) THEN ticket[t] ELSE carries[r]]
    /\ sends' = [r \in Requests |-> IF r \in Waiting(t) THEN sends[r] + 1 ELSE sends[r]]
    /\ UNCHANGED <<serverVars, expired, login, logout, badge, pass, signedOut, disturbed>>

\* Mutant of RejectWaiting: a failed refresh wakes nobody.
RejectNobody(t) == pc
RejectWaiting(t) == [r \in Requests |-> IF r \in Waiting(t) THEN "rejected" ELSE pc[r]]

\* clearAuth, and everybody who waits is rejected with their 401.
RefreshFails(t) ==
    /\ store' = [store EXCEPT ![t] = 0]
    /\ refresh' = [refresh EXCEPT ![t] = "none"]
    /\ ticket' = [ticket EXCEPT ![t] = 0]
    /\ pc' = RejectWaiting(t)
    /\ UNCHANGED <<serverVars, expired, jar, login, logout, badge, pass, carries, sends,
                   signedOut>>

RefreshRefused(t) ==
    /\ refresh[t] = "refused"
    /\ RefreshFails(t)
    /\ UNCHANGED disturbed

-----------------------------------------------------------------------------
(* Time and the network *)

Expire(n) ==
    /\ n \in 1 .. issued /\ n \notin expired
    /\ expired' = expired \cup {n}
    /\ UNCHANGED <<serverVars, jar, store, callVars, requestVars, signedOut, disturbed>>

\* The cookie's maxAge is the life of the refresh token in it.
CookieExpires ==
    /\ Disturbances /\ jar # 0
    /\ jar' = 0
    /\ disturbed' = TRUE
    /\ UNCHANGED <<serverVars, expired, store, callVars, requestVars, signedOut>>

\* A refresh, or its answer, is lost: the client takes any error for a no.
RefreshLost(t) ==
    /\ Disturbances /\ refresh[t] \in {"sent", "granted"}
    /\ RefreshFails(t)
    /\ disturbed' = TRUE

\* An error without a response is not retried.
RequestLost(r) ==
    /\ Disturbances /\ pc[r] = "sent"
    /\ pc' = [pc EXCEPT ![r] = "rejected"]
    /\ UNCHANGED <<serverVars, expired, jar, store, callVars, carries, sends, signedOut, disturbed>>

-----------------------------------------------------------------------------
RefreshStep(t) ==
    /\ RefreshServed(t) \/ RefreshIssues(t) \/ RefreshGranted(t) \/ RefreshRefused(t)
    /\ UNCHANGED patient
RequestStep(r) == (Served(r) \/ Denied(r)) /\ UNCHANGED patient

Step ==
    \/ \E t \in Tabs :
          \/ Login(t) \/ LoginServed(t) \/ LoginAnswered(t)
          \/ Logout(t) \/ LogoutServed(t) \/ LogoutAnswered(t)
          \/ ExitAdmin(t) \/ RefreshStep(t) \/ RefreshLost(t)
    \/ \E r \in Requests : Send(r) \/ RequestStep(r) \/ RequestLost(r)
    \/ \E n \in 1 .. issued : Expire(n)
    \/ CookieExpires

Next == Step /\ UNCHANGED patient

Spec == Init /\ [][Next]_vars

\* The server answers what it was sent; nothing obliges anybody to send.
FairSpec ==
    /\ Spec
    /\ \A t \in Tabs : WF_vars(RefreshStep(t))
    /\ \A r \in Requests : WF_vars(RequestStep(r))

-----------------------------------------------------------------------------
(* Properties *)

\* Types; and a request waits only for a refresh that is in flight, and is
\* sent at most twice (client.ts:42-51).
TypeOK ==
    /\ issued \in Nat /\ hash \in 0 .. issued /\ jar \in 0 .. issued
    /\ expired \subseteq 1 .. issued
    /\ store \in [Tabs -> 0 .. issued]
    /\ login \in [Tabs -> {"none", "sent", "granted"}]
    /\ logout \in [Tabs -> {"none", "sent", "done", "denied"}]
    /\ refresh \in [Tabs -> {"none", "sent", "matched", "granted", "refused"}]
    /\ ticket \in [Tabs -> 0 .. issued] /\ badge \in [Tabs -> 0 .. issued]
    /\ pass \in [Tabs -> 0 .. issued]
    /\ pc \in [Requests -> {"idle", "sent", "denied", "waiting", "ok", "rejected"}]
    /\ carries \in [Requests -> 0 .. issued]
    /\ sends \in [Requests -> 0 .. 2]
    /\ signedOut \in BOOLEAN /\ disturbed \in BOOLEAN /\ patient \in BOOLEAN
    /\ \A r \in Requests : pc[r] = "waiting" => refresh[TabOf[r]] # "none"

\* README, "Auth": the refresh token is good for seven days.  Until a logout,
\* the expiry of the cookie or a lost answer, a tab that is signed in stays
\* so, although access tokens expire and several tabs refresh at once.
TabsEndNoSession ==
    \A t \in Tabs :
        store[t] # 0 /\ store'[t] = 0 =>
           disturbed' \/ ExitAdmin(t) \/ LogoutAnswered(t)
TabsStaySignedIn == [][TabsEndNoSession]_vars

\* A logout that the server has served ends the session until somebody logs
\* in: no late refresh of any tab brings back the hash, or, once the logout is
\* answered, the cookie.  True when it does not overlap other calls.
LogoutIsFinal ==
    patient /\ signedOut => hash = 0 /\ (CallsQuiet => jar = 0)

\* What is granted is a pair, and a request joins a refresh once.
Granted ==
    /\ \A t \in Tabs : login[t] = "granted" => pass[t] # 0
    /\ \A t \in Tabs : refresh[t] = "granted" => ticket[t] # 0
    /\ \A r \in Requests : pc[r] = "waiting" => sends[r] = 1

\* Why tabs stay signed in: until something else ends the session, whoever needs
\* a refresh finds a cookie and a hash that accept it.
Renewable ==
    ~disturbed =>
        /\ jar # 0 => hash # 0
        /\ \A t \in Tabs :
              /\ store[t] # 0 => jar # 0
              /\ login[t] = "granted" \/ refresh[t] \in {"sent", "granted"} => hash # 0
              /\ refresh[t] = "sent" => ticket[t] # 0
              /\ refresh[t] # "refused" /\ logout[t] # "done"
        /\ \A r \in Requests : Pending(r) => jar # 0

\* Why a logout is final: a patient browser does nothing else meanwhile.
Alone ==
    patient => \A t \in Tabs : logout[t] # "none" =>
        /\ \A u \in Tabs : login[u] = "none" /\ refresh[u] = "none"
        /\ \A u \in Tabs \ {t} : logout[u] = "none"
        /\ \A r \in Requests : ~Pending(r)
Final ==
    patient /\ signedOut =>
        /\ hash = 0
        /\ \A t \in Tabs : login[t] # "granted" /\ refresh[t] \notin {"matched", "granted"}
        /\ jar = 0 \/ \E t \in Tabs : logout[t] = "done"

SessionInv == TypeOK /\ Granted /\ Alone /\ Final
RenewInv == CookieIsSent => Renewable

\* Every call of the API is answered or rejected: nobody waits for ever for a
\* refresh, whatever tokens expire and answers get lost (client.ts:43-51).
CallsSettle == \A r \in Requests : Pending(r) ~> ~Pending(r)
=============================================================================
