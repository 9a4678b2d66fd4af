------------------------------- MODULE SignIn -------------------------------
(***************************************************************************)
(* Signing in: the pages a visitor may open (router.tsx, ProtectedRoute,   *)
(* AdminRoute), the form of AuthPage and AuthService.register and login.   *)
(*                                                                         *)
(* An attempt is one submitted form.  It lives on when the visitor leaves  *)
(* the page: useLogin still puts its answer in the store, but the page     *)
(* that is gone does not navigate any more.  Somebody else may register    *)
(* the same address meanwhile.                                             *)
(***************************************************************************)
EXTENDS Naturals, FiniteSets

CONSTANTS
    Emails,         \* addresses
    Admins,         \* those of seeded administrators
    Attempts,       \* submitted forms
    PasswordTexts,  \* passwords the visitor tries
    Rivals          \* registrations sent by other browsers

\* What of a field matters: for an address, that it has an @ and that it is
\* one for the server; for a password, its length and which one it is.
NoEmail == "no_at"
Malformed == "at_only"
EmailTexts == Emails \cup {NoEmail, Malformed}
Passwords == {"short", "mine", "theirs", "over72"}

VARIABLES
    path,       \* the page that is shown
    from,       \* location.state.from, "/" when there is none
    mode,       \* AuthPage: login or register
    form,       \* AuthPage: its fields
    owner,      \* the attempt that the page shown has pending, or NoAttempt
    call,       \* call[a]: where the request of a is, or its answer
    sent,       \* sent[a]: what was sent, and from
    accounts,   \* accounts[e]: the password of the account, NoAccount if none
    user,       \* the user in the auth store, or NoUser
    wanted      \* history: the protected page that led to AuthPage, else "/"

NoAttempt == "none"
NoAccount == "none"
NoUser == "none"

pageVars == <<path, from, mode, form, owner, wanted>>
vars == <<pageVars, call, sent, accounts, user>>

Calls == Attempts \cup Rivals

-----------------------------------------------------------------------------
(* router.tsx, with one page for all of a kind that behave alike. *)

OpenPages == {"/", "/auth"}
ProtectedPages == {"/checkout"}
AdminPages == {"/admin"}
Paths == OpenPages \cup ProtectedPages \cup AdminPages

\* Mutant of AdminAllowed: any signed-in user will do.
AnyUserAllowed(u) == u # NoUser
AdminAllowed(u) == u \in Admins

\* ProtectedRoute and AdminRoute: the page shown to u who asks for p.
Routed(p, u) ==
    IF p \in ProtectedPages /\ u = NoUser THEN "/auth"
    ELSE IF p \in AdminPages /\ u = NoUser THEN "/auth"
    ELSE IF p \in AdminPages /\ ~AdminAllowed(u) THEN "/"
    ELSE p

\* Mutant of Remembered: the redirect carries no state.
NothingRemembered(p, u) == "/"
\* ProtectedRoute alone passes on where the visitor came from.
Remembered(p, u) == IF p \in ProtectedPages /\ u = NoUser THEN p ELSE "/"

EmptyForm == [email |-> NoEmail, password |-> "short"]

\* The visitor gets to p: a page that is not AuthPage forgets its form.
Goes(p, u) ==
    /\ path' = Routed(p, u)
    /\ from' = Remembered(p, u)
    /\ wanted' = IF p \in ProtectedPages /\ u = NoUser THEN p ELSE "/"
    /\ mode' = "login" /\ form' = EmptyForm /\ owner' = NoAttempt

Nothing == [mode |-> "register", form |-> EmptyForm, from |-> "/"]

Init ==
    /\ path = "/" /\ from = "/" /\ wanted = "/"
    /\ mode = "login" /\ form = EmptyForm /\ owner = NoAttempt
    /\ call = [a \in Calls |-> "idle"]
    /\ sent = [a \in Calls |-> Nothing]
    /\ accounts = [e \in Emails |-> IF e \in Admins THEN "mine" ELSE NoAccount]
    /\ user = NoUser

\* Links and the address bar of the pages; AuthPage has a way back.
Navigate(p) ==
    /\ p # path
    /\ Goes(p, user)
    /\ UNCHANGED <<call, sent, accounts, user>>

-----------------------------------------------------------------------------
(* AuthPage *)

Pending == owner # NoAttempt

\* What the page lets the visitor do.
Controls ==
    IF path # "/auth" THEN {}
    ELSE {"login", "register", "email", "password", "back"}
         \cup (IF Pending THEN {} ELSE {"submit"})

SetMode(m) ==
    /\ m \in Controls /\ m # mode
    /\ mode' = m
    /\ UNCHANGED <<path, from, wanted, form, owner, call, sent, accounts, user>>

Type(field, text) ==
    /\ field \in Controls
    /\ form[field] # text
    /\ form' = [form EXCEPT ![field] = text]
    /\ UNCHANGED <<path, from, wanted, mode, owner, call, sent, accounts, user>>

\* validate: no field has an error (a missing name is as good as a short password).
Valid(f) == f.email # NoEmail /\ f.password # "short"

\* handleSubmit.
Submit(a) ==
    /\ "submit" \in Controls
    /\ call[a] = "idle"
    /\ Valid(form)
    /\ call' = [call EXCEPT ![a] = "sent"]
    /\ sent' = [sent EXCEPT ![a] = [mode |-> mode, form |-> form, from |-> from]]
    /\ owner' = a
    /\ UNCHANGED <<path, from, wanted, mode, form, accounts, user>>

\* Another browser registers the same address with a password of its own.
RivalSubmits(a, e) ==
    /\ call[a] = "idle"
    /\ call' = [call EXCEPT ![a] = "sent"]
    /\ sent' = [sent EXCEPT ![a] = [mode |-> "register", from |-> "/",
                   form |-> [email |-> e, password |-> "theirs"]]]
    /\ UNCHANGED <<pageVars, accounts, user>>

-----------------------------------------------------------------------------
(* AuthController and AuthService *)

\* RegisterDto and LoginDto.
WellFormed(s) ==
    /\ s.form.email \in Emails
    /\ s.mode = "register" => s.form.password # "over72"

Answer(a, verdict) == call' = [call EXCEPT ![a] = verdict]

Reject(a) ==
    /\ call[a] = "sent" /\ ~WellFormed(sent[a])
    /\ Answer(a, "bad_request")
    /\ UNCHANGED <<pageVars, sent, accounts, user>>

\* findByEmail, then the compare of a login or the hash of a registration.
FindByEmail(a) ==
    LET s == sent[a]
        account == accounts[s.form.email] IN
    /\ call[a] = "sent" /\ WellFormed(s)
    /\ Answer(a, IF s.mode = "register"
                    THEN IF account = NoAccount THEN "hashing" ELSE "conflict"
                    ELSE IF account # NoAccount /\ account = s.form.password
                            THEN "granted" ELSE "unauthorized")
    /\ UNCHANGED <<pageVars, sent, accounts, user>>

\* Mutant of Unique: no unique index on User.email.
NotUnique(e) == TRUE
Unique(e) == accounts[e] = NoAccount

\* create: the unique index refuses an address taken since (P2002).
Create(a) ==
    LET f == sent[a].form IN
    /\ call[a] = "hashing"
    /\ IF Unique(f.email)
          THEN /\ accounts' = [accounts EXCEPT ![f.email] = f.password]
               /\ Answer(a, "granted")
          ELSE /\ Answer(a, "conflict")
               /\ UNCHANGED accounts
    /\ UNCHANGED <<pageVars, sent, user>>

-----------------------------------------------------------------------------
(* The answers in the browser *)

\* The hook's onSuccess fills the store; the page's navigates, if it is the
\* page that submitted.  The route of any other page looks at the new user.
Welcome(a) ==
    LET u == sent[a].form.email IN
    /\ a \in Attempts /\ call[a] = "granted"
    /\ Answer(a, "welcomed")
    /\ user' = u
    /\ IF owner = a THEN Goes(sent[a].from, u)
       ELSE IF Routed(path, u) = path THEN UNCHANGED pageVars
       ELSE Goes(path, u)
    /\ UNCHANGED <<sent, accounts>>

\* A toast, and the form can be submitted again.
Refused(a) ==
    /\ a \in Attempts /\ call[a] \in {"bad_request", "conflict", "unauthorized"}
    /\ Answer(a, "told")
    /\ sent' = [sent EXCEPT ![a] = Nothing]
    /\ owner' = IF owner = a THEN NoAttempt ELSE owner
    /\ UNCHANGED <<path, from, wanted, mode, form, accounts, user>>

\* The store is cleared ("Exit admin", the logout of the profile, a refused
\* refresh of Session.tla): a guarded page redirects, unless the navigation
\* to "/" of the same click comes first.
Leave ==
    /\ user # NoUser
    /\ user' = NoUser
    /\ IF Routed(path, NoUser) = path
          THEN UNCHANGED pageVars
          ELSE Goes(path, NoUser) \/ (path \in AdminPages /\ Goes("/", NoUser))
    /\ UNCHANGED <<call, sent, accounts>>

-----------------------------------------------------------------------------
Next ==
    \/ \E p \in Paths : Navigate(p)
    \/ \E m \in {"login", "register"} : SetMode(m)
    \/ \E e \in EmailTexts : Type("email", e)
    \/ \E w \in PasswordTexts : Type("password", w)
    \/ \E a \in Attempts : Submit(a) \/ Welcome(a) \/ Refused(a)
    \/ \E a \in Rivals, e \in Emails \ Admins : RivalSubmits(a, e)
    \/ \E a \in Calls : Reject(a) \/ FindByEmail(a) \/ Create(a)
    \/ Leave

Spec == Init /\ [][Next]_vars

-----------------------------------------------------------------------------
(* Properties *)

CallStates == {"idle", "sent", "hashing", "granted", "conflict", "unauthorized",
               "bad_request", "welcomed", "told"}
Forms == [email : EmailTexts, password : Passwords]

\* Types; and nobody is shown a page of another role, whatever is signed out
\* or answered late while it is open (AdminRoute.tsx, ProtectedRoute.tsx).
PageTypeOK ==
    /\ path \in Paths /\ from \in Paths /\ wanted \in Paths
    /\ mode \in {"login", "register"}
    /\ form \in Forms
    /\ owner \in Attempts \cup {NoAttempt}
    /\ user \in Emails \cup {NoUser}
CallTypeOK ==
    /\ call \in [Calls -> CallStates]
    /\ sent \in [Calls -> [mode : {"login", "register"}, form : Forms, from : Paths]]
    /\ accounts \in [Emails -> Passwords \cup {NoAccount}]
Guarded ==
    /\ path \in ProtectedPages => user # NoUser
    /\ path \in AdminPages => user \in Admins
TypeOK == PageTypeOK /\ CallTypeOK /\ Guarded

\* Of all registrations of one address that race, one creates the account,
\* and its password is the one that signs in afterwards: no answered success
\* is overwritten by another (auth.service.ts:23-28).
RegistrationsStand ==
    \A a \in Calls :
        /\ sent[a].mode = "register"
        /\ call[a] \in {"granted", "welcomed"}
        => accounts[sent[a].form.email] = sent[a].form.password

\* Whoever was sent to AuthPage by a protected page, and signs in there, gets
\* to that page, however often the form was refused or changed its mode
\* before (AuthPage.tsx:39-43).
WelcomedWhereWanted ==
    \A a \in Attempts :
        call[a] = "granted" /\ call'[a] = "welcomed" /\ owner = a => path' = wanted
ReturnsToWantedPage == [][WelcomedWhereWanted]_vars

\* Why a registration stands: only a registration hashes, and what was not
\* answered with an error has an address.
Registered ==
    /\ RegistrationsStand
    /\ \A a \in Calls :
          /\ call[a] = "hashing" => sent[a].mode = "register"
          /\ call[a] \in {"hashing", "granted", "welcomed"} => sent[a].form.email \in Emails

\* Why the visitor gets there: the page that is wanted is the one that the form
\* remembers, and sent along.
PageRemembers ==
    /\ from = wanted /\ from \in {"/"} \cup ProtectedPages
    /\ owner # NoAttempt => call[owner] # "idle" /\ sent[owner].from = from

SignInInv == TypeOK /\ Registered /\ PageRemembers
=============================================================================
