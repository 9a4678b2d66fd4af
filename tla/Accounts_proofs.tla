--------------------------- MODULE Accounts_proofs ---------------------------
(***************************************************************************)
(* Accounts, sessions and the guards of requests, for any number of        *)
(* visitors, tabs and requests: a registration stands, a visitor gets to   *)
(* the page that asked for the sign-in, a logout is final, tabs stay       *)
(* signed in, and a refused request has changed nothing.                   *)
(***************************************************************************)
EXTENDS Shop, FiniteSetTheorems, TLAPS

-----------------------------------------------------------------------------
(* Sign-in *)

LEMMA VisitorStarts ==
    ASSUME Init, part = "sign in" PROVE Visitor!Init
BY DEF Init

LEMMA VisitorSteps ==
    ASSUME [Next]_slots, part = "sign in"
    PROVE  part' = "sign in" /\ [Visitor!Next]_Visitor!vars
BY DEF Next, slots, Visitor!vars, Visitor!pageVars

\* Wherever a visitor asks to go, the page that is shown is one for them.
LEMMA RoutedIsAllowed ==
    ASSUME NEW p \in Visitor!Paths, NEW u
    PROVE  /\ Visitor!Routed(p, u) \in Visitor!Paths /\ Visitor!Remembered(p, u) \in Visitor!Paths
           /\ Visitor!Routed(p, u) \in Visitor!ProtectedPages => u # Visitor!NoUser
           /\ Visitor!Routed(p, u) \in Visitor!AdminPages => u \in Admins
BY DEF Visitor!Routed, Visitor!Remembered, Visitor!Paths, Visitor!OpenPages,
       Visitor!ProtectedPages, Visitor!AdminPages, Visitor!AdminAllowed

\* So a page that the visitor goes to has its type and its guard, and remembers
\* who asked for it.
LEMMA GoesSomewhere ==
    ASSUME NEW p \in Visitor!Paths, NEW u \in Emails \cup {Visitor!NoUser},
           Visitor!Goes(p, u), s9' = u
    PROVE  Visitor!PageTypeOK' /\ Visitor!Guarded' /\ Visitor!PageRemembers'
<1> DEFINE path == s1  from == s2  mode == s3  form == s4  owner == s5  wanted == s10
<1>1. /\ path' \in Visitor!Paths /\ from' \in Visitor!Paths /\ wanted' \in Visitor!Paths
      /\ path' \in Visitor!ProtectedPages => u # Visitor!NoUser
      /\ path' \in Visitor!AdminPages => u \in Admins
  BY RoutedIsAllowed DEF Visitor!Goes, Visitor!Paths, Visitor!OpenPages
<1>2. mode' = "login" /\ owner' = Visitor!NoAttempt /\ form' \in Visitor!Forms
  BY DEF Visitor!Goes, Visitor!EmptyForm, Visitor!EmailTexts, Visitor!Passwords,
         Visitor!Forms
<1>3. Visitor!PageRemembers'
  BY <1>2 DEF Visitor!Goes, Visitor!Remembered, Visitor!PageRemembers
<1> QED BY <1>1, <1>2, <1>3 DEF Visitor!PageTypeOK, Visitor!Guarded

LEMMA SignInInit ==
    ASSUME Visitor!Init PROVE Visitor!SignInInv
<1> USE DEF Visitor!Init
<1>1. Visitor!PageTypeOK /\ Visitor!CallTypeOK
  BY DEF Visitor!PageTypeOK, Visitor!CallTypeOK, Visitor!CallStates, Visitor!Forms,
         Visitor!Nothing, Visitor!EmptyForm, Visitor!EmailTexts, Visitor!Passwords,
         Visitor!Paths, Visitor!OpenPages
<1>2. Visitor!Guarded /\ Visitor!Registered /\ Visitor!PageRemembers
  BY DEF Visitor!Guarded, Visitor!Registered, Visitor!RegistrationsStand,
         Visitor!PageRemembers, Visitor!ProtectedPages, Visitor!AdminPages
<1> QED BY <1>1, <1>2 DEF Visitor!SignInInv, Visitor!TypeOK

\* Links, the form and signing out: no request changes.
LEMMA VisitorStep ==
    ASSUME Visitor!SignInInv,
           \/ \E p \in Visitor!Paths : Visitor!Navigate(p)
           \/ \E m \in {"login", "register"} : Visitor!SetMode(m)
           \/ \E e \in Visitor!EmailTexts : Visitor!Type("email", e)
           \/ \E w \in PasswordTexts : Visitor!Type("password", w)
           \/ Visitor!Leave
    PROVE  Visitor!SignInInv'
<1> DEFINE path == s1  user == s9
           Page == Visitor!PageTypeOK /\ Visitor!Guarded /\ Visitor!PageRemembers
<1> USE DEF Visitor!SignInInv, Visitor!TypeOK
<1>1. Visitor!CallTypeOK' /\ Visitor!Registered'
  BY DEF Visitor!Navigate, Visitor!SetMode, Visitor!Type, Visitor!Leave, Visitor!CallTypeOK,
         Visitor!Registered, Visitor!RegistrationsStand
<1>2. ASSUME NEW p \in Visitor!Paths, Visitor!Navigate(p) PROVE Page'
  <2>1. Visitor!Goes(p, user) /\ user' = user /\ user \in Emails \cup {Visitor!NoUser}
    BY <1>2 DEF Visitor!Navigate, Visitor!PageTypeOK
  <2> QED BY <2>1, GoesSomewhere
<1>3. ASSUME NEW m \in {"login", "register"}, Visitor!SetMode(m) PROVE Page'
  BY <1>3 DEF Visitor!SetMode, Visitor!PageTypeOK, Visitor!Guarded, Visitor!PageRemembers
<1>4. ASSUME NEW e \in Visitor!EmailTexts, Visitor!Type("email", e) PROVE Page'
  BY <1>4 DEF Visitor!Type, Visitor!PageTypeOK, Visitor!Guarded, Visitor!PageRemembers,
              Visitor!Forms
<1>5. ASSUME NEW w \in PasswordTexts, Visitor!Type("password", w) PROVE Page'
  BY <1>5, PasswordsAssumption
     DEF Visitor!Type, Visitor!PageTypeOK, Visitor!Guarded, Visitor!PageRemembers,
         Visitor!Forms, Visitor!Passwords
<1>6. ASSUME Visitor!Leave PROVE Page'
  <2>1. user' = Visitor!NoUser /\ path \in Visitor!Paths
    BY <1>6 DEF Visitor!Leave, Visitor!PageTypeOK
  <2>2. CASE Visitor!Routed(path, Visitor!NoUser) = path
    <3>1. UNCHANGED <<Visitor!pageVars, s6, s7>>
      BY <1>6, <2>2 DEF Visitor!Leave
    <3>2. Visitor!Guarded'
      BY <2>1, <2>2, <3>1, RoutedIsAllowed DEF Visitor!Guarded, Visitor!pageVars
    <3>3. Visitor!PageTypeOK' /\ Visitor!PageRemembers'
      BY <2>1, <3>1 DEF Visitor!PageTypeOK, Visitor!PageRemembers, Visitor!pageVars
    <3> QED BY <3>2, <3>3
  <2>3. CASE Visitor!Routed(path, Visitor!NoUser) # path
    <3>1. Visitor!Goes(path, Visitor!NoUser) \/ Visitor!Goes("/", Visitor!NoUser)
      BY <1>6, <2>3 DEF Visitor!Leave
    <3> QED BY <2>1, <3>1, GoesSomewhere DEF Visitor!Paths, Visitor!OpenPages
  <2> QED BY <2>2, <2>3
<1> QED BY <1>1, <1>2, <1>3, <1>4, <1>5, <1>6

\* A form is sent with the page that it remembers.
LEMMA SubmitStep ==
    ASSUME Visitor!SignInInv, NEW a \in Attempts, Visitor!Submit(a) PROVE Visitor!SignInInv'
<1> USE DEF Visitor!SignInInv, Visitor!TypeOK, Visitor!Submit
<1>1. Visitor!PageTypeOK' /\ Visitor!Guarded'
  BY DEF Visitor!PageTypeOK, Visitor!Guarded
<1>2. Visitor!CallTypeOK'
  BY DEF Visitor!CallTypeOK, Visitor!CallStates, Visitor!Calls, Visitor!PageTypeOK
<1>3. Visitor!Registered'
  BY DEF Visitor!Registered, Visitor!RegistrationsStand, Visitor!CallTypeOK, Visitor!Calls
<1>4. Visitor!PageRemembers'
  BY DEF Visitor!PageRemembers, Visitor!CallTypeOK, Visitor!Calls
<1> QED BY <1>1, <1>2, <1>3, <1>4

LEMMA RivalStep ==
    ASSUME Visitor!SignInInv, NEW a \in Rivals, NEW e \in Emails, Visitor!RivalSubmits(a, e)
    PROVE  Visitor!SignInInv'
<1> USE DEF Visitor!SignInInv, Visitor!TypeOK, Visitor!RivalSubmits
<1>1. Visitor!PageTypeOK' /\ Visitor!Guarded'
  BY DEF Visitor!PageTypeOK, Visitor!Guarded, Visitor!pageVars
<1>2. Visitor!CallTypeOK'
  BY DEF Visitor!CallTypeOK, Visitor!CallStates, Visitor!Calls, Visitor!Forms,
         Visitor!EmailTexts, Visitor!Passwords, Visitor!Paths, Visitor!OpenPages
<1>3. Visitor!Registered'
  BY DEF Visitor!Registered, Visitor!RegistrationsStand, Visitor!CallTypeOK, Visitor!Calls
<1>4. Visitor!PageRemembers'
  BY DEF Visitor!PageRemembers, Visitor!PageTypeOK, Visitor!CallTypeOK, Visitor!Calls,
         Visitor!pageVars
<1> QED BY <1>1, <1>2, <1>3, <1>4

\* The server: a registration that creates its account finds the address free,
\* so it takes it from no other registration.
LEMMA ServerStep ==
    ASSUME Visitor!SignInInv, NEW a \in Visitor!Calls,
           Visitor!Reject(a) \/ Visitor!FindByEmail(a) \/ Visitor!Create(a)
    PROVE  Visitor!SignInInv'
<1> DEFINE call == s6  sent == s7  accounts == s8
<1> USE DEF Visitor!SignInInv, Visitor!TypeOK
<1>1. Visitor!PageTypeOK' /\ Visitor!Guarded'
  BY DEF Visitor!Reject, Visitor!FindByEmail, Visitor!Create, Visitor!PageTypeOK,
         Visitor!Guarded, Visitor!pageVars
<1>2. ASSUME Visitor!Reject(a) PROVE Visitor!CallTypeOK' /\ Visitor!Registered'
  BY <1>2 DEF Visitor!Reject, Visitor!Answer, Visitor!CallTypeOK, Visitor!CallStates,
              Visitor!Registered, Visitor!RegistrationsStand
<1>3. ASSUME Visitor!FindByEmail(a) PROVE Visitor!CallTypeOK' /\ Visitor!Registered'
  <2>1. Visitor!CallTypeOK'
    BY <1>3 DEF Visitor!FindByEmail, Visitor!Answer, Visitor!CallTypeOK, Visitor!CallStates
  <2>2. sent[a].form.email \in Emails
    BY <1>3 DEF Visitor!FindByEmail, Visitor!WellFormed
  <2>3. /\ call'[a] # "welcomed"
        /\ call'[a] = "hashing" => sent[a].mode = "register"
        /\ call'[a] = "granted" => sent[a].mode # "register"
    BY <1>3 DEF Visitor!FindByEmail, Visitor!Answer, Visitor!CallTypeOK
  <2>4. /\ \A b \in Visitor!Calls \ {a} : call'[b] = call[b]
        /\ sent' = sent /\ accounts' = accounts
    BY <1>3 DEF Visitor!FindByEmail, Visitor!Answer, Visitor!CallTypeOK
  <2> QED BY <2>1, <2>2, <2>3, <2>4 DEF Visitor!Registered, Visitor!RegistrationsStand
<1>4. ASSUME Visitor!Create(a) PROVE Visitor!CallTypeOK' /\ Visitor!Registered'
  <2> DEFINE f == sent[a].form
  <2>1. f.email \in Emails /\ f.password \in Visitor!Passwords
    BY <1>4 DEF Visitor!Create, Visitor!CallTypeOK, Visitor!Forms, Visitor!Registered
  <2>2. sent' = sent /\ \A b \in Visitor!Calls \ {a} : call'[b] = call[b]
    BY <1>4 DEF Visitor!Create, Visitor!Answer, Visitor!CallTypeOK
  <2>3. CASE accounts[f.email] = Visitor!NoAccount
    <3>1. accounts' = [accounts EXCEPT ![f.email] = f.password] /\ call'[a] = "granted"
      BY <1>4, <2>3 DEF Visitor!Create, Visitor!Unique, Visitor!Answer, Visitor!CallTypeOK
    <3>2. Visitor!CallTypeOK'
      BY <1>4, <2>1, <2>3, <3>1
         DEF Visitor!Create, Visitor!Unique, Visitor!Answer, Visitor!CallTypeOK,
             Visitor!CallStates
    <3>3. ASSUME NEW b \in Visitor!Calls \ {a}, sent[b].mode = "register",
                 call[b] \in {"granted", "welcomed"}
          PROVE  accounts'[sent[b].form.email] = sent[b].form.password
      <4>1. accounts[sent[b].form.email] = sent[b].form.password
        BY <3>3 DEF Visitor!Registered, Visitor!RegistrationsStand
      <4>2. sent[b].form.password \in Visitor!Passwords
        BY DEF Visitor!CallTypeOK, Visitor!Forms
      <4>3. sent[b].form.email # f.email
        BY <2>3, <4>1, <4>2 DEF Visitor!NoAccount, Visitor!Passwords
      <4> QED BY <3>1, <4>1, <4>3, <2>1, <3>3 DEF Visitor!Registered, Visitor!CallTypeOK
    <3>4. accounts'[f.email] = f.password
      BY <2>1, <3>1 DEF Visitor!CallTypeOK
    <3> QED BY <2>1, <2>2, <3>1, <3>2, <3>3, <3>4
            DEF Visitor!Registered, Visitor!RegistrationsStand
  <2>4. CASE accounts[f.email] # Visitor!NoAccount
    BY <1>4, <2>2, <2>4
       DEF Visitor!Create, Visitor!Unique, Visitor!Answer, Visitor!CallTypeOK,
           Visitor!CallStates, Visitor!Registered, Visitor!RegistrationsStand
  <2> QED BY <2>3, <2>4
<1>5. Visitor!PageRemembers'
  <2>1. call[a] # "idle" /\ call'[a] # "idle" /\ UNCHANGED <<s1, s2, s5, s7, s10>>
    BY DEF Visitor!Reject, Visitor!FindByEmail, Visitor!Create, Visitor!Answer,
           Visitor!CallTypeOK, Visitor!pageVars
  <2>2. \A b \in Visitor!Calls \ {a} : call'[b] = call[b]
    BY DEF Visitor!Reject, Visitor!FindByEmail, Visitor!Create, Visitor!Answer,
           Visitor!CallTypeOK
  <2> QED BY <2>1, <2>2 DEF Visitor!PageRemembers, Visitor!PageTypeOK, Visitor!Calls
<1> QED BY <1>1, <1>2, <1>3, <1>4, <1>5

\* The answers in the browser.
LEMMA AnswerStep ==
    ASSUME Visitor!SignInInv, NEW a \in Attempts, Visitor!Welcome(a) \/ Visitor!Refused(a)
    PROVE  Visitor!SignInInv'
<1> DEFINE path == s1  from == s2  owner == s5  call == s6  sent == s7  user == s9
<1> USE DEF Visitor!SignInInv, Visitor!TypeOK
<1>1. a \in Visitor!Calls
  BY DEF Visitor!Calls
<1>2. ASSUME Visitor!Welcome(a) PROVE Visitor!SignInInv'
  <2> DEFINE u == sent[a].form.email
  <2>1. u \in Emails /\ sent[a].from \in Visitor!Paths /\ user' = u
    BY <1>1, <1>2 DEF Visitor!Welcome, Visitor!Registered, Visitor!CallTypeOK
  <2>2. Visitor!CallTypeOK' /\ Visitor!Registered'
    BY <1>1, <1>2 DEF Visitor!Welcome, Visitor!Answer, Visitor!CallTypeOK,
                      Visitor!CallStates, Visitor!Registered, Visitor!RegistrationsStand
  <2>3. \/ Visitor!Goes(sent[a].from, u) \/ Visitor!Goes(path, u)
        \/ Visitor!Routed(path, u) = path /\ UNCHANGED Visitor!pageVars /\ owner # a
    BY <1>2 DEF Visitor!Welcome
  <2>4. CASE Visitor!Routed(path, u) = path /\ UNCHANGED Visitor!pageVars /\ owner # a
    <3>1. path \in Visitor!Paths
      BY DEF Visitor!PageTypeOK
    <3>2. Visitor!Guarded'
      BY <2>1, <2>4, <3>1, RoutedIsAllowed DEF Visitor!Guarded, Visitor!pageVars
    <3>3. Visitor!PageTypeOK'
      BY <2>1, <2>4 DEF Visitor!PageTypeOK, Visitor!pageVars
    <3>4. sent' = sent /\ \A b \in Visitor!Calls \ {a} : call'[b] = call[b]
      BY <1>2 DEF Visitor!Welcome, Visitor!Answer, Visitor!CallTypeOK
    <3>5. Visitor!PageRemembers'
      BY <2>4, <3>4 DEF Visitor!PageRemembers, Visitor!PageTypeOK, Visitor!Calls,
                        Visitor!pageVars
    <3> QED BY <2>2, <3>2, <3>3, <3>5
  <2>5. CASE Visitor!Goes(sent[a].from, u) \/ Visitor!Goes(path, u)
    BY <2>1, <2>2, <2>5, GoesSomewhere DEF Visitor!PageTypeOK
  <2> QED BY <2>3, <2>4, <2>5
<1>3. ASSUME Visitor!Refused(a) PROVE Visitor!SignInInv'
  <2>1. Visitor!PageTypeOK' /\ Visitor!Guarded'
    BY <1>3 DEF Visitor!Refused, Visitor!PageTypeOK, Visitor!Guarded
  <2>2. Visitor!Nothing \in [mode : {"login", "register"}, form : Visitor!Forms,
                             from : Visitor!Paths]
    BY DEF Visitor!Nothing, Visitor!Forms, Visitor!EmptyForm, Visitor!EmailTexts,
           Visitor!Passwords, Visitor!Paths, Visitor!OpenPages
  <2>3. Visitor!CallTypeOK'
    BY <1>1, <1>3, <2>2 DEF Visitor!Refused, Visitor!Answer, Visitor!CallTypeOK,
                            Visitor!CallStates
  <2>4. Visitor!Registered'
    BY <1>1, <1>3 DEF Visitor!Refused, Visitor!Answer, Visitor!CallTypeOK,
                      Visitor!Registered, Visitor!RegistrationsStand
  <2>5. /\ owner' # a
        /\ \A b \in Visitor!Calls \ {a} : call'[b] = call[b] /\ sent'[b] = sent[b]
    BY <1>1, <1>3, NoneAssumption
       DEF Visitor!Refused, Visitor!Answer, Visitor!CallTypeOK, Visitor!NoAttempt
  <2>6. Visitor!PageRemembers'
    BY <1>3, <2>5 DEF Visitor!Refused, Visitor!PageRemembers, Visitor!PageTypeOK,
                      Visitor!Calls
  <2> QED BY <2>1, <2>3, <2>4, <2>6
<1> QED BY <1>2, <1>3

LEMMA SignInStep ==
    ASSUME Visitor!SignInInv, [Visitor!Next]_Visitor!vars PROVE Visitor!SignInInv'
<1>1. CASE UNCHANGED Visitor!vars
  BY <1>1 DEF Visitor!vars, Visitor!pageVars, Visitor!SignInInv, Visitor!TypeOK,
              Visitor!PageTypeOK, Visitor!CallTypeOK, Visitor!Guarded, Visitor!Registered,
              Visitor!RegistrationsStand, Visitor!PageRemembers
<1>2. CASE Visitor!Next
  BY <1>2, VisitorStep, SubmitStep, RivalStep, ServerStep, AnswerStep DEF Visitor!Next
<1> QED BY <1>1, <1>2

\* The inductive invariant of the sign-in: what was created is what its
\* registration sent, and a form remembers the page that led to it.
THEOREM SignInInvHolds == Spec => [](part = "sign in" => Visitor!SignInInv)
<1>1. Init => (part = "sign in" => Visitor!SignInInv)
  BY VisitorStarts, SignInInit
<1>2. (part = "sign in" => Visitor!SignInInv) /\ [Next]_slots
         => (part = "sign in" => Visitor!SignInInv)'
  <2>1. [Next]_slots => part' = part
    BY DEF Next, slots
  <2> QED BY <2>1, VisitorSteps, SignInStep
<1> QED BY <1>1, <1>2, PTL DEF Spec

\* Of all registrations of one address that race, one creates the account, and
\* its password is the one that signs in afterwards (auth.service.ts:23-28).
THEOREM OneRegistrationStands == Spec => []RegistrationsStand
<1>1. (part = "sign in" => Visitor!SignInInv) => RegistrationsStand
  BY DEF RegistrationsStand, Visitor!SignInInv, Visitor!Registered
<1> QED BY <1>1, SignInInvHolds, PTL

\* Whoever was sent to the form by a protected page, and signs in there, gets to
\* that page (AuthPage.tsx:39-43).
THEOREM VisitorsReturn == Spec => ReturnsToWantedPage
<1>1. ASSUME part = "sign in" => Visitor!SignInInv, [Next]_slots, part = "sign in"
      PROVE  Visitor!WelcomedWhereWanted
  <2> DEFINE owner == s5  call == s6  sent == s7  wanted == s10
  <2> SUFFICES ASSUME NEW a \in Attempts, call[a] = "granted", call'[a] = "welcomed", owner = a
               PROVE  s1' = wanted
    BY DEF Visitor!WelcomedWhereWanted
  <2>1. a # Visitor!NoAttempt /\ a \in Visitor!Calls
    BY NoneAssumption DEF Visitor!NoAttempt, Visitor!Calls
  <2>2. /\ call \in [Visitor!Calls -> Visitor!CallStates] /\ sent[a].from = wanted
        /\ wanted \in {"/"} \cup Visitor!ProtectedPages /\ sent[a].form.email \in Emails
    BY <1>1, <2>1 DEF Visitor!SignInInv, Visitor!TypeOK, Visitor!CallTypeOK,
                      Visitor!Registered, Visitor!PageRemembers
  <2>3. Visitor!Welcome(a)
    <3>1. Visitor!Next
      BY <1>1, VisitorSteps DEF Visitor!vars
    <3>2. ASSUME NEW b \in Attempts, Visitor!Submit(b) \/ Visitor!Refused(b) PROVE FALSE
      BY <2>1, <2>2, <3>2 DEF Visitor!Submit, Visitor!Refused, Visitor!Answer, Visitor!Calls
    <3>3. ASSUME NEW b \in Attempts, Visitor!Welcome(b) PROVE Visitor!Welcome(a)
      BY <2>1, <2>2, <3>3 DEF Visitor!Welcome, Visitor!Answer, Visitor!Calls
    <3>4. ASSUME NEW b \in Rivals, NEW e \in Emails, Visitor!RivalSubmits(b, e) PROVE FALSE
      BY <2>1, <2>2, <3>4 DEF Visitor!RivalSubmits, Visitor!Calls
    <3>5. ASSUME NEW b \in Visitor!Calls,
                 Visitor!Reject(b) \/ Visitor!FindByEmail(b) \/ Visitor!Create(b)
          PROVE  FALSE
      BY <2>1, <2>2, <3>5 DEF Visitor!Reject, Visitor!FindByEmail, Visitor!Create,
                              Visitor!Answer
    <3>6. ~UNCHANGED call
      BY <2>1
    <3> QED BY <3>1, <3>2, <3>3, <3>4, <3>5, <3>6
            DEF Visitor!Next, Visitor!Navigate, Visitor!SetMode, Visitor!Type, Visitor!Leave
  <2>4. Visitor!Goes(wanted, sent[a].form.email) /\ sent[a].form.email # Visitor!NoUser
    BY <2>2, <2>3, NoneAssumption DEF Visitor!Welcome, Visitor!NoUser
  <2> QED BY <2>2, <2>4 DEF Visitor!Goes, Visitor!Routed, Visitor!ProtectedPages,
                            Visitor!AdminPages
<1>2. (part = "sign in" => Visitor!SignInInv) /\ [Next]_slots
         => [part = "sign in" => Visitor!WelcomedWhereWanted]_slots
  BY <1>1
<1> QED BY <1>2, SignInInvHolds, PTL DEF Spec, ReturnsToWantedPage

-----------------------------------------------------------------------------
(* The request pipeline *)

LEMMA PipelineStarts ==
    ASSUME Init, part = "requests" PROVE Pipeline!Init
BY DEF Init

LEMMA PipelineSteps ==
    ASSUME [Next]_slots, part = "requests"
    PROVE  part' = "requests" /\ [Pipeline!Next]_Pipeline!vars
BY DEF Next, slots, Pipeline!vars

\* The instance counts as FiniteSets does.
LEMMA SameCardinality == \A S : Pipeline!Cardinality(S) = Cardinality(S)
BY DEF Pipeline!Cardinality, Cardinality

\* Every route has a limit.
LEMMA LimitType ==
    ASSUME NEW x PROVE Pipeline!LimitOf(x) \in Nat
BY SlotsAssumption DEF Pipeline!LimitOf

\* The requests between the throttler and their handler are some of the slots;
\* one joins them, or leaves them, at a time.
LEMMA WayIsFinite ==
    ASSUME NEW W, W \subseteq Slots
    PROVE  IsFiniteSet(W) /\ Cardinality(W) \in Nat /\ Cardinality(W) <= Cardinality(Slots)
BY SlotsAssumption, FS_Subset, FS_CardinalityType
LEMMA WayGrows ==
    ASSUME NEW W, W \subseteq Slots, NEW s \in Slots \ W
    PROVE  Cardinality(W \cup {s}) = Cardinality(W) + 1
BY WayIsFinite, FS_AddElement
LEMMA WayShrinks ==
    ASSUME NEW W, W \subseteq Slots, NEW s \in W
    PROVE  Cardinality(W \ {s}) = Cardinality(W) - 1
BY WayIsFinite, FS_RemoveElement

LEMMA PipelineInit ==
    ASSUME Pipeline!Init PROVE Pipeline!GuardInv
<1> DEFINE ran == s4  hits == s3
<1> USE DEF Pipeline!Init
<1>1. Pipeline!TypeOK
  BY DEF Pipeline!TypeOK, Pipeline!NoRequest, Pipeline!Tokens, Pipeline!Stages,
         Pipeline!Statuses
<1>2. \A s \in Slots : Pipeline!Allowed(s)
  BY DEF Pipeline!Allowed, Pipeline!NoRequest
<1>3. ASSUME NEW x \in Routes PROVE Pipeline!Throttled(x)
  <2>1. Pipeline!OnTheWay(x) = {} /\ hits[x] = 0 /\ ran[x] = 0
    BY DEF Pipeline!OnTheWay, Pipeline!NoRequest
  <2>2. Cardinality({}) = 0 /\ Cardinality(Slots) \in Nat
    BY FS_EmptySet, FS_CardinalityType, SlotsAssumption
  <2> QED BY <2>1, <2>2, LimitType, SameCardinality DEF Pipeline!Throttled
<1> QED BY <1>1, <1>2, <1>3 DEF Pipeline!GuardInv

\* What happens to one request is nothing to another.
Apart(s) == \A u \in Slots \ {s} : s1'[u] = s1[u] /\ s2'[u] = s2[u] /\ s5'[u] = s5[u]
LEMMA OthersAllowed ==
    ASSUME NEW s \in Slots, Apart(s), \A u \in Slots : Pipeline!Allowed(u), Pipeline!Allowed(s)'
    PROVE  \A u \in Slots : Pipeline!Allowed(u)'
BY DEF Apart, Pipeline!Allowed

\* A request that gets to another stage joins or leaves those on the way.
LEMMA WayOfOne ==
    ASSUME NEW s \in Slots, Pipeline!TypeOK, NEW stage \in Pipeline!Stages, Pipeline!Goes(s, stage),
           NEW x \in Routes
    PROVE  Pipeline!OnTheWay(x)' =
               IF s1[s].route # x THEN Pipeline!OnTheWay(x)
               ELSE IF stage \in {"roles", "pipe", "handler"} THEN Pipeline!OnTheWay(x) \cup {s}
               ELSE Pipeline!OnTheWay(x) \ {s}
<1>1. /\ \A u \in Slots \ {s} : s1'[u] = s1[u]
      /\ s1'[s].route = s1[s].route /\ s1'[s].at = stage
  BY DEF Pipeline!TypeOK, Pipeline!Goes
<1> QED BY <1>1 DEF Pipeline!OnTheWay

\* So one that is not counted by the throttler nor run makes them no more than
\* they were, if it was among them or gets off.
LEMMA WayKept ==
    ASSUME NEW s \in Slots, Pipeline!GuardInv, NEW stage \in Pipeline!Stages, Pipeline!Goes(s, stage),
           \/ s1[s].at \in {"roles", "pipe", "handler"}
           \/ stage \notin {"roles", "pipe", "handler"},
           UNCHANGED <<s3, s4>>
    PROVE  \A x \in Routes : Pipeline!Throttled(x)'
<1> SUFFICES ASSUME NEW x \in Routes PROVE Pipeline!Throttled(x)'
  OBVIOUS
<1>1. Pipeline!OnTheWay(x)' \subseteq Pipeline!OnTheWay(x) /\ Pipeline!OnTheWay(x) \subseteq Slots
  BY WayOfOne DEF Pipeline!GuardInv, Pipeline!OnTheWay
<1>2. Cardinality(Pipeline!OnTheWay(x)') <= Cardinality(Pipeline!OnTheWay(x))
  BY <1>1, WayIsFinite, FS_Subset
<1>3. Cardinality(Pipeline!OnTheWay(x)') \in Nat /\ Cardinality(Pipeline!OnTheWay(x)) \in Nat
      /\ Cardinality(Slots) \in Nat
  BY <1>1, WayIsFinite
<1> QED BY <1>2, <1>3, SameCardinality
        DEF Pipeline!GuardInv, Pipeline!Throttled, Pipeline!TypeOK

LEMMA ArriveStep ==
    ASSUME Pipeline!GuardInv, NEW s \in Slots, NEW x \in Routes, NEW t \in Pipeline!Tokens,
           NEW b \in BOOLEAN, Pipeline!Arrive(s, x, t, b)
    PROVE  Pipeline!GuardInv'
<1> USE DEF Pipeline!GuardInv, Pipeline!Arrive
<1>1. Pipeline!TypeOK' /\ Apart(s)
  BY DEF Pipeline!TypeOK, Pipeline!Stages, Apart
<1>2. Pipeline!Allowed(s)'
  BY DEF Pipeline!Allowed, Pipeline!TypeOK
<1>3. \A u \in Slots : Pipeline!Allowed(u)'
  BY <1>1, <1>2, OthersAllowed
<1>4. ASSUME NEW y \in Routes PROVE Pipeline!OnTheWay(y)' = Pipeline!OnTheWay(y)
  BY DEF Pipeline!OnTheWay, Pipeline!TypeOK
<1> QED BY <1>1, <1>3, <1>4 DEF Pipeline!Throttled

LEMMA ReadStep ==
    ASSUME Pipeline!GuardInv, NEW s \in Slots, Pipeline!Read(s) PROVE Pipeline!GuardInv'
<1> USE DEF Pipeline!GuardInv, Pipeline!Read
<1>1. Pipeline!TypeOK' /\ Apart(s)
  BY DEF Pipeline!TypeOK, Pipeline!Stages, Pipeline!Statuses, Pipeline!NoRequest,
         Pipeline!Tokens, Apart
<1>2. Pipeline!Allowed(s)'
  BY DEF Pipeline!Allowed, Pipeline!TypeOK, Pipeline!NoRequest
<1>3. \A u \in Slots : Pipeline!Allowed(u)'
  BY <1>1, <1>2, OthersAllowed
<1>4. ASSUME NEW y \in Routes PROVE Pipeline!OnTheWay(y)' = Pipeline!OnTheWay(y)
  BY DEF Pipeline!OnTheWay, Pipeline!TypeOK, Pipeline!NoRequest
<1> QED BY <1>1, <1>3, <1>4 DEF Pipeline!Throttled

\* The guards that count nothing.
LEMMA GuardsStep ==
    ASSUME Pipeline!GuardInv, NEW s \in Slots,
           Pipeline!JwtAuthGuard(s) \/ Pipeline!RolesGuard(s) \/ Pipeline!ValidationPipe(s)
    PROVE  Pipeline!GuardInv'
<1> USE DEF Pipeline!GuardInv, Pipeline!Answer
<1> DEFINE request == s1  answer == s2
<1>1. \E stage \in Pipeline!Stages :
         /\ Pipeline!Goes(s, stage)
         /\ request[s].at \in {"roles", "pipe"} \/ stage \notin {"roles", "pipe", "handler"}
  <2>1. CASE Pipeline!JwtAuthGuard(s)
    BY <2>1 DEF Pipeline!JwtAuthGuard, Pipeline!Stages
  <2>2. CASE Pipeline!RolesGuard(s)
    BY <2>2 DEF Pipeline!RolesGuard, Pipeline!Stages
  <2>3. CASE Pipeline!ValidationPipe(s)
    BY <2>3 DEF Pipeline!ValidationPipe, Pipeline!Stages
  <2> QED BY <2>1, <2>2, <2>3
<1>2. UNCHANGED <<s3, s4, s5>>
  BY DEF Pipeline!JwtAuthGuard, Pipeline!RolesGuard, Pipeline!ValidationPipe
<1>3. Pipeline!TypeOK' /\ Apart(s)
  BY DEF Pipeline!JwtAuthGuard, Pipeline!RolesGuard, Pipeline!ValidationPipe, Pipeline!Goes,
         Pipeline!TypeOK, Pipeline!Stages, Pipeline!Statuses, Apart
<1>4. Pipeline!Allowed(s)'
  BY DEF Pipeline!JwtAuthGuard, Pipeline!RolesGuard, Pipeline!ValidationPipe, Pipeline!Goes,
         Pipeline!TypeOK, Pipeline!Allowed
<1>5. \A x \in Routes : Pipeline!Throttled(x)'
  BY <1>1, <1>2, WayKept
<1> QED BY <1>3, <1>4, <1>5, OthersAllowed

\* The throttler counts a request before it lets it go on.
LEMMA ThrottlerStep ==
    ASSUME Pipeline!GuardInv, NEW s \in Slots, Pipeline!ThrottlerGuard(s)
    PROVE  Pipeline!GuardInv'
<1> DEFINE request == s1  hits == s3  ran == s4
<1> USE DEF Pipeline!GuardInv
<1>1. PICK x \in Routes : x = request[s].route /\ request[s].at = "throttler"
  BY DEF Pipeline!ThrottlerGuard, Pipeline!TypeOK
<1>2. CASE Pipeline!Exceeded(x)
  <2>1. Pipeline!Goes(s, "answered") /\ UNCHANGED <<s3, s4, s5>> /\ s2' = [s2 EXCEPT ![s] = 429]
    BY <1>1, <1>2 DEF Pipeline!ThrottlerGuard, Pipeline!Answer
  <2>2. Pipeline!TypeOK' /\ Apart(s) /\ Pipeline!Allowed(s)'
    BY <2>1, <1>1 DEF Pipeline!Goes, Pipeline!TypeOK, Pipeline!Stages, Pipeline!Statuses,
                      Apart,
                      Pipeline!Allowed
  <2>3. \A y \in Routes : Pipeline!Throttled(y)'
    BY <2>1, WayKept DEF Pipeline!Stages
  <2> QED BY <2>2, <2>3, OthersAllowed
<1>3. CASE ~Pipeline!Exceeded(x)
  <2>1. Pipeline!Goes(s, "roles") /\ UNCHANGED <<s2, s4, s5>> /\ hits' = [hits EXCEPT ![x] = @ + 1]
    BY <1>1, <1>3 DEF Pipeline!ThrottlerGuard
  <2>2. Pipeline!TypeOK' /\ Apart(s) /\ Pipeline!Allowed(s)'
    BY <2>1, <1>1 DEF Pipeline!Goes, Pipeline!TypeOK, Pipeline!Stages, Pipeline!Statuses,
                      Apart,
                      Pipeline!Allowed
  <2>3. ASSUME NEW y \in Routes \ {x} PROVE Pipeline!Throttled(y)'
    BY <1>1, <2>1, <2>3, WayOfOne DEF Pipeline!Stages, Pipeline!Throttled, Pipeline!TypeOK
  <2>4. Pipeline!Throttled(x)'
    <3> DEFINE way == Pipeline!OnTheWay(x)
    <3>1. way \subseteq Slots /\ s \notin way /\ way' = way \cup {s}
      BY <1>1, <2>1, WayOfOne DEF Pipeline!Stages, Pipeline!OnTheWay
    <3>2. Cardinality(way') = Cardinality(way) + 1 /\ Cardinality(way) \in Nat
      BY <3>1, WayGrows, WayIsFinite
    <3>3. hits[x] < Pipeline!LimitOf(x) /\ hits'[x] = hits[x] + 1 /\ ran' = ran
      BY <1>1, <1>3, <2>1, LimitType DEF Pipeline!Exceeded, Pipeline!TypeOK
    <3>4. Cardinality(Slots) \in Nat /\ Pipeline!LimitOf(x) \in Nat /\ hits[x] \in Nat /\ ran[x] \in Nat
      BY <1>1, WayIsFinite, LimitType DEF Pipeline!TypeOK
    <3>5. ran[x] + Cardinality(way) <= hits[x] + Cardinality(Slots)
      BY <1>1, SameCardinality DEF Pipeline!Throttled
    <3> QED BY <3>2, <3>3, <3>4, <3>5, SameCardinality DEF Pipeline!Throttled
  <2> QED BY <2>2, <2>3, <2>4, OthersAllowed
<1> QED BY <1>2, <1>3

\* A handler that runs is one fewer on the way; it answers an error below 500
\* only if it has changed nothing.
LEMMA HandlerStep ==
    ASSUME Pipeline!GuardInv, NEW s \in Slots, Pipeline!Handler(s) PROVE Pipeline!GuardInv'
<1> DEFINE request == s1  answer == s2  hits == s3  ran == s4  effects == s5
<1> USE DEF Pipeline!GuardInv
<1>1. PICK x \in Routes : x = request[s].route /\ request[s].at = "handler"
  BY DEF Pipeline!Handler, Pipeline!TypeOK
<1>2. PICK status \in {200, 400, 404, 409, 500} :
         /\ Pipeline!Answer(s, status)
         /\ \/ UNCHANGED effects
            \/ effects' = [effects EXCEPT ![s] = TRUE] /\ status \in {200, 500}
  <2>1. \A e \in Pipeline!Exceptions : Pipeline!StatusOf(e) \in {400, 404, 409, 500}
    BY DEF Pipeline!StatusOf, Pipeline!Exceptions
  <2>2. Pipeline!StatusOf("Error") = 500
    BY DEF Pipeline!StatusOf
  <2>3. \/ Pipeline!Answer(s, 200) /\ effects' = [effects EXCEPT ![s] = TRUE]
        \/ \E e \in Pipeline!Exceptions :
              Pipeline!Answer(s, Pipeline!StatusOf(e)) /\ UNCHANGED effects
        \/ Pipeline!Answer(s, 500) /\ effects' = [effects EXCEPT ![s] = TRUE]
    BY <2>2 DEF Pipeline!Handler
  <2> QED BY <2>1, <2>3
<1>3. /\ Pipeline!Goes(s, "answered") /\ answer' = [answer EXCEPT ![s] = status]
      /\ ran' = [ran EXCEPT ![x] = @ + 1] /\ UNCHANGED hits
  BY <1>1, <1>2 DEF Pipeline!Handler, Pipeline!Answer
<1>4. Pipeline!TypeOK' /\ Apart(s)
  <2>1. answer' \in [Slots -> Pipeline!Statuses] /\ answer'[s] # 0
    BY <1>2, <1>3 DEF Pipeline!TypeOK, Pipeline!Statuses
  <2>2. effects' \in [Slots -> BOOLEAN] /\ \A u \in Slots \ {s} : effects'[u] = effects[u]
    <3>1. CASE UNCHANGED effects
      BY <3>1 DEF Pipeline!TypeOK
    <3>2. CASE effects' = [effects EXCEPT ![s] = TRUE]
      BY <3>2 DEF Pipeline!TypeOK
    <3> QED BY <1>2, <3>1, <3>2
  <2>3. \A u \in Slots \ {s} : answer'[u] = answer[u] /\ request'[u] = request[u]
    BY <1>3 DEF Pipeline!TypeOK, Pipeline!Goes
  <2>4. /\ request' \in [Slots -> [route : Routes \cup {"none"}, token : Pipeline!Tokens,
                                 valid : BOOLEAN, at : Pipeline!Stages]]
        /\ request'[s].at = "answered" /\ request'[s].route = x
    BY <1>1, <1>3 DEF Pipeline!TypeOK, Pipeline!Goes, Pipeline!Stages
  <2>5. hits' \in [Routes -> Nat] /\ ran' \in [Routes -> Nat]
    BY <1>3 DEF Pipeline!TypeOK
  <2> QED BY <2>1, <2>2, <2>3, <2>4, <2>5 DEF Pipeline!TypeOK, Apart
<1>5. Pipeline!Allowed(s)'
  <2>1. ~effects[s]
    BY <1>1 DEF Pipeline!Allowed, Pipeline!TypeOK
  <2>2. effects'[s] => answer'[s] \in {200, 500}
    BY <1>2, <1>3, <2>1 DEF Pipeline!TypeOK
  <2>3. request'[s] = [request[s] EXCEPT !.at = "answered"]
    BY <1>3 DEF Pipeline!Goes, Pipeline!TypeOK
  <2> QED BY <1>1, <2>2, <2>3 DEF Pipeline!TypeOK, Pipeline!Allowed
<1>6. ASSUME NEW y \in Routes \ {x} PROVE Pipeline!Throttled(y)'
  BY <1>1, <1>3, <1>6, WayOfOne DEF Pipeline!Stages, Pipeline!Throttled, Pipeline!TypeOK
<1>7. Pipeline!Throttled(x)'
  <2> DEFINE way == Pipeline!OnTheWay(x)
  <2>1. way \subseteq Slots /\ s \in way /\ way' = way \ {s}
    BY <1>1, <1>3, WayOfOne DEF Pipeline!Stages, Pipeline!OnTheWay
  <2>2. Cardinality(way') = Cardinality(way) - 1 /\ Cardinality(way) \in Nat
    BY <2>1, WayShrinks, WayIsFinite
  <2>3. ran'[x] = ran[x] + 1 /\ hits' = hits
    BY <1>3 DEF Pipeline!TypeOK
  <2>4. Cardinality(Slots) \in Nat /\ hits[x] \in Nat /\ ran[x] \in Nat
    BY WayIsFinite DEF Pipeline!TypeOK
  <2>5. hits[x] <= Pipeline!LimitOf(x) /\ ran[x] + Cardinality(way) <= hits[x] + Cardinality(Slots)
    BY SameCardinality DEF Pipeline!Throttled
  <2> QED BY <2>2, <2>3, <2>4, <2>5, SameCardinality DEF Pipeline!Throttled
<1> QED BY <1>4, <1>5, <1>6, <1>7, OthersAllowed

\* After a minute the throttler counts from 0, and no more requests are on
\* their way than there are.
LEMMA MinuteStep ==
    ASSUME Pipeline!GuardInv, Pipeline!Minute PROVE Pipeline!GuardInv'
<1> DEFINE hits == s3  ran == s4
<1> USE DEF Pipeline!GuardInv, Pipeline!Minute
<1>1. Pipeline!TypeOK'
  BY DEF Pipeline!TypeOK
<1>2. \A s \in Slots : Pipeline!Allowed(s)'
  BY DEF Pipeline!Allowed
<1>3. ASSUME NEW x \in Routes PROVE Pipeline!Throttled(x)'
  <2>1. hits'[x] = 0 /\ ran'[x] = 0 /\ Pipeline!OnTheWay(x)' = Pipeline!OnTheWay(x)
        /\ Pipeline!OnTheWay(x) \subseteq Slots
    BY DEF Pipeline!OnTheWay
  <2>2. /\ Cardinality(Pipeline!OnTheWay(x)) <= Cardinality(Slots)
        /\ Cardinality(Pipeline!OnTheWay(x)) \in Nat /\ Cardinality(Slots) \in Nat
    BY <2>1, WayIsFinite
  <2> QED BY <2>1, <2>2, LimitType, SameCardinality DEF Pipeline!Throttled
<1> QED BY <1>1, <1>2, <1>3

LEMMA PipelineStep ==
    ASSUME Pipeline!GuardInv, [Pipeline!Next]_Pipeline!vars PROVE Pipeline!GuardInv'
<1>1. CASE UNCHANGED Pipeline!vars
  BY <1>1 DEF Pipeline!vars, Pipeline!GuardInv, Pipeline!TypeOK, Pipeline!Allowed,
              Pipeline!Throttled, Pipeline!OnTheWay
<1>2. CASE Pipeline!Next
  BY <1>2, ArriveStep, ReadStep, GuardsStep, ThrottlerStep, HandlerStep, MinuteStep
     DEF Pipeline!Next
<1> QED BY <1>1, <1>2

\* The inductive invariant of the pipeline: what each guard has let pass, and
\* that no more handlers ran than requests were counted and stood behind the
\* throttler when the minute began.
THEOREM GuardInvHolds == Spec => [](part = "requests" => Pipeline!GuardInv)
<1>1. Init => (part = "requests" => Pipeline!GuardInv)
  BY PipelineStarts, PipelineInit
<1>2. (part = "requests" => Pipeline!GuardInv) /\ [Next]_slots
         => (part = "requests" => Pipeline!GuardInv)'
  <2>1. [Next]_slots => part' = part
    BY DEF Next, slots
  <2> QED BY <2>1, PipelineSteps, PipelineStep
<1> QED BY <1>1, <1>2, PTL DEF Spec

\* What is refused has changed nothing, what changed something was allowed to,
\* and the limit of a route holds when requests come in at once
\* (app.module.ts:24, 39-42, http-exception.filter.ts:40-64).
THEOREM RefusedRequestsAreClean == Spec => []RefusalsAreClean
<1>1. (part = "requests" => Pipeline!GuardInv) => RefusalsAreClean
  <2> SUFFICES ASSUME part = "requests", Pipeline!GuardInv PROVE Pipeline!RefusalsAreClean
    BY DEF RefusalsAreClean
  <2> DEFINE hits == s3  ran == s4
  <2> USE DEF Pipeline!GuardInv
  <2>1. ASSUME NEW x \in Routes
        PROVE  ran[x] <= Pipeline!LimitOf(x) + Pipeline!Cardinality(Slots)
    <3>1. Pipeline!OnTheWay(x) \subseteq Slots
      BY DEF Pipeline!OnTheWay
    <3>2. Cardinality(Pipeline!OnTheWay(x)) \in Nat /\ Cardinality(Slots) \in Nat
      BY <3>1, WayIsFinite
    <3> QED BY <3>2, LimitType, SameCardinality DEF Pipeline!Throttled, Pipeline!TypeOK
  <2>2. \A s \in Slots : Pipeline!Allowed(s)
    OBVIOUS
  <2> QED BY <2>1, <2>2 DEF Pipeline!RefusalsAreClean, Pipeline!Allowed, Pipeline!TypeOK
<1> QED BY <1>1, GuardInvHolds, PTL

-----------------------------------------------------------------------------
(* The session *)

LEMMA BrowserStarts ==
    ASSUME Init, part = "session" PROVE Browser!Init
BY DEF Init

LEMMA BrowserSteps ==
    ASSUME [Next]_slots, part = "session"
    PROVE  part' = "session" /\ [Browser!Next]_Browser!vars
BY DEF Next, slots, Browser!vars, Browser!serverVars, Browser!callVars, Browser!requestVars

LEMMA SessionInit ==
    ASSUME Browser!Init PROVE Browser!SessionInv /\ Browser!RenewInv
<1> USE DEF Browser!Init, Browser!NONE, Browser!ZERO
<1>1. Browser!TypeOK
  <2>1. s1 \in Nat /\ s1 \in 0 .. s1 /\ 0 \in 0 .. s1
    OBVIOUS
  <2>2. /\ s2 \subseteq 1 .. s1 /\ s5 \in [Tabs -> 0 .. s1] /\ s9 \in [Tabs -> 0 .. s1]
        /\ s10 \in [Tabs -> 0 .. s1] /\ s11 \in [Tabs -> 0 .. s1] /\ s13 \in [Requests -> 0 .. s1]
    BY <2>1
  <2>3. /\ s6 \in [Tabs -> {"none", "sent", "granted"}]
        /\ s7 \in [Tabs -> {"none", "sent", "done", "denied"}]
        /\ s8 \in [Tabs -> {"none", "sent", "matched", "granted", "refused"}]
        /\ s12 \in [Requests -> {"idle", "sent", "denied", "waiting", "ok", "rejected"}]
        /\ s14 \in [Requests -> 0 .. 2] /\ \A r \in Requests : s12[r] # "waiting"
    OBVIOUS
  <2> QED BY <2>1, <2>2, <2>3 DEF Browser!TypeOK
<1>2. Browser!Granted /\ Browser!Alone /\ Browser!Final
  BY DEF Browser!Granted, Browser!Alone, Browser!Final, Browser!Pending
<1>3. Browser!Renewable
  BY DEF Browser!Renewable, Browser!Pending
<1> QED BY <1>1, <1>2, <1>3 DEF Browser!SessionInv, Browser!RenewInv

\* What is the number of a pair stays one when another is issued.
LEMMA PairsGrow ==
    ASSUME NEW n \in Nat
    PROVE  /\ n + 1 \in Nat /\ n + 1 \in 0 .. n + 1 /\ 0 .. n \subseteq 0 .. n + 1
           /\ \A S \in SUBSET (1 .. n) : S \subseteq 1 .. n + 1
           /\ \A D : \A f \in [D -> 0 .. n] : f \in [D -> 0 .. n + 1]
OBVIOUS

\* Logins: the pair that is issued is the newest.
LEMMA LoginTypes ==
    ASSUME Browser!SessionInv, NEW t \in Tabs,
           Browser!Login(t) \/ Browser!LoginServed(t) \/ Browser!LoginAnswered(t), UNCHANGED s16
    PROVE  Browser!TypeOK' /\ Browser!Granted'
<1> USE DEF Browser!SessionInv
<1>1. ASSUME Browser!Login(t) PROVE Browser!TypeOK' /\ Browser!Granted'
  BY <1>1 DEF Browser!Login, Browser!TypeOK, Browser!Granted, Browser!serverVars,
              Browser!requestVars
<1>2. ASSUME Browser!LoginServed(t) PROVE Browser!TypeOK' /\ Browser!Granted'
  <2>1. /\ s1 \in Nat /\ s1' = s1 + 1 /\ s3' = s1 + 1
        /\ s6' = [s6 EXCEPT ![t] = "granted"] /\ s11' = [s11 EXCEPT ![t] = s1 + 1]
        /\ s15' = FALSE
        /\ UNCHANGED <<s2, s4, s5, s7, s8, s9, s10, s12, s13, s14, s17>>
    BY <1>2 DEF Browser!LoginServed, Browser!Issue, Browser!TypeOK, Browser!requestVars
  <2>2. s3' \in 0 .. s1' /\ s2' \subseteq 1 .. s1' /\ s4' \in 0 .. s1'
    BY <2>1, PairsGrow DEF Browser!TypeOK
  <2>3. /\ s5' \in [Tabs -> 0 .. s1'] /\ s9' \in [Tabs -> 0 .. s1']
        /\ s10' \in [Tabs -> 0 .. s1'] /\ s13' \in [Requests -> 0 .. s1']
        /\ s11 \in [Tabs -> 0 .. s1']
    BY <2>1, PairsGrow DEF Browser!TypeOK
  <2>4. s11' \in [Tabs -> 0 .. s1'] /\ s6' \in [Tabs -> {"none", "sent", "granted"}]
    BY <2>1, <2>3, PairsGrow DEF Browser!TypeOK
  <2>5. Browser!Granted'
    BY <2>1 DEF Browser!Granted, Browser!TypeOK
  <2>6. s1' \in Nat /\ UNCHANGED <<s7, s8, s12, s14>>
    BY <2>1
  <2>7. s15' \in BOOLEAN /\ s16' \in BOOLEAN /\ s17' \in BOOLEAN
    BY <2>1, Zenon DEF Browser!TypeOK
  <2> QED BY <2>2, <2>3, <2>4, <2>5, <2>6, <2>7 DEF Browser!TypeOK
<1>3. ASSUME Browser!LoginAnswered(t) PROVE Browser!TypeOK' /\ Browser!Granted'
  BY <1>3 DEF Browser!LoginAnswered, Browser!TypeOK, Browser!Granted, Browser!serverVars,
              Browser!requestVars
<1> QED BY <1>1, <1>2, <1>3

\* Logouts, and what clears the store of a tab without one.
LEMMA LogoutTypes ==
    ASSUME Browser!SessionInv, NEW t \in Tabs,
           \/ Browser!Logout(t) \/ Browser!LogoutServed(t) \/ Browser!LogoutAnswered(t)
           \/ Browser!ExitAdmin(t),
           UNCHANGED s16
    PROVE  Browser!TypeOK' /\ Browser!Granted'
<1> USE DEF Browser!SessionInv, Browser!serverVars, Browser!requestVars, Browser!callVars
<1>1. ASSUME Browser!Logout(t) PROVE Browser!TypeOK' /\ Browser!Granted'
  BY <1>1 DEF Browser!Logout, Browser!TypeOK, Browser!Granted
<1>2. ASSUME Browser!LogoutServed(t) PROVE Browser!TypeOK' /\ Browser!Granted'
  <2>1. /\ s3' \in {0, s3} /\ s7' \in [Tabs -> {"none", "sent", "done", "denied"}]
        /\ s15' \in BOOLEAN /\ s17' \in BOOLEAN
        /\ UNCHANGED <<s1, s2, s4, s5, s6, s8, s9, s10, s11, s12, s13, s14>>
    BY <1>2 DEF Browser!LogoutServed, Browser!LoggedOut, Browser!TypeOK
  <2>2. 0 \in 0 .. s1
    BY DEF Browser!TypeOK
  <2> QED BY <2>1, <2>2 DEF Browser!TypeOK, Browser!Granted
<1>3. ASSUME Browser!LogoutAnswered(t) PROVE Browser!TypeOK' /\ Browser!Granted'
  BY <1>3 DEF Browser!LogoutAnswered, Browser!TypeOK, Browser!Granted
<1>4. ASSUME Browser!ExitAdmin(t) PROVE Browser!TypeOK' /\ Browser!Granted'
  BY <1>4 DEF Browser!ExitAdmin, Browser!TypeOK, Browser!Granted
<1> QED BY <1>1, <1>2, <1>3, <1>4

\* A tab has the requests of its own.
LEMMA RequestTypes ==
    ASSUME Browser!SessionInv, NEW r \in Requests,
           \/ Browser!Send(r) \/ Browser!Served(r) \/ Browser!Denied(r) \/ Browser!RequestLost(r),
           UNCHANGED s16
    PROVE  Browser!TypeOK' /\ Browser!Granted'
<1> USE TabOfAssumption
    DEF Browser!SessionInv, Browser!serverVars, Browser!requestVars, Browser!callVars
<1>1. ASSUME Browser!Send(r) PROVE Browser!TypeOK' /\ Browser!Granted'
  BY <1>1 DEF Browser!Send, Browser!TypeOK, Browser!Granted
<1>2. ASSUME Browser!Served(r) PROVE Browser!TypeOK' /\ Browser!Granted'
  BY <1>2 DEF Browser!Served, Browser!TypeOK, Browser!Granted
<1>3. ASSUME Browser!Denied(r) PROVE Browser!TypeOK' /\ Browser!Granted'
  BY <1>3 DEF Browser!Denied, Browser!MayRetry, Browser!SentCookie, Browser!TypeOK,
              Browser!Granted
<1>4. ASSUME Browser!RequestLost(r) PROVE Browser!TypeOK' /\ Browser!Granted'
  BY <1>4 DEF Browser!RequestLost, Browser!TypeOK, Browser!Granted
<1> QED BY <1>1, <1>2, <1>3, <1>4

\* A refresh, and what wakes those who wait for it.
LEMMA RefreshTypes ==
    ASSUME Browser!SessionInv, NEW t \in Tabs,
           \/ Browser!RefreshServed(t) \/ Browser!RefreshIssues(t) \/ Browser!RefreshGranted(t)
           \/ Browser!RefreshRefused(t) \/ Browser!RefreshLost(t),
           UNCHANGED s16
    PROVE  Browser!TypeOK' /\ Browser!Granted'
<1> USE TabOfAssumption
    DEF Browser!SessionInv, Browser!serverVars, Browser!requestVars, Browser!callVars
<1>1. ASSUME Browser!RefreshServed(t) PROVE Browser!TypeOK' /\ Browser!Granted'
  BY <1>1 DEF Browser!RefreshServed, Browser!TypeOK, Browser!Granted
<1>2. ASSUME Browser!RefreshIssues(t) PROVE Browser!TypeOK' /\ Browser!Granted'
  BY <1>2 DEF Browser!RefreshIssues, Browser!Issue, Browser!TypeOK, Browser!Granted
<1>3. ASSUME Browser!RefreshGranted(t) PROVE Browser!TypeOK' /\ Browser!Granted'
  BY <1>3 DEF Browser!RefreshGranted, Browser!Waiting, Browser!TypeOK, Browser!Granted
<1>4. ASSUME Browser!RefreshFails(t), s17' \in BOOLEAN PROVE Browser!TypeOK' /\ Browser!Granted'
  BY <1>4 DEF Browser!RefreshFails, Browser!RejectWaiting, Browser!Waiting, Browser!TypeOK,
              Browser!Granted
<1>5. Browser!RefreshRefused(t) \/ Browser!RefreshLost(t) => s17' \in BOOLEAN
  BY DEF Browser!RefreshRefused, Browser!RefreshLost, Browser!TypeOK
<1> QED BY <1>1, <1>2, <1>3, <1>4, <1>5 DEF Browser!RefreshRefused, Browser!RefreshLost

\* Time.
LEMMA TimeTypes ==
    ASSUME Browser!SessionInv, Browser!CookieExpires \/ \E n \in 1 .. s1 : Browser!Expire(n),
           UNCHANGED s16
    PROVE  Browser!TypeOK' /\ Browser!Granted'
<1> USE DEF Browser!SessionInv, Browser!TypeOK, Browser!Granted, Browser!serverVars,
            Browser!requestVars, Browser!callVars
<1>1. ASSUME Browser!CookieExpires PROVE Browser!TypeOK' /\ Browser!Granted'
  BY <1>1 DEF Browser!CookieExpires
<1>2. ASSUME NEW n \in 1 .. s1, Browser!Expire(n) PROVE Browser!TypeOK' /\ Browser!Granted'
  BY <1>2 DEF Browser!Expire
<1> QED BY <1>1, <1>2

\* A patient browser: nothing but a logout is under way while one is, and the
\* hash that it has removed comes back with a login alone.
LEMMA LoginQuiet ==
    ASSUME Browser!SessionInv, NEW t \in Tabs,
           Browser!Login(t) \/ Browser!LoginServed(t) \/ Browser!LoginAnswered(t), UNCHANGED s16
    PROVE  Browser!Alone' /\ Browser!Final'
<1> USE DEF Browser!SessionInv, Browser!TypeOK, Browser!Alone, Browser!Final,
            Browser!Pending,
            Browser!serverVars, Browser!requestVars, Browser!NONE
<1>1. ASSUME Browser!Login(t) PROVE Browser!Alone' /\ Browser!Final'
  BY <1>1 DEF Browser!Login
<1>2. ASSUME Browser!LoginServed(t) PROVE Browser!Alone' /\ Browser!Final'
  BY <1>2 DEF Browser!LoginServed
<1>3. ASSUME Browser!LoginAnswered(t) PROVE Browser!Alone' /\ Browser!Final'
  BY <1>3 DEF Browser!LoginAnswered
<1> QED BY <1>1, <1>2, <1>3

LEMMA LogoutQuiet ==
    ASSUME Browser!SessionInv, NEW t \in Tabs,
           \/ Browser!Logout(t) \/ Browser!LogoutServed(t) \/ Browser!LogoutAnswered(t)
           \/ Browser!ExitAdmin(t),
           UNCHANGED s16
    PROVE  Browser!Alone' /\ Browser!Final'
<1> USE DEF Browser!SessionInv, Browser!TypeOK, Browser!Alone, Browser!Final,
            Browser!Pending,
            Browser!serverVars, Browser!requestVars, Browser!callVars, Browser!NONE
<1>1. ASSUME Browser!Logout(t) PROVE Browser!Alone' /\ Browser!Final'
  BY <1>1 DEF Browser!Logout, Browser!BrowserQuiet, Browser!CallsQuiet
<1>2. ASSUME Browser!LogoutServed(t) PROVE Browser!Alone' /\ Browser!Final'
  BY <1>2 DEF Browser!LogoutServed, Browser!LoggedOut
<1>3. ASSUME Browser!LogoutAnswered(t) PROVE Browser!Alone' /\ Browser!Final'
  BY <1>3 DEF Browser!LogoutAnswered
<1>4. ASSUME Browser!ExitAdmin(t) PROVE Browser!Alone' /\ Browser!Final'
  BY <1>4 DEF Browser!ExitAdmin
<1> QED BY <1>1, <1>2, <1>3, <1>4

LEMMA RequestQuiet ==
    ASSUME Browser!SessionInv, NEW r \in Requests,
           \/ Browser!Send(r) \/ Browser!Served(r) \/ Browser!Denied(r) \/ Browser!RequestLost(r),
           UNCHANGED s16
    PROVE  Browser!Alone' /\ Browser!Final'
<1> USE TabOfAssumption
    DEF Browser!SessionInv, Browser!TypeOK, Browser!Alone, Browser!Final, Browser!Pending,
        Browser!serverVars, Browser!requestVars, Browser!callVars, Browser!NONE
<1>1. ASSUME Browser!Send(r) PROVE Browser!Alone' /\ Browser!Final'
  BY <1>1 DEF Browser!Send
<1>2. ASSUME Browser!Served(r) PROVE Browser!Alone' /\ Browser!Final'
  BY <1>2 DEF Browser!Served
<1>3. ASSUME Browser!Denied(r) PROVE Browser!Alone' /\ Browser!Final'
  BY <1>3 DEF Browser!Denied
<1>4. ASSUME Browser!RequestLost(r) PROVE Browser!Alone' /\ Browser!Final'
  BY <1>4 DEF Browser!RequestLost
<1> QED BY <1>1, <1>2, <1>3, <1>4

LEMMA RefreshQuiet ==
    ASSUME Browser!SessionInv, NEW t \in Tabs,
           \/ Browser!RefreshServed(t) \/ Browser!RefreshIssues(t) \/ Browser!RefreshGranted(t)
           \/ Browser!RefreshRefused(t) \/ Browser!RefreshLost(t),
           UNCHANGED s16
    PROVE  Browser!Alone' /\ Browser!Final'
<1> USE DEF Browser!SessionInv, Browser!TypeOK, Browser!Alone, Browser!Final,
            Browser!Pending,
            Browser!serverVars, Browser!requestVars, Browser!callVars, Browser!NONE
<1>1. ASSUME Browser!RefreshServed(t) PROVE Browser!Alone' /\ Browser!Final'
  BY <1>1 DEF Browser!RefreshServed, Browser!Matches
<1>2. ASSUME Browser!RefreshIssues(t) PROVE Browser!Alone' /\ Browser!Final'
  BY <1>2 DEF Browser!RefreshIssues
<1>3. ASSUME Browser!RefreshGranted(t) PROVE Browser!Alone' /\ Browser!Final'
  BY <1>3 DEF Browser!RefreshGranted
<1>4. ASSUME Browser!RefreshFails(t), s8[t] # "none" PROVE Browser!Alone' /\ Browser!Final'
  BY <1>4 DEF Browser!RefreshFails
<1>5. Browser!RefreshRefused(t) \/ Browser!RefreshLost(t) => s8[t] # "none"
  BY DEF Browser!RefreshRefused, Browser!RefreshLost
<1> QED BY <1>1, <1>2, <1>3, <1>4, <1>5 DEF Browser!RefreshRefused, Browser!RefreshLost

LEMMA TimeQuiet ==
    ASSUME Browser!SessionInv, Browser!CookieExpires \/ \E n \in 1 .. s1 : Browser!Expire(n),
           UNCHANGED s16
    PROVE  Browser!Alone' /\ Browser!Final'
BY DEF Browser!SessionInv, Browser!CookieExpires, Browser!Expire, Browser!Alone,
       Browser!Final,
       Browser!Pending, Browser!serverVars, Browser!requestVars, Browser!callVars

LEMMA SessionStep ==
    ASSUME Browser!SessionInv, [Browser!Next]_Browser!vars PROVE Browser!SessionInv'
<1>1. CASE UNCHANGED Browser!vars
  BY <1>1 DEF Browser!vars, Browser!serverVars, Browser!callVars, Browser!requestVars,
              Browser!SessionInv, Browser!TypeOK, Browser!Granted, Browser!Alone,
              Browser!Final, Browser!Pending
<1>2. CASE Browser!Next
  BY <1>2, LoginTypes, LogoutTypes, RequestTypes, RefreshTypes, TimeTypes, LoginQuiet, LogoutQuiet,
     RequestQuiet, RefreshQuiet, TimeQuiet
     DEF Browser!Next, Browser!Step, Browser!RefreshStep, Browser!RequestStep, Browser!SessionInv
<1> QED BY <1>1, <1>2

\* The inductive invariant of a session.
THEOREM SessionInvHolds == Spec => [](part = "session" => Browser!SessionInv)
<1>1. Init => (part = "session" => Browser!SessionInv)
  BY BrowserStarts, SessionInit
<1>2. (part = "session" => Browser!SessionInv) /\ [Next]_slots
         => (part = "session" => Browser!SessionInv)'
  <2>1. [Next]_slots => part' = part
    BY DEF Next, slots
  <2> QED BY <2>1, BrowserSteps, SessionStep
<1> QED BY <1>1, <1>2, PTL DEF Spec

\* A logout that overlaps no other call ends the session of every tab until
\* somebody logs in (auth.service.ts:54-56).
THEOREM LogoutsAreFinal == Spec => []LogoutIsFinal
<1>1. (part = "session" => Browser!SessionInv) => LogoutIsFinal
  BY DEF LogoutIsFinal, Browser!LogoutIsFinal, Browser!SessionInv, Browser!Final,
         Browser!CallsQuiet, Browser!NONE
<1> QED BY <1>1, SessionInvHolds, PTL

\* Until something else ends the session, a refresh finds a cookie and a hash,
\* if the browser sends the cookie to it.
LEMMA LoginRenewable ==
    ASSUME Browser!SessionInv, Browser!Renewable, NEW t \in Tabs,
           Browser!Login(t) \/ Browser!LoginServed(t) \/ Browser!LoginAnswered(t)
    PROVE  Browser!Renewable'
<1> USE DEF Browser!SessionInv, Browser!TypeOK, Browser!Granted, Browser!Renewable,
            Browser!Pending, Browser!serverVars, Browser!requestVars
<1>1. ASSUME Browser!Login(t) PROVE Browser!Renewable'
  BY <1>1 DEF Browser!Login
<1>2. ASSUME Browser!LoginServed(t) PROVE Browser!Renewable'
  BY <1>2 DEF Browser!LoginServed, Browser!Issue
<1>3. ASSUME Browser!LoginAnswered(t) PROVE Browser!Renewable'
  BY <1>3 DEF Browser!LoginAnswered
<1> QED BY <1>1, <1>2, <1>3

LEMMA LogoutRenewable ==
    ASSUME Browser!SessionInv, Browser!Renewable, NEW t \in Tabs,
           \/ Browser!Logout(t) \/ Browser!LogoutServed(t) \/ Browser!LogoutAnswered(t)
           \/ Browser!ExitAdmin(t)
    PROVE  Browser!Renewable'
<1> USE DEF Browser!SessionInv, Browser!TypeOK, Browser!Renewable, Browser!Pending,
            Browser!serverVars, Browser!requestVars, Browser!callVars
<1>1. ASSUME Browser!Logout(t) PROVE Browser!Renewable'
  BY <1>1 DEF Browser!Logout
<1>2. ASSUME Browser!LogoutServed(t) PROVE Browser!Renewable'
  BY <1>2 DEF Browser!LogoutServed
<1>3. ASSUME Browser!LogoutAnswered(t) PROVE Browser!Renewable'
  BY <1>3 DEF Browser!LogoutAnswered
<1>4. ASSUME Browser!ExitAdmin(t) PROVE Browser!Renewable'
  BY <1>4 DEF Browser!ExitAdmin
<1> QED BY <1>1, <1>2, <1>3, <1>4

LEMMA RequestRenewable ==
    ASSUME Browser!SessionInv, Browser!Renewable, Browser!CookieIsSent, NEW r \in Requests,
           \/ Browser!Send(r) \/ Browser!Served(r) \/ Browser!Denied(r) \/ Browser!RequestLost(r)
    PROVE  Browser!Renewable'
<1> USE TabOfAssumption
    DEF Browser!SessionInv, Browser!TypeOK, Browser!Renewable, Browser!Pending,
        Browser!serverVars, Browser!requestVars, Browser!callVars
<1>1. ASSUME Browser!Send(r) PROVE Browser!Renewable'
  BY <1>1 DEF Browser!Send
<1>2. ASSUME Browser!Served(r) PROVE Browser!Renewable'
  BY <1>2 DEF Browser!Served
<1>3. ASSUME Browser!Denied(r) PROVE Browser!Renewable'
  BY <1>3 DEF Browser!Denied, Browser!SentCookie
<1>4. ASSUME Browser!RequestLost(r) PROVE Browser!Renewable'
  BY <1>4 DEF Browser!RequestLost
<1> QED BY <1>1, <1>2, <1>3, <1>4

LEMMA RefreshRenewable ==
    ASSUME Browser!SessionInv, Browser!Renewable, NEW t \in Tabs,
           \/ Browser!RefreshServed(t) \/ Browser!RefreshIssues(t) \/ Browser!RefreshGranted(t)
           \/ Browser!RefreshRefused(t) \/ Browser!RefreshLost(t)
    PROVE  Browser!Renewable'
<1> USE TabOfAssumption
    DEF Browser!SessionInv, Browser!TypeOK, Browser!Granted, Browser!Renewable,
        Browser!Pending, Browser!serverVars, Browser!requestVars, Browser!callVars
<1>1. ASSUME Browser!RefreshServed(t) PROVE Browser!Renewable'
  BY <1>1 DEF Browser!RefreshServed, Browser!Matches
<1>2. ASSUME Browser!RefreshIssues(t) PROVE Browser!Renewable'
  BY <1>2 DEF Browser!RefreshIssues, Browser!Issue
<1>3. ASSUME Browser!RefreshGranted(t) PROVE Browser!Renewable'
  BY <1>3 DEF Browser!RefreshGranted, Browser!Waiting
<1>4. ASSUME Browser!RefreshRefused(t) PROVE Browser!Renewable'
  BY <1>4 DEF Browser!RefreshRefused
<1>5. ASSUME Browser!RefreshLost(t) PROVE Browser!Renewable'
  BY <1>5 DEF Browser!RefreshLost
<1> QED BY <1>1, <1>2, <1>3, <1>4, <1>5

LEMMA TimeRenewable ==
    ASSUME Browser!Renewable, Browser!CookieExpires \/ \E n \in 1 .. s1 : Browser!Expire(n)
    PROVE  Browser!Renewable'
BY DEF Browser!CookieExpires, Browser!Expire, Browser!Renewable, Browser!Pending,
       Browser!serverVars, Browser!requestVars, Browser!callVars

LEMMA RenewStep ==
    ASSUME Browser!SessionInv, Browser!RenewInv, [Browser!Next]_Browser!vars
    PROVE  Browser!RenewInv'
<1> SUFFICES ASSUME Browser!CookieIsSent, Browser!Renewable PROVE Browser!Renewable'
  BY DEF Browser!RenewInv, Browser!CookieIsSent, Browser!CookiePath, Browser!RefreshPath
<1>1. CASE UNCHANGED Browser!vars
  BY <1>1 DEF Browser!vars, Browser!serverVars, Browser!callVars, Browser!requestVars,
              Browser!Renewable, Browser!Pending
<1>2. CASE Browser!Next
  BY <1>2, LoginRenewable, LogoutRenewable, RequestRenewable, RefreshRenewable, TimeRenewable
     DEF Browser!Next, Browser!Step, Browser!RefreshStep, Browser!RequestStep
<1> QED BY <1>1, <1>2

THEOREM RenewInvHolds == Spec => [](part = "session" => Browser!RenewInv)
<1>1. Init => (part = "session" => Browser!RenewInv)
  BY BrowserStarts, SessionInit
<1>2. (part = "session" => Browser!SessionInv) /\ (part = "session" => Browser!RenewInv)
         /\ [Next]_slots => (part = "session" => Browser!RenewInv)'
  <2>1. [Next]_slots => part' = part
    BY DEF Next, slots
  <2> QED BY <2>1, BrowserSteps, RenewStep
<1> QED BY <1>1, <1>2, SessionInvHolds, PTL DEF Spec

\* A step that signs out a tab is the tab's own, or ends the session.
LEMMA SignedOutOnPurpose ==
    ASSUME Browser!SessionInv, Browser!Renewable, [Browser!Next]_Browser!vars
    PROVE  Browser!TabsEndNoSession
<1> SUFFICES ASSUME NEW t \in Tabs, s5[t] # 0, s5'[t] = 0
             PROVE  s17' \/ Browser!ExitAdmin(t) \/ Browser!LogoutAnswered(t)
  BY DEF Browser!TabsEndNoSession
<1> USE DEF Browser!SessionInv, Browser!TypeOK, Browser!Granted, Browser!Renewable,
            Browser!serverVars, Browser!requestVars, Browser!callVars
<1>1. ~UNCHANGED s5
  OBVIOUS
<1>2. ASSUME NEW u \in Tabs,
             \/ Browser!Login(u) \/ Browser!LoginServed(u) \/ Browser!Logout(u)
             \/ Browser!LogoutServed(u) \/ Browser!RefreshServed(u) \/ Browser!RefreshIssues(u)
      PROVE  UNCHANGED s5
  BY <1>2 DEF Browser!Login, Browser!LoginServed, Browser!Logout, Browser!LogoutServed,
              Browser!RefreshServed, Browser!RefreshIssues
<1>3. ASSUME NEW u \in Tabs, Browser!LoginAnswered(u) PROVE FALSE
  BY <1>3 DEF Browser!LoginAnswered
<1>4. ASSUME NEW u \in Tabs, Browser!LogoutAnswered(u) PROVE Browser!LogoutAnswered(t)
  BY <1>4 DEF Browser!LogoutAnswered
<1>5. ASSUME NEW u \in Tabs, Browser!ExitAdmin(u) PROVE Browser!ExitAdmin(t)
  BY <1>5 DEF Browser!ExitAdmin
<1>6. ASSUME NEW u \in Tabs, Browser!RefreshGranted(u) PROVE FALSE
  BY <1>6 DEF Browser!RefreshGranted
<1>7. ASSUME NEW u \in Tabs, Browser!RefreshRefused(u) \/ Browser!RefreshLost(u) PROVE s17'
  BY <1>7 DEF Browser!RefreshRefused, Browser!RefreshLost
<1>8. ASSUME NEW r \in Requests,
             Browser!Send(r) \/ Browser!Served(r) \/ Browser!Denied(r) \/ Browser!RequestLost(r)
      PROVE  UNCHANGED s5
  BY <1>8 DEF Browser!Send, Browser!Served, Browser!Denied, Browser!RequestLost
<1>9. ASSUME Browser!CookieExpires \/ (\E n \in 1 .. s1 : Browser!Expire(n)) PROVE UNCHANGED s5
  BY <1>9 DEF Browser!CookieExpires, Browser!Expire
<1>10. Browser!Step
  BY <1>1 DEF Browser!Next, Browser!vars
<1> QED BY <1>1, <1>2, <1>3, <1>4, <1>5, <1>6, <1>7, <1>8, <1>9, <1>10
        DEF Browser!Step, Browser!RefreshStep, Browser!RequestStep

\* README, "Auth".  Where the browser sends the cookie to the refresh, a tab that
\* is signed in stays so until a logout, the expiry of the cookie or a lost
\* answer, although access tokens expire and tabs refresh at once
\* (auth.service.ts:42-52, client.ts:31-64).
THEOREM TabsAreKept == Browser!CookieIsSent /\ Spec => TabsStaySignedIn
<1>1. /\ Browser!CookieIsSent
      /\ part = "session" => Browser!SessionInv /\ Browser!RenewInv
      /\ [Next]_slots
      => [part = "session" => Browser!TabsEndNoSession]_slots
  BY BrowserSteps, SignedOutOnPurpose DEF Browser!RenewInv
<1>2. Browser!CookieIsSent => Browser!CookieIsSent'
  BY DEF Browser!CookieIsSent, Browser!CookiePath, Browser!RefreshPath
<1> QED BY <1>1, <1>2, SessionInvHolds, RenewInvHolds, PTL DEF Spec, TabsStaySignedIn

\* As it does when the API has a host of its own, or the root of one
\* (frontend/.env.example).
THEOREM OwnHostGetsCookie == BaseUrl = <<>> => Browser!CookieIsSent
BY DEF Browser!CookieIsSent, Browser!CookiePath, Browser!RefreshPath, Browser!IsPrefix
=============================================================================
