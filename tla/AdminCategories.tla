-------------------------- MODULE AdminCategories --------------------------
(***************************************************************************)
(* AdminCategoriesPage and CategoriesController: the table (the query      *)
(* "categories"), the dialog that creates or edits a category, and the     *)
(* deletes, while products are filed under categories and another          *)
(* administrator works too.                                                *)
(***************************************************************************)
EXTENDS Naturals, FiniteSets

CONSTANTS
    Categories,     \* ids
    Names,          \* of categories, their slugs with them: both are unique
    MaxFailures     \* bound on lost answers and on writes of others

VARIABLES
    db,         \* db[c]: the name of c; the domain has the categories that exist
    filed,      \* the categories that products refer to
    list,       \* data of the query
    loaded,     \* does the query have data yet?
    fetch,      \* its fetch: none, sent, or answered
    got,        \* what the server answered to it
    dialog,     \* modalOpen, editing and form
    save,       \* the mutation of the dialog: none, sent, served, or refetching
    deletes,    \* deletes sent, and those carried out but not yet answered
    unseen,     \* history: was something written that this page was not told of, or only
                \* while it joined a fetch that was answered before?
    failures

queryVars == <<list, loaded, fetch, got>>
vars == <<db, filed, queryVars, dialog, save, deletes, unseen, failures>>

NONE == <<>>
Closed == [open |-> FALSE, editing |-> NONE, form |-> NONE]
Idle == [phase |-> "none", editing |-> NONE, form |-> NONE]
NoDeletes == [sent |-> {}, served |-> {}]

Init ==
    /\ \E c \in Categories, n \in Names : db = [d \in {c} |-> n]
    /\ filed \in SUBSET DOMAIN db
    /\ list = NONE /\ loaded = FALSE /\ fetch = "sent" /\ got = NONE
    /\ dialog = Closed /\ save = Idle /\ deletes = NoDeletes
    /\ unseen = FALSE /\ failures = 0

Exists(c) == c \in DOMAIN db
Put(c, n) == [d \in DOMAIN db \cup {c} |-> IF d = c THEN n ELSE db[d]]
Without(c) == [d \in DOMAIN db \ {c} |-> db[d]]
\* The unique indexes of name and slug.
Unique(c, n) == \A d \in DOMAIN db \ {c} : db[d] # n

-----------------------------------------------------------------------------
(* The page *)

Controls ==
    IF ~dialog.open THEN {"create", "edit", "delete"}
    ELSE {"type", "cancel"} \cup (IF save.phase = "none" THEN {"save"} ELSE {})

Show(editing, form) == dialog' = [open |-> TRUE, editing |-> editing, form |-> form]

OpenCreate ==
    /\ "create" \in Controls
    /\ Show(NONE, NONE)
    /\ UNCHANGED <<db, filed, queryVars, save, deletes, unseen, failures>>

OpenEdit(c) ==
    /\ "edit" \in Controls /\ c \in DOMAIN list
    /\ Show(c, list[c])
    /\ UNCHANGED <<db, filed, queryVars, save, deletes, unseen, failures>>

\* While a category is new its name brings the slug along.
Type(n) ==
    /\ "type" \in Controls
    /\ dialog' = [dialog EXCEPT !.form = n]
    /\ UNCHANGED <<db, filed, queryVars, save, deletes, unseen, failures>>

Cancel ==
    /\ "cancel" \in Controls
    /\ dialog' = Closed
    /\ UNCHANGED <<db, filed, queryVars, save, deletes, unseen, failures>>

\* handleSave: validate lets no form without a name or a slug pass.
Save ==
    /\ "save" \in Controls
    /\ dialog.form # NONE
    /\ save' = [phase |-> "sent", editing |-> dialog.editing, form |-> dialog.form]
    /\ UNCHANGED <<db, filed, queryVars, dialog, deletes, unseen, failures>>

\* handleDelete asks nothing and is not disabled.
Delete(c) ==
    /\ "delete" \in Controls /\ c \in DOMAIN list
    /\ deletes' = [deletes EXCEPT !.sent = @ \cup {c}]
    /\ UNCHANGED <<db, filed, queryVars, dialog, save, unseen, failures>>

-----------------------------------------------------------------------------
(* The server *)

\* create and update: 201 or 200; 409 for a name or slug that is taken, 404
\* for a category that is gone.
Writes(c) ==
    /\ save.phase = "sent"
    /\ IF save.editing = NONE THEN ~Exists(c) ELSE c = save.editing /\ Exists(c)
    /\ Unique(c, save.form)
    /\ db' = Put(c, save.form)
    /\ save' = [save EXCEPT !.phase = "served"]
    /\ UNCHANGED <<filed, queryVars, dialog, deletes, unseen, failures>>

Refused ==
    /\ save.phase = "sent"
    /\ \/ save.editing = NONE /\ \E d \in DOMAIN db : ~Unique(NONE, save.form)
       \/ save.editing # NONE /\ (~Exists(save.editing) \/ ~Unique(save.editing, save.form))
    /\ save' = Idle
    /\ UNCHANGED <<db, filed, queryVars, dialog, deletes, unseen, failures>>

\* Mutant of Deletable: no foreign key.
DeletableAlways(c) == Exists(c)
\* Product.categoryId refers to Category without ON DELETE: a 400.
Deletable(c) == Exists(c) /\ c \notin filed

DeleteServed(c) ==
    /\ c \in deletes.sent
    /\ IF Deletable(c)
          THEN /\ db' = Without(c)
               /\ deletes' = [sent |-> deletes.sent \ {c}, served |-> deletes.served \cup {c}]
          ELSE /\ deletes' = [deletes EXCEPT !.sent = @ \ {c}]
               /\ UNCHANGED db
    /\ UNCHANGED <<filed, queryVars, dialog, save, unseen, failures>>

-----------------------------------------------------------------------------
(* Answers *)

\* invalidateQueries: a query that has data drops the fetch under way for a new
\* one.  Without data, on the first load, it joins that fetch, and what the
\* server has answered to it by then will pass for the newest table.
Invalidate ==
    IF loaded \/ fetch = "none"
       THEN fetch' = "sent" /\ got' = NONE /\ UNCHANGED unseen
       ELSE unseen' = (unseen \/ fetch = "answered") /\ UNCHANGED <<fetch, got>>

SaveSucceeds ==
    /\ save.phase = "served"
    /\ save' = [save EXCEPT !.phase = "refetching"]
    /\ Invalidate
    /\ UNCHANGED <<db, filed, list, loaded, dialog, deletes, failures>>

\* The fetch that the mutation waits for is in, was dropped for another, or pauses
\* without a network: whatever dialog is shown by then is closed.
SaveEnds ==
    /\ save.phase = "refetching"
    /\ save' = Idle /\ dialog' = Closed
    /\ UNCHANGED <<db, filed, queryVars, deletes, unseen, failures>>

\* Mutant of AfterDelete: useDeleteCategory forgets the table.
AfterDeleteNothing == UNCHANGED <<fetch, got, unseen>>
AfterDelete == Invalidate

DeleteSucceeds(c) ==
    /\ c \in deletes.served
    /\ deletes' = [deletes EXCEPT !.served = @ \ {c}]
    /\ AfterDelete
    /\ UNCHANGED <<db, filed, list, loaded, dialog, save, failures>>

\* An answer is lost, perhaps to a write that was made: a toast, and nothing is
\* fetched.
SaveLost ==
    /\ save.phase \in {"sent", "served"} /\ failures < MaxFailures
    /\ save' = Idle
    /\ unseen' = (unseen \/ save.phase = "served")
    /\ failures' = failures + 1
    /\ UNCHANGED <<db, filed, queryVars, dialog, deletes>>

DeleteLost(c) ==
    /\ c \in deletes.sent \cup deletes.served /\ failures < MaxFailures
    /\ deletes' = [sent |-> deletes.sent \ {c}, served |-> deletes.served \ {c}]
    /\ unseen' = (unseen \/ c \in deletes.served)
    /\ failures' = failures + 1
    /\ UNCHANGED <<db, filed, queryVars, dialog, save>>

FetchServed ==
    /\ fetch = "sent"
    /\ fetch' = "answered" /\ got' = db
    /\ unseen' = FALSE
    /\ UNCHANGED <<db, filed, list, loaded, dialog, save, deletes, failures>>

FetchAnswered ==
    /\ fetch = "answered"
    /\ list' = got /\ loaded' = TRUE /\ fetch' = "none" /\ got' = NONE
    /\ UNCHANGED <<db, filed, dialog, save, deletes, unseen, failures>>

FetchFails ==
    /\ fetch # "none" /\ failures < MaxFailures
    /\ fetch' = "none" /\ got' = NONE
    /\ unseen' = TRUE /\ failures' = failures + 1
    /\ UNCHANGED <<db, filed, list, loaded, dialog, save, deletes>>

\* The visitor comes back to the page.
ComeBack ==
    /\ fetch = "none"
    /\ Invalidate
    /\ UNCHANGED <<db, filed, list, loaded, dialog, save, deletes, failures>>

-----------------------------------------------------------------------------
(* Others: products are filed or moved away, another administrator writes. *)

\* The insert of a product locks its category against a delete.
File(c) ==
    /\ Exists(c)
    /\ filed' \in {filed \cup {c}, filed \ {c}}
    /\ UNCHANGED <<db, queryVars, dialog, save, deletes, unseen, failures>>

OtherWrites(c, n) ==
    /\ Unique(c, n)
    /\ failures < MaxFailures /\ failures' = failures + 1
    /\ db' = Put(c, n)
    /\ unseen' = TRUE
    /\ UNCHANGED <<filed, queryVars, dialog, save, deletes>>

-----------------------------------------------------------------------------
Next ==
    \/ OpenCreate \/ Cancel \/ Save \/ Refused \/ SaveSucceeds \/ SaveEnds \/ SaveLost
    \/ FetchServed \/ FetchAnswered \/ FetchFails \/ ComeBack
    \/ \E n \in Names : Type(n) \/ \E c \in Categories : OtherWrites(c, n)
    \/ \E c \in Categories :
          \/ OpenEdit(c) \/ Delete(c) \/ Writes(c)
          \/ DeleteServed(c) \/ DeleteSucceeds(c) \/ DeleteLost(c) \/ File(c)

Spec == Init /\ [][Next]_vars

-----------------------------------------------------------------------------
(* Properties *)

IsTable(t) == DOMAIN t \subseteq Categories /\ \A c \in DOMAIN t : t[c] \in Names

\* Types; a save under way has passed the validation of its form; and no
\* product is left without its category, whatever is deleted while products are
\* filed (schema.prisma, categories.repository.ts:28-30).
TypeOK ==
    /\ IsTable(db) /\ IsTable(list) /\ IsTable(got)
    /\ filed \subseteq DOMAIN db
    /\ fetch \in {"none", "sent", "answered"} /\ loaded \in BOOLEAN
    /\ dialog \in [open : BOOLEAN, editing : Categories \cup {NONE}, form : Names \cup {NONE}]
    /\ save \in [phase : {"none", "sent", "served", "refetching"},
                 editing : Categories \cup {NONE}, form : Names \cup {NONE}]
    /\ save.phase # "none" => save.form \in Names
    /\ deletes \in [sent : SUBSET Categories, served : SUBSET Categories]
    /\ unseen \in BOOLEAN /\ failures \in Nat

\* When nothing is under way the table shows the database, however deletes and
\* saves overlapped and dropped each other's fetches.  What has to wait for the
\* next fetch is a write of someone else, one whose answer was lost, and one that
\* was told to a first load which the server had answered before
\* (useCategories.ts:5, 8-31).
TableShowsDatabase ==
    save.phase = "none" /\ deletes = NoDeletes /\ fetch = "none" /\ ~unseen => list = db

\* Why: what is shown, or on its way to the table, is as old as the last write
\* that the page still waits to hear of.
AnswersAreFresh ==
    ~unseen /\ save.phase # "served" /\ deletes.served = {} =>
        /\ fetch = "none" => list = db
        /\ fetch = "answered" => got = db

TableInv == TypeOK /\ AnswersAreFresh
=============================================================================
