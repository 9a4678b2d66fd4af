--------------------------- MODULE AdminProducts ---------------------------
(***************************************************************************)
(* AdminProductsPage: the dialog that creates or edits a product and its   *)
(* save (a create or update, then an upload when a file was chosen), while *)
(* the shop sells.  The dialog can be closed and opened again while a save *)
(* is under way.  The table is no variable: a row that is older than the   *)
(* database shows as a dialog that was opened when the row was fetched.    *)
(***************************************************************************)
EXTENDS Naturals, FiniteSets

CONSTANTS
    OnSale,         \* number of products at first; ids are numbers
    MaxCreated,     \* bound on those that are created
    MaxStock,       \* bound on a stock
    MaxOpened,      \* bound on the dialogs opened to create
    MaxFailures     \* bound on the saves that fail

VARIABLES
    db,         \* db[p]: stock and image; and, as history, whose form wrote it last
    dialog,     \* the dialog and its form; history: is it the one that is being saved?
    save,       \* handleSave under way, with what its closure captured; history: has it
                \* created a product?
    deletes,    \* the delete under way, if any (one at a time is a bound)
    opened, created,    \* history: dialogs opened to create, products created
    failures, retries   \* history: failed saves, and those that had created their product

historyVars == <<opened, created, failures, retries>>
vars == <<db, dialog, save, deletes, historyVars>>

New == 0
ProductIds == 1 .. OnSale + MaxCreated
\* An image is the address that was typed or a file that was uploaded, and a file is
\* known by the product in whose dialog it was chosen.
NoImage == [kind |-> "none", of |-> New]
Url == [kind |-> "url", of |-> New]
File(p) == [kind |-> "file", of |-> p]
\* A form is complete when no field is missing or malformed; `of` is the product that
\* it was opened for.
EMPTY_FORM == [of |-> New, complete |-> FALSE, stock |-> 0, image |-> NoImage, file |-> FALSE]
Closed == [open |-> FALSE, editing |-> New, form |-> EMPTY_FORM, saving |-> FALSE]
Idle == [phase |-> "none", step |-> "save", editing |-> New, form |-> EMPTY_FORM, made |-> FALSE]

Init ==
    /\ db = [p \in 1 .. OnSale |-> [of |-> p, stock |-> MaxStock, image |-> Url]]
    /\ dialog = Closed /\ save = Idle /\ deletes = {}
    /\ opened = 0 /\ created = 0 /\ failures = 0 /\ retries = 0

Exists(p) == p \in DOMAIN db
Put(p, row) == [q \in DOMAIN db \cup {p} |-> IF q = p THEN row ELSE db[q]]
Without(p) == [q \in DOMAIN db \ {p} |-> db[q]]

-----------------------------------------------------------------------------
(* The page *)

\* What can be clicked: the table is behind the dialog, and Save is disabled
\* while a mutation, with the refetch that ends it, is pending.
Controls ==
    IF ~dialog.open THEN {"create", "edit", "delete"}
    ELSE {"type", "cancel"} \cup (IF save.phase = "none" THEN {"save"} ELSE {})

Show(editing, form) ==
    dialog' = [open |-> TRUE, editing |-> editing, form |-> form, saving |-> FALSE]

\* openCreate chooses the first category; the other texts are still missing.
OpenCreate ==
    /\ "create" \in Controls /\ opened < MaxOpened
    /\ Show(New, EMPTY_FORM)
    /\ opened' = opened + 1
    /\ UNCHANGED <<db, save, deletes, created, failures, retries>>

\* openEdit copies the row, its stock too.
OpenEdit(p) ==
    /\ "edit" \in Controls /\ Exists(p)
    /\ Show(p, [of |-> p, complete |-> TRUE, stock |-> db[p].stock, image |-> db[p].image,
                file |-> FALSE])
    /\ UNCHANGED <<db, save, deletes, historyVars>>

Edited(form) ==
    {[form EXCEPT !.complete = b] : b \in BOOLEAN}
    \cup {[form EXCEPT !.stock = n] : n \in 0 .. MaxStock}
    \cup {[form EXCEPT !.image = i] : i \in {NoImage, Url}}
    \cup {[form EXCEPT !.file = b] : b \in BOOLEAN}

Type ==
    /\ "type" \in Controls
    /\ \E f \in Edited(dialog.form) : dialog' = [dialog EXCEPT !.form = f]
    /\ UNCHANGED <<db, save, deletes, historyVars>>

Cancel ==
    /\ "cancel" \in Controls
    /\ dialog' = Closed
    /\ UNCHANGED <<db, save, deletes, historyVars>>

\* handleSave: validate shows the errors of a form that is not complete.
Save ==
    /\ "save" \in Controls /\ dialog.form.complete
    /\ save' = [phase |-> "sent", step |-> "save", editing |-> dialog.editing,
                form |-> dialog.form, made |-> FALSE]
    /\ dialog' = [dialog EXCEPT !.saving = TRUE]
    /\ UNCHANGED <<db, deletes, historyVars>>

-----------------------------------------------------------------------------
(* The server: create, update and setImageUrl *)

Served == save' = [save EXCEPT !.phase = "served"]

\* The form of a new product is from now on that of the product it has become.
Create(p) ==
    /\ save.phase = "sent" /\ save.step = "save" /\ save.editing = New
    /\ p = OnSale + created + 1
    /\ db' = Put(p, [of |-> p, stock |-> save.form.stock, image |-> save.form.image])
    /\ created' = created + 1
    /\ save' = [save EXCEPT !.phase = "served", !.editing = p, !.form.of = p, !.made = TRUE]
    /\ UNCHANGED <<dialog, deletes, opened, failures, retries>>

\* An empty image address is not sent, and the image stays.
Update(p) ==
    /\ save.phase = "sent" /\ save.step = "save" /\ save.editing = p
    /\ Exists(p)
    /\ db' = Put(p, [of |-> save.form.of, stock |-> save.form.stock,
                     image |-> IF save.form.image = NoImage THEN db[p].image ELSE save.form.image])
    /\ Served
    /\ UNCHANGED <<dialog, deletes, historyVars>>

\* Mutant of UploadTarget: the product that the dialog shows by now.
UploadTargetShown == IF dialog.editing = New THEN save.editing ELSE dialog.editing
UploadTarget == save.editing

Upload ==
    /\ save.phase = "sent" /\ save.step = "upload" /\ Exists(UploadTarget)
    /\ db' = Put(UploadTarget, [db[UploadTarget] EXCEPT !.image = File(save.form.of)])
    /\ Served
    /\ UNCHANGED <<dialog, deletes, historyVars>>

\* The request is refused (400 for what only the server checks, 404, a file of
\* another kind), or it or its answer is lost: a toast, and the dialog stays as it is.
SaveFails ==
    /\ save.phase \in {"sent", "served"} /\ failures < MaxFailures
    /\ failures' = failures + 1
    /\ retries' = IF save.made THEN retries + 1 ELSE retries
    /\ save' = Idle
    /\ dialog' = [dialog EXCEPT !.saving = FALSE]
    /\ UNCHANGED <<db, deletes, opened, created>>

\* The answer, and the refetch that mutateAsync waits for, are in.  Then comes
\* the upload, or the dialog is closed, whichever dialog that is by now.
SaveAnswered ==
    /\ save.phase = "served"
    /\ IF save.step = "save" /\ save.form.file
          THEN /\ save' = [save EXCEPT !.phase = "sent", !.step = "upload"]
               /\ UNCHANGED dialog
          ELSE save' = Idle /\ dialog' = Closed
    /\ UNCHANGED <<db, deletes, historyVars>>

-----------------------------------------------------------------------------
(* handleDelete asks nothing and is not disabled. *)

Delete(p) ==
    /\ "delete" \in Controls /\ Exists(p)
    /\ deletes = {} /\ deletes' = {p}
    /\ UNCHANGED <<db, dialog, save, historyVars>>

\* A product of an order stays (P2003), one that is gone gives a 404: a toast.
DeleteServed(p) ==
    /\ p \in deletes /\ deletes' = {}
    /\ db' \in {db, Without(p)}
    /\ UNCHANGED <<dialog, save, historyVars>>

\* A checkout takes a unit.
Sell(p) ==
    /\ Exists(p) /\ db[p].stock > 0
    /\ db' = Put(p, [db[p] EXCEPT !.stock = @ - 1])
    /\ UNCHANGED <<dialog, save, deletes, historyVars>>

-----------------------------------------------------------------------------
Next ==
    \/ OpenCreate \/ Type \/ Cancel \/ Save \/ Upload \/ SaveFails \/ SaveAnswered
    \/ \E p \in ProductIds :
          OpenEdit(p) \/ Create(p) \/ Update(p) \/ Delete(p) \/ DeleteServed(p) \/ Sell(p)

Spec == Init /\ [][Next]_vars

-----------------------------------------------------------------------------
(* Properties *)

Images == {NoImage, Url} \cup {File(p) : p \in ProductIds}
Forms == [of : {New} \cup ProductIds, complete : BOOLEAN, stock : 0 .. MaxStock, image : Images,
          file : BOOLEAN]

\* Types; and a save under way passed the validation of its form.
TypeOK ==
    /\ DOMAIN db \subseteq ProductIds
    /\ \A p \in DOMAIN db : db[p] \in [of : ProductIds, stock : 0 .. MaxStock, image : Images]
    /\ dialog \in [open : BOOLEAN, editing : {New} \cup ProductIds, form : Forms,
                   saving : BOOLEAN]
    /\ save \in [phase : {"none", "sent", "served"}, step : {"save", "upload"},
                 editing : {New} \cup ProductIds, form : Forms, made : BOOLEAN]
    /\ save.phase # "none" => save.form.complete
    /\ save.step = "upload" => save.form.file
    /\ deletes \subseteq ProductIds
    /\ opened \in Nat /\ created \in Nat /\ failures \in Nat /\ retries \in Nat

\* However often Save is clicked and whatever is closed and opened meanwhile,
\* a dialog creates one product, and one more for every save that failed after
\* it had created its product (AdminProductsPage.tsx:111-120, 277).
OneProductPerDialog == created <= opened + retries

\* Why: a product that may still be created has its dialog, or its failure; the one
\* of a dialog that is being saved is the save's.
Creates == save.phase = "sent" /\ save.step = "save" /\ save.editing = New
MayCreate == dialog.open /\ dialog.editing = New /\ ~dialog.saving
CreationsCounted ==
    /\ created + (IF Creates THEN 1 ELSE 0) + (IF MayCreate THEN 1 ELSE 0) <= opened + retries
    /\ dialog.saving => save.phase # "none" /\ (dialog.editing = New => Creates \/ save.made)

\* What a row holds was typed into the dialog of its product, and an uploaded file
\* was chosen there, though the dialog may show another product when the upload
\* starts (AdminProductsPage.tsx:110-120).
RowsBelong ==
    \A p \in DOMAIN db : db[p].of = p /\ (db[p].image.kind = "file" => db[p].image.of = p)

\* Why: so do the form that is shown and the one that is being saved.
Belongs(form, p) == form.of = p /\ (form.image.kind = "file" => form.image.of = p)
FormsBelong ==
    /\ Belongs(dialog.form, dialog.editing) /\ Belongs(save.form, save.editing)
    /\ save.phase = "served" \/ save.step = "upload" => save.editing # New

DialogInv == TypeOK /\ CreationsCounted /\ RowsBelong /\ FormsBelong
=============================================================================
