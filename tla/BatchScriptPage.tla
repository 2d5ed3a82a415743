----------------------------- MODULE BatchScriptPage -----------------------------
(* The page that keeps batch scripts: a list read from the server, one template
   selected and copied into a draft, a preview of the targets that follows the
   draft, and the operations that create, duplicate, save and delete a template.
   Another device may change the stored templates at any time.  The runs of a
   template are left out: the page reads and shows them and keeps nothing of them.

   A template is its identifier and a number for its content; editing makes a
   content that did not exist.  Content 1 is the template of a new script. *)
EXTENDS Naturals, FiniteSets

CONSTANTS Script, Example, NoScript, MaxContent

Gone == 0  \* the content of an identifier that is not stored
ASSUME BatchAssumption ==
    /\ NoScript \notin Script \cup Example /\ Script \cap Example = {}
    /\ MaxContent \in Nat \ {0}

VARIABLES
    stored,        \* server: the content of each script
    created,       \* server: identifiers that were given out
    scripts,       \* the list on the page: content of each script
    selectedID, draft,
    saving,        \* the flag that disables buttons and fields
    deleteRequest, \* the template named by the dialog that deletes
    op,            \* the request that changes a template: a set of at most one
    loads,         \* reads of the list that have no answer
    preview,       \* the content whose targets are shown
    previewLoading, previews,
    content,       \* contents made so far
    everStored,    \* history: contents the server has had
    lostBySave     \* history: the read after a save replaced an edit not yet stored

batchVars == <<stored, created, scripts, selectedID, draft, saving, deleteRequest, op,
               loads, preview, previewLoading, previews, content, everStored, lostBySave>>
serverVars == <<stored, created, everStored>>
pageVars == <<scripts, selectedID, draft, deleteRequest, preview, previewLoading,
              previews, lostBySave>>
opVars == <<saving, op, loads>>

NoDraft == [id |-> NoScript, content |-> Gone]
Draft == [id : Script \cup Example, content : 1..MaxContent] \cup {NoDraft}

InList(list, id) == id \in Example \/ (id \in Script /\ list[id] # Gone)
ContentIn(list, id) == IF id \in Example THEN 1 ELSE list[id]
First(list) ==  \* the candidates for the first entry of the list
    LET mine == {s \in Script : list[s] # Gone}
    IN IF mine # {} THEN mine ELSE IF Example # {} THEN Example ELSE {NoScript}

\* The template the page is about: the selected one, or the draft, or the first.
ShownID(list, id, d) ==
    IF InList(list, id) THEN {id}
    ELSE IF d # NoDraft THEN {d.id} ELSE First(list)
Unsaved == draft # NoDraft /\ InList(scripts, selectedID)
           /\ draft.content # ContentIn(scripts, selectedID)

BatchInit ==
    /\ stored \in [Script -> {Gone, 1}] /\ created = {s \in Script : stored[s] # Gone}
    /\ scripts = [s \in Script |-> Gone] /\ selectedID = NoScript /\ draft = NoDraft
    /\ saving = FALSE /\ deleteRequest = NoScript /\ op = {}
    /\ loads = {[cause |-> "first", preferred |-> NoScript, list |-> {}]}
    /\ preview = Gone /\ previewLoading = FALSE /\ previews = {}
    /\ content = 1 /\ everStored = {1} /\ lostBySave = FALSE

-----------------------------------------------------------------------------
(* Effects of a new draft and of a new selection. *)

\* The preview of the former content is cancelled, the new one waits 450 ms.
Cancelled(requests) == {[p EXCEPT !.live = FALSE] : p \in {q \in requests : q.sent}}
PreviewDraft(d) ==
    IF d.content = draft.content THEN UNCHANGED <<preview, previewLoading,
                                                  previews>>
    ELSE /\ previewLoading' = (d # NoDraft)
         /\ preview' = IF d = NoDraft THEN Gone ELSE preview
         /\ previews' = Cancelled(previews) \cup
               (IF d = NoDraft THEN {}
                ELSE {[content |-> d.content, sent |-> FALSE, live |-> TRUE]})

Show(list, id, d) ==
    scripts' = list /\ selectedID' = id /\ draft' = d /\ PreviewDraft(d)

-----------------------------------------------------------------------------
(* Reading the list. *)

ReadList(load) ==
    /\ load.list = {} /\ loads' = (loads \ {load}) \cup {[load EXCEPT !.list = {stored}]}
    /\ UNCHANGED <<serverVars, pageVars, saving, op, content>>

\* A read that follows a save has replaced an edit that no server ever had.
Replaces(d, cause) ==
    lostBySave' = \/ lostBySave
                  \/ cause = "save" /\ Unsaved /\ draft.content \notin everStored /\ d # draft

\* The answer selects the preferred template or else the first, and makes the
\* draft anew; the operation that asked for it is finished.
ListLoaded(load) ==
    \E list \in load.list :
    \E id \in IF load.preferred = NoScript THEN First(list) ELSE {load.preferred} :
       LET d == IF InList(list, id) THEN [id |-> id, content |-> ContentIn(list, id)]
                ELSE NoDraft
       IN /\ Show(list, id, d) /\ Replaces(d, load.cause)
          /\ loads' = loads \ {load} /\ saving' = (saving /\ load.cause = "first")
          /\ UNCHANGED <<serverVars, deleteRequest, op, content>>

ListFails(load) ==
    /\ loads' = loads \ {load} /\ saving' = (saving /\ load.cause = "first")
    /\ UNCHANGED <<serverVars, pageVars, op, content>>

-----------------------------------------------------------------------------
(* The operator: select, edit, create, duplicate, save, delete. *)

SelectTemplate(id) ==
    /\ InList(scripts, id)
    /\ LET d == [id |-> id, content |-> ContentIn(scripts, id)]
       IN Show(scripts, id, d)
    /\ UNCHANGED <<serverVars, opVars, deleteRequest, content, lostBySave>>

(* As if the fields stayed open for typing during a save. *)
ReadOnlyExample == draft.id \in Example
ReadOnly == draft.id \in Example \/ saving
EditDraft ==
    /\ draft # NoDraft /\ ~ReadOnly /\ content < MaxContent
    /\ content' = content + 1 /\ draft' = [draft EXCEPT !.content = content + 1]
    /\ PreviewDraft(draft')
    /\ UNCHANGED <<serverVars, opVars, scripts, selectedID, deleteRequest, lostBySave>>

Begin(kind, id, c) ==
    /\ ~saving /\ saving' = TRUE
    /\ op' = {[kind |-> kind, id |-> id, content |-> c, applied |-> FALSE]}
    /\ UNCHANGED <<serverVars, loads>>

CreateScript ==
    \E id \in Script \ created : Begin("create", id, 1) /\ UNCHANGED <<pageVars,
                                                                       content>>

DuplicateSelected ==
    \E id \in Script \ created, shown \in ShownID(scripts, selectedID, draft) :
       /\ shown # NoScript /\ content < MaxContent /\ content' = content + 1
       /\ Begin("duplicate", id, content + 1) /\ UNCHANGED pageVars

SaveDraft ==
    /\ draft.id \in Script /\ Unsaved /\ Begin("save", draft.id, draft.content)
    /\ UNCHANGED <<pageVars, content>>

AskDelete ==
    /\ ~saving /\ deleteRequest = NoScript
    /\ \E shown \in ShownID(scripts, selectedID, draft) \cap Script : deleteRequest' = shown
    /\ UNCHANGED <<serverVars, opVars, scripts, selectedID, draft, preview,
                   previewLoading, previews, content, lostBySave>>

KeepTemplate ==
    /\ ~saving /\ deleteRequest # NoScript /\ deleteRequest' = NoScript
    /\ UNCHANGED <<serverVars, opVars, scripts, selectedID, draft, preview,
                   previewLoading, previews, content, lostBySave>>

DeleteSelected ==
    /\ deleteRequest # NoScript /\ Begin("delete", deleteRequest, Gone)
    /\ UNCHANGED <<pageVars, content>>

\* The server carries the operation out; a script that is gone is not found.
ApplyOp(o) ==
    /\ ~o.applied
    /\ o.kind \in {"save", "delete"} => stored[o.id] # Gone
    /\ o.kind \in {"create", "duplicate"} => o.id \notin created
    /\ stored' = [stored EXCEPT ![o.id] = o.content] /\ created' = created \cup {o.id}
    /\ everStored' = everStored \cup {o.content}
    /\ op' = {[o EXCEPT !.applied = TRUE]}
    /\ UNCHANGED <<pageVars, saving, loads, content>>

OpAnswered(o) ==
    /\ o.applied /\ op' = {}
    /\ loads' = loads \cup {[cause |-> o.kind, list |-> {},
                             preferred |-> IF o.kind = "delete" THEN NoScript ELSE o.id]}
    /\ deleteRequest' = IF o.kind = "delete" THEN NoScript ELSE deleteRequest
    /\ UNCHANGED <<serverVars, saving, scripts, selectedID, draft, preview,
                   previewLoading, previews, content, lostBySave>>

\* An error, or an answer that is lost after the server did the work.
OpFails(o) ==
    /\ op' = {} /\ saving' = FALSE
    /\ UNCHANGED <<serverVars, pageVars, loads, content>>

-----------------------------------------------------------------------------
(* The preview, and the other device. *)

PreviewTimer(p) ==
    /\ ~p.sent /\ previews' = (previews \ {p}) \cup {[p EXCEPT !.sent = TRUE]}
    /\ UNCHANGED <<serverVars, opVars, scripts, selectedID, draft, deleteRequest,
                   preview, previewLoading, content, lostBySave>>

(* As if the answer of a cancelled preview were taken over. *)
HeardAll(p) == p.sent
Heard(p) == p.live
PreviewAnswered(p, ok) ==
    /\ p.sent /\ previews' = previews \ {p}
    /\ IF Heard(p)
       THEN preview' = (IF ok THEN p.content ELSE Gone) /\ previewLoading' = FALSE
       ELSE UNCHANGED <<preview, previewLoading>>
    /\ UNCHANGED <<serverVars, opVars, scripts, selectedID, draft, deleteRequest,
                   content, lostBySave>>

\* Another device of the same operator saves or deletes a script.
OtherDevice(id, c) ==
    /\ stored[id] # Gone /\ c \in {Gone, content + 1} /\ c <= MaxContent
    /\ stored' = [stored EXCEPT ![id] = c] /\ everStored' = everStored \cup {c}
    /\ content' = IF c = Gone THEN content ELSE c
    /\ UNCHANGED <<created, pageVars, opVars>>

BatchNext ==
    \/ \E load \in loads : ReadList(load) \/ ListLoaded(load) \/ ListFails(load)
    \/ \E id \in Script \cup Example : SelectTemplate(id)
    \/ EditDraft \/ CreateScript \/ DuplicateSelected \/ SaveDraft
    \/ AskDelete \/ KeepTemplate \/ DeleteSelected
    \/ \E o \in op : ApplyOp(o) \/ OpAnswered(o) \/ OpFails(o)
    \/ \E p \in previews : PreviewTimer(p) \/ (\E ok \in BOOLEAN : PreviewAnswered(p, ok))
    \/ \E id \in Script, c \in 0..MaxContent : OtherDevice(id, c)

-----------------------------------------------------------------------------
(* Properties. *)

\* Every variable has its type; what is edited, highlighted and saved is one
\* template, and the page is "saving" exactly while an operation or the read that
\* follows it is under way.
BatchTypeOK ==
    /\ stored \in [Script -> 0..MaxContent] /\ scripts \in [Script -> 0..MaxContent]
    /\ draft \in Draft /\ selectedID \in Script \cup Example \cup {NoScript}
    /\ preview \in 0..MaxContent /\ Cardinality(op) <= 1
    /\ draft # NoDraft => draft.id = selectedID
    /\ saving <=> (op # {} \/ \E load \in loads : load.cause # "first")

\* The targets shown as final are those of the draft as it stands, however many
\* previews were asked for and in whatever order they are answered.
PreviewIsOfDraft == preview # Gone /\ ~previewLoading => preview = draft.content

\* Saving never loses an edit: what is in the draft when the list is read again
\* has been stored, because the fields are read-only until then.
SavingKeepsEdits == ~lostBySave
================================================================================
