------------------------------ MODULE BatchProofs ------------------------------
(* Theorems about BatchScriptPage and BatchRuns, for any scripts, contents, servers,
   runs and retention. *)
EXTENDS BatchScriptPage, BatchRuns, FiniteSetTheorems, TLAPS

--------------------------------------------------------------------------------
(* The batch script page: previews and edits.                               *)

BatchSpec == BatchInit /\ [][BatchNext]_batchVars

SomeID == Script \cup Example \cup {NoScript}
List == [Script -> Nat]
OpRecord == [kind : {"create", "duplicate", "save", "delete"}, id : Script, content : Nat,
             applied : BOOLEAN]
Load == [cause : {"first", "create", "duplicate", "save", "delete"},
         preferred : Script \cup {NoScript}, list : SUBSET List]
Preview == [content : Nat, sent : BOOLEAN, live : BOOLEAN]

BatchType ==
    /\ stored \in List /\ scripts \in List /\ content \in Nat /\ saving \in BOOLEAN
    /\ draft \in [id : SomeID, content : Nat] /\ (draft.content = Gone => draft = NoDraft)
    /\ selectedID \in SomeID /\ deleteRequest \in Script \cup {NoScript}
    /\ op \subseteq OpRecord /\ loads \subseteq Load /\ previews \subseteq Preview
    /\ lostBySave \in BOOLEAN

(* What the server has had, and the mark of a script that is gone. *)
EverHad == everStored \cup {Gone}

(* The lists that the page has, or is about to get, name what the server has had. *)
ListsAreEverHad ==
    /\ 1 \in everStored
    /\ \A s \in Script : stored[s] \in EverHad /\ scripts[s] \in EverHad
    /\ \A load \in loads : \A list \in load.list, s \in Script : list[s] \in EverHad

(* One operation, or the read that follows it, is under way while the page saves. *)
OneOperation ==
    /\ \A o, p \in op : o = p
    /\ \A k, l \in loads : k.cause # "first" /\ l.cause # "first" => k = l
    /\ op # {} => \A load \in loads : load.cause = "first"
    /\ op # {} \/ (\E load \in loads : load.cause # "first") => saving

(* What the draft holds while a save is under way is stored, or is being stored. *)
SavesHoldDraft ==
    /\ \A o \in op : o.applied => o.content \in everStored
    /\ \A o \in op : o.kind = "save" => draft.content \in EverHad \cup {o.content}
    /\ \A load \in loads : load.cause = "save" => draft.content \in EverHad

(* A preview that is still heard, as one that is not sent always is, is of the draft. *)
LiveIsOfDraft ==
    \A p \in previews : /\ p.live => p.content = draft.content
                        /\ ~p.sent => p.live

EditsInv == BatchType /\ ListsAreEverHad /\ OneOperation /\ SavesHoldDraft /\ SavingKeepsEdits
PreviewInv == LiveIsOfDraft /\ PreviewIsOfDraft

(* At first the list is being read and nothing else. *)
LEMMA InitBatch == BatchInit => EditsInv /\ PreviewInv
<1> SUFFICES ASSUME BatchInit PROVE EditsInv /\ PreviewInv
  OBVIOUS
<1>1. /\ stored \in List /\ scripts \in List
      /\ \A s \in Script : stored[s] \in {0, 1} /\ scripts[s] = 0
  BY DEF BatchInit, List, Gone
<1>2. NoDraft \in [id : SomeID, content : Nat] /\ NoDraft.content = Gone
  BY DEF NoDraft, SomeID, Gone
<1>3. /\ loads \subseteq Load
      /\ \A load \in loads : load.cause = "first" /\ load.list = {}
  BY DEF BatchInit, Load
<1>4. BatchType
  BY <1>1, <1>2, <1>3 DEF BatchInit, BatchType, SomeID
<1>5. ListsAreEverHad /\ OneOperation /\ SavesHoldDraft /\ SavingKeepsEdits
  BY <1>1, <1>3
  DEF BatchInit, ListsAreEverHad, OneOperation, SavesHoldDraft, SavingKeepsEdits, EverHad, Gone
<1> QED BY <1>4, <1>5 DEF EditsInv, PreviewInv, BatchInit, LiveIsOfDraft, PreviewIsOfDraft

(* The preview follows every draft. *)
LEMMA PreviewFollows ==
    ASSUME PreviewInv, previews \subseteq Preview, NEW d \in [id : SomeID, content : Nat],
           PreviewDraft(d), draft' = d
    PROVE  PreviewInv' /\ previews' \subseteq Preview
<1>1. CASE d.content = draft.content
  BY <1>1 DEF PreviewDraft, PreviewInv, LiveIsOfDraft, PreviewIsOfDraft
<1>2. CASE d.content # draft.content
  <2> DEFINE new == [content |-> d.content, sent |-> FALSE, live |-> TRUE]
  <2>1. /\ previewLoading' = (d # NoDraft) /\ (d = NoDraft => preview' = Gone)
        /\ previews' \subseteq Cancelled(previews) \cup {new}
    BY <1>2 DEF PreviewDraft
  <2>2. new \in Preview /\ new.content = d.content /\ new.live
    BY DEF Preview
  <2>3. /\ Cancelled(previews) \subseteq Preview
        /\ \A p \in Cancelled(previews) : p.sent /\ ~p.live
    BY DEF Cancelled, Preview
  <2> HIDE DEF new
  <2>4. LiveIsOfDraft'
    BY <2>1, <2>2, <2>3 DEF LiveIsOfDraft
  <2>5. PreviewIsOfDraft'
    BY <2>1 DEF PreviewIsOfDraft
  <2> QED BY <2>1, <2>2, <2>3, <2>4, <2>5 DEF PreviewInv
<1> QED BY <1>1, <1>2

(* A draft that is made from a list holds what the list names. *)
LEMMA ListedDraft ==
    ASSUME NEW list \in List, NEW id \in SomeID, InList(list, id)
    PROVE  /\ [id |-> id, content |-> ContentIn(list, id)] \in [id : SomeID, content : Nat]
           /\ ContentIn(list, id) # Gone
           /\ \/ id \in Example /\ ContentIn(list, id) = 1
              \/ id \in Script /\ ContentIn(list, id) = list[id]
<1>0. Gone = 0 /\ 1 \in Nat /\ 0 # 1
  BY DEF Gone
<1>1. CASE id \in Example
  <2>1. ContentIn(list, id) = 1
    BY <1>1 DEF ContentIn
  <2>2. [id |-> id, content |-> 1] \in [id : SomeID, content : Nat]
    BY <1>0
  <2> QED BY <1>0, <1>1, <2>1, <2>2
<1>2. CASE id \notin Example
  <2>1. id \in Script /\ list[id] # Gone /\ ContentIn(list, id) = list[id]
    BY <1>2 DEF InList, ContentIn
  <2>2. list[id] \in Nat
    BY <2>1 DEF List
  <2> QED BY <2>1, <2>2
<1> QED BY <1>1, <1>2

(* Steps that leave the draft and the previews alone. *)
LEMMA RestKeepsPreview ==
    ASSUME PreviewInv, UNCHANGED <<draft, preview, previewLoading, previews>>
    PROVE  PreviewInv'
  BY DEF PreviewInv, LiveIsOfDraft, PreviewIsOfDraft

(* Reading the list. *)
LEMMA LoadsKeepEdits ==
    ASSUME EditsInv, PreviewInv, NEW load \in loads,
           ReadList(load) \/ ListLoaded(load) \/ ListFails(load)
    PROVE  EditsInv' /\ PreviewInv'
<1>0. /\ BatchType /\ ListsAreEverHad /\ OneOperation /\ SavesHoldDraft /\ SavingKeepsEdits
      /\ load \in Load
  BY DEF EditsInv, BatchType
<1> USE DEF serverVars, pageVars, opVars
<1>1. CASE ReadList(load)
  <2> DEFINE l == [load EXCEPT !.list = {stored}]
  <2>1. /\ l \in Load /\ l.cause = load.cause /\ l.list = {stored}
        /\ loads' = (loads \ {load}) \cup {l}
    BY <1>0, <1>1 DEF ReadList, Load, BatchType
  <2>2. UNCHANGED <<serverVars, pageVars, saving, op, content>>
    BY <1>1 DEF ReadList
  <2> HIDE DEF l
  <2>3. BatchType'
    BY <1>0, <2>1, <2>2 DEF BatchType
  <2>4. ListsAreEverHad'
    BY <1>0, <2>1, <2>2 DEF ListsAreEverHad, EverHad
  <2>5. OneOperation'
    BY <1>0, <2>1, <2>2 DEF OneOperation
  <2>6. SavesHoldDraft' /\ SavingKeepsEdits'
    BY <1>0, <2>1, <2>2 DEF SavesHoldDraft, SavingKeepsEdits, EverHad
  <2> QED BY <2>2, <2>3, <2>4, <2>5, <2>6, RestKeepsPreview DEF EditsInv
<1>2. ASSUME loads' = loads \ {load}, saving' = (saving /\ load.cause = "first"), UNCHANGED op
      PROVE  OneOperation' /\ saving' \in BOOLEAN
  BY <1>0, <1>2 DEF OneOperation, BatchType
<1>3. CASE ListFails(load)
  <2>1. UNCHANGED <<serverVars, pageVars, op, content>> /\ loads' = loads \ {load}
    BY <1>3 DEF ListFails
  <2>2. OneOperation' /\ saving' \in BOOLEAN
    BY <1>2, <1>3 DEF ListFails
  <2>3. BatchType'
    BY <1>0, <2>1, <2>2 DEF BatchType
  <2>4. ListsAreEverHad' /\ SavesHoldDraft' /\ SavingKeepsEdits'
    BY <1>0, <2>1 DEF ListsAreEverHad, SavesHoldDraft, SavingKeepsEdits, EverHad
  <2> QED BY <2>1, <2>2, <2>3, <2>4, RestKeepsPreview DEF EditsInv
<1>4. CASE ListLoaded(load)
  <2>a. PICK list \in load.list :
          \E id \in IF load.preferred = NoScript THEN First(list) ELSE {load.preferred} :
            LET d == IF InList(list, id) THEN [id |-> id, content |-> ContentIn(list, id)]
                     ELSE NoDraft
            IN  Show(list, id, d) /\ Replaces(d, load.cause)
    BY <1>4 DEF ListLoaded
  <2>1. PICK id \in IF load.preferred = NoScript THEN First(list) ELSE {load.preferred} :
          LET d == IF InList(list, id) THEN [id |-> id, content |-> ContentIn(list, id)]
                   ELSE NoDraft
          IN  Show(list, id, d) /\ Replaces(d, load.cause)
    BY <2>a
  <2> DEFINE d == IF InList(list, id) THEN [id |-> id, content |-> ContentIn(list, id)]
                  ELSE NoDraft
  <2>2. list \in List /\ \A s \in Script : list[s] \in EverHad
    BY <1>0 DEF Load, ListsAreEverHad
  <2>3. id \in SomeID
    BY <1>0, <2>1 DEF First, Load, SomeID
  <2>4. d \in [id : SomeID, content : Nat] /\ d.content \in EverHad
        /\ (d.content = Gone => d = NoDraft)
    <3>1. CASE InList(list, id)
      BY <1>0, <2>2, <2>3, <3>1, ListedDraft DEF ListsAreEverHad, EverHad
    <3>2. CASE ~InList(list, id)
      BY <3>2 DEF NoDraft, SomeID, Gone, EverHad
    <3> QED BY <3>1, <3>2
  <2>5. Show(list, id, d) /\ Replaces(d, load.cause)
    BY <2>1
  <2> HIDE DEF d
  <2>6. scripts' = list /\ selectedID' = id /\ draft' = d /\ PreviewDraft(d)
    BY <2>5 DEF Show
  <2>7. PreviewInv' /\ previews' \subseteq Preview
    BY <1>0, <2>4, <2>6, PreviewFollows DEF BatchType
  <2>8. OneOperation' /\ saving' \in BOOLEAN /\ loads' = loads \ {load}
        /\ UNCHANGED <<serverVars, deleteRequest, op, content>>
    BY <1>2, <1>4 DEF ListLoaded
  <2>9. load.cause = "save" => draft.content \in everStored \/ ~Unsaved
    BY <1>0 DEF SavesHoldDraft, EverHad, Unsaved, BatchType
  <2>10. lostBySave' = FALSE
    BY <1>0, <2>5, <2>9 DEF Replaces, SavingKeepsEdits, BatchType
  <2>11. BatchType'
    BY <1>0, <2>2, <2>3, <2>4, <2>6, <2>7, <2>8, <2>10 DEF BatchType
  <2>12. ListsAreEverHad'
    BY <1>0, <2>2, <2>6, <2>8 DEF ListsAreEverHad, EverHad
  <2>13. SavesHoldDraft'
    BY <1>0, <2>4, <2>6, <2>8 DEF SavesHoldDraft, EverHad
  <2> QED BY <2>7, <2>8, <2>10, <2>11, <2>12, <2>13 DEF EditsInv, SavingKeepsEdits
<1> QED BY <1>1, <1>3, <1>4
(* The operator's steps that change the draft: a save under way keeps its fields shut. *)
LEMMA DraftingKeepsEdits ==
    ASSUME EditsInv, PreviewInv,
           EditDraft \/ \E id \in Script \cup Example : SelectTemplate(id)
    PROVE  EditsInv' /\ PreviewInv'
<1>0. BatchType /\ ListsAreEverHad /\ OneOperation /\ SavesHoldDraft /\ SavingKeepsEdits
  BY DEF EditsInv
<1> USE DEF serverVars, pageVars, opVars
<1>1. ASSUME NEW d \in [id : SomeID, content : Nat], draft' = d, PreviewDraft(d),
             d.content = Gone => d = NoDraft,
             saving => d.content \in EverHad,
             UNCHANGED <<serverVars, opVars, scripts, deleteRequest, lostBySave>>,
             selectedID' \in SomeID, content' \in Nat
      PROVE  EditsInv' /\ PreviewInv'
  <2>1. PreviewInv' /\ previews' \subseteq Preview
    BY <1>0, <1>1, PreviewFollows DEF BatchType
  <2>2. BatchType'
    BY <1>0, <1>1, <2>1 DEF BatchType
  <2>3. ListsAreEverHad' /\ OneOperation' /\ SavingKeepsEdits'
    BY <1>0, <1>1 DEF ListsAreEverHad, OneOperation, SavingKeepsEdits, EverHad
  <2>4. SavesHoldDraft'
    BY <1>0, <1>1 DEF SavesHoldDraft, OneOperation, EverHad
  <2> QED BY <2>1, <2>2, <2>3, <2>4 DEF EditsInv
<1>2. CASE EditDraft
  <2> DEFINE d == [draft EXCEPT !.content = content + 1]
  <2>1. /\ d \in [id : SomeID, content : Nat] /\ d.content = content + 1
        /\ d.content # Gone /\ content' = content + 1
    BY <1>0, <1>2 DEF EditDraft, BatchType, Gone
  <2>2. draft' = d /\ PreviewDraft(d) /\ ~saving
    BY <1>2 DEF EditDraft, ReadOnly, PreviewDraft
  <2>3. UNCHANGED <<serverVars, opVars, scripts, selectedID, deleteRequest, lostBySave>>
    BY <1>2 DEF EditDraft
  <2> HIDE DEF d
  <2> QED BY <1>0, <1>1, <2>1, <2>2, <2>3 DEF BatchType
<1>3. ASSUME NEW id \in Script \cup Example, SelectTemplate(id)
      PROVE  EditsInv' /\ PreviewInv'
  <2> DEFINE d == [id |-> id, content |-> ContentIn(scripts, id)]
  <2>1. InList(scripts, id) /\ id \in SomeID /\ scripts \in List
    BY <1>0, <1>3 DEF SelectTemplate, SomeID, BatchType
  <2>2. d \in [id : SomeID, content : Nat] /\ d.content # Gone /\ d.content \in EverHad
    BY <1>0, <2>1, ListedDraft DEF ListsAreEverHad, EverHad
  <2>3. Show(scripts, id, d)
        /\ UNCHANGED <<serverVars, opVars, deleteRequest, content, lostBySave>>
    BY <1>3 DEF SelectTemplate
  <2> HIDE DEF d
  <2> QED BY <1>0, <1>1, <2>1, <2>2, <2>3 DEF Show, BatchType
<1> QED BY <1>2, <1>3

(* Operations: one begins when none is under way, and a save takes the draft along. *)
LEMMA OperationsKeepEdits ==
    ASSUME EditsInv, PreviewInv,
           \/ CreateScript \/ DuplicateSelected \/ SaveDraft
           \/ AskDelete \/ KeepTemplate \/ DeleteSelected
           \/ \E o \in op : ApplyOp(o) \/ OpAnswered(o) \/ OpFails(o)
    PROVE  EditsInv' /\ PreviewInv'
<1>0. BatchType /\ ListsAreEverHad /\ OneOperation /\ SavesHoldDraft /\ SavingKeepsEdits
  BY DEF EditsInv
<1> USE DEF serverVars, pageVars, opVars
<1>1. ASSUME NEW kind \in {"create", "duplicate", "save", "delete"}, NEW id \in Script,
             NEW c \in Nat, Begin(kind, id, c), UNCHANGED pageVars, content' \in Nat,
             kind = "save" => draft.content = c
      PROVE  EditsInv' /\ PreviewInv'
  <2> DEFINE o == [kind |-> kind, id |-> id, content |-> c, applied |-> FALSE]
  <2>1. o \in OpRecord /\ ~o.applied /\ o.kind = kind /\ o.content = c
    BY DEF OpRecord
  <2>2. ~saving /\ saving' = TRUE /\ op' = {o} /\ UNCHANGED <<serverVars, loads>>
    BY <1>1 DEF Begin
  <2> HIDE DEF o
  <2>3. BatchType'
    BY <1>0, <1>1, <2>1, <2>2 DEF BatchType
  <2>4. ListsAreEverHad' /\ SavingKeepsEdits'
    BY <1>0, <1>1, <2>2 DEF ListsAreEverHad, SavingKeepsEdits, EverHad
  <2>5. OneOperation'
    BY <1>0, <2>2 DEF OneOperation
  <2>6. SavesHoldDraft'
    BY <1>0, <1>1, <2>1, <2>2 DEF SavesHoldDraft, EverHad
  <2> QED BY <1>1, <2>3, <2>4, <2>5, <2>6, RestKeepsPreview DEF EditsInv
<1>2. CASE CreateScript
  BY <1>0, <1>1, <1>2 DEF CreateScript, BatchType
<1>3. CASE DuplicateSelected
  <2>1. PICK id \in Script : /\ Begin("duplicate", id, content + 1) /\ UNCHANGED pageVars
                             /\ content' = content + 1
    BY <1>3 DEF DuplicateSelected
  <2>2. content + 1 \in Nat
    BY <1>0 DEF BatchType
  <2> QED BY <1>1, <2>1, <2>2
<1>4. CASE SaveDraft
  BY <1>0, <1>1, <1>4 DEF SaveDraft, BatchType
<1>5. CASE DeleteSelected
  <2>1. deleteRequest \in Script
    BY <1>0, <1>5 DEF DeleteSelected, BatchType
  <2>2. Gone \in Nat
    BY DEF Gone
  <2> QED BY <1>0, <1>1, <1>5, <2>1, <2>2 DEF DeleteSelected, BatchType
<1>6. CASE AskDelete \/ KeepTemplate
  <2>1. deleteRequest' \in Script \cup {NoScript}
    BY <1>6 DEF AskDelete, KeepTemplate
  <2>2. UNCHANGED <<serverVars, opVars, scripts, selectedID, draft, preview, previewLoading,
                    previews, content, lostBySave>>
    BY <1>6 DEF AskDelete, KeepTemplate
  <2>3. BatchType'
    BY <1>0, <2>1, <2>2 DEF BatchType
  <2>4. ListsAreEverHad' /\ OneOperation' /\ SavesHoldDraft' /\ SavingKeepsEdits'
    BY <1>0, <2>2 DEF ListsAreEverHad, OneOperation, SavesHoldDraft, SavingKeepsEdits, EverHad
  <2> QED BY <2>2, <2>3, <2>4, RestKeepsPreview DEF EditsInv
<1>7. ASSUME NEW o \in op, ApplyOp(o) PROVE EditsInv' /\ PreviewInv'
  <2> DEFINE n == [o EXCEPT !.applied = TRUE]
  <2>1. o \in OpRecord /\ o.content \in Nat
    BY <1>0 DEF BatchType, OpRecord
  <2>2. n \in OpRecord /\ n.kind = o.kind /\ n.content = o.content /\ n.applied
    BY <2>1 DEF OpRecord
  <2>3. /\ op' = {n} /\ everStored' = everStored \cup {o.content}
        /\ stored' = [stored EXCEPT ![o.id] = o.content]
        /\ UNCHANGED <<pageVars, saving, loads, content>>
    BY <1>7 DEF ApplyOp
  <2> HIDE DEF n
  <2>4. BatchType'
    BY <1>0, <2>1, <2>2, <2>3 DEF BatchType, List
  <2>5. ListsAreEverHad'
    BY <1>0, <2>1, <2>3 DEF ListsAreEverHad, EverHad, BatchType, List
  <2>6. OneOperation' /\ SavingKeepsEdits'
    BY <1>0, <2>3 DEF OneOperation, SavingKeepsEdits
  <2>7. SavesHoldDraft'
    BY <1>0, <2>2, <2>3 DEF SavesHoldDraft, EverHad
  <2> QED BY <2>3, <2>4, <2>5, <2>6, <2>7, RestKeepsPreview DEF EditsInv
<1>8. ASSUME NEW o \in op, OpAnswered(o) PROVE EditsInv' /\ PreviewInv'
  <2> DEFINE l == [cause |-> o.kind, list |-> {},
                   preferred |-> IF o.kind = "delete" THEN NoScript ELSE o.id]
  <2>1. o \in OpRecord /\ o.applied /\ op # {} /\ o.kind # "first"
    BY <1>0, <1>8 DEF OpAnswered, BatchType, OpRecord
  <2>2. l \in Load /\ l.cause = o.kind /\ l.list = {}
    BY <2>1 DEF OpRecord, Load
  <2>3. /\ op' = {} /\ loads' = loads \cup {l}
        /\ UNCHANGED <<serverVars, saving, scripts, selectedID, draft, preview, previewLoading,
                       previews, content, lostBySave>>
    BY <1>8 DEF OpAnswered
  <2>4. deleteRequest' \in Script \cup {NoScript}
    BY <1>0, <1>8 DEF OpAnswered, BatchType
  <2> HIDE DEF l
  <2>5. BatchType'
    BY <1>0, <2>2, <2>3, <2>4 DEF BatchType
  <2>6. ListsAreEverHad' /\ SavingKeepsEdits'
    BY <1>0, <2>2, <2>3 DEF ListsAreEverHad, SavingKeepsEdits, EverHad
  <2>7. OneOperation'
    BY <1>0, <2>1, <2>2, <2>3 DEF OneOperation
  <2>8. SavesHoldDraft'
    BY <1>0, <2>1, <2>2, <2>3 DEF SavesHoldDraft, EverHad
  <2> QED BY <2>3, <2>5, <2>6, <2>7, <2>8, RestKeepsPreview DEF EditsInv
<1>9. ASSUME NEW o \in op, OpFails(o) PROVE EditsInv' /\ PreviewInv'
  <2>1. op' = {} /\ saving' = FALSE /\ UNCHANGED <<serverVars, pageVars, loads, content>>
    BY <1>9 DEF OpFails
  <2>2. BatchType'
    BY <1>0, <2>1 DEF BatchType
  <2>3. ListsAreEverHad' /\ OneOperation' /\ SavesHoldDraft' /\ SavingKeepsEdits'
    BY <1>0, <2>1 DEF ListsAreEverHad, OneOperation, SavesHoldDraft, SavingKeepsEdits, EverHad
  <2> QED BY <2>1, <2>2, <2>3, RestKeepsPreview DEF EditsInv
<1> QED BY <1>2, <1>3, <1>4, <1>5, <1>6, <1>7, <1>8, <1>9

(* The preview's own steps, and those of the other device. *)
LEMMA OthersKeepEdits ==
    ASSUME EditsInv, PreviewInv,
           \/ \E p \in previews :
                 PreviewTimer(p) \/ (\E ok \in BOOLEAN : PreviewAnswered(p, ok))
           \/ \E id \in Script, c \in 0..MaxContent : OtherDevice(id, c)
    PROVE  EditsInv' /\ PreviewInv'
<1>0. /\ BatchType /\ ListsAreEverHad /\ OneOperation /\ SavesHoldDraft /\ SavingKeepsEdits
      /\ LiveIsOfDraft /\ PreviewIsOfDraft
  BY DEF EditsInv, PreviewInv
<1> USE DEF serverVars, pageVars, opVars
<1>1. ASSUME UNCHANGED <<serverVars, opVars, scripts, selectedID, draft, deleteRequest, content,
                         lostBySave>>,
             previews' \subseteq Preview
      PROVE  EditsInv'
  BY <1>0, <1>1
  DEF EditsInv, BatchType, ListsAreEverHad, OneOperation, SavesHoldDraft, SavingKeepsEdits, EverHad
<1>2. ASSUME NEW p \in previews, PreviewTimer(p) PROVE EditsInv' /\ PreviewInv'
  <2> DEFINE n == [p EXCEPT !.sent = TRUE]
  <2>1. n \in Preview /\ n.content = p.content /\ n.live = p.live /\ n.sent
    BY <1>0 DEF BatchType, Preview
  <2>2. previews' = (previews \ {p}) \cup {n} /\ UNCHANGED <<draft, preview, previewLoading>>
    BY <1>2 DEF PreviewTimer
  <2> HIDE DEF n
  <2>3. PreviewInv'
    BY <1>0, <2>1, <2>2 DEF PreviewInv, LiveIsOfDraft, PreviewIsOfDraft
  <2> QED BY <1>0, <1>1, <1>2, <2>1, <2>2, <2>3 DEF PreviewTimer, BatchType
<1>3. ASSUME NEW p \in previews, NEW ok \in BOOLEAN, PreviewAnswered(p, ok)
      PROVE  EditsInv' /\ PreviewInv'
  <2>1. previews' = previews \ {p} /\ UNCHANGED draft
    BY <1>3 DEF PreviewAnswered
  <2>2. LiveIsOfDraft'
    BY <1>0, <2>1 DEF LiveIsOfDraft
  <2>3. PreviewIsOfDraft'
    BY <1>0, <1>3, <2>1 DEF PreviewAnswered, Heard, LiveIsOfDraft, PreviewIsOfDraft
  <2> QED BY <1>0, <1>1, <1>3, <2>1, <2>2, <2>3 DEF PreviewAnswered, PreviewInv, BatchType
<1>4. ASSUME NEW id \in Script, NEW c \in 0..MaxContent, OtherDevice(id, c)
      PROVE  EditsInv' /\ PreviewInv'
  <2>1. c \in Nat
    BY BatchAssumption DEF BatchAssumption
  <2>2. /\ stored' = [stored EXCEPT ![id] = c] /\ everStored' = everStored \cup {c}
        /\ content' \in Nat /\ UNCHANGED <<pageVars, opVars>>
    BY <1>0, <1>4, <2>1 DEF OtherDevice, BatchType
  <2>3. BatchType'
    BY <1>0, <2>1, <2>2 DEF BatchType, List
  <2>4. ListsAreEverHad'
    BY <1>0, <2>2 DEF ListsAreEverHad, EverHad, BatchType, List
  <2>5. OneOperation' /\ SavesHoldDraft' /\ SavingKeepsEdits'
    BY <1>0, <2>2 DEF OneOperation, SavesHoldDraft, SavingKeepsEdits, EverHad
  <2> QED BY <2>2, <2>3, <2>4, <2>5, RestKeepsPreview DEF EditsInv
<1> QED BY <1>2, <1>3, <1>4

(* Every step keeps edits and previews in order. *)
LEMMA NextBatch ==
    EditsInv /\ PreviewInv /\ [BatchNext]_batchVars => EditsInv' /\ PreviewInv'
<1> SUFFICES ASSUME EditsInv, PreviewInv, [BatchNext]_batchVars
             PROVE  EditsInv' /\ PreviewInv'
  OBVIOUS
<1>1. CASE UNCHANGED batchVars
  BY <1>1
  DEF batchVars, EditsInv, BatchType, ListsAreEverHad, OneOperation, SavesHoldDraft,
      SavingKeepsEdits, EverHad, PreviewInv, LiveIsOfDraft, PreviewIsOfDraft
<1> QED BY <1>1, LoadsKeepEdits, DraftingKeepsEdits, OperationsKeepEdits, OthersKeepEdits
  DEF BatchNext

(* A save never costs an edit, whatever reads, answers, selections and other devices do:
   any scripts and contents. *)
THEOREM SavesKeepEdits == BatchSpec => []SavingKeepsEdits
<1>1. EditsInv => SavingKeepsEdits
  BY DEF EditsInv
<1> QED BY <1>1, InitBatch, NextBatch, PTL DEF BatchSpec

(* The targets shown as final are those of the draft, in whatever order previews are
   answered: any scripts and contents. *)
THEOREM PreviewsFollowDraft == BatchSpec => []PreviewIsOfDraft
<1>1. PreviewInv => PreviewIsOfDraft
  BY DEF PreviewInv
<1> QED BY <1>1, InitBatch, NextBatch, PTL DEF BatchSpec

--------------------------------------------------------------------------------
(* The batch script page: the types of the page. *)

(* Contents are numbers up to those made so far; the draft is of the template that is
   selected. *)
ContentsMade ==
    /\ content \in 1..MaxContent /\ everStored \subseteq 0..MaxContent
    /\ \A o \in op : o.content \in 0..MaxContent
    /\ \A p \in previews : p.content \in 0..MaxContent
    /\ preview \in 0..MaxContent
DraftIsSelected == draft \in Draft /\ (draft # NoDraft => draft.id = selectedID)
(* While the page saves, an operation or the read that follows it is under way. *)
SavingHasReason == saving => op # {} \/ \E load \in loads : load.cause # "first"
BatchRest == ContentsMade /\ DraftIsSelected /\ SavingHasReason

(* What the server has had is a content. *)
LEMMA HadIsContent ==
    ASSUME ContentsMade, NEW c \in EverHad, c # Gone
    PROVE  c \in 1..MaxContent
  BY BatchAssumption DEF ContentsMade, EverHad, Gone, BatchAssumption

(* A content of a listed template makes a draft. *)
LEMMA ListedIsDraft ==
    ASSUME ContentsMade, ListsAreEverHad, NEW list \in List, \A s \in Script : list[s] \in EverHad,
           NEW id, InList(list, id)
    PROVE  /\ [id |-> id, content |-> ContentIn(list, id)] \in Draft
           /\ ContentIn(list, id) \in 1..MaxContent
<1>1. id \in Script \cup Example
  BY DEF InList
<1>2. 1 \in 1..MaxContent
  BY BatchAssumption DEF BatchAssumption
<1>3. ContentIn(list, id) \in 1..MaxContent
  <2>1. CASE id \in Example
    BY <1>2, <2>1 DEF ContentIn
  <2>2. CASE id \notin Example
    <3>1. id \in Script /\ list[id] # Gone /\ ContentIn(list, id) = list[id]
      BY <2>2 DEF InList, ContentIn
    <3> QED BY <3>1, HadIsContent
  <2> QED BY <2>1, <2>2
<1> QED BY <1>1, <1>3 DEF Draft

(* The preview of a draft is of a content that was made. *)
LEMMA PreviewsMade ==
    ASSUME ContentsMade, NEW d, d.content \in 0..MaxContent, PreviewDraft(d),
           previews \subseteq Preview
    PROVE  /\ preview' \in 0..MaxContent
           /\ \A p \in previews' : p.content \in 0..MaxContent
<1>0. Gone \in 0..MaxContent
  BY BatchAssumption DEF BatchAssumption, Gone
<1>1. CASE d.content = draft.content
  BY <1>1 DEF PreviewDraft, ContentsMade
<1>2. CASE d.content # draft.content
  <2> DEFINE new == [content |-> d.content, sent |-> FALSE, live |-> TRUE]
  <2>1. preview' \in {Gone, preview} /\ previews' \subseteq Cancelled(previews) \cup {new}
    BY <1>2 DEF PreviewDraft
  <2>2. \A p \in Cancelled(previews) : p.content \in 0..MaxContent
    BY DEF Cancelled, ContentsMade, Preview
  <2>3. new.content \in 0..MaxContent
    OBVIOUS
  <2> HIDE DEF new
  <2> QED BY <1>0, <2>1, <2>2, <2>3 DEF ContentsMade
<1> QED BY <1>1, <1>2

(* The first content is the only one at first, and nothing is drafted. *)
LEMMA InitBatchRest == BatchInit => BatchRest
<1> SUFFICES ASSUME BatchInit PROVE BatchRest
  OBVIOUS
<1>1. 1 \in 1..MaxContent /\ 1 \in 0..MaxContent /\ Gone \in 0..MaxContent
  BY BatchAssumption DEF BatchAssumption, Gone
<1>2. ContentsMade
  BY <1>1 DEF BatchInit, ContentsMade
<1> QED BY <1>2 DEF BatchInit, BatchRest, DraftIsSelected, Draft, SavingHasReason

(* Every step keeps the rest of the type. *)
LEMMA NextBatchRest == EditsInv /\ BatchRest /\ [BatchNext]_batchVars => BatchRest'
<1> SUFFICES ASSUME EditsInv, BatchRest, [BatchNext]_batchVars PROVE BatchRest'
  OBVIOUS
<1>0. /\ BatchType /\ ListsAreEverHad /\ OneOperation
      /\ ContentsMade /\ DraftIsSelected /\ SavingHasReason
  BY DEF EditsInv, BatchRest
<1>a. MaxContent \in Nat \ {0} /\ Gone \in 0..MaxContent
  BY BatchAssumption DEF BatchAssumption, Gone
<1> USE DEF serverVars, pageVars, opVars
<1>1. ASSUME UNCHANGED <<draft, selectedID>> PROVE DraftIsSelected'
  BY <1>0, <1>1 DEF DraftIsSelected
<1>2. ASSUME UNCHANGED <<content, everStored, op, previews, preview>> PROVE ContentsMade'
  BY <1>0, <1>2 DEF ContentsMade
<1>3. ASSUME UNCHANGED <<saving, op, loads>> PROVE SavingHasReason'
  BY <1>0, <1>3 DEF SavingHasReason
<1>4. ASSUME NEW load \in loads, loads' = loads \ {load}, saving' = (saving
             /\ load.cause = "first"),
             UNCHANGED op
      PROVE  SavingHasReason'
  BY <1>0, <1>4 DEF SavingHasReason
<1>5. ASSUME NEW d \in Draft, draft' = d, d # NoDraft => d.id = selectedID', PreviewDraft(d),
             content' \in 1..MaxContent, UNCHANGED <<everStored, op>>
      PROVE  DraftIsSelected' /\ ContentsMade'
  <2>1. d.content \in 0..MaxContent
    BY <1>a DEF Draft, NoDraft
  <2>2. preview' \in 0..MaxContent /\ \A p \in previews' : p.content \in 0..MaxContent
    BY <1>0, <1>5, <2>1, PreviewsMade DEF BatchType
  <2> QED BY <1>0, <1>5, <2>2 DEF DraftIsSelected, ContentsMade
<1>6. CASE UNCHANGED batchVars
  BY <1>1, <1>2, <1>3, <1>6 DEF batchVars, BatchRest
<1>7. ASSUME NEW load \in loads, ReadList(load) PROVE BatchRest'
  <2> DEFINE l == [load EXCEPT !.list = {stored}]
  <2>1. loads' = (loads \ {load}) \cup {l} /\ l.cause = load.cause
    BY <1>0, <1>7 DEF ReadList, BatchType, Load
  <2>2. UNCHANGED <<saving, op>>
    BY <1>7 DEF ReadList
  <2> HIDE DEF l
  <2>3. SavingHasReason'
    BY <1>0, <2>1, <2>2 DEF SavingHasReason
  <2> QED BY <1>1, <1>2, <1>7, <2>3 DEF ReadList, BatchRest
<1>8. ASSUME NEW load \in loads, ListFails(load) PROVE BatchRest'
  BY <1>1, <1>2, <1>4, <1>8 DEF ListFails, BatchRest
<1>9. ASSUME NEW load \in loads, ListLoaded(load) PROVE BatchRest'
  <2>1. PICK list \in load.list :
          \E id \in IF load.preferred = NoScript THEN First(list) ELSE {load.preferred} :
            Show(list, id, IF InList(list, id) THEN [id |-> id, content |-> ContentIn(list, id)]
                           ELSE NoDraft)
    BY <1>9 DEF ListLoaded
  <2>2. PICK id : Show(list, id, IF InList(list, id)
                                 THEN [id |-> id, content |-> ContentIn(list, id)] ELSE NoDraft)
    BY <2>1
  <2> DEFINE d == IF InList(list, id) THEN [id |-> id, content |-> ContentIn(list, id)]
                  ELSE NoDraft
  <2>3. list \in List /\ \A s \in Script : list[s] \in EverHad
    BY <1>0 DEF BatchType, Load, ListsAreEverHad
  <2>4. d \in Draft /\ (d # NoDraft => d.id = id)
    BY <1>0, <2>3, ListedIsDraft DEF Draft
  <2>5. selectedID' = id /\ draft' = d /\ PreviewDraft(d)
    BY <2>2 DEF Show
  <2>6. UNCHANGED <<everStored, op, content>> /\ content \in 1..MaxContent
    BY <1>0, <1>9 DEF ListLoaded, ContentsMade
  <2> HIDE DEF d
  <2>7. DraftIsSelected' /\ ContentsMade'
    BY <1>5, <2>4, <2>5, <2>6
  <2> QED BY <1>4, <1>9, <2>7 DEF ListLoaded, BatchRest
<1>10. ASSUME NEW id \in Script \cup Example, SelectTemplate(id) PROVE BatchRest'
  <2> DEFINE d == [id |-> id, content |-> ContentIn(scripts, id)]
  <2>1. d \in Draft /\ d.id = id
    BY <1>0, <1>10, ListedIsDraft DEF SelectTemplate, BatchType, ListsAreEverHad
  <2>2. Show(scripts, id, d) /\ UNCHANGED <<serverVars, opVars, content>>
    BY <1>10 DEF SelectTemplate
  <2> HIDE DEF d
  <2>3. DraftIsSelected' /\ ContentsMade'
    BY <1>0, <1>5, <2>1, <2>2 DEF Show, ContentsMade
  <2> QED BY <1>3, <2>2, <2>3 DEF BatchRest
<1>11. CASE EditDraft
  <2> DEFINE d == [draft EXCEPT !.content = content + 1]
  <2>1. content + 1 \in 1..MaxContent
    BY <1>0, <1>a, <1>11 DEF EditDraft, ContentsMade
  <2>2. draft \in [id : Script \cup Example, content : 1..MaxContent] /\ draft.id = selectedID
    BY <1>0, <1>11 DEF EditDraft, DraftIsSelected, Draft
  <2>3. d \in Draft /\ d.id = selectedID
    BY <2>1, <2>2 DEF Draft
  <2>4. draft' = d /\ PreviewDraft(d)
    BY <1>11 DEF EditDraft, PreviewDraft
  <2>5. content' = content + 1 /\ UNCHANGED <<serverVars, opVars, selectedID>>
    BY <1>11 DEF EditDraft
  <2> HIDE DEF d
  <2>6. DraftIsSelected' /\ ContentsMade'
    BY <1>5, <2>1, <2>3, <2>4, <2>5
  <2> QED BY <1>3, <2>5, <2>6 DEF BatchRest
<1>12. ASSUME NEW kind, NEW id, NEW c \in 0..MaxContent, Begin(kind, id, c), UNCHANGED pageVars,
              content' \in 1..MaxContent
       PROVE  BatchRest'
  <2>1. op' # {} /\ (\A o \in op' : o.content = c) /\ UNCHANGED everStored
    BY <1>12 DEF Begin
  <2>2. ContentsMade'
    BY <1>0, <1>12, <2>1 DEF ContentsMade
  <2> QED BY <1>1, <1>12, <2>1, <2>2 DEF BatchRest, SavingHasReason
<1>13. content \in 1..MaxContent /\ 1 \in 0..MaxContent
  BY <1>0, <1>a DEF ContentsMade
<1>14. CASE CreateScript
  BY <1>12, <1>13, <1>14 DEF CreateScript
<1>15. CASE DuplicateSelected
  <2>1. content' = content + 1 /\ content < MaxContent /\ UNCHANGED pageVars
        /\ \E id \in Script : Begin("duplicate", id, content + 1)
    BY <1>15 DEF DuplicateSelected
  <2>2. content + 1 \in 1..MaxContent /\ content + 1 \in 0..MaxContent
    BY <1>13, <1>a, <2>1
  <2> QED BY <1>12, <2>1, <2>2
<1>16. CASE SaveDraft
  <2>1. draft.content \in 0..MaxContent
    BY <1>0, <1>a DEF DraftIsSelected, Draft, NoDraft
  <2> QED BY <1>12, <1>13, <1>16, <2>1 DEF SaveDraft
<1>17. CASE DeleteSelected
  BY <1>12, <1>13, <1>17, <1>a DEF DeleteSelected
<1>18. CASE AskDelete \/ KeepTemplate
  BY <1>1, <1>2, <1>3, <1>18 DEF AskDelete, KeepTemplate, BatchRest
<1>19. ASSUME NEW o \in op, ApplyOp(o) PROVE BatchRest'
  <2> DEFINE n == [o EXCEPT !.applied = TRUE]
  <2>1. o.content \in 0..MaxContent /\ n.content = o.content
    BY <1>0 DEF ContentsMade, BatchType, OpRecord
  <2>2. /\ op' = {n} /\ everStored' = everStored \cup {o.content}
        /\ UNCHANGED <<pageVars, saving, loads, content>>
    BY <1>19 DEF ApplyOp
  <2> HIDE DEF n
  <2>3. ContentsMade'
    BY <1>0, <2>1, <2>2 DEF ContentsMade
  <2>4. SavingHasReason'
    BY <2>2 DEF SavingHasReason
  <2> QED BY <1>1, <2>2, <2>3, <2>4 DEF BatchRest
<1>20. ASSUME NEW o \in op, OpAnswered(o) PROVE BatchRest'
  <2> DEFINE l == [cause |-> o.kind, list |-> {},
                   preferred |-> IF o.kind = "delete" THEN NoScript ELSE o.id]
  <2>1. o.kind # "first" /\ l.cause = o.kind
    BY <1>0 DEF BatchType, OpRecord
  <2>2. op' = {} /\ loads' = loads \cup {l}
        /\ UNCHANGED <<content, everStored, previews, preview, draft, selectedID>>
    BY <1>20 DEF OpAnswered
  <2> HIDE DEF l
  <2>3. ContentsMade'
    BY <1>0, <2>2 DEF ContentsMade
  <2>4. SavingHasReason'
    BY <2>1, <2>2 DEF SavingHasReason
  <2> QED BY <1>1, <2>2, <2>3, <2>4 DEF BatchRest
<1>21. ASSUME NEW o \in op, OpFails(o) PROVE BatchRest'
  <2>1. op' = {} /\ saving' = FALSE /\ UNCHANGED <<serverVars, pageVars, loads, content>>
    BY <1>21 DEF OpFails
  <2>2. ContentsMade' /\ SavingHasReason'
    BY <1>0, <2>1 DEF ContentsMade, SavingHasReason
  <2> QED BY <1>1, <2>1, <2>2 DEF BatchRest
<1>22. ASSUME NEW p \in previews, PreviewTimer(p) PROVE BatchRest'
  <2> DEFINE n == [p EXCEPT !.sent = TRUE]
  <2>1. n.content = p.content /\ p.content \in 0..MaxContent
    BY <1>0 DEF BatchType, Preview, ContentsMade
  <2>2. previews' = (previews \ {p}) \cup {n}
        /\ UNCHANGED <<serverVars, opVars, draft, selectedID, preview, content>>
    BY <1>22 DEF PreviewTimer
  <2> HIDE DEF n
  <2>3. ContentsMade'
    BY <1>0, <2>1, <2>2 DEF ContentsMade
  <2> QED BY <1>1, <1>3, <2>2, <2>3 DEF BatchRest
<1>23. ASSUME NEW p \in previews, NEW ok \in BOOLEAN, PreviewAnswered(p, ok) PROVE BatchRest'
  <2>1. previews' = previews \ {p} /\ preview' \in {preview, p.content, Gone}
        /\ UNCHANGED <<serverVars, opVars, draft, selectedID, content>>
    BY <1>23 DEF PreviewAnswered
  <2>2. ContentsMade'
    BY <1>0, <1>a, <2>1 DEF ContentsMade
  <2> QED BY <1>1, <1>3, <2>1, <2>2 DEF BatchRest
<1>24. ASSUME NEW id \in Script, NEW c \in 0..MaxContent, OtherDevice(id, c) PROVE BatchRest'
  <2>1. everStored' = everStored \cup {c} /\ content' = (IF c = Gone THEN content ELSE c)
        /\ UNCHANGED <<pageVars, opVars>>
    BY <1>24 DEF OtherDevice
  <2>2. content' \in 1..MaxContent
    BY <1>13, <1>a, <2>1 DEF Gone
  <2>3. ContentsMade'
    BY <1>0, <2>1, <2>2 DEF ContentsMade
  <2> QED BY <1>1, <1>3, <2>1, <2>3 DEF BatchRest
<1> QED BY <1>6, <1>7, <1>8, <1>9, <1>10, <1>11, <1>14, <1>15, <1>16, <1>17, <1>18, <1>19, <1>20,
           <1>21, <1>22, <1>23, <1>24 DEF BatchNext

(* Every variable of the page keeps its type; what is edited is what is selected, and the
   page is "saving" exactly while an operation or the read that follows it is under way:
   any scripts and contents. *)
THEOREM BatchTypeCorrect == BatchSpec => []BatchTypeOK
<1>1. EditsInv /\ BatchRest => BatchTypeOK
  <2> SUFFICES ASSUME EditsInv, BatchRest PROVE BatchTypeOK
    OBVIOUS
  <2>0. /\ BatchType /\ ListsAreEverHad /\ OneOperation
        /\ ContentsMade /\ DraftIsSelected /\ SavingHasReason
    BY DEF EditsInv, BatchRest
  <2>1. \A c \in EverHad : c \in 0..MaxContent
    BY <2>0, BatchAssumption DEF ContentsMade, EverHad, Gone, BatchAssumption
  <2>2. stored \in [Script -> 0..MaxContent] /\ scripts \in [Script -> 0..MaxContent]
    BY <2>0, <2>1 DEF BatchType, ListsAreEverHad, List
  <2>3. Cardinality(op) <= 1
    <3>1. CASE op = {}
      BY <3>1, FS_EmptySet
    <3>2. ASSUME NEW o \in op PROVE Cardinality(op) <= 1
      <4>1. op = {o}
        BY <2>0, <3>2 DEF OneOperation
      <4> QED BY <4>1, FS_Singleton
    <3> QED BY <3>1, <3>2
  <2>4. saving <=> (op # {} \/ \E load \in loads : load.cause # "first")
    BY <2>0 DEF OneOperation, SavingHasReason
  <2> QED BY <2>0, <2>2, <2>3, <2>4 DEF BatchTypeOK, BatchType, SomeID, ContentsMade,
  DraftIsSelected
<1> QED BY <1>1, InitBatch, NextBatch, InitBatchRest, NextBatchRest, PTL DEF BatchSpec

--------------------------------------------------------------------------------
(* BatchRuns: what was recorded of a run, and by whom it is waited for. *)

(* Every target of the run has had a result. *)
Had(r) == \A s \in BatchServer : <<r, s>> \in hadOutcome

RunsType ==
    /\ batchRuns \in [RunId -> RunRecord \cup {NoRun}] /\ runsMade \in 0..MaxRuns
    /\ tasks \subseteq Task
    /\ pruning \subseteq [by : {"manual", "schedule"}, run : RunId, ids : SUBSET RunId,
                          pc : {"select", "delete"}]
    /\ scheduler \in [pc : {"idle", "clear"}, seen : 0..MaxRuns]
    /\ hadOutcome \subseteq RunId \X BatchServer

(* Identifiers that were not given out name nothing. *)
NewIsUnused ==
    /\ \A r \in Recorded : r <= runsMade
    /\ \A t \in tasks : t.run <= runsMade

(* A target has one dispatch at most, and no execution before it is sent. *)
TasksDiffer ==
    /\ \A t, u \in tasks : t.by = u.by /\ t.run = u.run /\ t.server = u.server => t = u
    /\ \A t, u \in tasks : t.run = u.run /\ t.server = u.server /\ u.by = "worker"
                           => t.pc # "send"

(* What is stored as a result is one, and what was listed as one was one. *)
TargetsAreHad ==
    \A r \in Recorded, s \in BatchServer :
       batchRuns[r].targets[s] \in {"succeeded", "failed", "skipped"}
          => <<r, s>> \in hadOutcome
ListsAreHad ==
    \A t \in tasks : \A list \in t.list, s \in BatchServer :
       list[s] \in {"succeeded", "failed", "skipped"} => <<t.run, s>> \in hadOutcome

(* Runs that are over, and runs that are gone, have had all their results. *)
OverIsHad ==
    \A r \in RunId :
       r <= runsMade /\ (r \in Recorded => Over(r)) => Had(r)

(* So have the runs that a retention deletes, and those the schedule has seen. *)
SeenIsHad ==
    /\ \A p \in pruning : \A r \in p.ids : Had(r)
    /\ scheduler.seen # 0 => Had(scheduler.seen)
    /\ ScheduleWaits

BatchRunsInv ==
    /\ RunsType /\ NewIsUnused /\ TasksDiffer /\ TargetsAreHad /\ ListsAreHad
    /\ OverIsHad /\ SeenIsHad /\ NothingDiscarded

BatchRunsSpec == BatchRunsInit /\ [][BatchRunsNext]_batchRunVars

--------------------------------------------------------------------------------

(* The record of a run is not the mark of a run that is not there. *)
LEMMA RunIsSome == NoRun \notin RunRecord
  BY DEF NoRun, RunRecord, RunState

(* A result that was had is never forgotten. *)
LEMMA HadStays ==
    ASSUME BatchRunsNext \/ UNCHANGED batchRunVars
    PROVE  hadOutcome \subseteq hadOutcome'
  BY DEF BatchRunsNext, batchRunVars, StartManual, StartScheduled, StartRun,
         LookAtSchedule, SkipSchedule, SelectOld, DeleteOld, Accept, Dispatched, GiveUp,
         Execute, StoreResult, ListTargets, WriteRunState, Restart, history, faults

(* Every step keeps the types. *)
LEMMA TypeStep ==
    ASSUME BatchRunsAssumption, RunsType, BatchRunsNext
    PROVE  RunsType'
<1> USE DEF RunsType, RunId
<1>. DEFINE P == [by : {"manual", "schedule"}, run : RunId, ids : SUBSET RunId,
                  pc : {"select", "delete"}]
<1>1. ASSUME NEW ready \in SUBSET BatchServer, StartManual(ready) \/ StartScheduled(ready)
      PROVE  RunsType'
  <2>1. PICK trigger \in {"manual", "schedule"}, seen \in 0..MaxRuns :
           StartRun(trigger, ready, seen)
    BY <1>1, BatchRunsAssumption DEF StartManual, StartScheduled, BatchRunsAssumption
  <2>2. scheduler' \in [pc : {"idle", "clear"}, seen : 0..MaxRuns]
    BY <1>1, BatchRunsAssumption DEF StartManual, StartScheduled, BatchRunsAssumption
  <2> DEFINE r == runsMade + 1
             record == [state |-> "running", after |-> seen, trigger |-> trigger,
                        targets |-> [s \in BatchServer |->
                                       IF s \in ready THEN "queued" ELSE "skipped"]]
  <2>3. r \in RunId /\ record \in RunRecord
    BY <2>1 DEF StartRun, RunRecord, RunState, Targets, TargetState
  <2>4. batchRuns' = [batchRuns EXCEPT ![r] = record]
    BY <2>1 DEF StartRun
  <2>5. batchRuns' \in [RunId -> RunRecord \cup {NoRun}]
    <3> HIDE DEF record
    <3> QED BY <2>3, <2>4
  <2>6. runsMade' \in 0..MaxRuns
    BY <2>1, BatchRunsAssumption DEF StartRun, BatchRunsAssumption
  <2>7. tasks' \subseteq Task
    BY <2>1, <2>3 DEF StartRun, Task
  <2>8. pruning' \subseteq P
    BY <2>1, <2>3 DEF StartRun
  <2>9. hadOutcome' \subseteq RunId \X BatchServer
    BY <2>1, <2>3 DEF StartRun
  <2> QED BY <2>2, <2>5, <2>6, <2>7, <2>8, <2>9
<1>2. CASE LookAtSchedule
  BY <1>2, BatchRunsAssumption DEF LookAtSchedule, Recorded, history, BatchRunsAssumption
<1>3. CASE SkipSchedule
  BY <1>3, BatchRunsAssumption DEF SkipSchedule, history, BatchRunsAssumption
<1>4. ASSUME NEW p \in pruning, SelectOld(p)
      PROVE  RunsType'
  <2>1. Outdated \subseteq RunId
    BY DEF Outdated, Prunable, Recorded
  <2>2. [p EXCEPT !.ids = Outdated, !.pc = "delete"] \in P
    BY <2>1
  <2>3. pruning' \subseteq P
    BY <1>4, <2>2 DEF SelectOld
  <2> QED BY <1>4, <2>3 DEF SelectOld, history
<1>5. ASSUME NEW p \in pruning, DeleteOld(p)
      PROVE  RunsType'
  BY <1>5 DEF DeleteOld, history
<1>6. ASSUME NEW t \in tasks, Accept(t)
      PROVE  RunsType'
  <2>1. t \in Task
    OBVIOUS
  <2>2. [t EXCEPT !.pc = "sent"] \in Task /\ [t EXCEPT !.by = "worker", !.pc = "accepted"] \in Task
    BY <1>6, <2>1 DEF Task, Accept
  <2> QED BY <1>6, <2>2 DEF Accept, history
<1>7. ASSUME NEW t \in tasks, Dispatched(t)
      PROVE  RunsType'
  BY <1>7 DEF Dispatched, End, history
<1>8. ASSUME NEW t \in tasks, GiveUp(t)
      PROVE  RunsType'
  <2>1. t \in Task
    OBVIOUS
  <2>2. [t EXCEPT !.pc = "over"] \in Task
    BY <1>8, <2>1 DEF Task
  <2> QED BY <1>8, <2>2 DEF GiveUp, Step
<1>9. ASSUME NEW t \in tasks, Execute(t)
      PROVE  RunsType'
  <2>1. t \in Task
    OBVIOUS
  <2>2. [t EXCEPT !.pc = "over"] \in Task /\ t.run \in RunId /\ t.server \in BatchServer
    BY <1>9, <2>1 DEF Task
  <2>3. ASSUME t.run \in Recorded
        PROVE  [batchRuns[t.run] EXCEPT !.targets[t.server] = "running"] \in RunRecord
    BY <2>2, <2>3 DEF Recorded, RunRecord, Targets, TargetState
  <2>4. batchRuns' \in [RunId -> RunRecord \cup {NoRun}]
    BY <1>9, <2>2, <2>3 DEF Execute
  <2> QED BY <1>9, <2>2, <2>4 DEF Execute, Step, history
<1>10. ASSUME NEW t \in tasks, NEW result \in TargetState, StoreResult(t, result)
       PROVE  RunsType'
  <2>1. t \in Task
    OBVIOUS
  <2>2. [t EXCEPT !.pc = "updated"] \in Task /\ t.run \in RunId /\ t.server \in BatchServer
    BY <2>1 DEF Task
  <2>3. ASSUME t.run \in Recorded
        PROVE  [batchRuns[t.run] EXCEPT !.targets[t.server] = result] \in RunRecord
    BY <2>2, <2>3 DEF Recorded, RunRecord, Targets
  <2>4. batchRuns' \in [RunId -> RunRecord \cup {NoRun}]
    BY <1>10, <2>2, <2>3 DEF StoreResult
  <2>5. tasks' \subseteq Task
    BY <1>10, <2>2 DEF StoreResult, Step, End
  <2>6. hadOutcome' \subseteq RunId \X BatchServer
    BY <1>10, <2>2 DEF StoreResult
  <2> QED BY <1>10, <2>4, <2>5, <2>6 DEF StoreResult
<1>11. ASSUME NEW t \in tasks, ListTargets(t)
       PROVE  RunsType'
  <2>1. t \in Task
    OBVIOUS
  <2>2. ASSUME t.run \in Recorded
        PROVE  [t EXCEPT !.pc = "listed", !.list = {batchRuns[t.run].targets}] \in Task
    <3>1. batchRuns[t.run].targets \in Targets
      BY <2>2 DEF Recorded, RunRecord
    <3> QED BY <2>1, <3>1 DEF Task
  <2>3. tasks' \subseteq Task
    BY <1>11, <2>2 DEF ListTargets, End
  <2> QED BY <1>11, <2>3 DEF ListTargets, history
<1>12. ASSUME NEW t \in tasks, WriteRunState(t)
       PROVE  RunsType'
  <2>1. t \in Task
    OBVIOUS
  <2>2. PICK list \in t.list : t.run \in Recorded =>
           batchRuns' = [batchRuns EXCEPT ![t.run].state = Outcome(list)]
    BY <1>12 DEF WriteRunState
  <2>3. Outcome(list) \in RunState
    BY DEF Outcome, RunState
  <2>4. ASSUME t.run \in Recorded
        PROVE  [batchRuns[t.run] EXCEPT !.state = Outcome(list)] \in RunRecord
    <3>1. batchRuns[t.run] \in RunRecord
      BY <2>4 DEF Recorded
    <3> QED BY <2>3, <3>1 DEF RunRecord
  <2>5. batchRuns' \in [RunId -> RunRecord \cup {NoRun}]
    <3>1. CASE t.run \in Recorded
      BY <2>2, <2>4, <3>1
    <3>2. CASE t.run \notin Recorded
      BY <1>12, <3>2 DEF WriteRunState
    <3> QED BY <3>1, <3>2
  <2> QED BY <1>12, <2>5 DEF WriteRunState, End
<1>13. ASSUME NEW by \in {"dispatch", "worker"}, Restart(by)
       PROVE  RunsType'
  BY <1>13, BatchRunsAssumption DEF Restart, BatchRunsAssumption
<1> QED BY <1>1, <1>2, <1>3, <1>4, <1>5, <1>6, <1>7, <1>8, <1>9, <1>10, <1>11, <1>12,
           <1>13 DEF BatchRunsNext

(* Every step keeps what is not named yet unused, and tasks apart. *)
LEMMA TaskStep ==
    ASSUME RunsType, NewIsUnused, TasksDiffer, BatchRunsNext
    PROVE  NewIsUnused' /\ TasksDiffer'
<1> USE DEF RunId
<1>0. \A t \in tasks : t \in Task
  BY DEF RunsType
<1>1. ASSUME NEW ready \in SUBSET BatchServer, StartManual(ready) \/ StartScheduled(ready)
      PROVE  NewIsUnused' /\ TasksDiffer'
  <2>1. PICK trigger, seen : StartRun(trigger, ready, seen)
    BY <1>1 DEF StartManual, StartScheduled
  <2>2. \A t \in tasks' \ tasks :
           /\ t.by = "dispatch" /\ t.run = runsMade + 1 /\ t.pc = "send"
           /\ \A u \in tasks' \ tasks : u.server = t.server => u = t
    <3> DEFINE new(s) == [by |-> "dispatch", run |-> runsMade + 1, server |-> s,
                          pc |-> "send", list |-> {}]
    <3>1. \A t \in tasks' \ tasks : \E s \in ready : t = new(s)
      BY <2>1 DEF StartRun
    <3>2. \A s : /\ new(s).by = "dispatch" /\ new(s).run = runsMade + 1
                 /\ new(s).pc = "send" /\ new(s).server = s
      OBVIOUS
    <3> HIDE DEF new
    <3> QED BY <3>1, <3>2
  <2>3. runsMade' = runsMade + 1 /\ tasks \subseteq tasks' /\ runsMade \in Nat
    BY <2>1 DEF StartRun, RunsType
  <2>4. \A t \in tasks : t.run # runsMade + 1 /\ t.run \in Nat
    BY <1>0, <2>3 DEF NewIsUnused, Task
  <2>5. TasksDiffer'
    <3>1. ASSUME NEW t \in tasks', NEW u \in tasks', t.run = u.run, t.server = u.server
          PROVE  /\ t.by = u.by => t = u
                 /\ u.by = "worker" => t.pc # "send"
      <4>1. CASE t \in tasks /\ u \in tasks
        BY <3>1, <4>1 DEF TasksDiffer
      <4>2. CASE t \in tasks' \ tasks /\ u \in tasks' \ tasks
        BY <2>2, <3>1, <4>2
      <4>3. CASE (t \in tasks) # (u \in tasks)
        BY <2>2, <2>4, <3>1, <4>3
      <4> QED BY <3>1, <4>1, <4>2, <4>3
    <3> QED BY <3>1 DEF TasksDiffer
  <2>6. \A t \in tasks' : t.run <= runsMade'
    BY <2>2, <2>3, <2>4 DEF NewIsUnused
  <2>7. Recorded' \subseteq Recorded \cup {runsMade + 1}
    BY <2>1 DEF StartRun, Recorded, RunsType
  <2>8. \A r \in Recorded' : r <= runsMade'
    BY <2>3, <2>7 DEF NewIsUnused, Recorded
  <2> QED BY <2>5, <2>6, <2>8 DEF NewIsUnused
<1>2. ASSUME UNCHANGED <<tasks, runsMade>>, Recorded' \subseteq Recorded
      PROVE  NewIsUnused' /\ TasksDiffer'
  BY <1>2 DEF NewIsUnused, TasksDiffer
<1>3. CASE LookAtSchedule \/ SkipSchedule \/ (\E p \in pruning : SelectOld(p) \/ DeleteOld(p))
  BY <1>2, <1>3 DEF LookAtSchedule, SkipSchedule, SelectOld, DeleteOld, Recorded
<1>4. ASSUME NEW t \in tasks, Accept(t)
      PROVE  NewIsUnused' /\ TasksDiffer'
  <2> DEFINE sent == [t EXCEPT !.pc = "sent"]
             work == [t EXCEPT !.by = "worker", !.pc = "accepted"]
  <2>1. /\ sent.by = "dispatch" /\ sent.run = t.run /\ sent.server = t.server
        /\ sent.pc = "sent"
        /\ work.by = "worker" /\ work.run = t.run /\ work.server = t.server
        /\ work.pc = "accepted"
    BY <1>0, <1>4 DEF Accept, Task
  <2>2. tasks' = (tasks \ {t}) \cup {sent, work} /\ t.by = "dispatch" /\ t.pc = "send"
    BY <1>4 DEF Accept
  <2>3. UNCHANGED runsMade /\ Recorded' = Recorded
    BY <1>4 DEF Accept, Recorded
  <2> HIDE DEF sent, work
  <2>4. TasksDiffer'
    <3>1. ASSUME NEW a \in tasks', NEW b \in tasks', a.run = b.run, a.server = b.server
          PROVE  /\ a.by = b.by => a = b
                 /\ b.by = "worker" => a.pc # "send"
      <4>1. ASSUME NEW u \in tasks, u # t, u.run = t.run, u.server = t.server
            PROVE  FALSE
        <5>1. u.by # "dispatch" /\ u.by # "worker"
          BY <2>2, <4>1 DEF TasksDiffer
        <5> QED BY <1>0, <4>1, <5>1 DEF Task
      <4>2. CASE a \in tasks \ {t} /\ b \in tasks \ {t}
        BY <3>1, <4>2 DEF TasksDiffer
      <4>3. CASE a \in {sent, work} /\ b \in {sent, work}
        BY <2>1, <3>1, <4>3
      <4>4. ASSUME NEW u \in tasks \ {t}, NEW v \in {sent, work}, u.run = v.run,
                   u.server = v.server
            PROVE  FALSE
        BY <2>1, <4>1, <4>4
      <4> QED BY <2>2, <3>1, <4>2, <4>3, <4>4
    <3> QED BY <3>1 DEF TasksDiffer
  <2>5. NewIsUnused'
    BY <2>1, <2>2, <2>3 DEF NewIsUnused
  <2> QED BY <2>4, <2>5
<1>5. ASSUME NEW t \in tasks, NEW u, tasks' = (tasks \ {t}) \cup {u}, UNCHANGED runsMade,
             u.by = t.by, u.run = t.run, u.server = t.server, u.pc # "send",
             Recorded' \subseteq Recorded
      PROVE  NewIsUnused' /\ TasksDiffer'
  BY <1>5 DEF NewIsUnused, TasksDiffer
<1>6. ASSUME tasks' \subseteq tasks, UNCHANGED runsMade, Recorded' \subseteq Recorded
      PROVE  NewIsUnused' /\ TasksDiffer'
  BY <1>6 DEF NewIsUnused, TasksDiffer
<1>7. ASSUME NEW t \in tasks, NEW pc \in {"over", "updated"}
      PROVE  LET u == [t EXCEPT !.pc = pc]
             IN u.by = t.by /\ u.run = t.run /\ u.server = t.server /\ u.pc # "send"
  BY <1>0 DEF Task
<1>8. ASSUME NEW t \in tasks, Dispatched(t)
      PROVE  NewIsUnused' /\ TasksDiffer'
  BY <1>6, <1>8 DEF Dispatched, End, Recorded
<1>9. ASSUME NEW t \in tasks, GiveUp(t)
      PROVE  NewIsUnused' /\ TasksDiffer'
  <2>1. UNCHANGED runsMade /\ Recorded' = Recorded
    BY <1>9 DEF GiveUp, Recorded
  <2> QED BY <1>5, <1>7, <1>9, <2>1 DEF GiveUp, Step
<1>10. ASSUME NEW t \in tasks, Execute(t)
       PROVE  NewIsUnused' /\ TasksDiffer'
  <2>1. UNCHANGED runsMade /\ Recorded' \subseteq Recorded
    BY <1>10 DEF Execute, Recorded, RunsType
  <2> QED BY <1>5, <1>7, <1>10, <2>1 DEF Execute, Step
<1>11. ASSUME NEW t \in tasks, NEW result \in TargetState, StoreResult(t, result)
       PROVE  NewIsUnused' /\ TasksDiffer'
  <2>1. UNCHANGED runsMade /\ Recorded' \subseteq Recorded
    BY <1>11 DEF StoreResult, Recorded, RunsType
  <2>2. CASE t.run \in Recorded
    BY <1>5, <1>7, <1>11, <2>1, <2>2 DEF StoreResult, Step
  <2>3. CASE t.run \notin Recorded
    BY <1>6, <1>11, <2>1, <2>3 DEF StoreResult, End
  <2> QED BY <2>2, <2>3
<1>12. ASSUME NEW t \in tasks, ListTargets(t)
       PROVE  NewIsUnused' /\ TasksDiffer'
  <2> DEFINE u == [t EXCEPT !.pc = "listed", !.list = {batchRuns[t.run].targets}]
  <2>1. u.by = t.by /\ u.run = t.run /\ u.server = t.server /\ u.pc # "send"
    BY <1>0 DEF Task
  <2>2. UNCHANGED runsMade /\ Recorded' = Recorded
    BY <1>12 DEF ListTargets, Recorded
  <2>3. tasks' = (tasks \ {t}) \cup {u} \/ tasks' \subseteq tasks
    BY <1>12 DEF ListTargets, End
  <2> HIDE DEF u
  <2> QED BY <1>5, <1>6, <2>1, <2>2, <2>3
<1>13. ASSUME NEW t \in tasks, WriteRunState(t)
       PROVE  NewIsUnused' /\ TasksDiffer'
  <2>1. UNCHANGED runsMade /\ tasks' \subseteq tasks
    BY <1>13 DEF WriteRunState, End
  <2>2. Recorded' \subseteq Recorded
    <3>1. PICK list : batchRuns' = batchRuns \/
             (t.run \in Recorded /\ batchRuns' = [batchRuns EXCEPT ![t.run].state = Outcome(list)])
      BY <1>13 DEF WriteRunState
    <3> QED BY <3>1 DEF Recorded, RunsType
  <2> QED BY <1>6, <2>1, <2>2
<1>14. ASSUME NEW by \in {"dispatch", "worker"}, Restart(by)
       PROVE  NewIsUnused' /\ TasksDiffer'
  BY <1>6, <1>14 DEF Restart, Recorded
<1> QED BY <1>1, <1>3, <1>4, <1>8, <1>9, <1>10, <1>11, <1>12, <1>13, <1>14
        DEF BatchRunsNext

(* What a step does to a run that is stored after it: it is new, or its state is
   kept or follows from a list, and its targets are kept, running or had. *)
LEMMA RunStep ==
    ASSUME RunsType, BatchRunsNext, NEW r \in Recorded'
    PROVE  \/ /\ r = runsMade + 1 /\ batchRuns'[r].state = "running"
              /\ \A s \in BatchServer : batchRuns'[r].targets[s] = "queued"
                                        \/ <<r, s>> \in hadOutcome'
              /\ batchRuns'[r].after \in {0, scheduler.seen}
           \/ /\ r \in Recorded /\ batchRuns'[r].after = batchRuns[r].after
              /\ \/ batchRuns'[r].state = batchRuns[r].state
                 \/ \E t \in tasks : \E list \in t.list :
                       t.run = r /\ batchRuns'[r].state = Outcome(list)
              /\ \A s \in BatchServer :
                    \/ batchRuns'[r].targets[s] = batchRuns[r].targets[s]
                    \/ batchRuns'[r].targets[s] = "running"
                    \/ <<r, s>> \in hadOutcome'
<1> DEFINE New == /\ r = runsMade + 1 /\ batchRuns'[r].state = "running"
                  /\ \A s \in BatchServer : batchRuns'[r].targets[s] = "queued"
                                            \/ <<r, s>> \in hadOutcome'
                  /\ batchRuns'[r].after \in {0, scheduler.seen}
           Kept == /\ r \in Recorded /\ batchRuns'[r].after = batchRuns[r].after
                   /\ \/ batchRuns'[r].state = batchRuns[r].state
                      \/ \E t \in tasks : \E list \in t.list :
                            t.run = r /\ batchRuns'[r].state = Outcome(list)
                   /\ \A s \in BatchServer :
                         \/ batchRuns'[r].targets[s] = batchRuns[r].targets[s]
                         \/ batchRuns'[r].targets[s] = "running"
                         \/ <<r, s>> \in hadOutcome'
<1>0. r \in RunId /\ batchRuns'[r] # NoRun
  BY DEF Recorded, RunId
<1>1. ASSUME batchRuns'[r] = batchRuns[r]
      PROVE  Kept
  BY <1>0, <1>1 DEF Recorded
<1>2. ASSUME NEW ready \in SUBSET BatchServer, StartManual(ready) \/ StartScheduled(ready)
      PROVE  New \/ Kept
  <2>1. PICK trigger \in {"manual", "schedule"}, seen \in {0, scheduler.seen} :
           StartRun(trigger, ready, seen)
    BY <1>2 DEF StartManual, StartScheduled
  <2> DEFINE record == [state |-> "running", after |-> seen, trigger |-> trigger,
                        targets |-> [s \in BatchServer |->
                                       IF s \in ready THEN "queued" ELSE "skipped"]]
  <2>2. batchRuns' = [batchRuns EXCEPT ![runsMade + 1] = record]
    BY <2>1 DEF StartRun
  <2>3. hadOutcome' = hadOutcome \cup {<<runsMade + 1, s>> : s \in BatchServer \ ready}
    BY <2>1 DEF StartRun
  <2>4. /\ record.state = "running" /\ record.after = seen
        /\ \A s \in BatchServer : s \in ready => record.targets[s] = "queued"
    OBVIOUS
  <2> HIDE DEF record
  <2>5. CASE r = runsMade + 1
    <3>1. batchRuns'[r] = record
      BY <1>0, <2>2, <2>5 DEF RunsType
    <3>2. \A s \in BatchServer : s \notin ready => <<r, s>> \in hadOutcome'
      BY <2>3, <2>5
    <3> QED BY <2>4, <2>5, <3>1, <3>2
  <2>6. CASE r # runsMade + 1
    BY <1>0, <1>1, <2>2, <2>6 DEF RunsType
  <2> QED BY <2>5, <2>6
<1>3. ASSUME LookAtSchedule \/ SkipSchedule \/ (\E p \in pruning : SelectOld(p))
      PROVE  Kept
  BY <1>1, <1>3 DEF LookAtSchedule, SkipSchedule, SelectOld
<1>4. ASSUME NEW p \in pruning, DeleteOld(p)
      PROVE  Kept
  BY <1>0, <1>1, <1>4 DEF DeleteOld
<1>5. ASSUME NEW t \in tasks, Accept(t) \/ Dispatched(t) \/ GiveUp(t) \/ ListTargets(t)
      PROVE  Kept
  BY <1>1, <1>5 DEF Accept, Dispatched, GiveUp, ListTargets
<1>6. ASSUME NEW t \in tasks, NEW value, t.run = r, r \in Recorded,
             batchRuns' = [batchRuns EXCEPT ![t.run].targets[t.server] = value],
             value = "running" \/ <<t.run, t.server>> \in hadOutcome'
      PROVE  Kept
  <2>1. batchRuns[r] \in RunRecord
    BY <1>0, <1>6 DEF Recorded, RunsType
  <2>2. batchRuns'[r] = [batchRuns[r] EXCEPT !.targets[t.server] = value]
    BY <1>0, <1>6 DEF RunsType
  <2>3. /\ batchRuns'[r].after = batchRuns[r].after
        /\ batchRuns'[r].state = batchRuns[r].state
        /\ batchRuns'[r].targets = [batchRuns[r].targets EXCEPT ![t.server] = value]
    BY <2>1, <2>2 DEF RunRecord
  <2>4. batchRuns[r].targets \in Targets
    BY <2>1 DEF RunRecord
  <2>5. \A s \in BatchServer :
           \/ batchRuns'[r].targets[s] = batchRuns[r].targets[s]
           \/ s = t.server /\ batchRuns'[r].targets[s] = value
    BY <2>3, <2>4 DEF Targets
  <2> QED BY <1>6, <2>3, <2>5
<1>7. ASSUME NEW t \in tasks, Execute(t)
      PROVE  Kept
  <2>1. CASE t.run = r /\ r \in Recorded
    BY <1>6, <1>7, <2>1 DEF Execute
  <2>2. CASE ~(t.run = r /\ r \in Recorded)
    BY <1>0, <1>1, <1>7, <2>2 DEF Execute, Recorded, RunsType
  <2> QED BY <2>1, <2>2
<1>8. ASSUME NEW t \in tasks, NEW result \in TargetState, StoreResult(t, result)
      PROVE  Kept
  <2>1. CASE t.run = r /\ r \in Recorded
    BY <1>6, <1>8, <2>1 DEF StoreResult
  <2>2. CASE ~(t.run = r /\ r \in Recorded)
    BY <1>0, <1>1, <1>8, <2>2 DEF StoreResult, Recorded, RunsType
  <2> QED BY <2>1, <2>2
<1>9. ASSUME NEW t \in tasks, WriteRunState(t)
      PROVE  Kept
  <2>1. PICK list \in t.list :
           IF t.run \in Recorded
           THEN batchRuns' = [batchRuns EXCEPT ![t.run].state = Outcome(list)]
           ELSE batchRuns' = batchRuns
    BY <1>9 DEF WriteRunState
  <2>2. CASE t.run = r /\ r \in Recorded
    <3>1. batchRuns[r] \in RunRecord
      BY <1>0, <2>2 DEF Recorded, RunsType
    <3>2. batchRuns'[r] = [batchRuns[r] EXCEPT !.state = Outcome(list)]
      BY <1>0, <2>1, <2>2 DEF RunsType
    <3>3. /\ batchRuns'[r].after = batchRuns[r].after
          /\ batchRuns'[r].state = Outcome(list)
          /\ batchRuns'[r].targets = batchRuns[r].targets
      BY <3>1, <3>2 DEF RunRecord
    <3> QED BY <2>1, <2>2, <3>3
  <2>3. CASE ~(t.run = r /\ r \in Recorded)
    BY <1>0, <1>1, <2>1, <2>3 DEF Recorded, RunsType
  <2> QED BY <2>2, <2>3
<1>10. ASSUME NEW by \in {"dispatch", "worker"}, Restart(by)
       PROVE  Kept
  BY <1>1, <1>10 DEF Restart
<1> HIDE DEF New, Kept
<1>11. New \/ Kept
  <2>1. CASE \E t \in tasks :
                \/ Accept(t) \/ Dispatched(t) \/ GiveUp(t) \/ Execute(t)
                \/ (\E result \in TargetState : StoreResult(t, result))
                \/ ListTargets(t) \/ WriteRunState(t)
    BY <1>5, <1>7, <1>8, <1>9, <2>1
  <2>2. CASE \/ \E p \in pruning : SelectOld(p) \/ DeleteOld(p)
             \/ \E by \in {"dispatch", "worker"} : Restart(by)
             \/ LookAtSchedule \/ SkipSchedule
    BY <1>3, <1>4, <1>10, <2>2
  <2>3. CASE \E ready \in SUBSET BatchServer : StartManual(ready) \/ StartScheduled(ready)
    BY <1>2, <2>3
  <2> QED BY <2>1, <2>2, <2>3 DEF BatchRunsNext
<1> QED BY <1>11 DEF New, Kept

(* What is stored as a result stays one. *)
LEMMA TargetsStep ==
    ASSUME RunsType, TargetsAreHad, BatchRunsNext
    PROVE  TargetsAreHad'
<1> SUFFICES ASSUME NEW r \in Recorded', NEW s \in BatchServer,
                    batchRuns'[r].targets[s] \in {"succeeded", "failed", "skipped"}
             PROVE  <<r, s>> \in hadOutcome'
  BY DEF TargetsAreHad
<1>1. hadOutcome \subseteq hadOutcome'
  BY HadStays
<1>2. \/ batchRuns'[r].targets[s] = "queued"
      \/ r \in Recorded /\ batchRuns'[r].targets[s] = batchRuns[r].targets[s]
      \/ batchRuns'[r].targets[s] = "running"
      \/ <<r, s>> \in hadOutcome'
  BY RunStep
<1> QED BY <1>1, <1>2 DEF TargetsAreHad

(* What was listed as a result is one, because it was stored as one. *)
LEMMA ListsStep ==
    ASSUME RunsType, TargetsAreHad, ListsAreHad, BatchRunsNext
    PROVE  ListsAreHad'
<1> DEFINE Ok(u) == \A list \in u.list, s \in BatchServer :
              list[s] \in {"succeeded", "failed", "skipped"} => <<u.run, s>> \in hadOutcome'
<1>0. \A t \in tasks : t \in Task
  BY DEF RunsType
<1>1. \A t \in tasks : Ok(t)
  BY HadStays DEF ListsAreHad
<1>2. ASSUME NEW t \in tasks, NEW u, u.run = t.run, u.list = t.list
      PROVE  Ok(u)
  BY <1>1, <1>2
<1>3. ASSUME NEW t \in tasks, NEW pc
      PROVE  Ok([t EXCEPT !.pc = pc]) /\ Ok([t EXCEPT !.by = "worker", !.pc = pc])
  <2>1. /\ [t EXCEPT !.pc = pc].run = t.run /\ [t EXCEPT !.pc = pc].list = t.list
        /\ [t EXCEPT !.by = "worker", !.pc = pc].run = t.run
        /\ [t EXCEPT !.by = "worker", !.pc = pc].list = t.list
    BY <1>0 DEF Task
  <2> QED BY <1>2, <2>1
<1>4. ASSUME NEW ready \in SUBSET BatchServer, NEW u \in tasks' \ tasks,
             StartManual(ready) \/ StartScheduled(ready)
      PROVE  Ok(u)
  <2>1. u.list = {}
    BY <1>4 DEF StartManual, StartScheduled, StartRun
  <2> QED BY <2>1
<1>5. ASSUME NEW t \in tasks, ListTargets(t), NEW u \in tasks' \ tasks
      PROVE  Ok(u)
  <2>1. /\ t.run \in Recorded
        /\ u = [t EXCEPT !.pc = "listed", !.list = {batchRuns[t.run].targets}]
    BY <1>5 DEF ListTargets, End
  <2>2. u.run = t.run /\ u.list = {batchRuns[t.run].targets}
    BY <1>0, <2>1 DEF Task
  <2>3. \A s \in BatchServer :
           batchRuns[t.run].targets[s] \in {"succeeded", "failed", "skipped"}
              => <<t.run, s>> \in hadOutcome'
    BY <2>1, HadStays DEF TargetsAreHad
  <2> QED BY <2>2, <2>3
<1> HIDE DEF Ok
<1>6. ASSUME NEW t \in tasks, NEW u \in tasks' \ tasks,
             Accept(t) \/ Dispatched(t) \/ GiveUp(t) \/ Execute(t)
      PROVE  Ok(u)
  <2>1. \/ \E pc \in {"sent", "over"} : u = [t EXCEPT !.pc = pc]
        \/ u = [t EXCEPT !.by = "worker", !.pc = "accepted"]
    BY <1>6 DEF Accept, Dispatched, GiveUp, Execute, Step, End
  <2> QED BY <1>3, <2>1
<1>7. ASSUME NEW t \in tasks, NEW u \in tasks' \ tasks, WriteRunState(t)
      PROVE  Ok(u)
  BY <1>7 DEF WriteRunState, End
<1>8. ASSUME NEW t \in tasks, NEW result \in TargetState, StoreResult(t, result),
             NEW u \in tasks' \ tasks
      PROVE  Ok(u)
  <2>1. u = [t EXCEPT !.pc = "updated"]
    BY <1>8 DEF StoreResult, Step, End
  <2> QED BY <1>3, <2>1
<1>9. CASE \E ready \in SUBSET BatchServer : StartManual(ready) \/ StartScheduled(ready)
  BY <1>1, <1>4, <1>9 DEF Ok, ListsAreHad
<1>10. CASE \E t \in tasks :
               \/ Accept(t) \/ Dispatched(t) \/ GiveUp(t) \/ Execute(t)
               \/ (\E result \in TargetState : StoreResult(t, result))
               \/ ListTargets(t) \/ WriteRunState(t)
  <2>1. \A u \in tasks' \ tasks : Ok(u)
    BY <1>5, <1>6, <1>7, <1>8, <1>10
  <2> QED BY <1>1, <2>1 DEF Ok, ListsAreHad
<1>11. CASE \/ LookAtSchedule \/ SkipSchedule
            \/ \E p \in pruning : SelectOld(p) \/ DeleteOld(p)
            \/ \E by \in {"dispatch", "worker"} : Restart(by)
  <2>1. tasks' \subseteq tasks
    BY <1>11 DEF LookAtSchedule, SkipSchedule, SelectOld, DeleteOld, Restart
  <2> QED BY <1>1, <2>1 DEF Ok, ListsAreHad
<1> QED BY <1>9, <1>10, <1>11 DEF BatchRunsNext

(* Only the retention removes a run, and only one of those it selected. *)
LEMMA GoneIsPruned ==
    ASSUME RunsType, BatchRunsNext, NEW r \in Recorded, r \notin Recorded'
    PROVE  \E p \in pruning : r \in p.ids
<1> SUFFICES ASSUME \A p \in pruning : r \notin p.ids
             PROVE  batchRuns'[r] # NoRun
  BY DEF Recorded
<1>0. r \in RunId /\ batchRuns[r] \in RunRecord
  BY DEF Recorded, RunsType
<1>1. ASSUME NEW ready \in SUBSET BatchServer, StartManual(ready) \/ StartScheduled(ready)
      PROVE  batchRuns'[r] # NoRun
  <2>1. PICK trigger, seen : StartRun(trigger, ready, seen)
    BY <1>1 DEF StartManual, StartScheduled
  <2> DEFINE record == [state |-> "running", after |-> seen, trigger |-> trigger,
                        targets |-> [s \in BatchServer |->
                                       IF s \in ready THEN "queued" ELSE "skipped"]]
  <2>2. batchRuns' = [batchRuns EXCEPT ![runsMade + 1] = record]
    BY <2>1 DEF StartRun
  <2>3. record # NoRun
    BY DEF NoRun
  <2> HIDE DEF record
  <2> QED BY <1>0, <2>2, <2>3 DEF RunsType, Recorded
<1>2. ASSUME NEW t \in tasks, NEW value,
             batchRuns' = [batchRuns EXCEPT ![t.run].targets[t.server] = value]
      PROVE  batchRuns'[r] # NoRun
  <2>1. batchRuns'[r] = batchRuns[r]
        \/ batchRuns'[r] = [batchRuns[r] EXCEPT !.targets[t.server] = value]
    BY <1>0, <1>2 DEF RunsType
  <2>2. [batchRuns[r] EXCEPT !.targets[t.server] = value] # NoRun
    BY <1>0 DEF NoRun, RunRecord
  <2> QED BY <1>0, <2>1, <2>2, RunIsSome
<1>3. ASSUME NEW t \in tasks, WriteRunState(t)
      PROVE  batchRuns'[r] # NoRun
  <2>1. PICK list : batchRuns' = batchRuns
                    \/ batchRuns' = [batchRuns EXCEPT ![t.run].state = Outcome(list)]
    BY <1>3 DEF WriteRunState
  <2>2. batchRuns'[r] = batchRuns[r]
        \/ batchRuns'[r] = [batchRuns[r] EXCEPT !.state = Outcome(list)]
    BY <1>0, <2>1 DEF RunsType
  <2>3. [batchRuns[r] EXCEPT !.state = Outcome(list)] # NoRun
    BY <1>0 DEF NoRun, RunRecord
  <2> QED BY <1>0, <2>2, <2>3, RunIsSome
<1>4. ASSUME UNCHANGED batchRuns
      PROVE  batchRuns'[r] # NoRun
  BY <1>0, <1>4, RunIsSome
<1>5. ASSUME NEW p \in pruning, DeleteOld(p)
      PROVE  batchRuns'[r] # NoRun
  BY <1>0, <1>5, RunIsSome DEF DeleteOld
<1>6. CASE \/ LookAtSchedule \/ SkipSchedule \/ \E p \in pruning : SelectOld(p)
           \/ \E t \in tasks : Accept(t) \/ Dispatched(t) \/ GiveUp(t) \/ ListTargets(t)
           \/ \E by \in {"dispatch", "worker"} : Restart(by)
  BY <1>4, <1>6 DEF LookAtSchedule, SkipSchedule, SelectOld, Accept, Dispatched, GiveUp,
     ListTargets, Restart
<1>7. CASE \E t \in tasks : Execute(t) \/ (\E result \in TargetState : StoreResult(t, result))
  BY <1>2, <1>4, <1>7 DEF Execute, StoreResult
<1> QED BY <1>1, <1>3, <1>5, <1>6, <1>7 DEF BatchRunsNext

(* An identifier that is given out is stored at once. *)
LEMMA MadeIsRecorded ==
    ASSUME RunsType, BatchRunsNext, NEW r \in RunId, r \notin Recorded', r <= runsMade'
    PROVE  r <= runsMade
<1>1. ASSUME NEW ready \in SUBSET BatchServer, StartManual(ready) \/ StartScheduled(ready)
      PROVE  r <= runsMade
  <2>1. PICK trigger, seen : StartRun(trigger, ready, seen)
    BY <1>1 DEF StartManual, StartScheduled
  <2> DEFINE record == [state |-> "running", after |-> seen, trigger |-> trigger,
                        targets |-> [s \in BatchServer |->
                                       IF s \in ready THEN "queued" ELSE "skipped"]]
  <2>2. batchRuns' = [batchRuns EXCEPT ![runsMade + 1] = record] /\ runsMade' = runsMade + 1
    BY <2>1 DEF StartRun
  <2>3. record # NoRun
    BY DEF NoRun
  <2> HIDE DEF record
  <2>4. r # runsMade + 1
    BY <2>2, <2>3 DEF RunsType, Recorded
  <2> QED BY <2>2, <2>4 DEF RunsType, RunId
<1>2. CASE ~(\E ready \in SUBSET BatchServer : StartManual(ready) \/ StartScheduled(ready))
  <2>1. runsMade' = runsMade
    BY <1>2 DEF BatchRunsNext, LookAtSchedule, SkipSchedule, SelectOld, DeleteOld, Accept,
       Dispatched, GiveUp, Execute, StoreResult, ListTargets, WriteRunState, Restart
  <2> QED BY <2>1
<1> QED BY <1>1, <1>2

(* A run that is over, or gone, has had all its results: its state was written
   from a list on which every target was done, and only such runs are deleted. *)
LEMMA OverStep ==
    ASSUME BatchRunsInv, BatchRunsNext
    PROVE  OverIsHad'
<1> USE DEF BatchRunsInv
<1>1. \A r : Had(r) => Had(r)'
  BY HadStays DEF Had
<1>2. ASSUME NEW r \in Recorded', batchRuns'[r].state # "running"
      PROVE  Had(r)'
  <2>1. CASE r \in Recorded /\ batchRuns'[r].state = batchRuns[r].state
    BY <1>1, <1>2, <2>1 DEF OverIsHad, NewIsUnused, Over, Recorded
  <2>2. ASSUME NEW t \in tasks, NEW list \in t.list, t.run = r,
               batchRuns'[r].state = Outcome(list)
        PROVE  Had(r)'
    <3>1. Done(list)
      BY <1>2, <2>2 DEF Outcome
    <3>2. Had(r)
      BY <2>2, <3>1 DEF Done, ListsAreHad, Had
    <3> QED BY <1>1, <3>2
  <2> QED BY <1>2, <2>1, <2>2, RunStep
<1>3. ASSUME NEW r \in RunId, r \notin Recorded', r <= runsMade'
      PROVE  Had(r)'
  <2>1. CASE r \in Recorded
    <3>1. \E p \in pruning : r \in p.ids
      BY <1>3, <2>1, GoneIsPruned
    <3> QED BY <1>1, <3>1 DEF SeenIsHad
  <2>2. CASE r \notin Recorded
    <3>1. r <= runsMade
      BY <1>3, <2>2, MadeIsRecorded
    <3> QED BY <1>1, <1>3, <2>2, <3>1 DEF OverIsHad
  <2> QED BY <2>1, <2>2
<1> QED BY <1>2, <1>3 DEF OverIsHad, Over, Had

(* So have the runs that are about to be deleted and those the schedule has seen. *)
LEMMA SeenStep ==
    ASSUME BatchRunsInv, BatchRunsNext
    PROVE  SeenIsHad'
<1> USE DEF BatchRunsInv
<1> DEFINE HadNow(r) == \A s \in BatchServer : <<r, s>> \in hadOutcome'
<1>1. \A r : Had(r) => HadNow(r)
  BY HadStays DEF Had
<1> HIDE DEF HadNow
<1>2. \A r \in Recorded : Over(r) => Had(r)
  BY DEF OverIsHad, NewIsUnused, Recorded
<1>3. ScheduleWaits'
  <2> SUFFICES ASSUME NEW r \in Recorded', batchRuns'[r].after # 0
               PROVE  HadNow(batchRuns'[r].after)
    BY DEF ScheduleWaits, HadNow
  <2>1. CASE r \in Recorded /\ batchRuns'[r].after = batchRuns[r].after
    <3>1. Had(batchRuns[r].after)
      BY <2>1 DEF SeenIsHad, ScheduleWaits, Had
    <3> QED BY <1>1, <2>1, <3>1
  <2>2. CASE batchRuns'[r].after = scheduler.seen
    BY <1>1, <2>2 DEF SeenIsHad
  <2> QED BY <2>1, <2>2, RunStep
<1>4. scheduler'.seen # 0 => HadNow(scheduler'.seen)
  <2>1. CASE LookAtSchedule
    BY <1>1, <1>2, <2>1 DEF LookAtSchedule, BlocksSchedule
  <2>2. ASSUME scheduler' = scheduler \/ scheduler'.seen = 0
        PROVE  scheduler'.seen # 0 => HadNow(scheduler'.seen)
    BY <1>1, <2>2 DEF SeenIsHad
  <2>3. CASE \/ SkipSchedule
             \/ \E ready \in SUBSET BatchServer : StartManual(ready) \/ StartScheduled(ready)
             \/ \E p \in pruning : SelectOld(p) \/ DeleteOld(p)
             \/ \E by \in {"dispatch", "worker"} : Restart(by)
    <3>1. scheduler' = scheduler \/ scheduler' = [pc |-> "idle", seen |-> 0]
      BY <2>3 DEF StartManual, StartScheduled, SkipSchedule, SelectOld, DeleteOld, Restart
    <3> QED BY <2>2, <3>1
  <2>4. CASE \E t \in tasks :
                \/ Accept(t) \/ Dispatched(t) \/ GiveUp(t) \/ Execute(t)
                \/ (\E result \in TargetState : StoreResult(t, result))
                \/ ListTargets(t) \/ WriteRunState(t)
    <3>1. scheduler' = scheduler
      BY <2>4 DEF Accept, Dispatched, GiveUp, Execute, StoreResult, ListTargets,
         WriteRunState
    <3> QED BY <2>2, <3>1
  <2> QED BY <2>1, <2>3, <2>4 DEF BatchRunsNext
<1>5. \A p \in pruning' : \A r \in p.ids : HadNow(r)
  <2>1. ASSUME pruning' \subseteq pruning
        PROVE  \A p \in pruning' : \A r \in p.ids : HadNow(r)
    BY <1>1, <2>1 DEF SeenIsHad
  <2>2. ASSUME NEW ready \in SUBSET BatchServer, StartManual(ready) \/ StartScheduled(ready)
        PROVE  \A p \in pruning' : \A r \in p.ids : HadNow(r)
    <3>1. \A p \in pruning' \ pruning : p.ids = {}
      BY <2>2 DEF StartManual, StartScheduled, StartRun
    <3> QED BY <1>1, <3>1 DEF SeenIsHad
  <2>3. ASSUME NEW p \in pruning, SelectOld(p)
        PROVE  \A q \in pruning' : \A r \in q.ids : HadNow(r)
    <3>1. [p EXCEPT !.ids = Outdated, !.pc = "delete"].ids = Outdated
      BY DEF RunsType
    <3>2. \A q \in pruning' \ pruning : q.ids = Outdated
      BY <2>3, <3>1 DEF SelectOld
    <3>3. \A r \in Outdated : Had(r)
      BY <1>2 DEF Outdated, Prunable
    <3> QED BY <1>1, <3>2, <3>3 DEF SeenIsHad
  <2>4. CASE \E p \in pruning : SelectOld(p) \/ DeleteOld(p)
    BY <2>1, <2>3, <2>4 DEF DeleteOld
  <2>5. CASE \E ready \in SUBSET BatchServer : StartManual(ready) \/ StartScheduled(ready)
    BY <2>2, <2>5
  <2>6. CASE \/ LookAtSchedule \/ SkipSchedule
             \/ \E t \in tasks :
                    \/ Accept(t) \/ Dispatched(t) \/ GiveUp(t) \/ Execute(t)
                    \/ (\E result \in TargetState : StoreResult(t, result))
                    \/ ListTargets(t) \/ WriteRunState(t)
             \/ \E by \in {"dispatch", "worker"} : Restart(by)
    BY <2>1, <2>6 DEF LookAtSchedule, SkipSchedule, Accept, Dispatched, GiveUp, Execute,
       StoreResult, ListTargets, WriteRunState, Restart
  <2> QED BY <2>4, <2>5, <2>6 DEF BatchRunsNext
<1> QED BY <1>3, <1>4, <1>5 DEF SeenIsHad, HadNow, Had

(* A result that finds its run gone is not the first result of its target. *)
LEMMA DiscardedStep ==
    ASSUME BatchRunsInv, BatchRunsNext
    PROVE  NothingDiscarded'
<1> USE DEF BatchRunsInv, NothingDiscarded
<1>1. ASSUME NEW t \in tasks, NEW result \in TargetState, StoreResult(t, result)
      PROVE  discarded' = {}
  <2>1. CASE t.run \in Recorded
    BY <1>1, <2>1 DEF StoreResult
  <2>2. CASE t.run \notin Recorded
    <3>1. t.run \in RunId /\ t.server \in BatchServer
      BY DEF RunsType, Task
    <3>2. <<t.run, t.server>> \in hadOutcome
      BY <2>2, <3>1 DEF OverIsHad, NewIsUnused, Had
    <3> QED BY <1>1, <2>2, <3>2 DEF StoreResult
  <2> QED BY <2>1, <2>2
<1>2. CASE ~(\E t \in tasks, result \in TargetState : StoreResult(t, result))
  BY <1>2 DEF BatchRunsNext, StartManual, StartScheduled, StartRun, LookAtSchedule,
     SkipSchedule, SelectOld, DeleteOld, Accept, Dispatched, GiveUp, Execute, ListTargets,
     WriteRunState, Restart, history
<1> QED BY <1>1, <1>2

(* Before any run, nothing is stored, seen or in progress. *)
LEMMA BatchRunsStart ==
    ASSUME BatchRunsAssumption, BatchRunsInit
    PROVE  BatchRunsInv
<1> USE DEF BatchRunsInit
<1>1. Recorded = {}
  BY DEF Recorded
<1>2. RunsType
  BY BatchRunsAssumption DEF RunsType, BatchRunsAssumption
<1>3. NewIsUnused /\ TasksDiffer /\ TargetsAreHad /\ ListsAreHad
  BY <1>1 DEF NewIsUnused, TasksDiffer, TargetsAreHad, ListsAreHad
<1>4. OverIsHad
  BY <1>2 DEF OverIsHad, RunId, RunsType
<1>5. SeenIsHad /\ NothingDiscarded
  BY <1>1 DEF SeenIsHad, ScheduleWaits, NothingDiscarded
<1> QED BY <1>2, <1>3, <1>4, <1>5 DEF BatchRunsInv

(* The invariant holds always. *)
THEOREM BatchRunsInductive == BatchRunsSpec => []BatchRunsInv
<1>1. BatchRunsInit => BatchRunsInv
  BY BatchRunsAssumption, BatchRunsStart
<1>2. ASSUME BatchRunsInv, [BatchRunsNext]_batchRunVars
      PROVE  BatchRunsInv'
  <2>1. CASE BatchRunsNext
    BY <1>2, <2>1, BatchRunsAssumption, TypeStep, TaskStep, TargetsStep, ListsStep,
       OverStep, SeenStep, DiscardedStep DEF BatchRunsInv
  <2>2. CASE UNCHANGED batchRunVars
    BY <1>2, <2>2 DEF batchRunVars, BatchRunsInv, RunsType, NewIsUnused, TasksDiffer,
       TargetsAreHad, ListsAreHad, OverIsHad, SeenIsHad, ScheduleWaits, NothingDiscarded,
       Recorded, Had, Over
  <2> QED BY <1>2, <2>1, <2>2
<1> QED BY <1>1, <1>2, PTL DEF BatchRunsSpec

(* Every variable keeps its type, and no target is dispatched or executed twice at a
   time: the goroutines of startBatchScriptRun and executeBatchScript. *)
THEOREM BatchRunsTypeOKAlways == BatchRunsSpec => []BatchRunsTypeOK
<1>1. BatchRunsInv => BatchRunsTypeOK
  <2> SUFFICES ASSUME BatchRunsInv
               PROVE  BatchRunsTypeOK
    OBVIOUS
  <2>1. batchRuns \in [RunId -> RunRecord \cup {NoRun}] /\ tasks \subseteq Task
    BY DEF BatchRunsInv, RunsType
  <2>2. Recorded \subseteq 1..runsMade
    BY BatchRunsAssumption DEF BatchRunsInv, RunsType, NewIsUnused, Recorded, RunId,
       BatchRunsAssumption
  <2>3. scheduler.seen \in 0..MaxRuns
    BY DEF BatchRunsInv, RunsType
  <2>4. hadOutcome \cup discarded \subseteq RunId \X BatchServer
    BY DEF BatchRunsInv, RunsType, NothingDiscarded
  <2>5. \A t, u \in tasks : t.by = u.by /\ t.run = u.run /\ t.server = u.server => t = u
    BY DEF BatchRunsInv, TasksDiffer
  <2> QED BY <2>1, <2>2, <2>3, <2>4, <2>5 DEF BatchRunsTypeOK
<1> QED BY <1>1, BatchRunsInductive, PTL

(* No run is recorded as finished before each of its targets has had a result,
   however the three statements of FinishBatchScriptRunTarget interleave. *)
THEOREM FinishedRunsHadTheirResults == BatchRunsSpec => []OverHasOutcomes
<1>1. BatchRunsInv => OverHasOutcomes
  BY DEF BatchRunsInv, NewIsUnused, OverIsHad, OverHasOutcomes, Had, Recorded
<1> QED BY <1>1, BatchRunsInductive, PTL

(* The schedule starts a run only after every result of the run it saw last. *)
THEOREM ScheduledRunsWait == BatchRunsSpec => []ScheduleWaits
<1>1. BatchRunsInv => ScheduleWaits
  BY DEF BatchRunsInv, SeenIsHad
<1> QED BY <1>1, BatchRunsInductive, PTL

(* The retention never deletes a run that still waits for a result. *)
THEOREM RetentionKeepsResults == BatchRunsSpec => []NothingDiscarded
<1>1. BatchRunsInv => NothingDiscarded
  BY DEF BatchRunsInv
<1> QED BY <1>1, BatchRunsInductive, PTL

--------------------------------------------------------------------------------
(* When a run comes to rest. *)

(* A goroutine that will still store a result of the target. *)
Awaited(r, s, t) == t.run = r /\ t.server = s /\ t.pc \in {"send", "accepted", "over"}

(* A target without a result has such a goroutine, unless a process died. *)
OpenIsAwaited ==
    \A r \in Recorded \ orphaned, s \in BatchServer :
       batchRuns[r].targets[s] \in {"queued", "running"} => \E t \in tasks : Awaited(r, s, t)

(* The state of a run follows from its targets, or a goroutine will write it again. *)
StateFollows ==
    \A r \in Recorded \ (orphaned \cup staleWrite) :
       \/ \E t \in tasks : t.run = r /\ t.pc # "sent"
       \/ batchRuns[r].state = Outcome(batchRuns[r].targets)

(* A goroutine, or the execution that it asked for, goes on. *)
GoesOn(t, pc) == \E u \in tasks' : u.run = t.run /\ u.server = t.server /\ u.pc = pc

GoroutineStep(t) ==
    \/ Accept(t) \/ Dispatched(t) \/ GiveUp(t) \/ Execute(t)
    \/ (\E result \in TargetState : StoreResult(t, result))
    \/ ListTargets(t) \/ WriteRunState(t)

(* Where the goroutine stood whose step it is, and where it goes. *)
LEMMA GoroutineGoesOn ==
    ASSUME RunsType, NEW t \in tasks
    PROVE  /\ Accept(t) => t.pc = "send" /\ GoesOn(t, "accepted")
           /\ Dispatched(t) => t.pc = "sent"
           /\ GiveUp(t) \/ Execute(t) => GoesOn(t, "over")
           /\ \A result : StoreResult(t, result) =>
                 t.pc = "over" /\ (t.run \in Recorded => GoesOn(t, "updated"))
           /\ ListTargets(t) =>
                 t.pc = "updated" /\ (t.run \in Recorded => GoesOn(t, "listed"))
           /\ WriteRunState(t) => t.pc = "listed"
           /\ GoroutineStep(t) => tasks \ {t} \subseteq tasks'
<1>0. t \in Task
  BY DEF RunsType
<1>1. ASSUME NEW pc
      PROVE  LET u == [t EXCEPT !.pc = pc]
             IN u.run = t.run /\ u.server = t.server /\ u.pc = pc
  BY <1>0 DEF Task
<1>2. ASSUME Accept(t)
      PROVE  t.pc = "send" /\ GoesOn(t, "accepted")
  <2> DEFINE v == [t EXCEPT !.by = "worker", !.pc = "accepted"]
  <2>1. v.run = t.run /\ v.server = t.server /\ v.pc = "accepted"
    BY <1>0 DEF Task
  <2>2. v \in tasks' /\ t.pc = "send"
    BY <1>2 DEF Accept
  <2> QED BY <2>1, <2>2 DEF GoesOn
<1>3. GiveUp(t) \/ Execute(t) => GoesOn(t, "over")
  BY <1>1 DEF GiveUp, Execute, Step, GoesOn
<1>4. ASSUME NEW result, StoreResult(t, result)
      PROVE  t.pc = "over" /\ (t.run \in Recorded => GoesOn(t, "updated"))
  BY <1>1, <1>4 DEF StoreResult, Step, GoesOn
<1>5. ASSUME ListTargets(t)
      PROVE  t.pc = "updated" /\ (t.run \in Recorded => GoesOn(t, "listed"))
  <2> DEFINE u == [t EXCEPT !.pc = "listed", !.list = {batchRuns[t.run].targets}]
  <2>1. u.run = t.run /\ u.server = t.server /\ u.pc = "listed"
    BY <1>0 DEF Task
  <2>2. t.pc = "updated" /\ (t.run \in Recorded => u \in tasks')
    BY <1>5 DEF ListTargets
  <2> QED BY <2>1, <2>2 DEF GoesOn
<1>6. (WriteRunState(t) => t.pc = "listed") /\ (Dispatched(t) => t.pc = "sent")
  BY DEF WriteRunState, Dispatched
<1>7. GoroutineStep(t) => tasks \ {t} \subseteq tasks'
  BY DEF GoroutineStep, Accept, Dispatched, GiveUp, Execute, StoreResult, ListTargets,
     WriteRunState, Step, End
<1> QED BY <1>2, <1>3, <1>4, <1>5, <1>6, <1>7

(* What the step of a goroutine writes: at most one target, or the state, of its run. *)
LEMMA GoroutineWrites ==
    ASSUME RunsType, NEW t \in tasks, GoroutineStep(t), NEW r \in Recorded'
    PROVE  /\ r \in Recorded /\ orphaned' = orphaned
           /\ \A s \in BatchServer : batchRuns'[r].targets[s] # batchRuns[r].targets[s] =>
                 /\ t.run = r /\ t.server = s
                 /\ Execute(t) \/ \E result \in TargetState :
                       StoreResult(t, result) /\ batchRuns'[r].targets[s] = result
           /\ batchRuns'[r].targets # batchRuns[r].targets =>
                 t.run = r /\ (Execute(t) \/ \E result \in TargetState : StoreResult(t, result))
           /\ r \notin staleWrite' /\ r \in staleWrite =>
                 t.run = r /\ WriteRunState(t)
           /\ batchRuns'[r].state # batchRuns[r].state => t.run = r /\ WriteRunState(t)
           /\ t.run = r /\ WriteRunState(t) =>
                 \/ r \in staleWrite'
                 \/ batchRuns'[r].state = Outcome(batchRuns'[r].targets)
<1> DEFINE Kept == batchRuns'[r] = batchRuns[r]
<1>0. r \in RunId /\ batchRuns'[r] # NoRun
  BY DEF Recorded
<1>1. orphaned' = orphaned
  BY DEF GoroutineStep, Accept, Dispatched, GiveUp, Execute, StoreResult, ListTargets,
     WriteRunState, history
<1>2. CASE Accept(t) \/ Dispatched(t) \/ GiveUp(t) \/ ListTargets(t)
  <2>1. batchRuns' = batchRuns /\ staleWrite' = staleWrite
    BY <1>2 DEF Accept, Dispatched, GiveUp, ListTargets, history
  <2>2. ~WriteRunState(t)
    BY <1>2 DEF Accept, Dispatched, GiveUp, ListTargets, WriteRunState
  <2> QED BY <1>0, <1>1, <2>1, <2>2 DEF Recorded
<1>3. ASSUME NEW value, staleWrite' = staleWrite, ~WriteRunState(t),
             IF t.run \in Recorded
             THEN batchRuns' = [batchRuns EXCEPT ![t.run].targets[t.server] = value]
             ELSE batchRuns' = batchRuns
      PROVE  /\ r \in Recorded /\ batchRuns'[r].state = batchRuns[r].state
             /\ \A s \in BatchServer : batchRuns'[r].targets[s] # batchRuns[r].targets[s] =>
                   t.run = r /\ t.server = s /\ batchRuns'[r].targets[s] = value
             /\ batchRuns'[r].targets # batchRuns[r].targets => t.run = r
  <2>1. CASE t.run \in Recorded /\ t.run = r
    <3>1. batchRuns[r] \in RunRecord
      BY <1>0, <2>1 DEF Recorded, RunsType
    <3>2. batchRuns'[r] = [batchRuns[r] EXCEPT !.targets[t.server] = value]
      BY <1>0, <1>3, <2>1 DEF RunsType
    <3>3. /\ batchRuns'[r].state = batchRuns[r].state
          /\ batchRuns'[r].targets = [batchRuns[r].targets EXCEPT ![t.server] = value]
      BY <3>1, <3>2 DEF RunRecord
    <3>4. batchRuns[r].targets \in Targets
      BY <3>1 DEF RunRecord
    <3> QED BY <2>1, <3>3, <3>4 DEF Targets
  <2>2. CASE ~(t.run \in Recorded /\ t.run = r)
    <3>1. batchRuns'[r] = batchRuns[r]
      BY <1>0, <1>3, <2>2 DEF RunsType
    <3> QED BY <1>0, <3>1 DEF Recorded
  <2> QED BY <2>1, <2>2
<1>4. CASE Execute(t)
  <2>1. /\ IF t.run \in Recorded
           THEN batchRuns' = [batchRuns EXCEPT ![t.run].targets[t.server] = "running"]
           ELSE batchRuns' = batchRuns
        /\ staleWrite' = staleWrite /\ ~WriteRunState(t)
    BY <1>4 DEF Execute, history, WriteRunState
  <2> QED BY <1>1, <1>3, <1>4, <2>1
<1>5. ASSUME NEW result \in TargetState, StoreResult(t, result)
      PROVE  /\ r \in Recorded /\ orphaned' = orphaned
             /\ \A s \in BatchServer : batchRuns'[r].targets[s] # batchRuns[r].targets[s] =>
                 /\ t.run = r /\ t.server = s
                 /\ batchRuns'[r].targets[s] = result
             /\ batchRuns'[r].targets # batchRuns[r].targets => t.run = r
             /\ batchRuns'[r].state = batchRuns[r].state
             /\ staleWrite' = staleWrite /\ ~WriteRunState(t)
  <2>1. /\ IF t.run \in Recorded
           THEN batchRuns' = [batchRuns EXCEPT ![t.run].targets[t.server] = result]
           ELSE batchRuns' = batchRuns
        /\ staleWrite' = staleWrite /\ ~WriteRunState(t)
    BY <1>5 DEF StoreResult, WriteRunState
  <2> QED BY <1>1, <1>3, <2>1
<1>6. CASE WriteRunState(t)
  <2>1. PICK list \in t.list :
           IF t.run \in Recorded
           THEN /\ batchRuns' = [batchRuns EXCEPT ![t.run].state = Outcome(list)]
                /\ staleWrite' = IF list = batchRuns[t.run].targets
                                 THEN staleWrite \ {t.run} ELSE staleWrite \cup {t.run}
           ELSE batchRuns' = batchRuns /\ staleWrite' = staleWrite
    BY <1>6 DEF WriteRunState
  <2>2. CASE t.run \in Recorded /\ t.run = r
    <3>1. batchRuns[r] \in RunRecord
      BY <1>0, <2>2 DEF Recorded, RunsType
    <3>2. batchRuns'[r] = [batchRuns[r] EXCEPT !.state = Outcome(list)]
      BY <1>0, <2>1, <2>2 DEF RunsType
    <3>3. batchRuns'[r].state = Outcome(list) /\ batchRuns'[r].targets = batchRuns[r].targets
      BY <3>1, <3>2 DEF RunRecord
    <3> QED BY <1>1, <1>6, <2>1, <2>2, <3>3
  <2>3. CASE ~(t.run \in Recorded /\ t.run = r)
    <3>1. batchRuns'[r] = batchRuns[r] /\ (r \in staleWrite' <=> r \in staleWrite)
      BY <1>0, <2>1, <2>3 DEF RunsType
    <3>2. r \in Recorded /\ t.run # r
      BY <1>0, <2>3, <3>1 DEF Recorded
    <3> QED BY <1>1, <3>1, <3>2
  <2> QED BY <2>2, <2>3
<1> QED BY <1>2, <1>4, <1>5, <1>6 DEF GoroutineStep

(* What a start stores: a new run whose open targets have a goroutine each. *)
LEMMA StartAwaits ==
    ASSUME RunsType, NEW ready \in SUBSET BatchServer,
           StartManual(ready) \/ StartScheduled(ready), NEW r \in Recorded'
    PROVE  /\ tasks \subseteq tasks' /\ orphaned' = orphaned /\ staleWrite' = staleWrite
           /\ \/ r \in Recorded /\ batchRuns'[r] = batchRuns[r]
              \/ /\ \E t \in tasks' : t.run = r /\ t.pc = "send"
                 /\ \A s \in BatchServer :
                       batchRuns'[r].targets[s] \in {"queued", "running"} =>
                          \E t \in tasks' : Awaited(r, s, t)
<1>0. r \in RunId /\ batchRuns'[r] # NoRun
  BY DEF Recorded
<1>1. PICK trigger, seen : StartRun(trigger, ready, seen)
  BY DEF StartManual, StartScheduled
<1> DEFINE record == [state |-> "running", after |-> seen, trigger |-> trigger,
                      targets |-> [s \in BatchServer |->
                                     IF s \in ready THEN "queued" ELSE "skipped"]]
           task(s) == [by |-> "dispatch", run |-> runsMade + 1, server |-> s,
                       pc |-> "send", list |-> {}]
<1>2. batchRuns' = [batchRuns EXCEPT ![runsMade + 1] = record]
  BY <1>1 DEF StartRun
<1>3. /\ tasks \subseteq tasks' /\ \A s \in ready : task(s) \in tasks'
      /\ ready # {} /\ orphaned' = orphaned /\ staleWrite' = staleWrite
  BY <1>1 DEF StartRun
<1>4. \A s : task(s).run = runsMade + 1 /\ task(s).server = s /\ task(s).pc = "send"
  OBVIOUS
<1>5. \A s \in BatchServer \ ready : record.targets[s] = "skipped"
  OBVIOUS
<1> HIDE DEF record, task
<1>6. CASE r = runsMade + 1
  <2>1. batchRuns'[r] = record
    BY <1>0, <1>2, <1>6 DEF RunsType
  <2>2. \A s \in ready : Awaited(r, s, task(s))
    BY <1>4, <1>6 DEF Awaited
  <2>3. ASSUME NEW s \in BatchServer, batchRuns'[r].targets[s] \in {"queued", "running"}
        PROVE  s \in ready
    BY <1>5, <2>1, <2>3
  <2> QED BY <1>3, <1>4, <1>6, <2>2, <2>3
<1>7. CASE r # runsMade + 1
  BY <1>0, <1>2, <1>3, <1>7 DEF RunsType, Recorded
<1> QED BY <1>6, <1>7

(* What the other steps leave alone. *)
LEMMA OthersKeep ==
    ASSUME RunsType, NEW r \in Recorded',
           \/ LookAtSchedule \/ SkipSchedule
           \/ \E p \in pruning : SelectOld(p) \/ DeleteOld(p)
           \/ \E by \in {"dispatch", "worker"} : Restart(by)
    PROVE  /\ r \in Recorded /\ batchRuns'[r] = batchRuns[r]
           /\ orphaned \subseteq orphaned' /\ staleWrite' = staleWrite
           /\ r \notin orphaned' => \A t \in tasks : t.run = r => t \in tasks'
<1>0. r \in RunId /\ batchRuns'[r] # NoRun
  BY DEF Recorded
<1>1. CASE LookAtSchedule \/ SkipSchedule \/ \E p \in pruning : SelectOld(p)
  BY <1>0, <1>1 DEF LookAtSchedule, SkipSchedule, SelectOld, history, Recorded
<1>2. ASSUME NEW p \in pruning, DeleteOld(p)
      PROVE  /\ r \in Recorded /\ batchRuns'[r] = batchRuns[r]
             /\ orphaned' = orphaned /\ staleWrite' = staleWrite /\ tasks' = tasks
  BY <1>0, <1>2 DEF DeleteOld, history, Recorded
<1>3. ASSUME NEW by \in {"dispatch", "worker"}, Restart(by)
      PROVE  /\ r \in Recorded /\ batchRuns'[r] = batchRuns[r]
             /\ orphaned \subseteq orphaned' /\ staleWrite' = staleWrite
             /\ r \notin orphaned' => \A t \in tasks : t.run = r => t \in tasks'
  BY <1>0, <1>3 DEF Restart, Recorded
<1> QED BY <1>1, <1>2, <1>3

(* A target that is open after a step is awaited after it. *)
LEMMA OpenStep ==
    ASSUME RunsType, OpenIsAwaited, BatchRunsNext
    PROVE  OpenIsAwaited'
<1> SUFFICES ASSUME NEW r \in Recorded' \ orphaned', NEW s \in BatchServer,
                    batchRuns'[r].targets[s] \in {"queued", "running"}
             PROVE  \E t \in tasks' : Awaited(r, s, t)
  BY DEF OpenIsAwaited, Awaited
<1>1. ASSUME r \in Recorded \ orphaned, batchRuns'[r].targets[s] = batchRuns[r].targets[s]
      PROVE  \E t \in tasks : Awaited(r, s, t)
  BY <1>1 DEF OpenIsAwaited
<1>2. ASSUME NEW t \in tasks, GoroutineStep(t)
      PROVE  \E u \in tasks' : Awaited(r, s, u)
  <2>1. r \in Recorded \ orphaned /\ tasks \ {t} \subseteq tasks'
    BY <1>2, GoroutineWrites, GoroutineGoesOn
  <2>2. CASE batchRuns'[r].targets[s] = batchRuns[r].targets[s]
    <3>1. PICK v \in tasks : Awaited(r, s, v)
      BY <1>1, <2>1, <2>2
    <3>2. CASE v # t
      BY <2>1, <3>1, <3>2
    <3>3. CASE v = t
      <4>1. GoesOn(t, "accepted") \/ GoesOn(t, "over")
            \/ \E result \in TargetState : StoreResult(t, result)
        BY <1>2, <3>1, <3>3, GoroutineGoesOn DEF GoroutineStep, Awaited
      <4>2. CASE \E result \in TargetState : StoreResult(t, result)
        <5>1. PICK result \in TargetState : StoreResult(t, result)
          BY <4>2
        <5>2. batchRuns'[r].targets[s] = result /\ result \in Results(t)
          <6>1. r \in RunId /\ batchRuns[r] \in RunRecord /\ t.run = r /\ t.server = s
            BY <2>1, <3>1, <3>3 DEF Recorded, RunsType, Awaited
          <6>2. batchRuns' = [batchRuns EXCEPT ![r].targets[s] = result]
            BY <2>1, <5>1, <6>1 DEF StoreResult
          <6>3. batchRuns'[r] = [batchRuns[r] EXCEPT !.targets[s] = result]
            BY <6>1, <6>2 DEF RunsType
          <6>4. batchRuns'[r].targets[s] = result
            BY <6>1, <6>3 DEF RunRecord, Targets
          <6> QED BY <5>1, <6>4 DEF StoreResult
        <5> QED BY <5>2 DEF Results
      <4> QED BY <3>1, <3>3, <4>1, <4>2 DEF GoesOn, Awaited
    <3> QED BY <3>2, <3>3
  <2>3. CASE batchRuns'[r].targets[s] # batchRuns[r].targets[s]
    <3>1. /\ t.run = r /\ t.server = s
          /\ Execute(t) \/ \E result \in TargetState :
                 StoreResult(t, result) /\ batchRuns'[r].targets[s] = result
      BY <1>2, <2>3, GoroutineWrites
    <3>2. Execute(t)
      BY <3>1 DEF StoreResult, Results
    <3> QED BY <3>1, <3>2, GoroutineGoesOn DEF GoesOn, Awaited
  <2> QED BY <2>2, <2>3
<1>3. ASSUME NEW ready \in SUBSET BatchServer, StartManual(ready) \/ StartScheduled(ready)
      PROVE  \E u \in tasks' : Awaited(r, s, u)
  BY <1>1, <1>3, StartAwaits
<1>4. CASE \/ LookAtSchedule \/ SkipSchedule
           \/ \E p \in pruning : SelectOld(p) \/ DeleteOld(p)
           \/ \E by \in {"dispatch", "worker"} : Restart(by)
  BY <1>1, <1>4, OthersKeep DEF Awaited
<1> QED BY <1>2, <1>3, <1>4 DEF BatchRunsNext, GoroutineStep

(* The last that writes the state of a run writes what follows from its targets. *)
LEMMA StateStep ==
    ASSUME RunsType, StateFollows, BatchRunsNext
    PROVE  StateFollows'
<1> SUFFICES ASSUME NEW r \in Recorded' \ (orphaned' \cup staleWrite')
             PROVE  \/ \E t \in tasks' : t.run = r /\ t.pc # "sent"
                    \/ batchRuns'[r].state = Outcome(batchRuns'[r].targets)
  BY DEF StateFollows
<1> DEFINE Busy == \E t \in tasks' : t.run = r /\ t.pc # "sent"
           Follows == batchRuns'[r].state = Outcome(batchRuns'[r].targets)
<1>2. ASSUME NEW t \in tasks, GoroutineStep(t)
      PROVE  Busy \/ Follows
  <2>1. r \in Recorded \ orphaned /\ tasks \ {t} \subseteq tasks'
    BY <1>2, GoroutineWrites, GoroutineGoesOn
  <2>2. CASE t.run = r /\ t.pc # "sent" /\ ~WriteRunState(t)
    <3>1. \E pc \in {"accepted", "over", "updated", "listed"} : GoesOn(t, pc)
      BY <1>2, <2>1, <2>2, GoroutineGoesOn DEF GoroutineStep
    <3> QED BY <2>2, <3>1 DEF GoesOn
  <2>3. CASE t.run = r /\ WriteRunState(t)
    BY <1>2, <2>3, GoroutineWrites
  <2>4. CASE t.run # r \/ t.pc = "sent"
    <3>1. ~(t.run = r /\ WriteRunState(t))
          /\ ~(t.run = r /\ (Execute(t) \/ \E result \in TargetState : StoreResult(t, result)))
      BY <2>4 DEF WriteRunState, Execute, StoreResult
    <3>2. r \notin staleWrite /\ batchRuns'[r].state = batchRuns[r].state
          /\ batchRuns'[r].targets = batchRuns[r].targets
      BY <1>2, <3>1, GoroutineWrites
    <3>3. CASE batchRuns[r].state = Outcome(batchRuns[r].targets)
      BY <3>2, <3>3
    <3>4. ASSUME NEW u \in tasks, u.run = r, u.pc # "sent"
          PROVE  Busy
      BY <2>1, <2>4, <3>4
    <3> QED BY <2>1, <3>2, <3>3, <3>4 DEF StateFollows
  <2> QED BY <2>2, <2>3, <2>4
<1>3. ASSUME NEW ready \in SUBSET BatchServer, StartManual(ready) \/ StartScheduled(ready)
      PROVE  Busy \/ Follows
  <2>1. PICK new \in BOOLEAN :
           /\ tasks \subseteq tasks' /\ orphaned' = orphaned /\ staleWrite' = staleWrite
           /\ new => \E t \in tasks' : t.run = r /\ t.pc = "send"
           /\ ~new => r \in Recorded /\ batchRuns'[r] = batchRuns[r]
    BY <1>3, StartAwaits
  <2> QED BY <2>1 DEF StateFollows
<1>4. CASE \/ LookAtSchedule \/ SkipSchedule
           \/ \E p \in pruning : SelectOld(p) \/ DeleteOld(p)
           \/ \E by \in {"dispatch", "worker"} : Restart(by)
  BY <1>4, OthersKeep DEF StateFollows
<1> QED BY <1>2, <1>3, <1>4 DEF BatchRunsNext, GoroutineStep

(* A run that nobody works on any more is over and its state follows from its targets:
   the last of FinishBatchScriptRunTarget has seen them all, unless a process died
   with a goroutine of the run or an older list was written last. *)
THEOREM QuietRunsAreOver == BatchRunsSpec => []QuietRunIsOver
<1> DEFINE Inv == BatchRunsInv /\ OpenIsAwaited /\ StateFollows
<1>1. BatchRunsInit => OpenIsAwaited /\ StateFollows
  BY DEF BatchRunsInit, OpenIsAwaited, StateFollows, Recorded
<1>2. ASSUME Inv, [BatchRunsNext]_batchRunVars
      PROVE  (OpenIsAwaited /\ StateFollows)'
  <2>1. CASE BatchRunsNext
    BY <1>2, <2>1, OpenStep, StateStep DEF BatchRunsInv
  <2>2. CASE UNCHANGED batchRunVars
    BY <1>2, <2>2 DEF batchRunVars, OpenIsAwaited, StateFollows, Recorded, Awaited
  <2> QED BY <1>2, <2>1, <2>2
<1>3. Inv => QuietRunIsOver
  <2> SUFFICES ASSUME Inv, NEW r \in Recorded \ (orphaned \cup staleWrite),
                      \A t \in tasks : t.run # r
               PROVE  Over(r) /\ batchRuns[r].state = Outcome(batchRuns[r].targets)
    BY DEF QuietRunIsOver
  <2>1. batchRuns[r].state = Outcome(batchRuns[r].targets)
    BY DEF StateFollows
  <2>2. \A s \in BatchServer : batchRuns[r].targets[s] \notin {"queued", "running"}
    BY DEF OpenIsAwaited, Awaited
  <2>3. batchRuns[r] \in RunRecord
    BY DEF BatchRunsInv, RunsType, Recorded
  <2>4. Done(batchRuns[r].targets)
    BY <2>2, <2>3 DEF Done, RunRecord, Targets, TargetState
  <2>5. Outcome(batchRuns[r].targets) # "running"
    BY <2>4 DEF Outcome
  <2> QED BY <2>1, <2>5 DEF Over
<1> QED BY <1>1, <1>2, <1>3, BatchRunsInductive, PTL DEF BatchRunsSpec
================================================================================
