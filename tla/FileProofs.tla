------------------------------ MODULE FileProofs -------------------------------
(* Theorems about RemoteEditor, SudoEditor and FileListing, for any windows, files,
   directories, places and bounds. *)
EXTENDS RemoteEditor, SudoEditor, FileListing, FiniteSetTheorems, TLAPS

--------------------------------------------------------------------------------
(* RemoteEditor: no version that was only looked at is written back.        *)

EditorsType ==
    /\ document \in [doc : Copy, fresh : BOOLEAN, error : BOOLEAN]
    /\ documentRead \in [pc : {"idle", "asked", "answered"}, text : FileText]
    /\ editors \in [EditorWindow -> EditorState]
    /\ editorSave \in [EditorWindow -> Transfer]
    /\ remoteFile \in FileText /\ typed \in 0..MaxTyped

(* A text that may reach the file. *)
NotOld(t) == t # {Stored}

(* The old version is in no place from where the file, or the windows' drafts, are
   written; a window that displays it has no baseline that it could differ from. *)
OldIsOnlyShown ==
    /\ NotOld(remoteFile) /\ NotOld(document.doc.text) /\ NotOld(documentRead.text)
    /\ \A w \in EditorWindow :
         /\ NotOld(editorSave[w].text)
         /\ editors[w].baseline.known => NotOld(editors[w].content)
         /\ editors[w].version \/ ~editors[w].open => ~editors[w].baseline.known

OldInv == EditorsType /\ OldIsOnlyShown

(* Adopting a text that is not the old version keeps a window in order. *)
LEMMA AdoptIsSafe ==
    ASSUME NEW s \in EditorState, NEW doc \in Copy, NotOld(doc.text),
           s.baseline.known => NotOld(s.content), ~s.open => ~s.baseline.known
    PROVE  /\ Adopt(s, doc) \in EditorState
           /\ Adopt(s, doc).baseline.known => NotOld(Adopt(s, doc).content)
           /\ ~Adopt(s, doc).open => ~Adopt(s, doc).baseline.known
           /\ Adopt(s, doc).version = s.version
           /\ s.version => Adopt(s, doc).baseline = s.baseline
  BY DEF Adopt, EditorState, Copy

(* Asking for the document changes its read only, which has no text yet. *)
LEMMA AskKeepsRead ==
    ASSUME EditorsType, OldIsOnlyShown, NEW forced \in BOOLEAN,
           StartDocumentRead(forced) \/ UNCHANGED <<documentRead, documentReads>>
    PROVE  /\ documentRead' \in [pc : {"idle", "asked", "answered"}, text : FileText]
           /\ NotOld(documentRead'.text)
  BY DEF StartDocumentRead, EditorsType, OldIsOnlyShown, NoTransfer, NotOld, FileText

(* A step that changes one window, into one that is in order. *)
LEMMA WindowKeepsOld ==
    ASSUME OldInv, NEW w \in EditorWindow, NEW s \in EditorState, SetWindow(w, s),
           s.baseline.known => NotOld(s.content), s.version \/ ~s.open => ~s.baseline.known,
           UNCHANGED <<remoteFile, document>>, typed' \in 0..MaxTyped,
           editorSave' \in [EditorWindow -> Transfer],
           \A x \in EditorWindow : NotOld(editorSave'[x].text),
           documentRead' \in [pc : {"idle", "asked", "answered"}, text : FileText],
           NotOld(documentRead'.text)
    PROVE  OldInv'
<1>1. EditorsType'
  BY DEF OldInv, EditorsType, SetWindow
<1>2. OldIsOnlyShown'
  BY DEF OldInv, OldIsOnlyShown, EditorsType, SetWindow
<1> QED BY <1>1, <1>2 DEF OldInv

(* A step that changes no window, and brings no old version into the file, the
   document or a save. *)
LEMMA RestKeepsOld ==
    ASSUME OldInv, UNCHANGED editors, typed' \in 0..MaxTyped,
           remoteFile' \in FileText, NotOld(remoteFile'),
           document' \in [doc : Copy, fresh : BOOLEAN, error : BOOLEAN], NotOld(document'.doc.text),
           editorSave' \in [EditorWindow -> Transfer],
           \A x \in EditorWindow : NotOld(editorSave'[x].text),
           documentRead' \in [pc : {"idle", "asked", "answered"}, text : FileText],
           NotOld(documentRead'.text)
    PROVE  OldInv'
  BY DEF OldInv, OldIsOnlyShown, EditorsType

(* Nothing is open at first. *)
LEMMA InitOld == EditorInit => OldInv
<1> SUFFICES ASSUME EditorInit PROVE OldInv
  OBVIOUS
<1>1. Stored \in Nat /\ Stored # 0 /\ 0 \in 0..MaxTyped
  BY EditorAssumption DEF EditorAssumption, Stored
<1>2. {} \in FileText /\ {0} \in FileText /\ NotOld({}) /\ NotOld({0})
  BY <1>1 DEF FileText, NotOld
<1>3. /\ NotLoaded \in Copy /\ NotLoaded.text = {} /\ ~NotLoaded.known
      /\ NoTransfer \in Transfer /\ NoTransfer.text = {} /\ NoTransfer.pc = "idle"
      /\ NoTransfer \in [pc : {"idle", "asked", "answered"}, text : FileText]
  BY <1>2 DEF NotLoaded, Copy, NoTransfer, Transfer
<1>4. NoEditor \in EditorState /\ ~NoEditor.baseline.known
  BY <1>2, <1>3 DEF NoEditor, EditorState
<1>5. /\ document \in [doc : Copy, fresh : BOOLEAN, error : BOOLEAN]
      /\ document.doc.text = {}
  BY <1>3 DEF EditorInit
<1>6. EditorsType
  BY <1>1, <1>2, <1>3, <1>4, <1>5 DEF EditorInit, EditorsType
<1>7. OldIsOnlyShown
  BY <1>2, <1>3, <1>4, <1>5 DEF EditorInit, OldIsOnlyShown
<1> QED BY <1>6, <1>7 DEF OldInv

(* The document query brings the text of the file into the windows, no other. *)
LEMMA QueryingKeepsOld == OldInv /\ Querying => OldInv'
<1> SUFFICES ASSUME OldInv, Querying PROVE OldInv'
  OBVIOUS
<1>0. EditorsType /\ OldIsOnlyShown
  BY DEF OldInv
<1> USE DEF fileHistory, documentQuery
<1>1. CASE ReadDocument
  <2>1. /\ documentRead' \in [pc : {"idle", "asked", "answered"}, text : FileText]
        /\ NotOld(documentRead'.text)
    BY <1>0, <1>1 DEF ReadDocument, EditorsType, OldIsOnlyShown
  <2> QED BY <1>0, <1>1, <2>1, RestKeepsOld
    DEF ReadDocument, EditorsType, OldIsOnlyShown
<1>2. CASE DocumentDelivered
  <2> DEFINE doc == Loaded(documentRead.text)
  <2>1. doc \in Copy /\ NotOld(doc.text) /\ document'.doc = doc
    BY <1>0, <1>2 DEF DocumentDelivered, EditorsType, OldIsOnlyShown, Loaded, Copy
  <2>2. editors' = [w \in EditorWindow |-> Adopt(editors[w], doc)]
    BY <1>2, <2>1 DEF DocumentDelivered
  <2> HIDE DEF doc
  <2>3. \A w \in EditorWindow :
           /\ Adopt(editors[w], doc) \in EditorState
           /\ Adopt(editors[w], doc).baseline.known => NotOld(Adopt(editors[w], doc).content)
           /\ Adopt(editors[w], doc).version \/ ~Adopt(editors[w], doc).open
                 => ~Adopt(editors[w], doc).baseline.known
    BY <1>0, <2>1, AdoptIsSafe DEF EditorsType, OldIsOnlyShown
  <2>4. documentRead' = NoTransfer /\ NoTransfer.text = {} /\ NoTransfer.pc = "idle"
        /\ NoTransfer \in [pc : {"idle", "asked", "answered"}, text : FileText]
    BY <1>2 DEF DocumentDelivered, NoTransfer, FileText
  <2>5. document' = [doc |-> doc, fresh |-> TRUE, error |-> FALSE]
    BY <1>2 DEF DocumentDelivered, doc
  <2>6. document' \in [doc : Copy, fresh : BOOLEAN, error : BOOLEAN]
    BY <2>1, <2>5
  <2>7. editors' \in [EditorWindow -> EditorState]
    BY <2>2, <2>3
  <2>8. EditorsType'
    BY <1>0, <1>2, <2>4, <2>6, <2>7 DEF DocumentDelivered, EditorsType
  <2>9. NotOld({})
    BY DEF NotOld
  <2> QED BY <1>0, <1>2, <2>1, <2>2, <2>3, <2>4, <2>9, <2>8
    DEF DocumentDelivered, OldInv, OldIsOnlyShown
<1>3. CASE DocumentFails
  <2>1. /\ documentRead' \in [pc : {"idle", "asked", "answered"}, text : FileText]
        /\ NotOld(documentRead'.text)
    BY <1>3 DEF DocumentFails, NoTransfer, FileText, NotOld
  <2>2. /\ document' \in [doc : Copy, fresh : BOOLEAN, error : BOOLEAN]
        /\ document'.doc = document.doc
    BY <1>0, <1>3 DEF DocumentFails, EditorsType
  <2> QED BY <1>0, <1>3, <2>1, <2>2, RestKeepsOld DEF DocumentFails, EditorsType, OldIsOnlyShown
<1>4. CASE DocumentAges
  <2>1. /\ document' \in [doc : Copy, fresh : BOOLEAN, error : BOOLEAN]
        /\ document'.doc = document.doc
    BY <1>0, <1>4 DEF DocumentAges, EditorsType
  <2> QED BY <1>0, <1>4, <2>1, RestKeepsOld DEF DocumentAges, EditorsType, OldIsOnlyShown
<1>5. CASE EditorOffline
  BY <1>0, <1>5, RestKeepsOld DEF EditorOffline, EditorsType, OldIsOnlyShown
<1>6. CASE EditorOnline
  <2>1. /\ documentRead' \in [pc : {"idle", "asked", "answered"}, text : FileText]
        /\ NotOld(documentRead'.text)
    BY <1>0, <1>6, AskKeepsRead DEF EditorOnline
  <2> QED BY <1>0, <1>6, <2>1, RestKeepsOld DEF EditorOnline, EditorsType, OldIsOnlyShown
<1> QED BY <1>1, <1>2, <1>3, <1>4, <1>5, <1>6 DEF Querying

(* Whatever a window does, it has a baseline only for a draft that is not old. *)
LEMMA ShowingKeepsOld ==
    ASSUME OldInv, NEW w \in EditorWindow, Showing(w) PROVE OldInv'
<1>0. EditorsType /\ OldIsOnlyShown
  BY DEF OldInv
<1> USE DEF fileHistory, documentQuery
<1> DEFINE s == editors[w]
<1>a. /\ s \in EditorState /\ (s.baseline.known => NotOld(s.content))
      /\ s.version \/ ~s.open => ~s.baseline.known
      /\ document.doc \in Copy /\ NotOld(document.doc.text)
  BY <1>0 DEF EditorsType, OldIsOnlyShown
<1>b. /\ editorSave \in [EditorWindow -> Transfer] /\ typed \in 0..MaxTyped
      /\ \A x \in EditorWindow : NotOld(editorSave[x].text)
      /\ documentRead \in [pc : {"idle", "asked", "answered"}, text : FileText]
      /\ NotOld(documentRead.text)
  BY <1>0 DEF EditorsType, OldIsOnlyShown
<1>1. CASE OpenEditor(w)
  <2> DEFINE n == [NoEditor EXCEPT !.open = TRUE]
  <2>1. n \in EditorState /\ ~n.baseline.known /\ n.open /\ ~n.version
    BY DEF NoEditor, EditorState, NotLoaded, Copy, FileText
  <2>2. SetWindow(w, Adopt(n, document.doc)) /\ UNCHANGED <<remoteFile, document, documentRead,
                                                          editorSave, typed>>
    BY <1>1 DEF OpenEditor
  <2> HIDE DEF n
  <2> QED BY <1>a, <1>b, <2>1, <2>2, AdoptIsSafe, WindowKeepsOld
<1>2. CASE Previewed(w)
  <2> DEFINE n == [s EXCEPT !.ready = TRUE]
  <2>1. /\ n \in EditorState /\ n.baseline = s.baseline /\ n.content = s.content
        /\ n.version = s.version /\ n.open = s.open
    BY <1>a DEF EditorState
  <2>2. SetWindow(w, n) /\ UNCHANGED <<remoteFile, document, editorSave, typed>>
    BY <1>2 DEF Previewed
  <2>3. /\ documentRead' \in [pc : {"idle", "asked", "answered"}, text : FileText]
        /\ NotOld(documentRead'.text)
    BY <1>0, <1>2, AskKeepsRead DEF Previewed
  <2> HIDE DEF n, s
  <2> QED BY <1>a, <1>b, <2>1, <2>2, <2>3, WindowKeepsOld
<1>3. CASE TypeInWindow(w)
  <2> DEFINE n == [s EXCEPT !.content = @ \cup {typed + 1}]
  <2>1. /\ n.baseline = s.baseline /\ n.version = s.version /\ n.open = s.open
        /\ n.content = s.content \cup {typed + 1}
    BY <1>a DEF EditorState
  <2>2. typed + 1 \in 0..Stored /\ typed + 1 # Stored /\ typed + 1 \in 0..MaxTyped
    BY <1>3, <1>b, EditorAssumption DEF TypeInWindow, Stored
  <2>3. s.content \cup {typed + 1} \in FileText /\ NotOld(s.content \cup {typed + 1})
    BY <1>a, <2>2 DEF FileText, EditorState, NotOld
  <2>4. n \in EditorState
    BY <1>a, <2>3 DEF EditorState
  <2>5. /\ SetWindow(w, n) /\ typed' = typed + 1
        /\ UNCHANGED <<remoteFile, document, editorSave, documentRead>>
    BY <1>3 DEF TypeInWindow
  <2> HIDE DEF n, s
  <2> QED BY <1>a, <1>b, <2>1, <2>2, <2>3, <2>4, <2>5, WindowKeepsOld
<1>4. CASE CloseEditor(w)
  <2>1. NoEditor \in EditorState /\ ~NoEditor.baseline.known
    BY DEF NoEditor, EditorState, NotLoaded, Copy, FileText
  <2> QED BY <1>4, <1>b, <2>1, WindowKeepsOld DEF CloseEditor
<1>5. CASE ReloadEditor(w)
  <2> DEFINE r == [s EXCEPT !.version = FALSE]
             n == IF ~s.version THEN s ELSE Adopt(r, document.doc)
  <2>1. /\ r \in EditorState /\ r.baseline = s.baseline /\ r.content = s.content
        /\ ~r.version /\ r.open = s.open
    BY <1>a DEF EditorState
  <2>2. /\ n \in EditorState /\ (n.baseline.known => NotOld(n.content))
        /\ n.version \/ ~n.open => ~n.baseline.known
    <3> HIDE DEF r, s
    <3> QED BY <1>a, <2>1, AdoptIsSafe
  <2>3. SetWindow(w, n) /\ UNCHANGED <<remoteFile, document, editorSave, typed>>
    BY <1>5 DEF ReloadEditor
  <2>4. /\ documentRead' \in [pc : {"idle", "asked", "answered"}, text : FileText]
        /\ NotOld(documentRead'.text)
    BY <1>0, <1>5, AskKeepsRead DEF ReloadEditor
  <2> HIDE DEF n
  <2> QED BY <1>b, <2>2, <2>3, <2>4, WindowKeepsOld
<1>6. CASE OpenVersion(w)
  <2>1. {Stored} \in FileText
    BY EditorAssumption DEF FileText, Stored
  <2>2. /\ Displayed(s) \in EditorState /\ ~Displayed(s).baseline.known
    BY <1>a, <2>1 DEF Displayed, EditorState, NotLoaded, Copy, FileText
  <2> QED BY <1>6, <1>b, <2>2, WindowKeepsOld DEF OpenVersion
<1> QED BY <1>1, <1>2, <1>3, <1>4, <1>5, <1>6 DEF Showing

(* Saves take their text from a draft that has a baseline, or from the file. *)
LEMMA StoringKeepsOld ==
    ASSUME OldInv, NEW w \in EditorWindow, Storing(w) PROVE OldInv'
<1>0. EditorsType /\ OldIsOnlyShown
  BY DEF OldInv
<1> USE DEF fileHistory, documentQuery
<1> DEFINE s == editors[w]
<1>a. /\ s \in EditorState /\ (s.baseline.known => NotOld(s.content))
      /\ s.version \/ ~s.open => ~s.baseline.known
  BY <1>0 DEF EditorsType, OldIsOnlyShown
<1>b. /\ editorSave \in [EditorWindow -> Transfer] /\ typed \in 0..MaxTyped
      /\ \A x \in EditorWindow : NotOld(editorSave[x].text)
      /\ documentRead \in [pc : {"idle", "asked", "answered"}, text : FileText]
      /\ NotOld(documentRead.text) /\ remoteFile \in FileText /\ NotOld(remoteFile)
      /\ document \in [doc : Copy, fresh : BOOLEAN, error : BOOLEAN]
      /\ NotOld(document.doc.text)
  BY <1>0 DEF EditorsType, OldIsOnlyShown
<1> DEFINE SavesFit == /\ editorSave' \in [EditorWindow -> Transfer]
                       /\ \A x \in EditorWindow : NotOld(editorSave'[x].text)
<1>c. ASSUME NEW pc \in {"idle", "before", "write", "after", "written", "read"}, SaveGoto(w, pc)
      PROVE  SavesFit
  BY <1>b, <1>c DEF SaveGoto, Transfer
<1>d. SaveDone(w) => SavesFit
  BY <1>b DEF SaveDone, Transfer, NoTransfer, FileText, NotOld
<1>e. ASSUME SaveFails(w), UNCHANGED <<remoteFile, document, documentRead, typed>> PROVE OldInv'
  <2> DEFINE n == [s EXCEPT !.error = s.open]
  <2>1. /\ n \in EditorState /\ n.baseline = s.baseline /\ n.content = s.content
        /\ n.version = s.version /\ n.open = s.open
    BY <1>a DEF EditorState
  <2>2. SetWindow(w, n) /\ SavesFit
    BY <1>d, <1>e DEF SaveFails
  <2> HIDE DEF n, s
  <2> QED BY <1>a, <1>b, <1>e, <2>1, <2>2, WindowKeepsOld
<1>1. CASE SaveEditor(w)
  <2> DEFINE n == [s EXCEPT !.error = FALSE]
  <2>1. /\ n \in EditorState /\ n.baseline = s.baseline /\ n.content = s.content
        /\ n.version = s.version /\ n.open = s.open
    BY <1>a DEF EditorState
  <2>2. s.content \in FileText /\ NotOld(s.content)
    BY <1>1, <1>a DEF SaveEditor, Dirty, EditorState
  <2>3. SavesFit
    BY <1>1, <1>b, <2>2 DEF SaveEditor, Transfer
  <2>4. SetWindow(w, n) /\ UNCHANGED <<remoteFile, document, documentRead, typed>>
    BY <1>1 DEF SaveEditor
  <2> HIDE DEF n, s
  <2> QED BY <1>a, <1>b, <2>1, <2>3, <2>4, WindowKeepsOld
<1>2. CASE StoreBefore(w)
  <2>1. UNCHANGED <<remoteFile, document, documentRead, typed>>
        /\ (SaveFails(w) \/ (SaveGoto(w, "write") /\ UNCHANGED editors))
    BY <1>2 DEF StoreBefore
  <2> HIDE DEF s
  <2> QED BY <1>b, <1>c, <1>e, <2>1, RestKeepsOld
<1>3. CASE UploadText(w)
  <2>1. UNCHANGED <<document, documentRead, typed>>
        /\ \/ SaveFails(w) /\ UNCHANGED remoteFile
           \/ remoteFile' = editorSave[w].text /\ SaveGoto(w, "after") /\ UNCHANGED editors
    BY <1>3 DEF UploadText
  <2>2. editorSave[w].text \in FileText /\ NotOld(editorSave[w].text)
    BY <1>b DEF Transfer
  <2> HIDE DEF s
  <2> QED BY <1>b, <1>c, <1>e, <2>1, <2>2, RestKeepsOld
<1>4. CASE StoreAfter(w)
  <2>1. UNCHANGED <<remoteFile, document, documentRead, typed>>
        /\ (SaveFails(w) \/ (SaveGoto(w, "written") /\ UNCHANGED editors))
    BY <1>4 DEF StoreAfter
  <2> HIDE DEF s
  <2> QED BY <1>b, <1>c, <1>e, <2>1, RestKeepsOld
<1>5. CASE ReadBack(w)
  <2>1. UNCHANGED <<remoteFile, document, documentRead, typed>>
        /\ \/ SaveFails(w)
           \/ /\ editorSave' = [editorSave EXCEPT ![w] = [pc |-> "read", text |-> remoteFile]]
              /\ UNCHANGED editors
    BY <1>5 DEF ReadBack
  <2>2. editorSave' = [editorSave EXCEPT ![w] = [pc |-> "read", text |-> remoteFile]] => SavesFit
    BY <1>b DEF Transfer
  <2> HIDE DEF s
  <2> QED BY <1>b, <1>e, <2>1, <2>2, RestKeepsOld
<1>6. CASE SaveSucceeds(w)
  <2> DEFINE r == [s EXCEPT !.version = FALSE]
             doc == Loaded(editorSave[w].text)
  <2>1. /\ r \in EditorState /\ r.baseline = s.baseline /\ r.content = s.content
        /\ ~r.version /\ r.open = s.open
    BY <1>a DEF EditorState
  <2>2. doc \in Copy /\ NotOld(doc.text)
    BY <1>b DEF Loaded, Copy, Transfer
  <2>3. SetWindow(w, Adopt(r, doc)) /\ SaveDone(w)
        /\ UNCHANGED <<remoteFile, document, documentRead, typed>>
    BY <1>6 DEF SaveSucceeds
  <2>4. SavesFit
    BY <1>d, <2>3
  <2> HIDE DEF r, s, doc
  <2> QED BY <1>a, <1>b, <2>1, <2>2, <2>3, <2>4, AdoptIsSafe, WindowKeepsOld
<1> QED BY <1>1, <1>2, <1>3, <1>4, <1>5, <1>6 DEF Storing

(* Every step keeps old versions where they are only shown. *)
LEMMA NextOld == OldInv /\ [EditorNext]_editorVars => OldInv'
<1> SUFFICES ASSUME OldInv, [EditorNext]_editorVars PROVE OldInv'
  OBVIOUS
<1>1. CASE UNCHANGED editorVars
  BY <1>1 DEF editorVars, documentQuery, fileHistory, OldInv, EditorsType, OldIsOnlyShown
<1> QED BY <1>1, QueryingKeepsOld, ShowingKeepsOld, StoringKeepsOld DEF EditorNext

(* A version that was only looked at never becomes the text of the file, however
   windows, reads and saves overlap: any windows, keys and reads. *)
THEOREM OldVersionsStayRead == EditorSpec => []VersionNotWritten
<1>1. OldInv => VersionNotWritten
  BY DEF OldInv, OldIsOnlyShown, NotOld, VersionNotWritten
<1> QED BY <1>1, InitOld, NextOld, PTL DEF EditorSpec

--------------------------------------------------------------------------------
(* RemoteEditor: the history misses no text that a save replaced.           *)

(* What the history has, and what the saves past their upload will add. *)
Kept == versions \cup {editorSave[w].text : w \in {x \in EditorWindow : editorSave[x].pc = "after"}}

(* A save that has looked at the file finds it kept, also when others wrote since. *)
HistoryInv ==
    /\ editorSave \in [EditorWindow -> Transfer] /\ troubled \in BOOLEAN
    /\ ~troubled => /\ replaced \subseteq Kept
                    /\ \A w \in EditorWindow : editorSave[w].pc = "write" => remoteFile \in Kept

(* Nothing is replaced at first. *)
LEMMA InitHistory == EditorInit => HistoryInv
<1> SUFFICES ASSUME EditorInit PROVE HistoryInv
  OBVIOUS
<1>1. NoTransfer \in Transfer /\ NoTransfer.pc = "idle"
  BY DEF NoTransfer, Transfer, FileText
<1>2. editorSave \in [EditorWindow -> Transfer] /\ \A w \in EditorWindow : editorSave[w].pc = "idle"
  BY <1>1 DEF EditorInit
<1> QED BY <1>2 DEF EditorInit, HistoryInv

(* Every step keeps what was kept, unless a version cannot be stored. *)
LEMMA NextHistory == OldInv /\ HistoryInv /\ [EditorNext]_editorVars => HistoryInv'
<1> SUFFICES ASSUME OldInv, HistoryInv, [EditorNext]_editorVars PROVE HistoryInv'
  OBVIOUS
<1>0. EditorsType /\ EditorsType'
  BY NextOld DEF OldInv
<1> USE DEF fileHistory, documentQuery
<1>1. ASSUME UNCHANGED <<editorSave, remoteFile, versions, replaced, troubled>> PROVE HistoryInv'
  BY <1>1 DEF HistoryInv, Kept
<1>2. ASSUME NEW w \in EditorWindow, editorSave[w].pc # "after", editorSave'[w].pc # "after",
             editorSave'[w].pc = "write" => editorSave[w].pc = "write",
             \A x \in EditorWindow : x # w => editorSave'[x] = editorSave[x],
             UNCHANGED <<remoteFile, versions, replaced, troubled>>
      PROVE  HistoryInv'
  <2>1. Kept' = Kept
    BY <1>2 DEF Kept
  <2> QED BY <1>0, <1>2, <2>1 DEF HistoryInv, EditorsType
<1>3. ASSUME NEW w \in EditorWindow, SaveDone(w)
      PROVE  /\ editorSave'[w].pc = "idle"
             /\ \A x \in EditorWindow : x # w => editorSave'[x] = editorSave[x]
  BY <1>0, <1>3 DEF SaveDone, NoTransfer, EditorsType
<1>4. ASSUME NEW w \in EditorWindow, NEW pc, SaveGoto(w, pc)
      PROVE  /\ editorSave'[w].pc = pc /\ editorSave'[w].text = editorSave[w].text
             /\ \A x \in EditorWindow : x # w => editorSave'[x] = editorSave[x]
  BY <1>0, <1>4 DEF SaveGoto, EditorsType, Transfer
<1>5. ASSUME NEW w \in EditorWindow, SaveEditor(w) PROVE HistoryInv'
  <2>1. /\ editorSave'[w].pc = "before" /\ editorSave[w].pc = "idle"
        /\ \A x \in EditorWindow : x # w => editorSave'[x] = editorSave[x]
        /\ UNCHANGED <<remoteFile, versions, replaced, troubled>>
    BY <1>0, <1>5 DEF SaveEditor, EditorsType
  <2> QED BY <1>2, <2>1
<1>6. ASSUME NEW w \in EditorWindow, StoreBefore(w) PROVE HistoryInv'
  <2>1. CASE SaveFails(w) /\ UNCHANGED <<versions, troubled>>
    BY <1>2, <1>3, <1>6, <2>1 DEF StoreBefore, SaveFails
  <2>2. CASE troubled'
    BY <1>0, <2>2 DEF HistoryInv, EditorsType
  <2>3. CASE versions' = versions \cup {remoteFile} /\ SaveGoto(w, "write") /\ UNCHANGED troubled
    <3>1. Kept' = Kept \cup {remoteFile}
      BY <1>4, <1>6, <2>3 DEF Kept, StoreBefore
    <3> QED BY <1>0, <1>6, <2>3, <3>1 DEF HistoryInv, EditorsType, StoreBefore
  <2> QED BY <1>6, <2>1, <2>2, <2>3 DEF StoreBefore, Before
<1>7. ASSUME NEW w \in EditorWindow, UploadText(w) PROVE HistoryInv'
  <2>1. CASE SaveFails(w) /\ UNCHANGED <<remoteFile, replaced>>
    BY <1>2, <1>3, <1>7, <2>1 DEF UploadText, SaveFails
  <2>2. CASE remoteFile' = editorSave[w].text /\ replaced' = replaced \cup {remoteFile}
             /\ SaveGoto(w, "after")
    <3>1. Kept' = Kept \cup {editorSave[w].text}
      BY <1>4, <1>7, <2>2 DEF Kept, UploadText
    <3>2. ~troubled => remoteFile \in Kept
      BY <1>7 DEF HistoryInv, UploadText
    <3>3. UNCHANGED troubled
      BY <1>7 DEF UploadText
    <3> QED BY <1>0, <2>2, <3>1, <3>2, <3>3 DEF HistoryInv, EditorsType
  <2> QED BY <1>7, <2>1, <2>2 DEF UploadText
<1>8. ASSUME NEW w \in EditorWindow, StoreAfter(w) PROVE HistoryInv'
  <2>1. CASE troubled'
    BY <1>0, <2>1 DEF HistoryInv, EditorsType
  <2>2. CASE /\ versions' = versions \cup {editorSave[w].text} /\ SaveGoto(w, "written")
             /\ UNCHANGED troubled
    <3>1. /\ editorSave'[w].pc = "written"
          /\ \A x \in EditorWindow : x # w => editorSave'[x] = editorSave[x]
      BY <1>4, <2>2
    <3>2. Kept \subseteq Kept'
      BY <2>2, <3>1 DEF Kept
    <3>3. UNCHANGED <<remoteFile, replaced>>
      BY <1>8 DEF StoreAfter
    <3> QED BY <1>0, <2>2, <3>1, <3>2, <3>3 DEF HistoryInv, EditorsType
  <2> QED BY <1>8, <2>1, <2>2 DEF StoreAfter
<1>9. ASSUME NEW w \in EditorWindow, ReadBack(w) PROVE HistoryInv'
  <2>1. UNCHANGED <<remoteFile, versions, replaced, troubled>> /\ editorSave[w].pc = "written"
    BY <1>9 DEF ReadBack
  <2>2. CASE SaveFails(w)
    BY <1>2, <1>3, <2>1, <2>2 DEF SaveFails
  <2>3. CASE editorSave' = [editorSave EXCEPT ![w] = [pc |-> "read", text |-> remoteFile]]
    BY <1>0, <1>2, <2>1, <2>3 DEF EditorsType
  <2> QED BY <1>9, <2>2, <2>3 DEF ReadBack
<1>10. ASSUME NEW w \in EditorWindow, SaveSucceeds(w) PROVE HistoryInv'
  BY <1>2, <1>3, <1>10 DEF SaveSucceeds
<1>11. ASSUME NEW w \in EditorWindow, Showing(w) PROVE HistoryInv'
  BY <1>1, <1>11
  DEF Showing, OpenEditor, Previewed, TypeInWindow, CloseEditor, ReloadEditor, OpenVersion
<1>12. CASE Querying \/ UNCHANGED editorVars
  BY <1>1, <1>12
  DEF Querying, ReadDocument, DocumentDelivered, DocumentFails, DocumentAges, EditorOffline,
      EditorOnline, editorVars
<1> QED BY <1>5, <1>6, <1>7, <1>8, <1>9, <1>10, <1>11, <1>12 DEF EditorNext, Storing

(* As long as versions can be stored, every text that a save replaced is in the
   history or about to be, however saves overlap: any windows. *)
THEOREM ReplacedTextsAreKept == EditorSpec => []NothingLost
<1>1. HistoryInv => NothingLost
  <2> SUFFICES ASSUME HistoryInv, ~troubled, \A w \in EditorWindow : editorSave[w].pc # "after"
               PROVE  replaced \subseteq versions
    BY DEF NothingLost
  <2> QED BY DEF HistoryInv, Kept
<1> QED BY <1>1, InitOld, NextOld, InitHistory, NextHistory, PTL DEF EditorSpec

--------------------------------------------------------------------------------
(* RemoteEditor: the types, and an idle save that is empty. *)

(* What EditorsType and HistoryInv leave open: an idle save has no text, and the
   counters stay within their bounds. *)
IdleIsEmpty == \A w \in EditorWindow : editorSave[w].pc = "idle" => editorSave[w] = NoTransfer
HistoryType == versions \subseteq FileText /\ replaced \subseteq FileText
EditorCounts ==
    /\ online \in BOOLEAN
    /\ documentReads \in 0..MaxDocumentReads /\ editorOpens \in 0..MaxEditorOpens
EditorRest == IdleIsEmpty /\ HistoryType /\ EditorCounts

(* Nothing is counted at first. *)
LEMMA InitEditorRest == EditorInit => EditorRest
<1> SUFFICES ASSUME EditorInit PROVE EditorRest
  OBVIOUS
<1>1. 0 \in 0..MaxDocumentReads /\ 0 \in 0..MaxEditorOpens
  BY EditorAssumption DEF EditorAssumption
<1>2. EditorCounts
  BY <1>1 DEF EditorInit, EditorCounts
<1>3. IdleIsEmpty /\ HistoryType
  BY DEF EditorInit, IdleIsEmpty, HistoryType
<1> QED BY <1>2, <1>3 DEF EditorRest

(* Every read of the document is counted, up to the bound. *)
LEMMA ReadsAreCounted ==
    ASSUME EditorCounts, NEW forced \in BOOLEAN,
           StartDocumentRead(forced) \/ UNCHANGED <<documentRead, documentReads>>
    PROVE  documentReads' \in 0..MaxDocumentReads
<1>1. MaxDocumentReads \in Nat
  BY EditorAssumption DEF EditorAssumption
<1>2. documentReads \in 0..MaxDocumentReads
  BY DEF EditorCounts
<1>3. documentReads' = documentReads
      \/ (documentReads' = documentReads + 1 /\ documentReads < MaxDocumentReads)
  BY DEF StartDocumentRead
<1> QED BY <1>1, <1>2, <1>3

(* Every step keeps the rest of the type. *)
LEMMA NextEditorRest == OldInv /\ EditorRest /\ [EditorNext]_editorVars => EditorRest'
<1> SUFFICES ASSUME OldInv, EditorRest, [EditorNext]_editorVars PROVE EditorRest'
  OBVIOUS
<1>0. /\ editorSave \in [EditorWindow -> Transfer] /\ remoteFile \in FileText
      /\ IdleIsEmpty /\ HistoryType /\ EditorCounts
  BY DEF OldInv, EditorsType, EditorRest
<1> USE DEF fileHistory, documentQuery
<1>1. ASSUME UNCHANGED <<editorSave, versions, replaced>> PROVE IdleIsEmpty' /\ HistoryType'
  BY <1>0, <1>1 DEF IdleIsEmpty, HistoryType
<1>2. CASE UNCHANGED editorVars
  BY <1>0, <1>1, <1>2 DEF editorVars, EditorCounts, EditorRest
<1>3. CASE Querying
  <2>1. UNCHANGED <<editorSave, versions, replaced, editorOpens>> /\ online' \in BOOLEAN
    BY <1>0, <1>3 DEF Querying, ReadDocument, DocumentDelivered, DocumentFails, DocumentAges,
                      EditorOffline, EditorOnline, EditorCounts
  <2>2. StartDocumentRead(FALSE) \/ UNCHANGED documentReads
    BY <1>3 DEF Querying, ReadDocument, DocumentDelivered, DocumentFails, DocumentAges,
                EditorOffline, EditorOnline
  <2>3. documentReads' \in 0..MaxDocumentReads
    BY <1>0, <2>2, ReadsAreCounted DEF EditorCounts
  <2> QED BY <1>0, <1>1, <2>1, <2>3 DEF EditorCounts, EditorRest
<1>4. ASSUME NEW w \in EditorWindow, Showing(w) PROVE EditorRest'
  <2>1. UNCHANGED <<online, editorSave, versions, replaced>>
    BY <1>4 DEF Showing, OpenEditor, Previewed, TypeInWindow, CloseEditor, ReloadEditor, OpenVersion
  <2>2. \/ StartDocumentRead(FALSE) \/ StartDocumentRead(TRUE) \/ UNCHANGED documentReads
    BY <1>4 DEF Showing, OpenEditor, Previewed, TypeInWindow, CloseEditor, ReloadEditor, OpenVersion
  <2>3. documentReads' \in 0..MaxDocumentReads
    BY <1>0, <2>2, ReadsAreCounted DEF EditorCounts
  <2>4. \/ UNCHANGED editorOpens
        \/ editorOpens' = editorOpens + 1 /\ editorOpens < MaxEditorOpens
    BY <1>4 DEF Showing, OpenEditor, Previewed, TypeInWindow, CloseEditor, ReloadEditor, OpenVersion
  <2>5. editorOpens' \in 0..MaxEditorOpens
    <3>1. MaxEditorOpens \in Nat
      BY EditorAssumption DEF EditorAssumption
    <3>2. editorOpens \in 0..MaxEditorOpens
      BY <1>0 DEF EditorCounts
    <3> QED BY <2>4, <3>1, <3>2
  <2> QED BY <1>0, <1>1, <2>1, <2>3, <2>5 DEF EditorCounts, EditorRest
<1>5. ASSUME NEW w \in EditorWindow, Storing(w) PROVE EditorRest'
  <2>1. EditorCounts'
    BY <1>0, <1>5 DEF EditorCounts, Storing, SaveEditor, StoreBefore, UploadText, StoreAfter,
                      ReadBack, SaveSucceeds
  <2>2. HistoryType'
    <3>1. /\ versions' \subseteq versions \cup {remoteFile, editorSave[w].text}
          /\ replaced' \subseteq replaced \cup {remoteFile}
      BY <1>5 DEF Storing, SaveEditor, StoreBefore, UploadText, StoreAfter, ReadBack, SaveSucceeds,
                  Before
    <3>2. editorSave[w].text \in FileText
      BY <1>0 DEF Transfer
    <3> QED BY <1>0, <3>1, <3>2 DEF HistoryType
  <2>3. \/ SaveDone(w)
        \/ SaveGoto(w, "write") \/ SaveGoto(w, "after") \/ SaveGoto(w, "written")
        \/ editorSave' = [editorSave EXCEPT ![w] = [pc |-> "before", text |-> editors[w].content]]
        \/ editorSave' = [editorSave EXCEPT ![w] = [pc |-> "read", text |-> remoteFile]]
    BY <1>5 DEF Storing, SaveEditor, StoreBefore, UploadText, StoreAfter, ReadBack, SaveSucceeds,
                SaveFails
  <2>4. editorSave'[w].pc = "idle" => editorSave'[w] = NoTransfer
    BY <1>0, <2>3 DEF SaveDone, SaveGoto, Transfer
  <2>5. \A x \in EditorWindow : x # w => editorSave'[x] = editorSave[x]
    BY <1>0, <2>3 DEF SaveDone, SaveGoto
  <2>6. IdleIsEmpty'
    BY <1>0, <2>4, <2>5 DEF IdleIsEmpty
  <2> QED BY <2>1, <2>2, <2>6 DEF EditorRest
<1> QED BY <1>2, <1>3, <1>4, <1>5 DEF EditorNext

(* The variables of the editor keep their types and the counters their bounds, and a
   save that is over leaves no text behind: any windows, keys, reads. *)
THEOREM EditorTypeCorrect == EditorSpec => []EditorTypeOK
<1>1. OldInv /\ HistoryInv /\ EditorRest => EditorTypeOK
  BY DEF OldInv, EditorsType, HistoryInv, EditorRest, IdleIsEmpty, HistoryType, EditorCounts,
         EditorTypeOK
<1> QED BY <1>1, InitOld, NextOld, InitHistory, NextHistory, InitEditorRest, NextEditorRest, PTL
        DEF EditorSpec

--------------------------------------------------------------------------------
(* SudoEditor: nothing is written that was not confirmed and accepted.      *)

(* The file and the text of a request. *)
Wanted(r) == [path |-> r.path, text |-> r.text]

SudoRequest ==
    [path : SudoPath, text : SudoText, id : 0..MaxValidations, write : BOOLEAN]
SudoSave == [pc : {"sent", "written", "listing"}, path : SudoPath, text : SudoText]

(* A validation that ends in a write was confirmed, and a write that was sent was
   accepted as well. *)
RequestsAreCleared ==
    /\ \A r \in validating : r.write => Wanted(r) \in confirmed
    /\ \A s \in sudoSaves : s.pc = "sent" => Wanted(s) \in confirmed \cap passed
SudoInv == SudoTypeOK /\ RequestsAreCleared

(* At first nothing is under way. *)
LEMMA InitSudo == SudoInit => SudoInv
<1> SUFFICES ASSUME SudoInit PROVE SudoInv
  OBVIOUS
<1>1. \A p \in SudoPath : {p} \in SudoText
  BY DEF SudoText
<1>2. sudoCache \in [SudoPath -> [known : BOOLEAN, text : SudoText]]
  BY DEF SudoInit, NotCached, SudoText
<1>3. sudoReading \in [SudoPath -> [pc : {"idle", "asked", "answered"}, text : SudoText]]
  BY DEF SudoInit, NotReading, SudoText
<1>4. sudoers \in [SudoPath -> SudoText] /\ {} \in SudoText
  BY <1>1 DEF SudoInit, SudoText
<1>5. /\ 0 \in 0..MaxSudoKeys /\ 0 \in 0..MaxSudoReads /\ 0 \in 0..MaxValidations
      /\ 0 \in 0..MaxSudoFailures
  BY SudoAssumption DEF SudoAssumption
<1>6. selectedSudo \in SudoPath /\ sudoDraft \in SudoText /\ savedSudo \in SudoText
  BY <1>4 DEF SudoInit
<1>7. SudoTypeOK
  BY <1>2, <1>3, <1>4, <1>5, <1>6 DEF SudoInit, SudoTypeOK
<1> QED BY <1>7 DEF SudoInit, SudoInv, RequestsAreCleared

(* What a draft that is displayed may be, and what a read may become. *)
LEMMA StartReadKeepsType ==
    ASSUME SudoTypeOK, NEW p \in SudoPath, StartSudoRead(p)
    PROVE  /\ sudoReading' \in [SudoPath -> [pc : {"idle", "asked", "answered"}, text : SudoText]]
           /\ sudoReads' \in 0..MaxSudoReads
<1>1. CASE UNCHANGED <<sudoReading, sudoReads>>
  BY <1>1 DEF SudoTypeOK
<1>2. CASE /\ sudoReading' = [sudoReading EXCEPT ![p].pc = "asked"] /\ sudoReads' = sudoReads + 1
           /\ sudoReads < MaxSudoReads
  <2>1. sudoReads' \in 0..MaxSudoReads
    BY <1>2, SudoAssumption DEF SudoTypeOK, SudoAssumption
  <2>2. sudoReading \in [SudoPath -> [pc : {"idle", "asked", "answered"}, text : SudoText]]
    BY DEF SudoTypeOK
  <2> QED BY <1>2, <2>1, <2>2
<1> QED BY <1>1, <1>2 DEF StartSudoRead

(* Reading and displaying change no request. *)
LEMMA ReadingKeepsCleared ==
    ASSUME SudoInv, NEW p \in SudoPath,
           \/ ReadSudo(p) \/ SudoDelivered(p) \/ SudoReadFails(p) \/ SelectSudo(p)
           \/ RefreshSudo
    PROVE  SudoInv'
<1> USE DEF sudoEditor, sudoQuery, sudoChecks
<1>0. SudoTypeOK /\ RequestsAreCleared
  BY DEF SudoInv
<1>1. UNCHANGED <<validating, sudoSaves, confirmed, passed>>
  BY DEF ReadSudo, SudoDelivered, SudoReadFails, SelectSudo, RefreshSudo
<1>2. RequestsAreCleared'
  BY <1>0, <1>1 DEF RequestsAreCleared, Wanted
<1>3. CASE ReadSudo(p)
  BY <1>0, <1>2, <1>3 DEF ReadSudo, SudoInv, SudoTypeOK
<1>4. CASE SudoDelivered(p)
  BY <1>0, <1>2, <1>4 DEF SudoDelivered, ShowSudo, NotReading, SudoText, SudoInv, SudoTypeOK
<1>5. CASE SudoReadFails(p)
  BY <1>0, <1>2, <1>5, SudoAssumption
  DEF SudoReadFails, NotReading, SudoText, SudoInv, SudoTypeOK, SudoAssumption
<1>6. CASE SelectSudo(p)
  <2>1. /\ sudoReading' \in [SudoPath -> [pc : {"idle", "asked", "answered"}, text : SudoText]]
        /\ sudoReads' \in 0..MaxSudoReads
    BY <1>0, <1>6, StartReadKeepsType DEF SelectSudo
  <2>2. sudoDraft' \in SudoText /\ savedSudo' \in SudoText /\ verdict' \in {"none", "valid",
        "invalid"}
    BY <1>0, <1>6 DEF SelectSudo, ShowSudo, SudoTypeOK
  <2> QED BY <1>0, <1>2, <1>6, <2>1, <2>2 DEF SelectSudo, SudoInv, SudoTypeOK
<1>7. CASE RefreshSudo
  <2>1. /\ sudoReading' \in [SudoPath -> [pc : {"idle", "asked", "answered"}, text : SudoText]]
        /\ sudoReads' \in 0..MaxSudoReads
    BY <1>0, <1>7, StartReadKeepsType DEF RefreshSudo, SudoTypeOK
  <2> QED BY <1>0, <1>2, <1>7, <2>1 DEF RefreshSudo, SudoInv, SudoTypeOK
<1> QED BY <1>3, <1>4, <1>5, <1>6, <1>7

(* A request that is sent to the validator carries the draft of the moment. *)
LEMMA AskIsTyped ==
    ASSUME SudoTypeOK, NEW write \in BOOLEAN, AskValidator(write)
    PROVE  /\ \E r \in SudoRequest :
                 /\ r.write = write /\ Wanted(r) = [path |-> selectedSudo, text |-> sudoDraft]
                 /\ validating' = validating \cup {r} /\ awaited' = r
           /\ validations' \in 0..MaxValidations /\ verdict' = "none"
<1> DEFINE r == [path |-> selectedSudo, text |-> sudoDraft, id |-> validations + 1,
                 write |-> write]
<1>1. validations + 1 \in 0..MaxValidations
  BY SudoAssumption DEF AskValidator, SudoTypeOK, SudoAssumption
<1>2. r \in SudoRequest
  BY <1>1 DEF SudoTypeOK, SudoRequest
<1>3. validating' = validating \cup {r} /\ awaited' = r /\ validations' = validations + 1
  BY DEF AskValidator
<1> QED BY <1>1, <1>2, <1>3 DEF AskValidator, Wanted

(* Editing and asking: a request that ends in a write is confirmed as it is sent. *)
LEMMA AskingKeepsCleared ==
    ASSUME SudoInv, TypeSudo \/ RevertSudo \/ Validate \/ OpenSave \/ ConfirmSave \/ CancelSave
    PROVE  SudoInv'
<1> USE DEF sudoEditor, sudoQuery
<1>0. SudoTypeOK /\ RequestsAreCleared
  BY DEF SudoInv
<1>1. CASE TypeSudo
  <2>1. sudoKeys + 1 \in 1..MaxSudoKeys
    BY <1>0, <1>1, SudoAssumption DEF TypeSudo, SudoTypeOK, SudoAssumption
  <2>2. sudoDraft' \in SudoText /\ sudoKeys' \in 0..MaxSudoKeys
    BY <1>0, <1>1, <2>1 DEF TypeSudo, SudoTypeOK, SudoText
  <2> QED BY <1>0, <1>1, <2>2
    DEF TypeSudo, ForgetVerdict, SudoInv, SudoTypeOK, RequestsAreCleared, Wanted
<1>2. CASE RevertSudo \/ OpenSave \/ CancelSave
  BY <1>0, <1>2
  DEF RevertSudo, OpenSave, CancelSave, ForgetVerdict, SudoInv, SudoTypeOK,
      RequestsAreCleared, Wanted
<1>3. CASE Validate
  <2>1. PICK r \in SudoRequest :
          /\ ~r.write /\ validating' = validating \cup {r} /\ awaited' = r
    BY <1>0, <1>3, AskIsTyped DEF Validate
  <2>2. validations' \in 0..MaxValidations /\ verdict' = "none"
    BY <1>0, <1>3, AskIsTyped DEF Validate
  <2> QED BY <1>0, <1>3, <2>1, <2>2
    DEF Validate, SudoInv, SudoTypeOK, SudoRequest, RequestsAreCleared, Wanted
<1>4. CASE ConfirmSave
  <2>1. PICK r \in SudoRequest :
          /\ Wanted(r) = [path |-> selectedSudo, text |-> sudoDraft]
          /\ validating' = validating \cup {r} /\ awaited' = r
    BY <1>0, <1>4, AskIsTyped DEF ConfirmSave
  <2>2. validations' \in 0..MaxValidations /\ verdict' = "none"
    BY <1>0, <1>4, AskIsTyped DEF ConfirmSave
  <2>3. confirmed' = confirmed \cup {Wanted(r)} /\ Wanted(r) \in SudoDraft
    BY <1>0, <1>4, <2>1 DEF ConfirmSave, SudoTypeOK, SudoDraft
  <2>4. RequestsAreCleared'
    BY <1>0, <1>4, <2>1, <2>3 DEF ConfirmSave, RequestsAreCleared, Wanted
  <2>5. confirmed' \subseteq SudoDraft
    BY <1>0, <2>3 DEF SudoTypeOK
  <2> QED BY <1>0, <1>4, <2>1, <2>2, <2>4, <2>5 DEF ConfirmSave, SudoInv, SudoTypeOK, SudoRequest
<1> QED BY <1>1, <1>2, <1>3, <1>4

(* What the validator accepts was confirmed if it is to be written. *)
LEMMA AnswerKeepsCleared ==
    ASSUME SudoInv, NEW r \in validating, Accepted(r) \/ Rejected(r) PROVE SudoInv'
<1> USE DEF sudoEditor, sudoQuery
<1>0. SudoTypeOK /\ RequestsAreCleared
  BY DEF SudoInv
<1>1. r \in SudoRequest
  BY <1>0 DEF SudoTypeOK, SudoRequest
<1>2. awaited' \in validating' \cup {NoRequest} /\ validating' \subseteq validating
  BY <1>0 DEF Accepted, Rejected, Answered, AwaitedAfter, SudoTypeOK
<1>3. CASE Accepted(r)
  <2>1. /\ Sent(r) \in SudoSave /\ Wanted(Sent(r)) = Wanted(r) /\ Wanted(r) \in SudoDraft
    BY <1>1 DEF Sent, SudoSave, SudoRequest, Wanted, SudoDraft
  <2>2. /\ passed' = passed \cup {Wanted(r)} /\ UNCHANGED confirmed
        /\ sudoSaves' = IF r.write THEN sudoSaves \cup {Sent(r)} ELSE sudoSaves
    BY <1>3 DEF Accepted, Answered, Wanted
  <2>3. RequestsAreCleared'
    <3>1. \A s \in sudoSaves' : s.pc = "sent" => Wanted(s) \in confirmed' \cap passed'
      BY <1>0, <2>1, <2>2 DEF RequestsAreCleared
    <3> QED BY <1>0, <1>2, <2>2, <3>1 DEF RequestsAreCleared, Wanted
  <2>4. sudoSaves' \subseteq SudoSave /\ passed' \subseteq SudoDraft
    BY <1>0, <2>1, <2>2 DEF SudoTypeOK, SudoSave
  <2> QED BY <1>0, <1>2, <1>3, <2>3, <2>4 DEF Accepted, Answered, SudoInv, SudoTypeOK, SudoSave
<1>4. CASE Rejected(r)
  BY <1>0, <1>2, <1>4 DEF Rejected, Answered, SudoInv, SudoTypeOK, RequestsAreCleared, Wanted
<1> QED BY <1>3, <1>4

(* A save that advances is no longer about to write. *)
LEMMA SavingKeepsCleared ==
    ASSUME SudoInv, NEW s \in sudoSaves,
           WriteSudo(s) \/ WriteSudoFails(s) \/ SudoSaved(s) \/ RereadSudo(s)
    PROVE  SudoInv'
<1> USE DEF sudoEditor, sudoQuery, sudoChecks
<1>0. SudoTypeOK /\ RequestsAreCleared /\ s \in SudoSave
  BY DEF SudoInv, SudoTypeOK, SudoSave
<1>1. ASSUME NEW where \in {"written", "listing"}, Advance(s, where),
             UNCHANGED <<validating, confirmed, passed>>
      PROVE  sudoSaves' \subseteq SudoSave /\ RequestsAreCleared'
  <2> DEFINE n == [s EXCEPT !.pc = where]
  <2>1. n \in SudoSave /\ n.pc # "sent"
    BY <1>0 DEF SudoSave
  <2>2. sudoSaves' = (sudoSaves \ {s}) \cup {n}
    BY <1>1 DEF Advance
  <2>3. sudoSaves \subseteq SudoSave
    BY <1>0 DEF SudoTypeOK, SudoSave
  <2> HIDE DEF n
  <2> QED BY <1>0, <1>1, <2>1, <2>2, <2>3 DEF RequestsAreCleared, Wanted
<1>2. CASE WriteSudo(s)
  <2>1. sudoers' \in [SudoPath -> SudoText]
    BY <1>0, <1>2 DEF WriteSudo, SudoTypeOK, SudoSave
  <2>2. sudoSaves' \subseteq SudoSave /\ RequestsAreCleared'
    BY <1>1, <1>2 DEF WriteSudo
  <2> QED BY <1>0, <1>2, <2>1, <2>2 DEF WriteSudo, SudoInv, SudoTypeOK, SudoSave
<1>3. CASE WriteSudoFails(s)
  BY <1>0, <1>3, SudoAssumption
  DEF WriteSudoFails, SudoInv, SudoTypeOK, RequestsAreCleared, Wanted, SudoAssumption
<1>4. CASE SudoSaved(s)
  <2>1. sudoSaves' \subseteq SudoSave /\ RequestsAreCleared'
    BY <1>1, <1>4 DEF SudoSaved
  <2>2. s.text \in SudoText
    BY <1>0 DEF SudoSave
  <2> QED BY <1>0, <1>4, <2>1, <2>2 DEF SudoSaved, SudoInv, SudoTypeOK, SudoSave
<1>5. CASE RereadSudo(s)
  <2>1. sudoReading' \in [SudoPath -> [pc : {"idle", "asked", "answered"}, text : SudoText]]
    BY <1>0, <1>5 DEF RereadSudo, SudoTypeOK, NotReading, SudoText
  <2> QED BY <1>0, <1>5, <2>1
    DEF RereadSudo, SudoInv, SudoTypeOK, RequestsAreCleared, Wanted
<1> QED BY <1>2, <1>3, <1>4, <1>5

(* Every step keeps the types and what was cleared. *)
LEMMA NextSudo == SudoInv /\ [SudoNext]_sudoVars => SudoInv'
<1> SUFFICES ASSUME SudoInv, [SudoNext]_sudoVars PROVE SudoInv'
  OBVIOUS
<1>1. CASE UNCHANGED sudoVars
  BY <1>1
  DEF sudoVars, sudoEditor, sudoQuery, sudoChecks, SudoInv, SudoTypeOK, RequestsAreCleared,
      Wanted
<1>2. CASE RefreshSudo
  <2>1. selectedSudo \in SudoPath
    BY DEF SudoInv, SudoTypeOK
  <2> QED BY <1>2, <2>1, ReadingKeepsCleared
<1> QED BY <1>1, <1>2, ReadingKeepsCleared, AskingKeepsCleared, AnswerKeepsCleared,
           SavingKeepsCleared DEF SudoNext

(* Only one action writes a file, and it writes what was cleared. *)
LEMMA OnlySavesWrite ==
    SudoInv /\ [SudoNext]_sudoVars =>
        [\A p \in SudoPath : sudoers'[p] # sudoers[p] =>
            [path |-> p, text |-> sudoers'[p]] \in confirmed \cap passed]_sudoVars
<1> SUFFICES ASSUME SudoInv, SudoNext, NEW p \in SudoPath, sudoers'[p] # sudoers[p]
             PROVE  [path |-> p, text |-> sudoers'[p]] \in confirmed \cap passed
  OBVIOUS
<1>1. PICK s \in sudoSaves : WriteSudo(s)
  BY DEF SudoNext, ReadSudo, SudoDelivered, SudoReadFails, SelectSudo, RefreshSudo, TypeSudo,
         RevertSudo, Validate, OpenSave, ConfirmSave, CancelSave, Accepted, Rejected, Answered,
         WriteSudoFails, SudoSaved, RereadSudo
<1>2. sudoers \in [SudoPath -> SudoText]
  BY DEF SudoInv, SudoTypeOK
<1>3. p = s.path /\ sudoers'[p] = s.text
  BY <1>1, <1>2 DEF WriteSudo
<1>4. Wanted(s) \in confirmed \cap passed
  BY <1>1 DEF SudoInv, RequestsAreCleared, WriteSudo
<1> QED BY <1>3, <1>4 DEF Wanted

(* A sudoers file is only ever replaced by a text that was confirmed for it and that
   the validator accepted for it: any files, keys, reads and validations. *)
THEOREM OnlyClearedTextsAreWritten == SudoSpec => WritesAreCleared
<1> QED BY InitSudo, NextSudo, OnlySavesWrite, PTL DEF SudoSpec, WritesAreCleared

--------------------------------------------------------------------------------
(* FileListing: what is shown is as new as what was promised. *)

Answers == [known : BOOLEAN, count : Nat]
Fetches == [pc : {"none", "asked", "read"}, count : Nat]
Ops == [pc : {"new", "sent", "applied", "done", "unknown", "failed"},
        kind : {"create", "plain", "other", "upload", "properties"}, dirs : SUBSET Dir]

ListingType ==
    /\ changes \in [Dir -> Nat] /\ promised \in [Dir -> Nat]
    /\ listing \in [Dir -> Answers] /\ fetch \in [Dir -> Fetches]
    /\ fileOps \in [FileOp -> Ops] /\ toOpen \in FileOp \cup {NoOp}
    /\ openedFor \subseteq FileOp
    /\ fileDialog \in {"none", "create", "plain", "other", "upload"}
    /\ place \in Place \cup {NoPlace} /\ clipboard \in Dir \cup {NoPlace}

(* Nothing is promised that has not happened, and what was read in time shows it. *)
ReadIsFresh ==
    \A d \in Dir : /\ changes[d] >= promised[d]
                   /\ fetch[d].pc = "read" => fetch[d].count >= promised[d]

ListingInv == ListingType /\ ReadIsFresh /\ ListingIsFresh

(* Without overlaps one operation is under way at most, and the file to be opened
   is the one that it creates. *)
FileIsAwaited ==
    ~overlapped =>
       /\ \A o, x \in FileOp : Unanswered(o) /\ Unanswered(x) => o = x
       /\ toOpen # NoOp => Unanswered(toOpen) /\ fileOps[toOpen].kind = "create"

EditorInv == ListingType /\ FileIsAwaited /\ EditorOpensCreated

--------------------------------------------------------------------------------
(* The parts of steps that several actions share.                           *)

(* A fetch, whether it joins another one or not, leaves what was promised intact. *)
LEMMA FetchedIsFetch ==
    ASSUME ListingType, NEW p
    PROVE  /\ Fetched(p) \in [Dir -> Fetches]
           /\ \A d \in Dir : Fetched(p)[d] = fetch[d] \/ Fetched(p)[d] = AskedFetch
  BY DEF ListingType, Fetched, Fetches, AskedFetch

(* What a refetch promises of a listed directory is what its new read will show. *)
LEMMA RefetchKeepsListing ==
    ASSUME ListingInv, RefetchListing, UNCHANGED changes
    PROVE  /\ promised' \in [Dir -> Nat] /\ fetch' \in [Dir -> Fetches]
           /\ ReadIsFresh' /\ ListingIsFresh'
<1>0. ListingType
  BY DEF ListingInv
<1>1. /\ fetch' \in [Dir -> Fetches]
      /\ \A d \in Dir : fetch'[d] = fetch[d] \/ fetch'[d] = AskedFetch
  BY <1>0, FetchedIsFetch DEF RefetchListing, Refetched, ListingType, Fetches, AskedFetch
<1>2. /\ promised' \in [Dir -> Nat]
      /\ \A d \in Dir : \/ promised'[d] = promised[d]
                        \/ /\ promised'[d] = changes[d]
                           /\ d = place /\ listing[d].known
  BY <1>0 DEF RefetchListing, PlaceListed, ListingType
<1>3. \A d \in Dir : d = place /\ listing[d].known => fetch'[d] = AskedFetch
  BY <1>0 DEF RefetchListing, Refetched, ListingType
<1>4. ReadIsFresh'
  BY <1>0, <1>1, <1>2, <1>3 DEF ListingInv, ReadIsFresh, AskedFetch, ListingType, Fetches
<1>5. ListingIsFresh'
  BY <1>0, <1>1, <1>2, <1>3
  DEF ListingInv, ListingIsFresh, AskedFetch, ListingType, Fetches, RefetchListing
<1> QED BY <1>1, <1>2, <1>4, <1>5

(* Starting an operation keeps its type. *)
LEMMA StartKeepsType ==
    ASSUME ListingType, NEW o \in FileOp, NEW dirs \in SUBSET Dir,
           NEW kind \in {"create", "plain", "other", "upload", "properties"},
           StartOp(o, kind, dirs)
    PROVE  /\ fileOps' \in [FileOp -> Ops] /\ toOpen' \in FileOp \cup {NoOp}
           /\ openedFor' \subseteq FileOp
  BY DEF ListingType, StartOp, Ops

(* It is the only one under way unless operations overlap, and the only one whose
   file waits to be opened. *)
LEMMA StartKeepsAwaited ==
    ASSUME EditorInv, NEW o \in FileOp, NEW dirs \in SUBSET Dir,
           NEW kind \in {"create", "plain", "other", "upload", "properties"},
           StartOp(o, kind, dirs)
    PROVE  FileIsAwaited' /\ EditorOpensCreated'
<1> SUFFICES ASSUME ~overlapped' PROVE FileIsAwaited' /\ EditorOpensCreated'
  BY DEF FileIsAwaited, EditorOpensCreated
<1>0. ListingType /\ o # NoOp
  BY DEF EditorInv, FileOp, NoOp
<1>1. ~overlapped /\ \A x \in FileOp : ~Unanswered(x)
  BY DEF StartOp
<1>2. toOpen = NoOp
  BY <1>0, <1>1 DEF EditorInv, FileIsAwaited, ListingType
<1>3. /\ fileOps'[o] = [pc |-> "sent", kind |-> kind, dirs |-> dirs]
      /\ \A x \in FileOp : x # o => fileOps'[x] = fileOps[x]
  BY <1>0 DEF StartOp, ListingType
<1>4. toOpen' = IF kind = "create" THEN o ELSE NoOp
  BY <1>2 DEF StartOp
<1>5. FileIsAwaited'
  BY <1>0, <1>1, <1>3, <1>4 DEF FileIsAwaited, Unanswered
<1>6. EditorOpensCreated'
  <2>1. fileOps[o].pc = "new" /\ openedFor' = openedFor
    BY DEF StartOp
  <2> QED BY <1>0, <1>1, <1>3, <2>1 DEF EditorInv, EditorOpensCreated, ListingType
<1> QED BY <1>5, <1>6

--------------------------------------------------------------------------------
(* The listing.                                                             *)

(* Initially nothing is known and nothing promised. *)
LEMMA InitListing == ListingInit => ListingInv
  BY FileListingAssumption
  DEF ListingInit, ListingInv, ListingType, ReadIsFresh, ListingIsFresh, Answers, Fetches,
      Ops, Unknown, NoFetch, NewOp, NoOp, Count

(* Every step keeps the types, and no read or cached result falls behind what was
   promised of its directory. *)
LEMMA NextListing == ListingInv /\ [ListingNext]_listingVars => ListingInv'
<1> SUFFICES ASSUME ListingInv, [ListingNext]_listingVars PROVE ListingInv'
  OBVIOUS
<1>0. ListingType /\ ReadIsFresh /\ ListingIsFresh
  BY DEF ListingInv
<1> USE DEF listingQuery, opState
<1>1. ASSUME NEW p \in Dir, ServeFetch(p) PROVE ListingInv'
  <2>1. fetch' = [fetch EXCEPT ![p] = [pc |-> "read", count |-> changes[p]]]
    BY <1>1 DEF ServeFetch
  <2>2. ListingType'
    BY <1>0, <1>1, <2>1 DEF ServeFetch, ListingType, Fetches
  <2> QED BY <1>0, <1>1, <2>1, <2>2
    DEF ServeFetch, ListingInv, ListingType, ReadIsFresh, ListingIsFresh
<1>2. ASSUME NEW p \in Dir, ListingArrives(p) PROVE ListingInv'
  <2>1. ListingType'
    BY <1>0, <1>2 DEF ListingArrives, ListingType, Fetches, Answers, NoFetch
  <2> QED BY <1>0, <1>2, <2>1
    DEF ListingArrives, ListingInv, ListingType, ReadIsFresh, ListingIsFresh, NoFetch
<1>3. ASSUME NEW p \in Dir, ListingFails(p) PROVE ListingInv'
  <2>1. ListingType'
    BY <1>0, <1>3 DEF ListingFails, ListingType, Fetches, NoFetch
  <2> QED BY <1>0, <1>3, <2>1
    DEF ListingFails, ListingInv, ListingType, ReadIsFresh, ListingIsFresh, NoFetch, Answers,
        Fetches
<1>4. ASSUME NEW p \in Dir, ForgetListing(p) PROVE ListingInv'
  <2>1. ListingType'
    BY <1>0, <1>4 DEF ForgetListing, ListingType, Answers, Unknown
  <2> QED BY <1>0, <1>4, <2>1
    DEF ForgetListing, ListingInv, ListingType, ReadIsFresh, ListingIsFresh, Unknown
<1>5. ASSUME NEW p \in Place, GoTo(p) PROVE ListingInv'
  <2>1. /\ fetch' \in [Dir -> Fetches]
        /\ \A d \in Dir : fetch'[d] = fetch[d] \/ fetch'[d] = AskedFetch
    BY <1>0, <1>5, FetchedIsFetch DEF GoTo, ListingType
  <2>2. ListingType'
    BY <1>0, <1>5, <2>1 DEF GoTo, ListingType
  <2> QED BY <1>0, <1>5, <2>1, <2>2
    DEF GoTo, ListingInv, ReadIsFresh, ListingIsFresh, AskedFetch
<1>6. CASE Refresh
  <2>1. RefetchListing /\ UNCHANGED changes
    BY <1>6 DEF Refresh
  <2>2. promised' \in [Dir -> Nat] /\ fetch' \in [Dir -> Fetches] /\ ReadIsFresh' /\ ListingIsFresh'
    BY <2>1, RefetchKeepsListing
  <2>3. ListingType'
    BY <1>0, <1>6, <2>2 DEF Refresh, RefetchListing, ListingType
  <2> QED BY <2>2, <2>3 DEF ListingInv
<1>7. CASE Reachable
  <2>1. /\ fetch' \in [Dir -> Fetches]
        /\ \A d \in Dir : fetch'[d] = fetch[d] \/ fetch'[d] = AskedFetch
    BY <1>0, <1>7, FetchedIsFetch DEF Reachable
  <2>2. ListingType'
    BY <1>0, <1>7, <2>1 DEF Reachable, ListingType
  <2> QED BY <1>0, <1>7, <2>1, <2>2
    DEF Reachable, ListingInv, ReadIsFresh, ListingIsFresh, AskedFetch
<1>8. ASSUME UNCHANGED <<changes, listing, fetch, promised>>, ListingType' PROVE ListingInv'
  BY <1>0, <1>8 DEF ListingInv, ReadIsFresh, ListingIsFresh
<1>9. CASE Unreachable \/ CloseDialog \/ CutEntry \/ UNCHANGED listingVars
           \/ \E kind \in {"create", "plain", "other", "upload"} : OpenDialog(kind)
  <2>1. UNCHANGED <<changes, listing, fetch, promised, fileOps, toOpen, openedFor, place>>
    BY <1>9 DEF Unreachable, CloseDialog, CutEntry, OpenDialog, listingVars
  <2>2. /\ fileDialog' \in {"none", "create", "plain", "other", "upload"}
        /\ clipboard' \in Dir \cup {NoPlace}
    BY <1>0, <1>9
    DEF Unreachable, CloseDialog, CutEntry, OpenDialog, listingVars, ListingType
  <2> QED BY <1>0, <1>8, <2>1, <2>2 DEF ListingType
<1>10. ASSUME NEW o \in FileOp, SubmitDialog(o) PROVE ListingInv'
  <2>1. PICK d \in Dir : StartOp(o, fileDialog, {d})
    BY <1>10 DEF SubmitDialog
  <2>2. fileOps' \in [FileOp -> Ops] /\ toOpen' \in FileOp \cup {NoOp}
        /\ openedFor' \subseteq FileOp
    BY <1>0, <1>10, <2>1, StartKeepsType DEF SubmitDialog, ListingType
  <2> QED BY <1>0, <1>8, <1>10, <2>2 DEF SubmitDialog, ListingType
<1>11. ASSUME NEW o \in FileOp, PasteClipboard(o) PROVE ListingInv'
  <2>1. {clipboard, place} \in SUBSET Dir
    BY <1>0, <1>11 DEF PasteClipboard, ListingType
  <2>2. fileOps' \in [FileOp -> Ops] /\ toOpen' \in FileOp \cup {NoOp}
        /\ openedFor' \subseteq FileOp
    BY <1>0, <1>11, <2>1, StartKeepsType DEF PasteClipboard
  <2> QED BY <1>0, <1>8, <1>11, <2>2 DEF PasteClipboard, ListingType
<1>12. ASSUME NEW o \in FileOp, EditProperties(o) PROVE ListingInv'
  <2>1. {place} \in SUBSET Dir
    BY <1>12 DEF EditProperties
  <2>2. fileOps' \in [FileOp -> Ops] /\ toOpen' \in FileOp \cup {NoOp}
        /\ openedFor' \subseteq FileOp
    BY <1>0, <1>12, <2>1, StartKeepsType DEF EditProperties
  <2> QED BY <1>0, <1>8, <1>12, <2>2 DEF EditProperties, ListingType
<1>13. ASSUME NEW o \in FileOp, CarryOut(o) PROVE ListingInv'
  <2>1. /\ changes' \in [Dir -> Nat] /\ \A d \in Dir : changes'[d] >= changes[d]
    BY <1>0, <1>13 DEF CarryOut, ListingType
  <2>2. fileOps' \in [FileOp -> Ops]
    BY <1>0, <1>13 DEF CarryOut, ListingType, Ops
  <2>3. ListingType'
    BY <1>0, <1>13, <2>1, <2>2 DEF CarryOut, ListingType
  <2>4. \A d \in Dir : changes'[d] >= promised[d]
    BY <1>0, <2>1 DEF ListingType, ReadIsFresh
  <2> QED BY <1>0, <1>13, <2>3, <2>4 DEF CarryOut, ListingInv, ReadIsFresh, ListingIsFresh
<1>14. ASSUME NEW o \in FileOp, FileOpSucceeds(o) PROVE ListingInv'
  <2>1. RefetchListing /\ UNCHANGED changes
    BY <1>14 DEF FileOpSucceeds
  <2>2. promised' \in [Dir -> Nat] /\ fetch' \in [Dir -> Fetches] /\ ReadIsFresh' /\ ListingIsFresh'
    BY <2>1, RefetchKeepsListing
  <2>3. fileOps' \in [FileOp -> Ops]
    BY <1>0, <1>14 DEF FileOpSucceeds, EndOp, NewOp, ListingType, Ops
  <2>4. toOpen' \in FileOp \cup {NoOp} /\ openedFor' \subseteq FileOp
    BY <1>0, <1>14 DEF FileOpSucceeds, ListingType
  <2>5. ListingType'
    BY <1>0, <1>14, <2>2, <2>3, <2>4 DEF FileOpSucceeds, RefetchListing, ListingType
  <2> QED BY <2>2, <2>5 DEF ListingInv
<1>15. ASSUME NEW o \in FileOp, FileOpFails(o) PROVE ListingInv'
  <2>1. fileOps' \in [FileOp -> Ops]
    BY <1>0, <1>15 DEF FileOpFails, EndOp, NewOp, ListingType, Ops
  <2> QED BY <1>0, <1>8, <1>15, <2>1 DEF FileOpFails, ListingType
<1> QED BY <1>1, <1>2, <1>3, <1>4, <1>5, <1>6, <1>7, <1>9, <1>10, <1>11, <1>12, <1>13,
           <1>14, <1>15 DEF ListingNext

(* After an operation or a refresh, the listing of the directory displayed then is
   never older, however reads overlap and the user moves: any directories and bounds. *)
THEOREM ListingStaysFresh == ListingSpec => []ListingIsFresh
<1>1. ListingInv => ListingIsFresh
  BY DEF ListingInv
<1> QED BY <1>1, InitListing, NextListing, PTL DEF ListingSpec

--------------------------------------------------------------------------------
(* The file that is opened after its creation.                              *)

(* Initially no operation is under way. *)
LEMMA InitEditor == ListingInit => EditorInv
<1> SUFFICES ASSUME ListingInit PROVE EditorInv
  OBVIOUS
<1>1. ListingType
  BY InitListing DEF ListingInv
<1> QED BY <1>1 DEF ListingInit, EditorInv, FileIsAwaited, EditorOpensCreated, Unanswered, NewOp

(* Every step keeps the reference and the operations in step, unless they overlap. *)
LEMMA NextEditor == ListingInv /\ EditorInv /\ [ListingNext]_listingVars => EditorInv'
<1> SUFFICES ASSUME ListingInv, EditorInv, [ListingNext]_listingVars PROVE EditorInv'
  OBVIOUS
<1>0. ListingType /\ ListingType' /\ FileIsAwaited /\ EditorOpensCreated
  BY NextListing DEF ListingInv, EditorInv
<1> USE DEF listingQuery, opState
<1>1. ASSUME NEW o \in FileOp, NEW dirs \in SUBSET Dir,
             NEW kind \in {"create", "plain", "other", "upload", "properties"},
             StartOp(o, kind, dirs)
      PROVE  EditorInv'
  BY <1>0, <1>1, StartKeepsAwaited DEF EditorInv
<1>2. ASSUME NEW o \in FileOp, SubmitDialog(o) PROVE EditorInv'
  <2>1. PICK d \in Dir : StartOp(o, fileDialog, {d})
    BY <1>2 DEF SubmitDialog
  <2>2. fileDialog \in {"create", "plain", "other", "upload", "properties"}
    BY <1>0, <1>2 DEF SubmitDialog, ListingType
  <2> QED BY <1>1, <2>1, <2>2
<1>3. ASSUME NEW o \in FileOp, PasteClipboard(o) PROVE EditorInv'
  <2>1. {clipboard, place} \in SUBSET Dir /\ StartOp(o, "other", {clipboard, place})
    BY <1>0, <1>3 DEF PasteClipboard, ListingType
  <2> QED BY <1>1, <2>1
<1>4. ASSUME NEW o \in FileOp, EditProperties(o) PROVE EditorInv'
  <2>1. {place} \in SUBSET Dir /\ StartOp(o, "properties", {place})
    BY <1>4 DEF EditProperties
  <2> QED BY <1>1, <2>1
<1>5. ASSUME NEW o \in FileOp, CarryOut(o) PROVE EditorInv'
  <2>1. /\ UNCHANGED <<toOpen, openedFor, overlapped>>
        /\ \A x \in FileOp : /\ fileOps'[x].kind = fileOps[x].kind
                             /\ fileOps'[x].pc = IF x = o THEN "applied" ELSE fileOps[x].pc
    BY <1>0, <1>5 DEF CarryOut, ListingType, Ops
  <2>2. fileOps[o].pc = "sent"
    BY <1>5 DEF CarryOut
  <2>3. \A x \in FileOp : (fileOps'[x].pc \in {"sent", "applied"}) <=> Unanswered(x)
    BY <2>1, <2>2 DEF Unanswered
  <2>4. FileIsAwaited'
    BY <1>0, <2>1, <2>3 DEF FileIsAwaited, ListingType, Unanswered
  <2>5. EditorOpensCreated'
    BY <1>0, <2>1, <2>2 DEF EditorOpensCreated, ListingType
  <2> QED BY <1>0, <2>4, <2>5 DEF EditorInv
<1>6. ASSUME NEW o \in FileOp, NEW pc \in {"done", "unknown", "failed"}, Unanswered(o),
             EndOp(o, pc), ~overlapped
      PROVE  /\ \A x \in FileOp : ~Unanswered(x)'
             /\ fileOps'[o].pc = pc /\ toOpen \in {NoOp, o}
             /\ toOpen = o => fileOps[o].kind = "create"
             /\ \A x \in openedFor : x # o /\ fileOps'[x].pc = "done"
  <2>1. /\ fileOps'[o].pc = pc
        /\ \A x \in FileOp : x # o => fileOps'[x] = fileOps[x]
    BY <1>0, <1>6 DEF EndOp, NewOp, ListingType, Ops
  <2>2. \A x \in FileOp : x # o => ~Unanswered(x)
    BY <1>0, <1>6 DEF FileIsAwaited
  <2>3. \A x \in FileOp : ~Unanswered(x)'
    BY <2>1, <2>2, <1>6 DEF Unanswered
  <2>4. toOpen \in {NoOp, o} /\ (toOpen = o => fileOps[o].kind = "create")
    BY <1>0, <1>6, <2>2 DEF FileIsAwaited, ListingType, FileOp, NoOp
  <2>5. \A x \in openedFor : x \in FileOp /\ fileOps[x].pc = "done"
    BY <1>0, <1>6 DEF EditorOpensCreated, ListingType
  <2>6. \A x \in openedFor : x # o
    BY <2>5, <1>6 DEF Unanswered
  <2> QED BY <2>1, <2>3, <2>4, <2>5, <2>6
<1>7. ASSUME NEW o \in FileOp, FileOpSucceeds(o) PROVE EditorInv'
  <2> SUFFICES ASSUME ~overlapped' PROVE FileIsAwaited' /\ EditorOpensCreated'
    BY <1>0 DEF EditorInv, FileIsAwaited, EditorOpensCreated
  <2>1. Unanswered(o) /\ EndOp(o, "done") /\ ~overlapped
    BY <1>7 DEF FileOpSucceeds, Unanswered
  <2>2. /\ \A x \in FileOp : ~Unanswered(x)'
        /\ fileOps'[o].pc = "done" /\ toOpen \in {NoOp, o}
        /\ toOpen = o => fileOps[o].kind = "create"
        /\ \A x \in openedFor : x # o /\ fileOps'[x].pc = "done"
    BY <1>6, <2>1
  <2>3. toOpen' = NoOp /\ openedFor' \subseteq openedFor \cup {o}
    BY <1>7, <2>2 DEF FileOpSucceeds
  <2> QED BY <2>2, <2>3 DEF FileIsAwaited, EditorOpensCreated
<1>8. ASSUME NEW o \in FileOp, FileOpFails(o) PROVE EditorInv'
  <2> SUFFICES ASSUME ~overlapped' PROVE FileIsAwaited' /\ EditorOpensCreated'
    BY <1>0 DEF EditorInv, FileIsAwaited, EditorOpensCreated
  <2>1. PICK pc \in {"unknown", "failed"} : EndOp(o, pc)
    BY <1>8 DEF FileOpFails
  <2>2. Unanswered(o) /\ ~overlapped
    BY <1>8 DEF FileOpFails
  <2>3. /\ \A x \in FileOp : ~Unanswered(x)'
        /\ toOpen \in {NoOp, o} /\ (toOpen = o => fileOps[o].kind = "create")
        /\ \A x \in openedFor : x # o /\ fileOps'[x].pc = "done"
    BY <1>6, <2>1, <2>2
  <2>4. toOpen' = NoOp /\ openedFor' = openedFor
    BY <1>8, <2>3 DEF FileOpFails
  <2> QED BY <2>3, <2>4 DEF FileIsAwaited, EditorOpensCreated
<1>9. ASSUME UNCHANGED <<fileOps, toOpen, openedFor, overlapped>> PROVE EditorInv'
  BY <1>0, <1>9 DEF EditorInv, FileIsAwaited, EditorOpensCreated, Unanswered
<1>10. ASSUME NEW p \in Dir,
              ServeFetch(p) \/ ListingArrives(p) \/ ListingFails(p) \/ ForgetListing(p)
       PROVE  EditorInv'
  BY <1>9, <1>10 DEF ServeFetch, ListingArrives, ListingFails, ForgetListing
<1>11. ASSUME NEW p \in Place, GoTo(p) PROVE EditorInv'
  BY <1>9, <1>11 DEF GoTo
<1>12. CASE \/ Refresh \/ Unreachable \/ Reachable \/ CloseDialog \/ CutEntry
            \/ UNCHANGED listingVars
  BY <1>9, <1>12 DEF Refresh, Unreachable, Reachable, CloseDialog, CutEntry, listingVars
<1>13. ASSUME NEW kind, OpenDialog(kind) PROVE EditorInv'
  BY <1>9, <1>13 DEF OpenDialog
<1> QED BY <1>2, <1>3, <1>4, <1>5, <1>7, <1>8, <1>10, <1>11, <1>12, <1>13 DEF ListingNext

(* Without overlaps, the editor is opened only for files that their operations
   created: any directories and bounds. *)
THEOREM EditorsOpenCreatedFiles == ListingSpec => []EditorOpensCreated
<1>1. EditorInv => EditorOpensCreated
  BY DEF EditorInv
<1> QED BY <1>1, InitListing, NextListing, InitEditor, NextEditor, PTL DEF ListingSpec

--------------------------------------------------------------------------------
(* FileListing: the types; every change is one of the operations carried out. *)

(* The operations that were carried out, each of which changes a directory at most
   once; what was read or promised of a directory has happened to it. *)
CarriedOut == {o \in FileOp : fileOps[o].pc \in {"applied", "done", "unknown"}}
ChangesAreCounted ==
    \A d \in Dir : /\ changes[d] <= Cardinality(CarriedOut)
                   /\ listing[d].count <= changes[d] /\ fetch[d].count <= changes[d]
(* What ListingType leaves open. *)
ListingRest ==
    /\ \A o \in FileOp : Unanswered(o) => fileOps[o].dirs # {}
    /\ newestOp \in FileOp \cup {NoOp} /\ reachable \in BOOLEAN /\ overlapped \in BOOLEAN
    /\ listingFaults \in 0..MaxListingFaults

(* There are finitely many operations. *)
LEMMA OperationsAreFinite ==
    ASSUME NEW S \in SUBSET FileOp
    PROVE  IsFiniteSet(S) /\ Cardinality(S) \in Nat /\ Cardinality(S) <= MaxFileOps
<1>1. MaxFileOps \in Nat
  BY FileListingAssumption
<1>2. IsFiniteSet(FileOp) /\ Cardinality(FileOp) = MaxFileOps
  <2>1. IsFiniteSet(1..MaxFileOps) /\ Cardinality(1..MaxFileOps)
          = IF 1 > MaxFileOps THEN 0 ELSE MaxFileOps - 1 + 1
    BY <1>1, FS_Interval
  <2>2. (IF 1 > MaxFileOps THEN 0 ELSE MaxFileOps - 1 + 1) = MaxFileOps
    BY <1>1
  <2> QED BY <2>1, <2>2 DEF FileOp
<1>3. IsFiniteSet(S) /\ Cardinality(S) <= Cardinality(FileOp)
  BY <1>2, FS_Subset
<1> QED BY <1>2, <1>3, FS_CardinalityType

(* A step that carries nothing out, and in which reads and answers only take over what
   has happened. *)
LEMMA CountsStay ==
    ASSUME ListingType, ChangesAreCounted, UNCHANGED changes, CarriedOut' = CarriedOut,
           \A d \in Dir : /\ listing'[d].count \in {listing[d].count, fetch[d].count, 0}
                          /\ fetch'[d].count \in {fetch[d].count, changes[d], 0}
    PROVE  ChangesAreCounted'
<1> SUFFICES ASSUME NEW d \in Dir
             PROVE  /\ changes[d] <= Cardinality(CarriedOut)
                    /\ listing'[d].count <= changes[d] /\ fetch'[d].count <= changes[d]
  BY DEF ChangesAreCounted
<1>1. /\ changes[d] <= Cardinality(CarriedOut)
      /\ listing[d].count <= changes[d] /\ fetch[d].count <= changes[d]
  BY DEF ChangesAreCounted
<1>2. changes[d] \in Nat
  BY DEF ListingType
<1> QED BY <1>1, <1>2

(* Asking for a listing has no result yet. *)
LEMMA AskedHasNoCount ==
    ASSUME ListingType, NEW p \in Place \cup {NoPlace}
    PROVE  \A d \in Dir : /\ Fetched(p)[d].count \in {fetch[d].count, 0}
                          /\ Refetched(p)[d].count \in {fetch[d].count, 0}
  BY DEF ListingType, Fetches, Fetched, Refetched, AskedFetch

(* At first nothing was carried out, read or promised. *)
LEMMA InitListingRest == ListingInit => ChangesAreCounted /\ ListingRest
<1> SUFFICES ASSUME ListingInit PROVE ChangesAreCounted /\ ListingRest
  OBVIOUS
<1>1. Cardinality(CarriedOut) \in Nat
  BY OperationsAreFinite DEF CarriedOut
<1>2. ChangesAreCounted
  BY <1>1 DEF ListingInit, ChangesAreCounted, Unknown, NoFetch
<1>3. \A o \in FileOp : ~Unanswered(o)
  BY DEF ListingInit, Unanswered, NewOp
<1>4. 0 \in 0..MaxListingFaults
  BY FileListingAssumption DEF FileListingAssumption
<1> QED BY <1>2, <1>3, <1>4 DEF ListingInit, ListingRest

(* Every step carries out one operation at most. *)
LEMMA NextCounts ==
    ListingInv /\ ChangesAreCounted /\ [ListingNext]_listingVars => ChangesAreCounted'
<1> SUFFICES ASSUME ListingInv, ChangesAreCounted, [ListingNext]_listingVars
             PROVE  ChangesAreCounted'
  OBVIOUS
<1>0. ListingType
  BY DEF ListingInv
<1> USE DEF listingQuery, opState
<1>1. ASSUME UNCHANGED <<changes, listing, fetch>>, CarriedOut' = CarriedOut
      PROVE  ChangesAreCounted'
  BY <1>1 DEF ChangesAreCounted
<1>2. ASSUME UNCHANGED fileOps PROVE CarriedOut' = CarriedOut
  BY <1>2 DEF CarriedOut
<1>3. ASSUME NEW o \in FileOp, NEW kind, NEW dirs, StartOp(o, kind, dirs)
      PROVE  CarriedOut' = CarriedOut
  BY <1>0, <1>3 DEF StartOp, CarriedOut, ListingType
<1>4. ASSUME NEW o \in FileOp, NEW pc, EndOp(o, pc), Unanswered(o),
             fileOps[o].pc = "applied" <=> pc \in {"done", "unknown"}, pc # "applied"
      PROVE  CarriedOut' = CarriedOut
  BY <1>0, <1>4 DEF EndOp, NewOp, CarriedOut, Unanswered, ListingType
<1>5. ASSUME NEW p \in Dir,
             ServeFetch(p) \/ ListingArrives(p) \/ ListingFails(p) \/ ForgetListing(p)
      PROVE  ChangesAreCounted'
  <2>1. UNCHANGED <<changes, fileOps>>
    BY <1>5 DEF ServeFetch, ListingArrives, ListingFails, ForgetListing
  <2>2. \A d \in Dir : listing'[d].count \in {listing[d].count, fetch[d].count, 0}
    BY <1>0, <1>5 DEF ServeFetch, ListingArrives, ListingFails, ForgetListing, ListingType, Unknown
  <2>3. \A d \in Dir : fetch'[d].count \in {fetch[d].count, changes[d], 0}
    BY <1>0, <1>5 DEF ServeFetch, ListingArrives, ListingFails, ForgetListing, ListingType, NoFetch
  <2> QED BY <1>0, <1>2, <2>1, <2>2, <2>3, CountsStay
<1>6. ASSUME NEW p \in Place \cup {NoPlace},
             fetch' = Fetched(p) \/ fetch' = Refetched(p) \/ fetch' = fetch,
             UNCHANGED <<changes, listing>>, CarriedOut' = CarriedOut
      PROVE  ChangesAreCounted'
  BY <1>0, <1>6, CountsStay, AskedHasNoCount
<1>7. ASSUME NEW p \in Place, GoTo(p) PROVE ChangesAreCounted'
  BY <1>2, <1>6, <1>7 DEF GoTo
<1>8. place \in Place \cup {NoPlace}
  BY <1>0 DEF ListingType
<1>9. CASE Refresh
  BY <1>2, <1>6, <1>8, <1>9 DEF Refresh, RefetchListing
<1>10. CASE Reachable
  BY <1>2, <1>6, <1>8, <1>10 DEF Reachable
<1>11. CASE \/ Unreachable \/ CloseDialog \/ CutEntry \/ UNCHANGED listingVars
            \/ \E kind \in {"create", "plain", "other", "upload"} : OpenDialog(kind)
  BY <1>1, <1>2, <1>11 DEF Unreachable, CloseDialog, CutEntry, OpenDialog, listingVars
<1>12. ASSUME NEW o \in FileOp, SubmitDialog(o) \/ PasteClipboard(o) \/ EditProperties(o)
       PROVE  ChangesAreCounted'
  <2>1. CarriedOut' = CarriedOut
    BY <1>3, <1>12 DEF SubmitDialog, PasteClipboard, EditProperties
  <2> QED BY <1>1, <1>12, <2>1 DEF SubmitDialog, PasteClipboard, EditProperties
<1>13. ASSUME NEW o \in FileOp, CarryOut(o) PROVE ChangesAreCounted'
  <2>1. CarriedOut' = CarriedOut \cup {o} /\ o \notin CarriedOut
    BY <1>0, <1>13 DEF CarryOut, CarriedOut, ListingType
  <2>2. IsFiniteSet(CarriedOut) /\ Cardinality(CarriedOut) \in Nat
    BY OperationsAreFinite DEF CarriedOut
  <2>3. Cardinality(CarriedOut') = Cardinality(CarriedOut) + 1
    BY <2>1, <2>2, FS_AddElement
  <2> SUFFICES ASSUME NEW d \in Dir
               PROVE  /\ changes'[d] <= Cardinality(CarriedOut')
                      /\ listing[d].count <= changes'[d] /\ fetch[d].count <= changes'[d]
    BY <1>13 DEF CarryOut, ChangesAreCounted
  <2>4. changes[d] \in Nat /\ listing[d].count \in Nat /\ fetch[d].count \in Nat
    BY <1>0 DEF ListingType, Answers, Fetches
  <2>5. /\ changes[d] <= Cardinality(CarriedOut)
        /\ listing[d].count <= changes[d] /\ fetch[d].count <= changes[d]
    BY DEF ChangesAreCounted
  <2>6. changes'[d] \in {changes[d], changes[d] + 1}
    BY <1>13 DEF CarryOut
  <2> QED BY <2>2, <2>3, <2>4, <2>5, <2>6
<1>14. ASSUME NEW o \in FileOp, FileOpSucceeds(o) PROVE ChangesAreCounted'
  <2>1. EndOp(o, "done") /\ Unanswered(o) /\ fileOps[o].pc = "applied"
    BY <1>14 DEF FileOpSucceeds, Unanswered
  <2>2. CarriedOut' = CarriedOut
    BY <1>4, <2>1
  <2> QED BY <1>6, <1>8, <1>14, <2>2 DEF FileOpSucceeds, RefetchListing
<1>15. ASSUME NEW o \in FileOp, FileOpFails(o) PROVE ChangesAreCounted'
  <2>1. CarriedOut' = CarriedOut
    BY <1>4, <1>15 DEF FileOpFails
  <2> QED BY <1>1, <1>15, <2>1 DEF FileOpFails
<1> QED BY <1>5, <1>7, <1>9, <1>10, <1>11, <1>12, <1>13, <1>14, <1>15 DEF ListingNext

(* An operation that was sent has directories. *)
LEMMA NextListingRest ==
    ListingInv /\ ListingRest /\ [ListingNext]_listingVars => ListingRest'
<1> SUFFICES ASSUME ListingInv, ListingRest, [ListingNext]_listingVars PROVE ListingRest'
  OBVIOUS
<1>0. ListingType
  BY DEF ListingInv
<1> USE DEF listingQuery, opState
<1>a. MaxListingFaults \in Nat /\ listingFaults \in 0..MaxListingFaults
  BY FileListingAssumption DEF ListingRest, FileListingAssumption
<1>1. ASSUME UNCHANGED <<fileOps, newestOp, overlapped>>, reachable' \in BOOLEAN,
             \/ UNCHANGED listingFaults
             \/ listingFaults' = listingFaults + 1 /\ listingFaults < MaxListingFaults
      PROVE  ListingRest'
  <2>1. listingFaults' \in 0..MaxListingFaults
    BY <1>1, <1>a
  <2> QED BY <1>1, <2>1 DEF ListingRest, Unanswered
<1>2. ASSUME NEW o \in FileOp, NEW kind, NEW dirs \in SUBSET Dir, dirs # {}, StartOp(o, kind, dirs),
             UNCHANGED <<reachable, listingFaults>>
      PROVE  ListingRest'
  <2>1. \A x \in FileOp : Unanswered(x)' => fileOps'[x].dirs # {}
    BY <1>0, <1>2 DEF StartOp, ListingType, ListingRest, Unanswered
  <2>2. newestOp' \in FileOp \cup {NoOp}
    BY <1>2 DEF StartOp, ListingRest
  <2>3. overlapped' \in BOOLEAN
    BY <1>2 DEF StartOp, ListingRest
  <2> QED BY <1>2, <2>1, <2>2, <2>3 DEF ListingRest
<1>3. ASSUME NEW o \in FileOp, NEW pc \in {"done", "unknown", "failed"}, EndOp(o, pc),
             UNCHANGED <<newestOp, overlapped, reachable, listingFaults>>
      PROVE  ListingRest'
  <2>1. \A x \in FileOp : Unanswered(x)' => fileOps'[x].dirs # {}
    BY <1>0, <1>3 DEF EndOp, NewOp, ListingType, ListingRest, Unanswered
  <2> QED BY <1>3, <2>1 DEF ListingRest
<1>4. ASSUME NEW p \in Dir,
             ServeFetch(p) \/ ListingArrives(p) \/ ListingFails(p) \/ ForgetListing(p)
      PROVE  ListingRest'
  BY <1>1, <1>4 DEF ServeFetch, ListingArrives, ListingFails, ForgetListing, ListingRest
<1>5. CASE \/ Refresh \/ Unreachable \/ Reachable \/ CloseDialog \/ CutEntry
           \/ UNCHANGED listingVars \/ \E p \in Place : GoTo(p)
           \/ \E kind \in {"create", "plain", "other", "upload"} : OpenDialog(kind)
  <2>1. UNCHANGED <<fileOps, newestOp, overlapped>> /\ reachable' \in BOOLEAN
    BY <1>5 DEF Refresh, Unreachable, Reachable, CloseDialog, CutEntry, GoTo, OpenDialog,
                listingVars, ListingRest
  <2>2. \/ UNCHANGED listingFaults
        \/ listingFaults' = listingFaults + 1 /\ listingFaults < MaxListingFaults
    BY <1>5 DEF Refresh, Unreachable, Reachable, CloseDialog, CutEntry, GoTo, OpenDialog,
                listingVars
  <2> QED BY <1>1, <2>1, <2>2
<1>6. ASSUME NEW o \in FileOp, SubmitDialog(o) PROVE ListingRest'
  <2>1. PICK d \in Dir : StartOp(o, fileDialog, {d})
    BY <1>6 DEF SubmitDialog
  <2> QED BY <1>2, <1>6, <2>1 DEF SubmitDialog
<1>7. ASSUME NEW o \in FileOp, PasteClipboard(o) PROVE ListingRest'
  <2>1. {clipboard, place} \in SUBSET Dir /\ StartOp(o, "other", {clipboard, place})
    BY <1>0, <1>7 DEF PasteClipboard, ListingType
  <2> QED BY <1>2, <1>7, <2>1 DEF PasteClipboard
<1>8. ASSUME NEW o \in FileOp, EditProperties(o) PROVE ListingRest'
  <2>1. {place} \in SUBSET Dir /\ StartOp(o, "properties", {place})
    BY <1>8 DEF EditProperties
  <2> QED BY <1>2, <1>8, <2>1 DEF EditProperties
<1>9. ASSUME NEW o \in FileOp, CarryOut(o) PROVE ListingRest'
  <2>1. \A x \in FileOp : Unanswered(x)' => fileOps'[x].dirs # {}
    BY <1>0, <1>9 DEF CarryOut, ListingType, Ops, ListingRest, Unanswered
  <2> QED BY <1>9, <2>1 DEF CarryOut, ListingRest
<1>10. ASSUME NEW o \in FileOp, FileOpSucceeds(o) PROVE ListingRest'
  BY <1>3, <1>10 DEF FileOpSucceeds
<1>11. ASSUME NEW o \in FileOp, FileOpFails(o) PROVE ListingRest'
  BY <1>3, <1>11 DEF FileOpFails
<1> QED BY <1>4, <1>5, <1>6, <1>7, <1>8, <1>9, <1>10, <1>11 DEF ListingNext

(* The variables keep their types, and no listing, read or promise counts more changes
   than operations were carried out: any directories, places and bounds. *)
THEOREM ListingTypeCorrect == ListingSpec => []ListingTypeOK
<1>1. ListingInv /\ ChangesAreCounted /\ ListingRest => ListingTypeOK
  <2> SUFFICES ASSUME ListingInv, ChangesAreCounted, ListingRest PROVE ListingTypeOK
    OBVIOUS
  <2>0. ListingType /\ ReadIsFresh
    BY DEF ListingInv
  <2>1. ASSUME NEW d \in Dir
        PROVE  /\ changes[d] \in Count /\ promised[d] \in Count
               /\ listing[d].count \in Count /\ fetch[d].count \in Count
    <3>1. /\ changes[d] \in Nat /\ promised[d] \in Nat /\ listing[d].count \in Nat
          /\ fetch[d].count \in Nat /\ MaxFileOps \in Nat
      BY <2>0, FileListingAssumption DEF ListingType, Answers, Fetches
    <3>2. Cardinality(CarriedOut) \in Nat /\ Cardinality(CarriedOut) <= MaxFileOps
      BY OperationsAreFinite DEF CarriedOut
    <3>3. /\ changes[d] <= Cardinality(CarriedOut) /\ promised[d] <= changes[d]
          /\ listing[d].count <= changes[d] /\ fetch[d].count <= changes[d]
      BY <2>0, <3>1 DEF ChangesAreCounted, ReadIsFresh
    <3> QED BY <3>1, <3>2, <3>3 DEF Count
  <2>2. changes \in [Dir -> Count] /\ promised \in [Dir -> Count]
    BY <2>0, <2>1 DEF ListingType
  <2>3. listing \in [Dir -> [known : BOOLEAN, count : Count]]
    BY <2>0, <2>1 DEF ListingType, Answers
  <2>4. fetch \in [Dir -> [pc : {"none", "asked", "read"}, count : Count]]
    BY <2>0, <2>1 DEF ListingType, Fetches
  <2> QED BY <2>0, <2>2, <2>3, <2>4 DEF ListingTypeOK, ListingType, ListingRest, Ops
<1> QED BY <1>1, InitListing, NextListing, InitListingRest, NextCounts, NextListingRest, PTL
        DEF ListingSpec
================================================================================
