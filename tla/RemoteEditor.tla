------------------------------ MODULE RemoteEditor ------------------------------
(***************************************************************************)
(* Editor windows on one remote file (EditorApp).  The windows of a        *)
(* browser share one cached copy of the file, which stays fresh for 15 s;  *)
(* each window edits a draft over the text that it loaded.  A save stores  *)
(* the versions before and after it, replaces the file and reads it back.  *)
(*                                                                         *)
(* A text is the set of what went into it: 0 is the file as it was, Stored *)
(* an old version of it, and each key that is typed is a number.           *)
(***************************************************************************)
EXTENDS Naturals

CONSTANTS
    EditorWindow,      \* editor windows of one browser on the same file
    MaxTyped,     \* how many keys are typed, all together
    MaxDocumentReads,    \* how often the cached document is read
    MaxEditorOpens     \* how often a window is opened

ASSUME EditorAssumption == {MaxTyped, MaxDocumentReads, MaxEditorOpens} \subseteq Nat

VARIABLES
    remoteFile,        \* the remote file
    online,   \* the server's managed connection
    document,       \* documentQuery: its data, whether they are younger than 15 s, its error
    documentRead,     \* its read that is under way
    editors,         \* the state of each window
    editorSave,        \* the save mutation of each window
    versions,    \* the version database
    replaced,        \* every text that a save has replaced (history variable)
    troubled,    \* a version could not be read or stored (history variable)
    typed, documentReads, editorOpens

fileHistory == <<versions, replaced, troubled>>
documentQuery == <<document, documentRead, documentReads>>
editorVars ==
    <<remoteFile, online, documentQuery, editors, editorSave, fileHistory, typed, editorOpens>>

Stored == MaxTyped + 1
FileText == SUBSET (0..Stored)
NotLoaded == [known |-> FALSE, text |-> {}]
Loaded(t) == [known |-> TRUE, text |-> t]

NoEditor == [open |-> FALSE, ready |-> FALSE, version |-> FALSE, error |-> FALSE,
           content |-> {}, baseline |-> NotLoaded]
NoTransfer == [pc |-> "idle", text |-> {}]

EditorInit ==
    /\ remoteFile = {0} /\ online = TRUE
    /\ document = [doc |-> NotLoaded, fresh |-> FALSE, error |-> FALSE]
    /\ documentRead = NoTransfer /\ documentReads = 0
    /\ editors = [w \in EditorWindow |-> NoEditor]
    /\ editorSave = [w \in EditorWindow |-> NoTransfer]
    /\ versions = {} /\ replaced = {} /\ troubled = FALSE
    /\ typed = 0 /\ editorOpens = 0

Dirty(s) == s.ready /\ ~s.version /\ s.baseline.known /\ s.content # s.baseline.text

--------------------------------------------------------------------------------
(* The document query.                                                     *)

(* The query reads when it is asked to, or when it is enabled with data older
   than 15 s; the windows share one read. *)
StartDocumentRead(forced) ==
    IF /\ documentRead.pc = "idle" /\ documentReads < MaxDocumentReads
       /\ forced \/ ~document.fresh
    THEN /\ documentRead' = [NoTransfer EXCEPT !.pc = "asked"]
         /\ documentReads' = documentReads + 1
    ELSE UNCHANGED <<documentRead, documentReads>>

ReadDocument ==
    /\ documentRead.pc = "asked"
    /\ documentRead' = [pc |-> "answered", text |-> remoteFile]
    /\ UNCHANGED <<remoteFile, online, document, documentReads, editors, editorSave,
                  fileHistory, typed, editorOpens>>

(* The effect on the document: it replaces the text of the window, unless an
   old version is displayed. *)
Adopt(s, doc) ==
    IF doc.known /\ ~s.version /\ s.open
    THEN [s EXCEPT !.content = doc.text, !.baseline = doc]
    ELSE s

DocumentDelivered ==
    /\ documentRead.pc = "answered"
    /\ document' = [doc |-> Loaded(documentRead.text), fresh |-> TRUE, error |-> FALSE]
    /\ documentRead' = NoTransfer
    /\ editors' = [w \in EditorWindow |-> Adopt(editors[w], document'.doc)]
    /\ UNCHANGED <<remoteFile, online, documentReads, editorSave, fileHistory, typed,
                  editorOpens>>

DocumentFails ==
    /\ documentRead.pc = "asked"
    /\ documentRead' = NoTransfer
    /\ document' = [document EXCEPT !.error = TRUE]
    /\ UNCHANGED <<remoteFile, online, documentReads, editors, editorSave, fileHistory,
                  typed, editorOpens>>

(* editorOpenCacheStaleMS have passed. *)
DocumentAges ==
    /\ document.fresh
    /\ document' = [document EXCEPT !.fresh = FALSE]
    /\ UNCHANGED <<remoteFile, online, documentRead, documentReads, editors, editorSave,
                  fileHistory, typed, editorOpens>>

(* The connection of the server comes and goes; with it the query is enabled. *)
EditorOffline ==
    /\ online
    /\ online' = FALSE
    /\ UNCHANGED <<remoteFile, documentQuery, editors, editorSave, fileHistory, typed,
                  editorOpens>>

EditorOnline ==
    /\ ~online
    /\ online' = TRUE
    /\ IF \E w \in EditorWindow : editors[w].ready THEN StartDocumentRead(FALSE)
       ELSE UNCHANGED <<documentRead, documentReads>>
    /\ UNCHANGED <<remoteFile, document, editors, editorSave, fileHistory, typed,
                  editorOpens>>

--------------------------------------------------------------------------------
(* A window.                                                               *)

SetWindow(w, s) == editors' = [editors EXCEPT ![w] = s]

(* Data that are cached are displayed at once. *)
OpenEditor(w) ==
    /\ editorOpens < MaxEditorOpens /\ ~editors[w].open /\ editorSave[w].pc = "idle"
    /\ editorOpens' = editorOpens + 1
    /\ SetWindow(w, Adopt([NoEditor EXCEPT !.open = TRUE], document.doc))
    /\ UNCHANGED <<remoteFile, online, documentQuery, editorSave, fileHistory, typed>>

(* The preview says that the file may be edited; that enables the document query. *)
Previewed(w) ==
    /\ editors[w].open /\ ~editors[w].ready /\ online
    /\ SetWindow(w, [editors[w] EXCEPT !.ready = TRUE])
    /\ StartDocumentRead(FALSE)
    /\ UNCHANGED <<remoteFile, online, document, editorSave, fileHistory, typed,
                  editorOpens>>

TypeInWindow(w) ==
    /\ editors[w].ready /\ ~editors[w].version /\ typed < MaxTyped
    /\ typed' = typed + 1
    /\ SetWindow(w, [editors[w] EXCEPT !.content = @ \cup {typed + 1}])
    /\ UNCHANGED <<remoteFile, online, documentQuery, editorSave, fileHistory,
                  editorOpens>>

(* The user closes the window and, if it is dirty, agrees to lose the draft.  A
   save goes on without it. *)
CloseEditor(w) ==
    /\ editors[w].open
    /\ SetWindow(w, NoEditor)
    /\ UNCHANGED <<remoteFile, online, documentQuery, editorSave, fileHistory, typed,
                  editorOpens>>

(* Reload ends the display of an old version, with the cached data for a start. *)
ReloadEditor(w) ==
    /\ editors[w].open /\ online /\ documentRead.pc = "idle"
    /\ SetWindow(w, IF ~editors[w].version THEN editors[w]
                    ELSE Adopt([editors[w] EXCEPT !.version = FALSE], document.doc))
    /\ IF editors[w].ready THEN StartDocumentRead(TRUE)
       ELSE UNCHANGED <<documentRead, documentReads>>
    /\ UNCHANGED <<remoteFile, online, document, editorSave, fileHistory, typed,
                  editorOpens>>

(* As if an old version were opened as a draft of the file. *)
DisplayedAsDraft(s) == [s EXCEPT !.content = {Stored}]

(* openSelectedVersionReadOnly *)
Displayed(s) == [s EXCEPT !.version = TRUE, !.baseline = NotLoaded, !.content = {Stored}]

OpenVersion(w) ==
    /\ editors[w].ready /\ online
    /\ SetWindow(w, Displayed(editors[w]))
    /\ UNCHANGED <<remoteFile, online, documentQuery, editorSave, fileHistory, typed,
                  editorOpens>>

--------------------------------------------------------------------------------
(* Saving.                                                                 *)

(* runSave *)
SaveEditor(w) ==
    /\ Dirty(editors[w]) /\ editorSave[w].pc = "idle" /\ online
    /\ editorSave' = [editorSave EXCEPT ![w] = [pc |-> "before", text |-> editors[w].content]]
    /\ SetWindow(w, [editors[w] EXCEPT !.error = FALSE])
    /\ UNCHANGED <<remoteFile, online, documentQuery, fileHistory, typed, editorOpens>>

SaveGoto(w, where) == editorSave' = [editorSave EXCEPT ![w].pc = where]

SaveDone(w) == editorSave' = [editorSave EXCEPT ![w] = NoTransfer]
SaveFails(w) == SaveDone(w) /\ SetWindow(w, [editors[w] EXCEPT !.error = editors[w].open])

(* As if the text to be saved were stored in its place. *)
BeforeAsSent(w) == editorSave[w].text

(* The text before a save is read from the server. *)
Before(w) == remoteFile

(* fileManagerSaveBytesWithHistory stores the text that the file has before the
   save; when it cannot be read, the save goes on without it. *)
StoreBefore(w) ==
    /\ editorSave[w].pc = "before"
    /\ \/ versions' = versions \cup {Before(w)} /\ SaveGoto(w, "write")
          /\ UNCHANGED <<editors, troubled>>
       \/ troubled' = TRUE /\ SaveGoto(w, "write") /\ UNCHANGED <<editors, versions>>
       \/ SaveFails(w) /\ UNCHANGED <<versions, troubled>>
    /\ UNCHANGED <<remoteFile, replaced, online, documentQuery, typed, editorOpens>>

(* The upload replaces the file, or fails and leaves it. *)
UploadText(w) ==
    /\ editorSave[w].pc = "write"
    /\ \/ remoteFile' = editorSave[w].text /\ replaced' = replaced \cup {remoteFile}
          /\ SaveGoto(w, "after") /\ UNCHANGED editors
       \/ SaveFails(w) /\ UNCHANGED <<remoteFile, replaced>>
    /\ UNCHANGED <<versions, troubled, online, documentQuery, typed, editorOpens>>

(* The new text is stored too; when that fails, the save is answered with an
   error although the file has been replaced. *)
StoreAfter(w) ==
    /\ editorSave[w].pc = "after"
    /\ \/ versions' = versions \cup {editorSave[w].text} /\ SaveGoto(w, "written")
          /\ UNCHANGED <<editors, troubled>>
       \/ troubled' = TRUE /\ SaveFails(w) /\ UNCHANGED versions
    /\ UNCHANGED <<remoteFile, replaced, online, documentQuery, typed, editorOpens>>

ReadBack(w) ==
    /\ editorSave[w].pc = "written"
    /\ \/ editorSave' = [editorSave EXCEPT ![w] = [pc |-> "read", text |-> remoteFile]]
          /\ UNCHANGED editors
       \/ SaveFails(w)
    /\ UNCHANGED <<remoteFile, online, documentQuery, fileHistory, typed, editorOpens>>

(* onSuccess, after the file was read back: what was typed meanwhile is gone. *)
SaveSucceeds(w) ==
    /\ editorSave[w].pc = "read"
    /\ SaveDone(w)
    /\ SetWindow(w, Adopt([editors[w] EXCEPT !.version = FALSE], Loaded(editorSave[w].text)))
    /\ UNCHANGED <<remoteFile, online, documentQuery, fileHistory, typed, editorOpens>>

--------------------------------------------------------------------------------
Querying ==
    \/ ReadDocument \/ DocumentDelivered \/ DocumentFails \/ DocumentAges
    \/ EditorOffline \/ EditorOnline

Showing(w) ==
    \/ OpenEditor(w) \/ Previewed(w) \/ TypeInWindow(w)
    \/ CloseEditor(w) \/ ReloadEditor(w) \/ OpenVersion(w)

Storing(w) ==
    \/ SaveEditor(w) \/ StoreBefore(w) \/ UploadText(w)
    \/ StoreAfter(w) \/ ReadBack(w) \/ SaveSucceeds(w)

EditorNext == Querying \/ \E w \in EditorWindow : Showing(w) \/ Storing(w)

EditorSpec == EditorInit /\ [][EditorNext]_editorVars

--------------------------------------------------------------------------------
Copy == [known : BOOLEAN, text : FileText]
EditorState == [open : BOOLEAN, ready : BOOLEAN, version : BOOLEAN, error : BOOLEAN,
                content : FileText, baseline : Copy]
Transfer == [pc : {"idle", "before", "write", "after", "written", "read"}, text : FileText]

EditorTypeOK ==
    /\ remoteFile \in FileText /\ online \in BOOLEAN
    /\ document \in [doc : Copy, fresh : BOOLEAN, error : BOOLEAN]
    /\ documentRead \in [pc : {"idle", "asked", "answered"}, text : FileText]
    /\ editors \in [EditorWindow -> EditorState]
    /\ editorSave \in [EditorWindow -> Transfer]
    /\ \A w \in EditorWindow : editorSave[w].pc = "idle" => editorSave[w] = NoTransfer
    /\ versions \subseteq FileText /\ replaced \subseteq FileText /\ troubled \in BOOLEAN
    /\ typed \in 0..MaxTyped /\ documentReads \in 0..MaxDocumentReads
    /\ editorOpens \in 0..MaxEditorOpens

(* However saves of several windows overlap: as long as versions can be read and
   stored, every text that a save has replaced is found in the history. *)
NothingLost ==
    ~troubled /\ (\A w \in EditorWindow : editorSave[w].pc # "after") =>
        replaced \subseteq versions

(* An old version that was only looked at is never written back: not by its own
   window after Reload, and not by a save that was under way when it was opened. *)
VersionNotWritten == remoteFile # {Stored}
================================================================================
