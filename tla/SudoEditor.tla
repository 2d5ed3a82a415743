-------------------------------- MODULE SudoEditor --------------------------------
(***************************************************************************)
(* Edit Sudo (SudoEditorApp): one window edits the sudoers files of a      *)
(* server.  A draft is sent to the server's validator and, when the user   *)
(* confirmed the save and the validator accepts it, written.  Validations  *)
(* and saves that were sent cannot be taken back: resetting the mutation   *)
(* or closing the dialog only hides them.                                  *)
(*                                                                         *)
(* A text is the set of what went into it: the file that it was loaded     *)
(* from, and each key that is typed.                                       *)
(***************************************************************************)
EXTENDS Naturals, FiniteSets

CONSTANTS
    SudoPath,         \* sudoers files
    MaxSudoKeys,      \* how many keys are typed
    MaxSudoReads,     \* how often a file is read, all together
    MaxValidations,  \* how many validations are sent
    MaxSudoFailures   \* how many reads and writes fail

ASSUME SudoAssumption ==
    /\ {MaxSudoKeys, MaxSudoReads, MaxValidations, MaxSudoFailures} \subseteq Nat
    /\ SudoPath # {} /\ SudoPath \cap Nat = {}

VARIABLES
    sudoers,       \* the files on the server
    sudoCache,        \* what fileQuery knows of each file
    sudoReading,      \* its read of each file
    selectedSudo,     \* selectedPath
    sudoDraft,        \* the text in the editor
    savedSudo,        \* savedContent
    saveOpen,       \* saveOpen
    verdict,      \* validationPayload
    validating,        \* validations that are under way
    awaited,      \* the one that the window waits for
    sudoSaves,        \* saves that are under way
    confirmed,    \* what the user has confirmed (history variable)
    passed,       \* what the validator has accepted (history variable)
    sudoKeys, sudoReads, validations, sudoFailures

sudoEditor == <<selectedSudo, sudoDraft, savedSudo>>
sudoQuery == <<sudoCache, sudoReading, sudoReads>>
sudoChecks == <<saveOpen, verdict, validating, awaited, confirmed, passed, validations>>
sudoVars == <<sudoers, sudoEditor, sudoQuery, sudoChecks, sudoSaves, sudoKeys, sudoFailures>>

SudoText == SUBSET (SudoPath \cup (1..MaxSudoKeys))
NotCached == [known |-> FALSE, text |-> {}]
NotReading == [pc |-> "idle", text |-> {}]
NoRequest == [path |-> CHOOSE p \in SudoPath : TRUE, text |-> {}, id |-> 0, write |-> FALSE]
SudoDraft == [path : SudoPath, text : SudoText]

SudoInit ==
    /\ sudoers = [p \in SudoPath |-> {p}]
    /\ sudoCache = [p \in SudoPath |-> NotCached]
    /\ selectedSudo \in SudoPath
    /\ sudoReading = [[p \in SudoPath |-> NotReading] EXCEPT ![selectedSudo].pc = "asked"]
    /\ sudoDraft = {} /\ savedSudo = {}
    /\ saveOpen = FALSE /\ verdict = "none"
    /\ validating = {} /\ awaited = NoRequest
    /\ sudoSaves = {} /\ confirmed = {} /\ passed = {}
    /\ sudoKeys = 0 /\ sudoReads = 0 /\ validations = 0 /\ sudoFailures = 0

SudoUnsaved == sudoDraft # savedSudo
SudoValidating == awaited # NoRequest
SudoSaving == sudoSaves # {}
SudoFetching == sudoReading[selectedSudo].pc # "idle"

--------------------------------------------------------------------------------
(* Reading.                                                                *)

StartSudoRead(p) ==
    IF sudoReading[p].pc = "idle" /\ sudoReads < MaxSudoReads
    THEN sudoReading' = [sudoReading EXCEPT ![p].pc = "asked"] /\ sudoReads' = sudoReads + 1
    ELSE UNCHANGED <<sudoReading, sudoReads>>

(* The effect on the data of the selected file replaces the draft. *)
ShowSudo(t) == sudoDraft' = t /\ savedSudo' = t /\ verdict' = "none"

ReadSudo(p) ==
    /\ sudoReading[p].pc = "asked"
    /\ sudoReading' = [sudoReading EXCEPT ![p] = [pc |-> "answered", text |-> sudoers[p]]]
    /\ UNCHANGED <<sudoers, sudoEditor, sudoCache, sudoReads, sudoChecks, sudoSaves,
                  sudoKeys, sudoFailures>>

SudoDelivered(p) ==
    /\ sudoReading[p].pc = "answered"
    /\ sudoReading' = [sudoReading EXCEPT ![p] = NotReading]
    /\ sudoCache' = [sudoCache EXCEPT ![p] = [known |-> TRUE, text |-> sudoReading[p].text]]
    /\ IF p = selectedSudo THEN ShowSudo(sudoReading[p].text)
       ELSE UNCHANGED <<sudoDraft, savedSudo, verdict>>
    /\ UNCHANGED <<sudoers, selectedSudo, sudoReads, saveOpen, validating, awaited,
                  confirmed, passed, validations, sudoSaves, sudoKeys, sudoFailures>>

SudoReadFails(p) ==
    /\ sudoReading[p].pc = "asked" /\ sudoFailures < MaxSudoFailures
    /\ sudoFailures' = sudoFailures + 1
    /\ sudoReading' = [sudoReading EXCEPT ![p] = NotReading]
    /\ UNCHANGED <<sudoers, sudoEditor, sudoCache, sudoReads, sudoChecks, sudoSaves,
                  sudoKeys>>

(* The selector shows another file.  Its text is displayed at once if it is
   cached; otherwise the draft of the old file stays until the read is answered. *)
SelectSudo(p) ==
    /\ p # selectedSudo /\ sudoReads < MaxSudoReads
    /\ selectedSudo' = p
    /\ IF sudoCache[p].known THEN ShowSudo(sudoCache[p].text)
       ELSE UNCHANGED <<sudoDraft, savedSudo, verdict>>
    /\ StartSudoRead(p)
    /\ UNCHANGED <<sudoers, sudoCache, saveOpen, validating, awaited, confirmed, passed,
                  validations, sudoSaves, sudoKeys, sudoFailures>>

RefreshSudo ==
    /\ ~SudoFetching /\ sudoReads < MaxSudoReads
    /\ StartSudoRead(selectedSudo)
    /\ UNCHANGED <<sudoers, sudoEditor, sudoCache, sudoChecks, sudoSaves, sudoKeys,
                  sudoFailures>>

--------------------------------------------------------------------------------
(* Editing and validating.                                                 *)

ForgetVerdict == verdict' = "none" /\ awaited' = NoRequest

(* The editor is not displayed while the file is read. *)
TypeSudo ==
    /\ sudoKeys < MaxSudoKeys /\ ~SudoFetching
    /\ sudoKeys' = sudoKeys + 1
    /\ sudoDraft' = sudoDraft \cup {sudoKeys + 1}
    /\ ForgetVerdict
    /\ UNCHANGED <<sudoers, selectedSudo, savedSudo, sudoQuery, saveOpen, validating,
                  confirmed, passed, validations, sudoSaves, sudoFailures>>

RevertSudo ==
    /\ SudoUnsaved
    /\ sudoDraft' = savedSudo
    /\ ForgetVerdict
    /\ UNCHANGED <<sudoers, selectedSudo, savedSudo, sudoQuery, saveOpen, validating,
                  confirmed, passed, validations, sudoSaves, sudoKeys, sudoFailures>>

AskValidator(write) ==
    LET r == [path |-> selectedSudo, text |-> sudoDraft, id |-> validations + 1,
              write |-> write]
    IN
    /\ validations < MaxValidations
    /\ validations' = validations + 1
    /\ validating' = validating \cup {r}
    /\ awaited' = r
    /\ verdict' = "none"

Validate ==
    /\ ~SudoSaving /\ ~SudoValidating
    /\ AskValidator(FALSE)
    /\ UNCHANGED <<sudoers, sudoEditor, sudoQuery, saveOpen, confirmed, passed,
                  sudoSaves, sudoKeys, sudoFailures>>

(* openSaveConfirmation *)
OpenSave ==
    /\ SudoUnsaved /\ ~SudoSaving /\ ~SudoValidating
    /\ saveOpen' = TRUE
    /\ ForgetVerdict
    /\ UNCHANGED <<sudoers, sudoEditor, sudoQuery, validating, confirmed, passed,
                  validations, sudoSaves, sudoKeys, sudoFailures>>

(* "I understand - validate and save" *)
ConfirmSave ==
    /\ saveOpen /\ ~SudoSaving /\ ~SudoValidating
    /\ AskValidator(TRUE)
    /\ confirmed' = confirmed \cup {[path |-> selectedSudo, text |-> sudoDraft]}
    /\ UNCHANGED <<sudoers, sudoEditor, sudoQuery, saveOpen, passed, sudoSaves,
                  sudoKeys, sudoFailures>>

CancelSave ==
    /\ saveOpen
    /\ saveOpen' = FALSE
    /\ UNCHANGED <<sudoers, sudoEditor, sudoQuery, verdict, validating, awaited,
                  confirmed, passed, validations, sudoSaves, sudoKeys, sudoFailures>>

(* As if the draft of the moment were saved, not the one that was validated. *)
SentAsDisplayed(r) == [pc |-> "sent", path |-> selectedSudo, text |-> sudoDraft]

Sent(r) == [pc |-> "sent", path |-> r.path, text |-> r.text]

AwaitedAfter(r) == IF awaited = r THEN NoRequest ELSE awaited

(* The validator answers; onSuccess runs for a request the window forgot, too. *)
Answered(r) ==
    /\ validating' = validating \ {r}
    /\ awaited' = AwaitedAfter(r)
    /\ UNCHANGED <<sudoers, sudoEditor, sudoQuery, saveOpen, confirmed, validations,
                  sudoKeys, sudoFailures>>

Accepted(r) ==
    /\ Answered(r)
    /\ verdict' = "valid"
    /\ passed' = passed \cup {[path |-> r.path, text |-> r.text]}
    /\ sudoSaves' = IF r.write THEN sudoSaves \cup {Sent(r)} ELSE sudoSaves

Rejected(r) ==
    /\ Answered(r)
    /\ verdict' = "invalid"
    /\ UNCHANGED <<passed, sudoSaves>>

--------------------------------------------------------------------------------
(* Saving.                                                                 *)

Advance(s, where) == sudoSaves' = (sudoSaves \ {s}) \cup {[s EXCEPT !.pc = where]}

WriteSudo(s) ==
    /\ s.pc = "sent"
    /\ sudoers' = [sudoers EXCEPT ![s.path] = s.text]
    /\ Advance(s, "written")
    /\ UNCHANGED <<sudoEditor, sudoQuery, sudoChecks, sudoKeys, sudoFailures>>

WriteSudoFails(s) ==
    /\ s.pc = "sent" /\ sudoFailures < MaxSudoFailures
    /\ sudoFailures' = sudoFailures + 1
    /\ sudoSaves' = sudoSaves \ {s}
    /\ UNCHANGED <<sudoers, sudoEditor, sudoQuery, sudoChecks, sudoKeys>>

(* onSuccess: the text that was saved is the saved text, whatever is selected. *)
SudoSaved(s) ==
    /\ s.pc = "written"
    /\ savedSudo' = s.text
    /\ saveOpen' = FALSE /\ verdict' = "none"
    /\ Advance(s, "listing")
    /\ UNCHANGED <<sudoers, selectedSudo, sudoDraft, sudoQuery, validating, awaited,
                  confirmed, passed, validations, sudoKeys, sudoFailures>>

(* ... and when the list of files is loaded, the selected file is read again; a
   read under way is given up. *)
RereadSudo(s) ==
    /\ s.pc = "listing"
    /\ sudoReading' = [sudoReading EXCEPT ![selectedSudo] = [NotReading EXCEPT !.pc = "asked"]]
    /\ sudoSaves' = sudoSaves \ {s}
    /\ UNCHANGED <<sudoers, sudoEditor, sudoCache, sudoReads, sudoChecks, sudoKeys,
                  sudoFailures>>

--------------------------------------------------------------------------------
SudoNext ==
    \/ \E p \in SudoPath : ReadSudo(p) \/ SudoDelivered(p) \/ SudoReadFails(p) \/ SelectSudo(p)
    \/ RefreshSudo \/ TypeSudo \/ RevertSudo
    \/ Validate \/ OpenSave \/ ConfirmSave \/ CancelSave
    \/ \E r \in validating : Accepted(r) \/ Rejected(r)
    \/ \E s \in sudoSaves : WriteSudo(s) \/ WriteSudoFails(s) \/ SudoSaved(s) \/ RereadSudo(s)

SudoSpec == SudoInit /\ [][SudoNext]_sudoVars

--------------------------------------------------------------------------------
SudoTypeOK ==
    /\ sudoers \in [SudoPath -> SudoText]
    /\ sudoCache \in [SudoPath -> [known : BOOLEAN, text : SudoText]]
    /\ sudoReading \in [SudoPath -> [pc : {"idle", "asked", "answered"}, text : SudoText]]
    /\ selectedSudo \in SudoPath /\ sudoDraft \in SudoText /\ savedSudo \in SudoText
    /\ saveOpen \in BOOLEAN /\ verdict \in {"none", "valid", "invalid"}
    /\ validating \subseteq [path : SudoPath, text : SudoText, id : 0..MaxValidations,
                           write : BOOLEAN]
    /\ awaited \in validating \cup {NoRequest}
    /\ sudoSaves \subseteq [pc : {"sent", "written", "listing"}, path : SudoPath,
                          text : SudoText]
    /\ confirmed \subseteq SudoDraft /\ passed \subseteq SudoDraft
    /\ sudoKeys \in 0..MaxSudoKeys /\ sudoReads \in 0..MaxSudoReads
    /\ validations \in 0..MaxValidations /\ sudoFailures \in 0..MaxSudoFailures

(* However validations, edits, selections and saves overlap: a file is only ever
   replaced by a text that the user confirmed for that file and that the server's
   validator accepted for it. *)
WritesAreCleared ==
    [][\A p \in SudoPath : sudoers'[p] # sudoers[p] =>
          [path |-> p, text |-> sudoers'[p]] \in confirmed \cap passed]_sudoVars
================================================================================
