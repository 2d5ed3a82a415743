------------------------------ MODULE PartsProofs ------------------------------
(* The theorems about the parts, put together for the behaviours that move one part
   while the others stay: for any constants, not only the instance of the run. *)
EXTENDS MCParts, FileProofs, BatchProofs, WindowProofs, TLAPS

(* A behaviour of the parts is one of every part: its own steps, or stuttering. *)
LEMMA PagesBehave ==
    PartsSpec => TerminalSpec /\ EditorSpec /\ SudoSpec /\ WizardSpec
<1> DEFINE vars == <<area, terminalVars, editorVars, sudoVars, wizardVars,
                     batchVars, batchRunVars, windowVars, listingVars>>
<1>1. PartsInit => TerminalInit /\ EditorInit /\ SudoInit /\ WizardInit
  BY DEF PartsInit
<1>2. [PartsNext]_vars => [TerminalNext]_terminalVars
  BY DEF PartsNext
<1>3. [PartsNext]_vars => [EditorNext]_editorVars
  BY DEF PartsNext
<1>4. [PartsNext]_vars => [SudoNext]_sudoVars
  BY DEF PartsNext
<1>5. [PartsNext]_vars => [WizardNext]_wizardVars
  BY DEF PartsNext
<1> QED BY <1>1, <1>2, <1>3, <1>4, <1>5, PTL
        DEF PartsSpec, TerminalSpec, EditorSpec, SudoSpec, WizardSpec

(* The other half of them. *)
LEMMA ServicesBehave ==
    PartsSpec => BatchSpec /\ BatchRunsSpec /\ WindowsSpec /\ ListingSpec
<1> DEFINE vars == <<area, terminalVars, editorVars, sudoVars, wizardVars,
                     batchVars, batchRunVars, windowVars, listingVars>>
<1>1. PartsInit => BatchInit /\ BatchRunsInit /\ WindowsInit /\ ListingInit
  BY DEF PartsInit
<1>2. [PartsNext]_vars => [BatchNext]_batchVars
  BY DEF PartsNext
<1>3. [PartsNext]_vars => [BatchRunsNext]_batchRunVars
  BY DEF PartsNext
<1>4. [PartsNext]_vars => [WindowsNext]_windowVars
  BY DEF PartsNext
<1>5. [PartsNext]_vars => [ListingNext]_listingVars
  BY DEF PartsNext
<1> QED BY <1>1, <1>2, <1>3, <1>4, <1>5, PTL
        DEF PartsSpec, BatchSpec, BatchRunsSpec, WindowsSpec, ListingSpec

(* SudoTypeOK is a part of the invariant of Edit Sudo. *)
LEMMA SudoTypeCorrect == SudoSpec => []SudoTypeOK
<1>1. SudoInv => SudoTypeOK
  BY DEF SudoInv
<1> QED BY <1>1, InitSudo, NextSudo, PTL DEF SudoSpec

(* Every part keeps the types of its variables, and with them the references between
   them: whichever part moves, and for any values of the constants. *)
THEOREM PartsKeepTheirTypes == PartsSpec => []PartsTypeOK
<1>1. TerminalTypeOK /\ EditorTypeOK /\ SudoTypeOK /\ WizardTypeOK /\ BatchTypeOK
         /\ BatchRunsTypeOK /\ WindowsTypeOK /\ ListingTypeOK => PartsTypeOK
  BY DEF PartsTypeOK
<1> QED BY <1>1, PagesBehave, ServicesBehave, TerminalTypeCorrect, EditorTypeCorrect,
           SudoTypeCorrect, WizardTypeCorrect, BatchTypeCorrect, BatchRunsTypeOKAlways,
           WindowsHaveTheirTypes, ListingTypeCorrect, PTL

(* The parts keep what they promise, side by side as one by one: what the run checks on
   its instance holds for any values of the constants. *)
THEOREM PartsKeepTheirPromises ==
    PartsSpec =>
       /\ [](ShowsItsRevision /\ SettledFits)
       /\ [](NothingLost /\ VersionNotWritten)
       /\ WritesAreCleared
       /\ []SavedBelongsTogether
       /\ [](PreviewIsOfDraft /\ SavingKeepsEdits)
       /\ [](OverHasOutcomes /\ QuietRunIsOver /\ ScheduleWaits)
       /\ []FocusIsOnTop
       /\ [](ListingIsFresh /\ EditorOpensCreated)
BY PagesBehave, ServicesBehave, PagesShowTheirRevision, SettledPagesFit, ReplacedTextsAreKept,
   OldVersionsStayRead, OnlyClearedTextsAreWritten, ServersBelongTogether,
   PreviewsFollowDraft, SavesKeepEdits, FinishedRunsHadTheirResults, QuietRunsAreOver,
   ScheduledRunsWait, FocusStaysOnTop, ListingStaysFresh, EditorsOpenCreatedFiles, PTL
================================================================================
