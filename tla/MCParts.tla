--------------------------------- MODULE MCParts ---------------------------------
(* A small instance for TLC of the parts that share no state with each other: the
   pages of the browser and the smaller services behind them.  A behaviour follows
   one part (area) while the others stay in an initial state: the states of the
   parts add up and do not multiply. *)
EXTENDS TerminalStream, RemoteEditor, SudoEditor, AddServerWizard, BatchScriptPage,
        BatchRuns, DesktopWindows, FileListing

CONSTANTS p1, y1, z1, z2, w1, w2, f1, f2, a1, a2, noA, l1, l2, noL, s1, e1, noS, b1, b2, v1, v2,
          t1, noV, g1, u1, noG

VARIABLE area

(* The variables of every part keep their types, and the references between them
   the forms that the parts' own type invariants state: evaluated for the part that
   moves, since the others stay as they were. *)
PartsTypeOK ==
    /\ area = "terminal" => TerminalTypeOK
    /\ area = "editor" => EditorTypeOK
    /\ area = "sudo" => SudoTypeOK
    /\ area = "wizard" => WizardTypeOK
    /\ area = "batch" => BatchTypeOK
    /\ area = "batchruns" => BatchRunsTypeOK
    /\ area = "windows" => WindowsTypeOK
    /\ area = "listing" => ListingTypeOK

PartsInit ==
    /\ TerminalInit /\ EditorInit /\ SudoInit /\ WizardInit /\ BatchInit
    /\ BatchRunsInit /\ WindowsInit /\ ListingInit
    /\ area \in {"terminal", "editor", "sudo", "wizard", "batch", "batchruns", "windows",
                "listing"}
    /\ area # "terminal" => pane = Blank
    /\ area = "terminal" => pane.size # Blank.size
    /\ area # "sudo" => selectedSudo = NoRequest.path
    /\ area # "batch" => stored = [s \in Script |-> Gone]

PartsNext ==
    \/ /\ area = "terminal"
       /\ UNCHANGED <<area, editorVars, sudoVars, wizardVars, batchVars,
                      batchRunVars, windowVars, listingVars>>
       /\ TerminalNext
    \/ /\ area = "editor"
       /\ UNCHANGED <<area, terminalVars, sudoVars, wizardVars, batchVars,
                      batchRunVars, windowVars, listingVars>>
       /\ EditorNext
    \/ /\ area = "sudo"
       /\ UNCHANGED <<area, terminalVars, editorVars, wizardVars, batchVars,
                      batchRunVars, windowVars, listingVars>>
       /\ SudoNext
    \/ /\ area = "wizard"
       /\ UNCHANGED <<area, terminalVars, editorVars, sudoVars, batchVars,
                      batchRunVars, windowVars, listingVars>>
       /\ WizardNext
    \/ /\ area = "batch"
       /\ UNCHANGED <<area, terminalVars, editorVars, sudoVars, wizardVars,
                      batchRunVars, windowVars, listingVars>>
       /\ BatchNext
    \/ /\ area = "batchruns"
       /\ UNCHANGED <<area, terminalVars, editorVars, sudoVars, wizardVars,
                      batchVars, windowVars, listingVars>>
       /\ BatchRunsNext
    \/ /\ area = "windows"
       /\ UNCHANGED <<area, terminalVars, editorVars, sudoVars, wizardVars,
                      batchVars, batchRunVars, listingVars>>
       /\ WindowsNext
    \/ /\ area = "listing"
       /\ UNCHANGED <<area, terminalVars, editorVars, sudoVars, wizardVars,
                      batchVars, batchRunVars, windowVars>>
       /\ ListingNext

PartsSpec ==
    PartsInit /\ [][PartsNext]_<<area, terminalVars, editorVars, sudoVars, wizardVars,
                               batchVars, batchRunVars, windowVars, listingVars>>

(* What distinguishes two states for TLC: every other variable is as it was at first,
   and at first the variables of a part that does not move have one value. *)
Moving ==
    <<area, CASE area = "terminal" -> terminalVars
              [] area = "editor" -> editorVars
              [] area = "sudo" -> sudoVars
              [] area = "wizard" -> wizardVars
              [] area = "batch" -> batchVars
              [] area = "batchruns" -> batchRunVars
              [] area = "windows" -> windowVars
              [] area = "listing" -> listingVars>>
================================================================================
