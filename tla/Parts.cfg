SPECIFICATION PartsSpec
CONSTANTS
    p1 = p1
    y1 = y1
    z1 = z1
    z2 = z2
    w1 = w1
    w2 = w2
    f1 = f1
    f2 = f2
    Page = {p1}
    Background = {y1}
    Size = {z1, z2}
    ChannelSize = 1
    MaxQueue = 1
    MaxOutput = 1
    MaxResizes = 1
    MaxPageLoads = 1
    MaxCaptureFailures = 1
    MaxDisturbances = 2
    MaxSeq = 2
    EditorWindow = {w1, w2}
    MaxTyped = 1
    MaxDocumentReads = 2
    MaxEditorOpens = 2
    SudoPath = {f1, f2}
    MaxSudoKeys = 1
    MaxSudoReads = 1
    MaxValidations = 2
    MaxSudoFailures = 1
    a1 = a1
    a2 = a2
    noA = noA
    l1 = l1
    l2 = l2
    noL = noL
    s1 = s1
    e1 = e1
    noS = noS
    Address = {a1, a2}
    NoAddress = noA
    Login = {l1, l2}
    DefaultLogin = l1
    NoLogin = noL
    MaxWizardCalls = 2
    MaxWizardEdits = 2
    MaxWizardRounds = 1
    Script = {s1}
    Example = {e1}
    NoScript = noS
    MaxContent = 3
    b1 = b1
    b2 = b2
    BatchServer = {b1, b2}
    MaxRuns = 2
    RetentionRuns = 1
    MaxDispatches = 2
    MaxBatchFaults = 1
    v1 = v1
    v2 = v2
    t1 = t1
    noV = noV
    AppWindow = {v1, v2}
    TerminalWindow = {t1}
    NoWindow = noV
    MaxTerminalWindows = 1
    g1 = g1
    u1 = u1
    noG = noG
    Dir = {g1}
    ReadOnlyPlace = {u1}
    NoPlace = noG
    MaxFileOps = 2
    MaxListingFaults = 1
INVARIANTS PartsTypeOK ShowsItsRevision SettledFits  VersionNotWritten SavedBelongsTogether PreviewIsOfDraft SavingKeepsEdits OverHasOutcomes QuietRunIsOver ScheduleWaits FocusIsOnTop ListingIsFresh EditorOpensCreated
PROPERTIES WritesAreCleared
VIEW Moving
CHECK_DEADLOCK FALSE
