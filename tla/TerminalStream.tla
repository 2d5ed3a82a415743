------------------------------ MODULE TerminalStream ------------------------------
(***************************************************************************)
(* How a terminal reaches the browser.  A session is one tmux pane; every  *)
(* page that shows it has a web socket.  The worker captures the pane,     *)
(* numbers what it captured (terminalRenderService), and broadcasts either *)
(* a full frame or a patch of the previous revision.  Captures run in      *)
(* several goroutines: the refresh after output, the full syncs scheduled  *)
(* after a resize, and the reader of each socket, which serves "redraw".   *)
(* The page (TerminalFramePage) keeps the revision it shows, refuses a     *)
(* patch of another one, and refuses frames of a size it has outgrown.     *)
(***************************************************************************)
EXTENDS Naturals, Sequences

CONSTANTS
    Page,         \* the iframes that may show the session
    Background,   \* goroutines of flushStreamRefresh and scheduleStreamFullSync
    Size,         \* window sizes
    ChannelSize,  \* capacity of a subscriber's channel
    MaxQueue,     \* how many requests of a page wait for the worker (bound)
    MaxOutput,    \* how often the program in the pane writes
    MaxResizes,   \* how often the windows are resized, all together
    MaxPageLoads,     \* how often the pages are loaded, all together
    MaxCaptureFailures,  \* how often a capture fails
    MaxDisturbances,  \* how many outputs, resizes and failures there are, all together
    MaxSeq        \* how many sizes one load of a page asks for

ASSUME TerminalAssumption ==
    /\ Size # {}
    /\ {ChannelSize, MaxQueue, MaxOutput, MaxResizes} \subseteq Nat
    /\ {MaxPageLoads, MaxCaptureFailures, MaxDisturbances, MaxSeq} \subseteq Nat
    /\ Page \cap Background = {}

VARIABLES
    pane,         \* what tmux holds: its size and its text
    sessionSize,  \* session.Cols and session.Rows
    resizeSeq,    \* session.ResizeSeq
    rendered,        \* the renderer's state of the session
    streamDirty,        \* streamDirty
    captureStage,        \* where each goroutine is
    captured,     \* the snapshot it has taken
    built,        \* the message it has built
    due,          \* a full sync is scheduled
    refreshers,   \* the goroutine that runs flushStreamRefresh
    subscriber,          \* the subscriber of each page
    inbox,        \* what the worker has sent to each page
    outbox,       \* what the page has sent
    sock,         \* the page's web socket
    pageBox,          \* the size of the page's container
    dims,         \* the size of its xterm
    desired,      \* desiredResizeRef
    pageSeq,      \* its terminalResizeSequence
    revision,     \* streamRevisionRef
    shown,        \* what its xterm displays
    redrawDue,    \* one of its redraw timers is running
    outputs, resizes, pageLoads, captureFailures

render == <<rendered, captureStage, captured, built, due, refreshers>>
tmux == <<pane, sessionSize, resizeSeq>>
socket == <<subscriber, inbox, outbox, sock>>
pageScreen == <<dims, desired, pageSeq, revision, shown>>
terminalCounts == <<outputs, resizes, pageLoads, captureFailures>>
terminalVars ==
    <<render, tmux, streamDirty, socket, pageScreen, pageBox, redrawDue, terminalCounts>>

Job == Page \cup Background
PaneText == 0..MaxOutput          \* 0: nothing visible
Mixed == MaxOutput + 1        \* rows of one frame in a terminal of another size
Frame == [size : Size, text : PaneText]
Message == [kind : {"none", "full", "patch"}, base : Nat, rev : Nat, seq : Nat, frame : Frame]
Desire == [size : Size, seq : Nat, expired : BOOLEAN, satisfied : BOOLEAN]

Blank == [size |-> CHOOSE z \in Size : TRUE, text |-> 0]
NoMessage == [kind |-> "none", base |-> 0, rev |-> 0, seq |-> 0, frame |-> Blank]
NoDesire == [size |-> Blank.size, seq |-> 0, expired |-> FALSE, satisfied |-> FALSE]
Redraw == [kind |-> "redraw", size |-> Blank.size, seq |-> 0]
Resize(z, n) == [kind |-> "resize", size |-> z, seq |-> n]

TerminalInit ==
    /\ pane \in [size : Size, text : {0}]
    /\ sessionSize = pane.size
    /\ resizeSeq = 0
    /\ rendered = [rev |-> 0, frame |-> Blank]
    /\ streamDirty = FALSE
    /\ captureStage = [j \in Job |-> "idle"]
    /\ captured = [j \in Job |-> Blank]
    /\ built = [j \in Job |-> NoMessage]
    /\ due = FALSE
    /\ refreshers = {}
    /\ subscriber = [p \in Page |-> "none"]
    /\ inbox = [p \in Page |-> <<>>]
    /\ outbox = [p \in Page |-> <<>>]
    /\ sock = [p \in Page |-> "none"]
    /\ pageBox = [p \in Page |-> Blank.size]
    /\ dims = [p \in Page |-> Blank.size]
    /\ desired = [p \in Page |-> NoDesire]
    /\ pageSeq = [p \in Page |-> 0]
    /\ revision = [p \in Page |-> 0]
    /\ shown = [p \in Page |-> 0]
    /\ redrawDue = [p \in Page |-> FALSE]
    /\ outputs = 0 /\ resizes = 0 /\ pageLoads = 0 /\ captureFailures = 0

--------------------------------------------------------------------------------
(* The worker: captures.                                                   *)

(* Bound: so far there were few enough events from outside. *)
MayDisturb == outputs + resizes + captureFailures < MaxDisturbances

Subscribed(p) == subscriber[p] \in {"attached", "reading"}

Proceed(j, where) ==
    /\ captureStage' = [captureStage EXCEPT ![j] = where]
    /\ refreshers' = IF where = "idle" THEN refreshers \ {j} ELSE refreshers

(* The program in the pane writes; it may also clear the screen.  The bridge
   reports it to requestStreamRefresh, which does nothing when no page listens. *)
PaneWrites ==
    /\ MayDisturb /\ outputs < MaxOutput
    /\ outputs' = outputs + 1
    /\ \E text \in {0, outputs + 1} : pane' = [pane EXCEPT !.text = text]
    /\ streamDirty' = (streamDirty \/ \E p \in Page : Subscribed(p))
    /\ UNCHANGED <<sessionSize, resizeSeq, render, socket, pageScreen, pageBox,
                  redrawDue, resizes, pageLoads, captureFailures>>

(* One goroutine at a time refreshes; it captures when something was written. *)
RefreshStart(b) ==
    /\ captureStage[b] = "idle" /\ streamDirty /\ refreshers = {}
    /\ streamDirty' = FALSE
    /\ refreshers' = {b}
    /\ captureStage' = [captureStage EXCEPT ![b] = "measure"]
    /\ UNCHANGED <<rendered, captured, built, due, tmux, socket, pageScreen, pageBox,
                  redrawDue, terminalCounts>>

SyncStart(b) ==
    /\ captureStage[b] = "idle" /\ due
    /\ due' = FALSE
    /\ Proceed(b, "measure")
    /\ UNCHANGED <<rendered, captured, built, tmux, streamDirty, socket, pageScreen,
                  pageBox, redrawDue, terminalCounts>>

(* SnapshotSession asks tmux for the size of the pane and puts it into the
   session; then it captures the text.  The snapshot gets the size that the
   session has by then. *)
MeasurePane(j) ==
    /\ captureStage[j] \in {"measure", "measured only"}
    /\ sessionSize' = pane.size
    /\ Proceed(j, IF captureStage[j] = "measure" THEN "capture" ELSE "idle")
    /\ UNCHANGED <<rendered, captured, built, due, pane, resizeSeq, streamDirty, socket,
                  pageScreen, pageBox, redrawDue, terminalCounts>>

CapturePane(j) ==
    /\ captureStage[j] = "capture"
    /\ captured' = [captured EXCEPT ![j] = [size |-> sessionSize, text |-> pane.text]]
    /\ Proceed(j, "build")
    /\ UNCHANGED <<rendered, built, due, tmux, streamDirty, socket, pageScreen, pageBox,
                  redrawDue, terminalCounts>>

(* tmux does not answer in time: nothing is published. *)
CapturePaneFails(j) ==
    /\ captureStage[j] = "capture" /\ (j \in Page => subscriber[j] # "attached")
    /\ MayDisturb /\ captureFailures < MaxCaptureFailures
    /\ captureFailures' = captureFailures + 1
    /\ Proceed(j, "idle")
    /\ UNCHANGED <<rendered, captured, built, due, tmux, streamDirty, socket,
                  pageScreen, pageBox, redrawDue, outputs, resizes, pageLoads>>

FullFrame(c) == [kind |-> "full", base |-> 0, rev |-> c.rev, seq |-> 0, frame |-> c.frame]
RowPatch(c) ==
    [kind |-> "patch", base |-> c.rev - 1, rev |-> c.rev, seq |-> 0, frame |-> c.frame]

(* As if only a change of the size were a new revision. *)
RevisedBySize(c, f) ==
    IF c.rev > 0 /\ c.frame.size = f.size THEN [c EXCEPT !.frame = f]
    ELSE [rev |-> c.rev + 1, frame |-> f]

(* A frame that differs from the cached one is a new revision. *)
Revised(c, f) == IF c.rev > 0 /\ c.frame = f THEN c ELSE [rev |-> c.rev + 1, frame |-> f]

(* As if a change of the size were sent as rows, too. *)
BuiltAlwaysAsRows(old, new, force) ==
    IF old.rev = 0 \/ force THEN {FullFrame(new)}
    ELSE IF new = old THEN {NoMessage}
    ELSE {FullFrame(new), RowPatch(new)}

(* buildMessage, under the renderer's mutex.  Whether a change that keeps the
   size is sent as rows or as a frame depends on the rows. *)
Built(old, new, force) ==
    IF old.rev = 0 \/ force THEN {FullFrame(new)}
    ELSE IF new = old THEN {NoMessage}
    ELSE IF old.frame.size # new.frame.size THEN {FullFrame(new)}
    ELSE {FullFrame(new), RowPatch(new)}

BuildMessage(j) ==
    /\ captureStage[j] = "build"
    /\ rendered' = Revised(rendered, captured[j])
    /\ \E m \in Built(rendered, rendered', j \notin refreshers) :
         /\ built' = [built EXCEPT ![j] = m]
         /\ Proceed(j, IF m = NoMessage THEN "idle" ELSE "send")
    /\ captured' = [captured EXCEPT ![j] = Blank]
    /\ UNCHANGED <<due, tmux, streamDirty, socket, pageScreen, pageBox, redrawDue,
                  terminalCounts>>

(* broadcastStreamMessage: a subscriber whose channel is full is dropped. *)
Broadcast(j) ==
    /\ captureStage[j] = "send" /\ (j \in Page => subscriber[j] # "attached")
    /\ LET m == [built[j] EXCEPT !.seq = resizeSeq] IN
         inbox' = [p \in Page |-> IF Subscribed(p) /\ Len(inbox[p]) < ChannelSize
                                  THEN Append(inbox[p], m) ELSE inbox[p]]
    /\ subscriber' = [p \in Page |-> IF Subscribed(p) /\ Len(inbox[p]) >= ChannelSize
                              THEN "gone" ELSE subscriber[p]]
    /\ Proceed(j, "idle")
    /\ built' = [built EXCEPT ![j] = NoMessage]
    /\ UNCHANGED <<rendered, captured, due, tmux, streamDirty, outbox, sock, pageScreen,
                  pageBox, redrawDue, terminalCounts>>

--------------------------------------------------------------------------------
(* The worker: one socket.                                                 *)

(* Stream subscribes before it takes the first snapshot. *)
Attach(p) ==
    /\ sock[p] \in {"connecting", "open"} /\ subscriber[p] = "none" /\ captureStage[p] = "idle"
    /\ subscriber' = [subscriber EXCEPT ![p] = "attached"]
    /\ Proceed(p, "measure")
    /\ UNCHANGED <<rendered, captured, built, due, tmux, streamDirty, inbox, outbox,
                  sock, pageScreen, pageBox, redrawDue, terminalCounts>>

(* The first frame goes to the socket itself, ahead of the channel; then the
   reader and the writer start. *)
WriteInitial(p) ==
    /\ captureStage[p] = "send" /\ subscriber[p] = "attached"
    /\ inbox' = [inbox EXCEPT ![p] = <<built[p]>> \o @]
    /\ subscriber' = [subscriber EXCEPT ![p] = "reading"]
    /\ Proceed(p, "idle")
    /\ built' = [built EXCEPT ![p] = NoMessage]
    /\ UNCHANGED <<rendered, captured, due, tmux, streamDirty, outbox, sock, pageScreen,
                  pageBox, redrawDue, terminalCounts>>

(* readTerminalStreamMessages serves one request after the other.  A resize is
   noted in the session first; tmux is told afterwards, with the size that the
   session then has. *)
Serve(p) ==
    /\ subscriber[p] = "reading" /\ captureStage[p] = "idle" /\ outbox[p] # <<>>
    /\ outbox' = [outbox EXCEPT ![p] = Tail(@)]
    /\ LET m == Head(outbox[p]) IN
         IF m.kind = "redraw"
         THEN Proceed(p, "measure") /\ UNCHANGED <<sessionSize, resizeSeq>>
         ELSE /\ Proceed(p, "resize")
              /\ sessionSize' = m.size
              /\ resizeSeq' = IF m.seq > resizeSeq THEN m.seq ELSE resizeSeq
    /\ UNCHANGED <<rendered, captured, built, due, pane, streamDirty, subscriber, inbox,
                  sock, pageScreen, pageBox, redrawDue, terminalCounts>>

ResizePane(p) ==
    /\ captureStage[p] = "resize"
    /\ pane' = [pane EXCEPT !.size = sessionSize]
    /\ due' = TRUE
    /\ Proceed(p, "measured only")
    /\ UNCHANGED <<rendered, captured, built, sessionSize, resizeSeq, streamDirty,
                  socket, pageScreen, pageBox, redrawDue, terminalCounts>>

(* The socket is gone: the handler returns and unsubscribes. *)
Detach(p) ==
    /\ sock[p] \in {"none", "closed"} /\ subscriber[p] # "none" /\ captureStage[p] = "idle"
    /\ subscriber' = [subscriber EXCEPT ![p] = "none"]
    /\ inbox' = [inbox EXCEPT ![p] = <<>>]
    /\ outbox' = [outbox EXCEPT ![p] = <<>>]
    /\ UNCHANGED <<render, tmux, streamDirty, sock, pageScreen, pageBox, redrawDue,
                  terminalCounts>>

(* A dropped subscriber's channel is drained, then its socket is closed. *)
Hangup(p) ==
    /\ subscriber[p] = "gone" /\ inbox[p] = <<>> /\ sock[p] = "open"
    /\ sock' = [sock EXCEPT ![p] = "closed"]
    /\ UNCHANGED <<render, tmux, streamDirty, subscriber, inbox, outbox, pageScreen,
                  pageBox, redrawDue, terminalCounts>>

--------------------------------------------------------------------------------
(* The page.                                                               *)

Send(p, m) == outbox' = [outbox EXCEPT ![p] = Append(@, m)]
MaySend(p) == Len(outbox[p]) < MaxQueue

(* The iframe is loaded, or loaded again by Retry: the effect makes an xterm and
   opens the socket. *)
LoadPage(p) ==
    /\ pageLoads < MaxPageLoads
    /\ subscriber[p] = "none" /\ captureStage[p] = "idle" /\ sock[p] # "connecting"
    /\ pageLoads' = pageLoads + 1
    /\ sock' = [sock EXCEPT ![p] = "connecting"]
    /\ dims' = [dims EXCEPT ![p] = pageBox[p]]
    /\ desired' = [desired EXCEPT ![p] = NoDesire]
    /\ pageSeq' = [pageSeq EXCEPT ![p] = 0]
    /\ revision' = [revision EXCEPT ![p] = 0]
    /\ shown' = [shown EXCEPT ![p] = 0]
    /\ redrawDue' = [redrawDue EXCEPT ![p] = FALSE]
    /\ UNCHANGED <<render, tmux, streamDirty, subscriber, inbox, outbox, pageBox,
                  outputs, resizes, captureFailures>>

(* sendTerminalResize notes the size it asks for. *)
Desired(p, z) == [size |-> z, seq |-> pageSeq[p] + 1, expired |-> FALSE, satisfied |-> FALSE]

Wants(p, z) ==
    /\ desired' = [desired EXCEPT ![p] = Desired(p, z)]
    /\ pageSeq' = [pageSeq EXCEPT ![p] = @ + 1]
    /\ redrawDue' = [redrawDue EXCEPT ![p] = TRUE]
    /\ dims' = [dims EXCEPT ![p] = z]
    /\ shown' = [shown EXCEPT ![p] = IF dims[p] = z THEN @ ELSE Mixed]

(* onopen: fit, tell the size in any case, and schedule the redraws. *)
Opened(p) ==
    /\ sock[p] = "connecting"
    /\ sock' = [sock EXCEPT ![p] = "open"]
    /\ Wants(p, pageBox[p])
    /\ Send(p, Resize(pageBox[p], pageSeq[p] + 1))
    /\ UNCHANGED <<render, tmux, streamDirty, subscriber, inbox, revision, pageBox,
                  terminalCounts>>

(* The window is resized: the observer schedules fits and redraws. *)
ResizeWindow(p) ==
    /\ MayDisturb /\ resizes < MaxResizes /\ sock[p] # "none"
    /\ resizes' = resizes + 1
    /\ \E z \in Size \ {pageBox[p]} : pageBox' = [pageBox EXCEPT ![p] = z]
    /\ redrawDue' = [redrawDue EXCEPT ![p] = TRUE]
    /\ UNCHANGED <<render, tmux, streamDirty, socket, pageScreen, outputs, pageLoads,
                  captureFailures>>

(* A scheduled fit finds that the container has another size.  What is sent
   before the socket is open is not sent later: onopen drops queued resizes. *)
FitPage(p) ==
    /\ sock[p] # "none" /\ dims[p] # pageBox[p] /\ MaySend(p) /\ pageSeq[p] < MaxSeq
    /\ Wants(p, pageBox[p])
    /\ IF sock[p] = "open" THEN Send(p, Resize(pageBox[p], pageSeq[p] + 1))
       ELSE UNCHANGED outbox
    /\ UNCHANGED <<render, tmux, streamDirty, subscriber, inbox, sock, revision,
                  pageBox, terminalCounts>>

RedrawTimer(p) ==
    /\ redrawDue[p] /\ sock[p] # "connecting" /\ MaySend(p)
    /\ redrawDue' = [redrawDue EXCEPT ![p] = FALSE]
    /\ IF sock[p] = "open" THEN Send(p, Redraw) ELSE UNCHANGED outbox
    /\ UNCHANGED <<render, tmux, streamDirty, subscriber, inbox, sock, pageScreen,
                  pageBox, terminalCounts>>

(* Nine seconds have passed, or three and a half since a frame fitted. *)
Expire(p) ==
    /\ desired[p] # NoDesire /\ ~desired[p].expired
    /\ desired' = [desired EXCEPT ![p].expired = TRUE]
    /\ UNCHANGED <<render, tmux, streamDirty, socket, dims, pageSeq, revision, shown,
                  pageBox, redrawDue, terminalCounts>>

Outgrown(d, m) == d # NoDesire /\ m.seq > 0 /\ m.seq < d.seq

(* shouldIgnoreStaleResizeFrame *)
Ignored(d, m) == Outgrown(d, m) \/ (d # NoDesire /\ d.size # m.frame.size /\ ~d.expired)

(* clearSatisfiedDesiredResize *)
Cleared(d, m) ==
    IF d # NoDesire /\ d.size = m.frame.size /\ (m.seq = 0 \/ m.seq >= d.seq)
    THEN IF ~d.satisfied THEN [d EXCEPT !.satisfied = TRUE]
         ELSE IF d.expired THEN NoDesire ELSE d
    ELSE d

Arriving(p) == Head(inbox[p])
Arrives(p, kind) ==
    /\ sock[p] = "open" /\ subscriber[p] \in {"reading", "gone"}
    /\ inbox[p] # <<>> /\ MaySend(p)
    /\ Arriving(p).kind = kind
    /\ inbox' = [inbox EXCEPT ![p] = Tail(@)]
    /\ UNCHANGED <<render, tmux, streamDirty, subscriber, sock, pageSeq, pageBox,
                  redrawDue, terminalCounts>>

(* A frame of a size the page has outgrown is refused; another one is asked for. *)
RefuseFrame(p) ==
    /\ Arrives(p, "full")
    /\ Ignored(desired[p], Arriving(p))
    /\ Send(p, Redraw)
    /\ UNCHANGED <<dims, desired, revision, shown>>

(* A frame without text after a resize: only its size is taken. *)
BlankFrame(p) ==
    LET m == Arriving(p) IN
    /\ Arrives(p, "full")
    /\ ~Ignored(desired[p], m) /\ desired[p] # NoDesire /\ desired[p].size = m.frame.size
    /\ m.frame.text = 0
    /\ dims' = [dims EXCEPT ![p] = m.frame.size]
    /\ shown' = [shown EXCEPT ![p] = IF dims[p] = m.frame.size THEN @ ELSE Mixed]
    /\ Send(p, Redraw)
    /\ UNCHANGED <<desired, revision>>

ShowFrame(p) ==
    LET m == Arriving(p)
        d == IF desired[p].size = m.frame.size THEN desired[p] ELSE NoDesire
    IN  /\ Arrives(p, "full")
        /\ ~Ignored(desired[p], m)
        /\ d # NoDesire => m.frame.text # 0
        /\ desired' = [desired EXCEPT ![p] = Cleared(d, m)]
        /\ dims' = [dims EXCEPT ![p] = m.frame.size]
        /\ revision' = [revision EXCEPT ![p] = m.rev]
        /\ shown' = [shown EXCEPT ![p] = m.frame.text]
        /\ UNCHANGED outbox

(* A patch of another revision, or of an older size, is refused. *)
WrongBase(p, m) == Outgrown(desired[p], m) \/ m.base # revision[p]

RefusePatch(p) ==
    /\ Arrives(p, "patch")
    /\ WrongBase(p, Arriving(p))
    /\ Send(p, Redraw)
    /\ UNCHANGED <<dims, desired, revision, shown>>

(* What the xterm displays after the rows of a patch: the frame, if it had the
   frame before it, in the same size. *)
Patched(p, m) ==
    IF shown[p] = Mixed \/ dims[p] # m.frame.size \/ revision[p] # m.base THEN Mixed
    ELSE m.frame.text

ShowPatch(p) ==
    LET m == Arriving(p) IN
    /\ Arrives(p, "patch")
    /\ ~WrongBase(p, m)
    /\ revision' = [revision EXCEPT ![p] = m.rev]
    /\ shown' = [shown EXCEPT ![p] = Patched(p, m)]
    /\ UNCHANGED <<dims, desired, outbox>>

--------------------------------------------------------------------------------
Capturing(j) == MeasurePane(j) \/ CapturePane(j) \/ BuildMessage(j) \/ Broadcast(j)

Serving(p) ==
    Attach(p) \/ WriteInitial(p) \/ Serve(p) \/ ResizePane(p) \/ Detach(p) \/ Hangup(p)

Receives(p) ==
    \/ RefuseFrame(p) \/ BlankFrame(p) \/ ShowFrame(p)
    \/ RefusePatch(p) \/ ShowPatch(p)

PageStep(p) ==
    \/ LoadPage(p) \/ Opened(p) \/ ResizeWindow(p) \/ FitPage(p) \/ RedrawTimer(p) \/ Expire(p)
    \/ Receives(p)

TerminalNext ==
    \/ PaneWrites
    \/ \E b \in Background : RefreshStart(b) \/ SyncStart(b)
    \/ \E j \in Job : Capturing(j) \/ CapturePaneFails(j)
    \/ \E p \in Page : Serving(p) \/ PageStep(p)

TerminalSpec == TerminalInit /\ [][TerminalNext]_terminalVars

--------------------------------------------------------------------------------
TerminalTypeOK ==
    /\ pane \in Frame /\ sessionSize \in Size /\ resizeSeq \in Nat
    /\ rendered \in [rev : Nat, frame : Frame]
    /\ streamDirty \in BOOLEAN
    /\ captureStage \in [Job -> {"idle", "measure", "measured only", "capture", "build",
                              "send", "resize"}]
    /\ captured \in [Job -> Frame]
    /\ built \in [Job -> Message]
    /\ due \in BOOLEAN
    /\ refreshers \subseteq {b \in Background : captureStage[b] # "idle"}
    /\ subscriber \in [Page -> {"none", "attached", "reading", "gone"}]
    /\ inbox \in [Page -> Seq(Message)]
    /\ outbox \in [Page -> Seq([kind : {"redraw", "resize"}, size : Size, seq : Nat])]
    /\ sock \in [Page -> {"none", "connecting", "open", "closed"}]
    /\ pageBox \in [Page -> Size] /\ dims \in [Page -> Size]
    /\ desired \in [Page -> Desire]
    /\ pageSeq \in [Page -> Nat] /\ revision \in [Page -> Nat]
    /\ shown \in [Page -> PaneText \cup {Mixed}]
    /\ redrawDue \in [Page -> BOOLEAN]
    /\ outputs \in 0..MaxOutput /\ resizes \in 0..MaxResizes
    /\ pageLoads \in 0..MaxPageLoads /\ captureFailures \in 0..MaxCaptureFailures

(* However captures, broadcasts and requests overlap: a page that has the
   current revision displays the current frame, or it is known to be mixed. *)
ShowsItsRevision ==
    \A p \in Page : revision[p] = rendered.rev /\ rendered.rev > 0 /\ shown[p] # Mixed =>
                       shown[p] = rendered.frame.text

(* A page that waits for no size is in order: its rows are of one frame, and when
   it has the current revision it has its size.  A page with mixed rows therefore
   still waits, and the next frame of the size that it asked for repairs it. *)
SettledFits ==
    \A p \in Page : desired[p] = NoDesire =>
       /\ shown[p] # Mixed
       /\ revision[p] = rendered.rev /\ rendered.rev > 0 => dims[p] = rendered.frame.size
================================================================================
