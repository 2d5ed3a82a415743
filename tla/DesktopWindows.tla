----------------------------- MODULE DesktopWindows -----------------------------
(* The window manager of one virtual desktop page: the stack of windows, which of
   them has the focus, the answers that open a terminal window some time after the
   click, and the guard that asks before a window with unsaved text is closed.
   How the layout is saved and merged is the subject of VirtualDesktop; here the
   outcome of a poll or of a merge is any stack of windows (Replaced).

   The stack is the list of window identifiers in the order of their z_index, the
   topmost last: every operation that raises a window gives it the largest z_index
   plus one.  Place and size are left out, with the pointer moves that only change
   them; a maximised window is remembered because it ignores the pointer. *)
EXTENDS Naturals, Sequences

SX == INSTANCE SequencesExt

CONSTANTS AppWindow,       \* windows of applications that run in the page
          TerminalWindow,  \* windows that show a terminal session
          NoWindow, MaxTerminalWindows

Window == AppWindow \cup TerminalWindow
ASSUME WindowsAssumption ==
    NoWindow \notin Window /\ AppWindow \cap TerminalWindow = {} /\ MaxTerminalWindows \in Nat

VARIABLES
    windows,         \* the stack, bottom first
    minimized, maximized,
    active,          \* activeWindowID
    closeGuards,     \* windows that reported unsaved changes
    pendingClose,    \* the window the dialog "Discard unsaved changes?" is about
    opening,         \* terminal sessions that were asked for and not answered
    pointer,         \* the window that is being dragged or resized
    outside          \* history: the stack was changed from outside and the focus left behind

windowVars == <<windows, minimized, maximized, active, closeGuards, pendingClose, opening,
                pointer, outside>>
focusVars == <<windows, minimized, maximized, active, outside>>
guardVars == <<closeGuards, pendingClose>>

Listed == SX!ToSet(windows)
Without(stack, w) == SX!RemoveFirst(stack, w)
(* As if a window that is raised were also left where it was. *)
BringToFrontTwice(stack, w) == Append(stack, w)
BringToFront(stack, w) == Append(Without(stack, w), w)

\* The topmost window that is not minimized, or none.
TopVisible(stack, hidden) ==
    LET top == SX!SelectLastInSeq(stack, LAMBDA w : w \notin hidden)
    IN IF top = 0 THEN NoWindow ELSE stack[top]

WindowsInit ==
    /\ windows = <<>> /\ minimized = {} /\ maximized = {} /\ active = NoWindow
    /\ closeGuards = {} /\ pendingClose = NoWindow /\ opening = {} /\ pointer = NoWindow
    /\ outside = FALSE

-----------------------------------------------------------------------------
(* Opening windows. *)

Raise(w) ==  \* a new or an old window gets on top, visible and with the focus
    /\ windows' = BringToFront(windows, w) /\ minimized' = minimized \ {w}
    /\ active' = w /\ outside' = FALSE

\* An editor, a log or a tool gets a window of its own.
OpenWindow(w) ==
    w \notin Listed /\ Raise(w) /\ UNCHANGED <<maximized, guardVars, opening, pointer>>

\* An application that has its window already shows that window again.
OpenDesktopApp(w) == Raise(w) /\ UNCHANGED <<maximized, guardVars, opening, pointer>>

TerminalLimitReached ==
    Len(SelectSeq(windows, LAMBDA w : w \in TerminalWindow)) >= MaxTerminalWindows

AskTerminal(w) ==
    /\ w \in TerminalWindow \ (Listed \cup opening) /\ ~TerminalLimitReached
    /\ opening' = opening \cup {w} /\ UNCHANGED <<focusVars, guardVars, pointer>>

TerminalOpened(w) ==
    /\ opening' = opening \ {w} /\ Raise(w) /\ UNCHANGED <<maximized, guardVars, pointer>>

TerminalRefused(w) ==
    /\ opening' = opening \ {w} /\ UNCHANGED <<focusVars, guardVars, pointer>>

-----------------------------------------------------------------------------
(* Title bar, taskbar and pointer. *)

FocusWindow(w) ==
    /\ Raise(w) /\ w \notin minimized /\ UNCHANGED <<maximized, guardVars, opening, pointer>>

RestoreWindow(w) ==  \* also "Show window" of the taskbar's menu
    /\ Raise(w) /\ UNCHANGED <<maximized, guardVars, opening, pointer>>

ToggleMaximize(w) ==
    /\ w \notin minimized /\ Raise(w)
    /\ maximized' = IF w \in maximized THEN maximized \ {w} ELSE maximized \cup {w}
    /\ UNCHANGED <<guardVars, opening, pointer>>

\* The focus goes to the topmost window that is left.
(* As if the focus stayed unless the focused window itself went away. *)
RefocusKept(stack, hidden) ==
    /\ active' = IF active \in hidden \/ active \notin SX!ToSet(stack)
                 THEN (IF stack = <<>> THEN NoWindow ELSE stack[Len(stack)]) ELSE active
    /\ outside' = FALSE
Refocus(stack, hidden) == active' = TopVisible(stack, hidden) /\ outside' = FALSE

MinimizeWindow(w) ==
    /\ w \notin minimized /\ minimized' = minimized \cup {w}
    /\ Refocus(windows, minimized')
    /\ UNCHANGED <<windows, maximized, guardVars, opening, pointer>>

\* What the taskbar takes for the focused window: the focus may point nowhere.
EffectiveActive ==
    IF active \in Listed \ minimized THEN active ELSE TopVisible(windows, minimized)

ActivateTaskbarWindow(w) ==
    \/ EffectiveActive = w /\ MinimizeWindow(w)
    \/ EffectiveActive # w /\ RestoreWindow(w)

BeginPointer(w) ==
    /\ pointer = NoWindow /\ w \notin maximized \cup minimized
    /\ Raise(w) /\ pointer' = w /\ UNCHANGED <<maximized, guardVars, opening>>

PointerDone ==
    /\ pointer # NoWindow /\ pointer' = NoWindow /\ UNCHANGED <<focusVars, guardVars, opening>>

-----------------------------------------------------------------------------
(* Closing, and the guard of unsaved changes. *)

\* The question is withdrawn with the guard it is about.
Guards(guards) ==
    /\ closeGuards' = guards
    /\ pendingClose' = IF pendingClose \in guards THEN pendingClose ELSE NoWindow

\* An editor reports that its text is not saved, or that it is.
ReportGuard(w) ==
    /\ w \in AppWindow
    /\ Guards(IF w \in closeGuards THEN closeGuards \ {w} ELSE closeGuards \cup {w})
    /\ UNCHANGED <<focusVars, opening, pointer>>

CloseWindow(w) ==
    /\ windows' = Without(windows, w)
    /\ minimized' = minimized \ {w} /\ maximized' = maximized \ {w}
    /\ IF w = active THEN Refocus(windows', minimized') ELSE UNCHANGED <<active, outside>>
    /\ Guards(closeGuards \ {w}) /\ UNCHANGED <<opening, pointer>>

RequestClose(w) ==
    \/ w \in closeGuards /\ pendingClose' = w
       /\ UNCHANGED <<focusVars, closeGuards, opening, pointer>>
    \/ w \notin closeGuards /\ CloseWindow(w)

ConfirmClose == pendingClose \in closeGuards /\ CloseWindow(pendingClose)

CancelClose ==
    /\ pendingClose # NoWindow /\ pendingClose' = NoWindow
    /\ UNCHANGED <<focusVars, closeGuards, opening, pointer>>

-----------------------------------------------------------------------------
(* Changes from outside, at any time: VirtualDesktop says when they come. *)

\* The frame of a terminal found that its session is gone.
Unavailable(w) ==
    /\ w \in TerminalWindow /\ windows' = Without(windows, w)
    /\ minimized' = minimized \ {w} /\ maximized' = maximized \ {w}
    /\ outside' = (outside \/ w = active)
    /\ UNCHANGED <<active, guardVars, opening, pointer>>

\* The stack another device left: a window is gone, minimized, or new or raised.
\* An editor that is gone takes its guard along.
Replaced(w, how) ==
    /\ how # "raised" => w \in Listed
    /\ windows' = CASE how = "gone" -> Without(windows, w) [] how = "hidden" -> windows
                    [] how = "raised" -> BringToFront(windows, w)
    /\ minimized' = IF how = "hidden" THEN minimized \cup {w} ELSE minimized \ {w}
    /\ maximized' = IF how = "gone" THEN maximized \ {w} ELSE maximized
    /\ Guards(IF how = "gone" THEN closeGuards \ {w} ELSE closeGuards)
    /\ outside' = TRUE /\ UNCHANGED <<opening, pointer>>

\* A poll gives the focus, when nothing had it, to the window opened last, which may be
\* any of the stack, and waits for the end of a drag.  A merge after a refused save
\* does neither.
TakePoll(w, how) ==
    /\ pointer = NoWindow /\ Replaced(w, how)
    /\ IF active # NoWindow \/ windows' = <<>> THEN UNCHANGED active
       ELSE active' \in SX!ToSet(windows')
TakeMerge(w, how) == Replaced(w, how) /\ UNCHANGED active

WindowsNext ==
    \/ \E w \in AppWindow : OpenWindow(w) \/ OpenDesktopApp(w)
    \/ \E w \in TerminalWindow : AskTerminal(w)
    \/ \E w \in opening : TerminalOpened(w) \/ TerminalRefused(w)
    \/ \E w \in Listed :
          \/ FocusWindow(w) \/ ToggleMaximize(w) \/ MinimizeWindow(w)
          \/ ActivateTaskbarWindow(w) \/ RestoreWindow(w) \/ BeginPointer(w)
          \/ ReportGuard(w) \/ RequestClose(w) \/ Unavailable(w)
    \/ \E w \in Window \ opening, how \in {"gone", "hidden", "raised"} :
          TakePoll(w, how) \/ TakeMerge(w, how)
    \/ PointerDone \/ ConfirmClose \/ CancelClose

-----------------------------------------------------------------------------
(* Properties. *)

\* Every variable has its type; the stack names no window twice.
WindowsTypeOK ==
    /\ windows \in Seq(Window) /\ SX!IsInjective(windows)
    /\ minimized \subseteq Listed /\ maximized \subseteq Listed
    /\ active \in Window \cup {NoWindow} /\ opening \subseteq TerminalWindow
    /\ pointer \in Window \cup {NoWindow} /\ closeGuards \subseteq AppWindow

\* The focus, and with it what is typed, goes to the window on top of all that are
\* visible, never to one that is closed or minimized, whatever was opened, closed,
\* minimized or answered late, unless the stack has been changed from outside since
\* the operator last chose a window.
FocusIsOnTop == outside \/ active = TopVisible(windows, minimized)

================================================================================
