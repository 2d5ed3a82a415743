------------------------------ MODULE VirtualDesktop ------------------------------
(***************************************************************************)
(* The desktop of one server, shared by several devices.                   *)
(*                                                                         *)
(* The store keeps the windows and a revision (store/sqlite.go); the API   *)
(* accepts a desktop only when it was built on the current revision and    *)
(* answers a conflict with the current one (httpapi/app.go); every device  *)
(* saves after each change without waiting for the save before, merges on  *)
(* a conflict, and polls (frontend VirtualDesktopPage.tsx).                *)
(*                                                                         *)
(* A layout stands for what desktopWindowEqual compares of a window.  The  *)
(* wallpaper is left out.                                                  *)
(***************************************************************************)
EXTENDS Integers, FiniteSets, FiniteSetsExt

CONSTANTS Device,
          Visible,     \* devices that poll: a page in the background does not
          MaxWindows,
          MaxSaves,    \* bound: changes made on each device
          MaxChanges,  \* bound: changes made on all devices
          MaxFaults    \* bound: requests that fail and restarts of the worker

ASSUME DesktopAssumption ==
    /\ IsFiniteSet(Device)
    /\ Visible \subseteq Device
    /\ MaxSaves \in [Device -> Nat]
    /\ MaxChanges \in Nat
    /\ MaxFaults \in Nat
    /\ MaxWindows \in Nat

VARIABLES
    wins,     \* table virtual_desktop_windows
    rev,      \* virtual_desktop_states.revision
    ended,    \* windows whose terminal session was told to close
    reset,    \* the worker's startup reset of the desktops
    resets,   \* resets so far
    shown,    \* the windows on the screen of each device
    base,     \* desktopBaseRevision and desktopBaseWindows
    cache,    \* the query cache: the last state of the server it got
    unsaved,  \* localDesktopRevision
    seq,      \* latestSaveSequence
    save,     \* the save requests of each device, by sequence number
    poll,     \* the poll of each device
    opened,   \* history: windows that were opened
    closed,   \* history: windows that a user closed
    stored,   \* history: windows that the store had
    newest,   \* history: the newest save of each device that was stored
    errors    \* history: failed requests

server  == <<wins, rev, ended, reset, resets>>
screen  == <<shown, base, cache, unsaved>>
history == <<opened, closed, stored, newest, errors>>
vars    == <<server, screen, seq, save, poll, history>>

Window  == 1..MaxWindows
Layout  == 0..2     \* 0 for a window that is not there
Desktop == [Window -> Layout]
State   == [rev : Nat, wins : Desktop]
Seq1(d) == 1..MaxSaves[d]

Blank   == [w \in Window |-> 0]
Initial == [rev |-> 0, wins |-> Blank]
NoSave  == [pc |-> "none", ok |-> FALSE, live |-> FALSE, next |-> Blank,
            base |-> Initial, previous |-> Blank, reply |-> Initial]

Save == [pc       : {"none", "sent", "noted", "answer", "half", "replied"},
         ok       : BOOLEAN,     \* saved, not refused
         live     : BOOLEAN,     \* the device still waits for the response
         next     : Desktop,     \* the windows to save
         base     : State,       \* the state they were made from
         previous : Desktop,     \* the windows the handler found
         reply    : State]

TypeOK ==
    /\ wins \in Desktop
    /\ rev \in Nat
    /\ ended \subseteq Window
    /\ reset \in {"idle", "empty", "found", "bump"}
    /\ resets \in 0..MaxFaults
    /\ shown \in [Device -> Desktop]
    /\ base \in [Device -> State]
    /\ cache \in [Device -> State]
    /\ unsaved \in [Device -> Nat]
    /\ seq \in [Device -> Nat]
    /\ DOMAIN save = Device
    /\ \A d \in Device : save[d] \in [Seq1(d) -> Save] /\ seq[d] \in 0..MaxSaves[d]
    /\ poll \in [Device -> [pc : {"idle", "half", "answered"}, state : State]]
    /\ opened \subseteq Window
    /\ closed \subseteq Window
    /\ stored \subseteq Window
    /\ newest \in [Device -> Nat]
    /\ errors \in 0..MaxFaults

Init ==
    /\ wins = Blank /\ rev = 0
    /\ ended = {} /\ reset = "idle" /\ resets = 0
    /\ shown = [d \in Device |-> Blank]
    /\ base = [d \in Device |-> Initial]
    /\ cache = [d \in Device |-> Initial]
    /\ unsaved = [d \in Device |-> 0]
    /\ seq = [d \in Device |-> 0]
    /\ save = [d \in Device |-> [i \in Seq1(d) |-> NoSave]]
    /\ poll = [d \in Device |-> [pc |-> "idle", state |-> Initial]]
    /\ opened = {} /\ closed = {} /\ stored = {}
    /\ newest = [d \in Device |-> 0] /\ errors = 0

Present(desktop) == {w \in Window : desktop[w] # 0}

--------------------------------------------------------------------------------
(* What a user does.                                                       *)

(* The changes made so far, on all devices. *)
Made == MapThenSumSet(LAMBDA e : seq[e], Device)

(* mutateWindows: the screen changes at once and a save is sent off, based on
   what the device last knew, whether or not earlier saves are under way. *)
Submit(d, next) ==
    LET i == seq[d] + 1 IN
    /\ i \in Seq1(d)
    /\ Made < MaxChanges
    /\ seq' = [seq EXCEPT ![d] = i]
    /\ shown' = [shown EXCEPT ![d] = next]
    /\ unsaved' = [unsaved EXCEPT ![d] = @ + 1]
    /\ save' = [save EXCEPT ![d][i] = [NoSave EXCEPT !.pc = "sent", !.live = TRUE,
                                                     !.next = next, !.base = base[d]]]
    /\ UNCHANGED <<wins, rev, reset, resets, base, cache, poll, stored, newest, errors>>

(* A new window has an id that was never used before, here the next number,
   and the worker has created its terminal: not while it starts. *)
Open(d, w) ==
    /\ w = Cardinality(opened) + 1
    /\ reset = "idle"
    /\ Submit(d, [shown[d] EXCEPT ![w] = 1])
    /\ opened' = opened \cup {w}
    /\ UNCHANGED <<ended, closed>>

(* closeWindow also asks to close the terminal session; the request may fail. *)
Close(d, w) ==
    /\ w \in Present(shown[d])
    /\ Submit(d, [shown[d] EXCEPT ![w] = 0])
    /\ ended' \in {ended, ended \cup {w}}
    /\ closed' = closed \cup {w}
    /\ UNCHANGED opened

(* A window is moved, resized, minimised or raised. *)
Change(d, w) ==
    /\ w \in Present(shown[d])
    /\ Submit(d, [shown[d] EXCEPT ![w] = 3 - @])
    /\ UNCHANGED <<ended, opened, closed>>

--------------------------------------------------------------------------------
(* The PUT handler.                                                        *)

At(d, i, where) == save[d][i].pc = where

(* Mutant: the windows of before the save are those the client started from. *)
FoundByClient(d, i) == save[d][i].base.wins

Found(d, i) == wins

Note(d, i) ==
    /\ At(d, i, "sent")
    /\ save' = [save EXCEPT ![d][i] = [@ EXCEPT !.pc = "noted", !.previous = Found(d, i)]]
    /\ UNCHANGED <<server, screen, seq, poll, history>>

(* Mutant: the revision is not compared. *)
MayCommitAlways(d, i) == TRUE

MayCommit(d, i) == save[d][i].base.rev = rev

(* saveVirtualDesktopStateOnce: one transaction. *)
Commit(d, i) ==
    /\ At(d, i, "noted")
    /\ MayCommit(d, i)
    /\ wins' = save[d][i].next
    /\ rev' = rev + 1
    /\ save' = [save EXCEPT ![d][i] = [@ EXCEPT !.pc = "answer", !.ok = TRUE,
                                                  !.next = Blank, !.base = Initial]]
    /\ stored' = stored \cup Present(wins')
    /\ newest' = [newest EXCEPT ![d] = i]
    /\ UNCHANGED <<ended, reset, resets, screen, seq, poll, opened, closed, errors>>

Refuse(d, i) ==
    /\ At(d, i, "noted")
    /\ ~MayCommit(d, i)
    /\ save' = [save EXCEPT ![d][i] = [@ EXCEPT !.pc = "answer", !.previous = Blank]]
    /\ UNCHANGED <<server, screen, seq, poll, history>>

(* GetVirtualDesktopState, for the response: the windows and the revision are
   read by two statements outside of any transaction. *)
ReadWindows(d, i) ==
    /\ At(d, i, "answer")
    /\ save' = [save EXCEPT ![d][i] = [@ EXCEPT !.pc = "half", !.reply.wins = wins]]
    /\ UNCHANGED <<server, screen, seq, poll, history>>

(* With the revision the response is complete; terminals of windows that were
   found and are no longer there are closed.  Nobody may be waiting for it. *)
Respond(d, i) ==
    LET s == save[d][i] IN
    /\ At(d, i, "half")
    /\ save' = [save EXCEPT ![d][i] = IF s.live THEN [s EXCEPT !.pc = "replied", !.reply.rev = rev,
                                                               !.previous = Blank]
                                                ELSE NoSave]
    /\ ended' = IF s.ok THEN ended \cup (Present(s.previous) \ Present(s.reply.wins)) ELSE ended
    /\ UNCHANGED <<wins, rev, reset, resets, screen, seq, poll, history>>

--------------------------------------------------------------------------------
(* What a device does with a response.                                     *)

Forget(d, i) == save' = [save EXCEPT ![d][i] = NoSave]

(* The pending count becomes n; the effect on [desktop.data,
   localDesktopRevision] shows the cached state when nothing is pending. *)
Settle(d, n, state, known) ==
    /\ unsaved' = [unsaved EXCEPT ![d] = n]
    /\ cache' = [cache EXCEPT ![d] = state]
    /\ shown' = [shown EXCEPT ![d] = IF n = 0 THEN state.wins ELSE @]
    /\ base' = [base EXCEPT ![d] = IF n = 0 THEN state ELSE known]

(* Mutant: a save counts for two. *)
ReleasedTwice(n) == n - 2

Released(n) == IF n = 0 THEN 0 ELSE n - 1

Waiting(d, i) == At(d, i, "replied") /\ save[d][i].live

(* onSuccess: the state becomes the cache and the new base, and a poll under
   way is cancelled. *)
OnSaved(d, i) ==
    LET state == save[d][i].reply IN
    /\ Waiting(d, i)
    /\ save[d][i].ok /\ i = seq[d]
    /\ Settle(d, Released(unsaved[d]), state, state)
    /\ Forget(d, i)
    /\ poll' = [poll EXCEPT ![d] = [pc |-> "idle", state |-> Initial]]
    /\ UNCHANGED <<server, seq, history>>

(* Mutant: the response to a superseded save is ignored altogether. *)
SupersededIgnored(n) == n

Superseded(n) == Released(n)

(* A newer save was sent since, which contains this one's changes. *)
OnSuperseded(d, i) ==
    /\ Waiting(d, i)
    /\ i # seq[d]
    /\ Settle(d, Superseded(unsaved[d]), cache[d], base[d])
    /\ Forget(d, i)
    /\ UNCHANGED <<server, seq, poll, history>>

(* Mutant: what the store has wins over what is new on the screen. *)
MergedRemoteFirst(from, local, remote) ==
    [w \in Window |-> IF local[w] # from[w] /\ from[w] # 0 THEN local[w] ELSE remote[w]]

(* mergeDesktopWindows: what changed on this screen since the base stays, of
   the rest the remote window, and without one the local window. *)
Merged(from, local, remote) ==
    [w \in Window |-> IF local[w] # from[w] \/ remote[w] = 0 THEN local[w] ELSE remote[w]]

OnConflict(d, i) ==
    LET s      == save[d][i]
        merged == Merged(s.base.wins, s.next, s.reply.wins)
    IN  /\ Waiting(d, i)
        /\ ~s.ok /\ i = seq[d]
        /\ base' = [base EXCEPT ![d] = s.reply]
        /\ shown' = [shown EXCEPT ![d] = merged]
        /\ save' = [save EXCEPT ![d][i] = [NoSave EXCEPT !.pc = "sent", !.live = TRUE,
                                                         !.next = merged, !.base = s.reply]]
        /\ UNCHANGED <<server, cache, unsaved, seq, poll, history>>

(* onError: the request failed or its response was lost.  The handler may go
   on all the same. *)
OnError(d, i) ==
    /\ save[d][i].live /\ errors + resets < MaxFaults
    /\ Settle(d, Released(unsaved[d]), cache[d], base[d])
    /\ save' = [save EXCEPT ![d][i] = IF @.pc = "replied" THEN NoSave ELSE [@ EXCEPT !.live = FALSE]]
    /\ errors' = errors + 1
    /\ UNCHANGED <<server, seq, poll, opened, closed, stored, newest>>

(* The request never reached the server, or its cancelled context fails the
   next query: a save that is stored is then not followed up. *)
Aborted(d, i) ==
    /\ save[d][i].pc # "none" /\ ~save[d][i].live
    /\ Forget(d, i)
    /\ UNCHANGED <<server, screen, seq, poll, history>>

--------------------------------------------------------------------------------
(* Polls, and the restart of the worker.                                   *)

(* The GET handler reads the windows, then the revision. *)
PollWindows(d) ==
    /\ d \in Visible
    /\ poll[d].pc = "idle"
    /\ poll' = [poll EXCEPT ![d] = [pc |-> "half", state |-> [rev |-> 0, wins |-> wins]]]
    /\ UNCHANGED <<server, screen, seq, save, history>>

PollRevision(d) ==
    /\ poll[d].pc = "half"
    /\ poll' = [poll EXCEPT ![d] = [pc |-> "answered", state |-> [@.state EXCEPT !.rev = rev]]]
    /\ UNCHANGED <<server, screen, seq, save, history>>

(* Mutant: a state is taken only when its revision is newer. *)
FreshIfNewer(d) == IF poll[d].state.rev > cache[d].rev THEN poll[d].state ELSE cache[d]

Fresh(d) == poll[d].state

PollArrives(d) ==
    /\ poll[d].pc = "answered"
    /\ Settle(d, unsaved[d], Fresh(d), base[d])
    /\ poll' = [poll EXCEPT ![d] = [pc |-> "idle", state |-> Initial]]
    /\ UNCHANGED <<server, seq, save, history>>

(* DeleteAllVirtualDesktopWindows when the worker starts and ends all
   terminals: which desktops have windows, their deletion, and the new
   revisions of the desktops that were found are separate statements.  (With
   no window opened so far it would change nothing.) *)
ResetFind ==
    /\ reset = "idle" /\ errors + resets < MaxFaults
    /\ opened # {}
    /\ resets' = resets + 1
    /\ ended' = ended \cup opened
    /\ reset' = IF Present(wins) = {} THEN "empty" ELSE "found"
    /\ UNCHANGED <<wins, rev, screen, seq, save, poll, history>>

ResetWindows ==
    /\ reset \in {"empty", "found"}
    /\ wins' = Blank
    /\ reset' = IF reset = "found" /\ Present(wins) # {} THEN "bump" ELSE "idle"
    /\ UNCHANGED <<rev, ended, resets, screen, seq, save, poll, history>>

ResetRevision ==
    /\ reset = "bump"
    /\ rev' = rev + 1
    /\ reset' = "idle"
    /\ UNCHANGED <<wins, ended, resets, screen, seq, save, poll, history>>

--------------------------------------------------------------------------------
UserStep(d) == \E w \in Window : Open(d, w) \/ Close(d, w) \/ Change(d, w)

SaveStep(d, i) ==
    \/ Note(d, i)
    \/ Commit(d, i)
    \/ Refuse(d, i)
    \/ ReadWindows(d, i)
    \/ Respond(d, i)
    \/ OnSaved(d, i)
    \/ OnSuperseded(d, i)
    \/ OnConflict(d, i)

PollStep(d) ==
    \/ PollWindows(d)
    \/ PollRevision(d)
    \/ PollArrives(d)

ResetStep ==
    \/ ResetFind
    \/ ResetWindows
    \/ ResetRevision

Next ==
    \/ \E d \in Device :
         \/ UserStep(d)
         \/ PollStep(d)
         \/ \E i \in Seq1(d) : SaveStep(d, i) \/ OnError(d, i) \/ Aborted(d, i)
    \/ ResetStep

Spec == Init /\ [][Next]_vars

(* Requests are carried out and answered, polls go on every five seconds, and
   a worker that started its reset finishes it. *)
Fairness ==
    /\ \A d \in Visible : WF_vars(PollStep(d))
    /\ \A d \in Device : WF_vars(\E i \in Seq1(d) : SaveStep(d, i))
    /\ WF_vars(ResetWindows \/ ResetRevision)

FairSpec == Spec /\ Fairness

--------------------------------------------------------------------------------
(* Safety.                                                                 *)

Pending(d) == {i \in Seq1(d) : save[d][i].live}

(* localDesktopRevision counts the saves that are still to be answered: every
   response and error is counted once, also those of superseded saves.  One
   too many and a poll wipes out unsaved changes, one too few and the device
   never shows what others do again. *)
PendingIsExact == \A d \in Device : unsaved[d] = Cardinality(Pending(d))

(* The saves of a device are sent without waiting for each other and may
   arrive in any order, but an older one is never stored over a newer one. *)
StaleSaveNeverWins ==
    [][\A d \in Device : \A i \in Seq1(d) :
           Commit(d, i) => newest[d] < i]_vars

--------------------------------------------------------------------------------
(* Liveness.                                                               *)

(* A window a user opened reaches the store whatever the others save in the
   meantime, unless a user closes it or a request failed. *)
OpenedIsStored ==
    \A w \in Window :
        w \in opened ~> w \in stored \cup closed \/ errors > 0

(* A window that a save removes from the store takes its terminal with it,
   also when the device that saved did not know of the window, unless a request
   failed. *)
RemovedTerminalEnds ==
    \A w \in Window :
        w \in stored /\ wins[w] = 0 ~> w \in ended \/ wins[w] # 0 \/ errors > 0

(* When nobody changes anything more, all devices that poll come to show what
   the store has, and know its revision. *)
DevicesConverge ==
    <>[](\A d \in Visible : shown[d] = wins /\ base[d] = [rev |-> rev, wins |-> wins])

--------------------------------------------------------------------------------
(* What the API says and the code does not do.                             *)

(* "ShellOrchestra will merge the latest layout and retry" (app.go:5657): a
   save takes no window away that nobody closed.  A state whose windows were
   read before and whose revision was read after another device's save makes
   a base that passes the comparison and lacks that device's window. *)
SavesKeepOpenWindows ==
    [][\A d \in Device : \A i \in Seq1(d) :
           Commit(d, i) => Present(wins) \ Present(wins') \subseteq closed]_vars

================================================================================
