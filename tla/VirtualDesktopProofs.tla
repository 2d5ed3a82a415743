--------------------------- MODULE VirtualDesktopProofs ---------------------------
(* Theorems about VirtualDesktop, for any devices, windows and bounds. *)
EXTENDS VirtualDesktop, FiniteSetTheorems, TLAPS

(* A save with a number that was not given out yet is nobody's. *)
Unsent ==
    \A d \in Device : \A i \in Seq1(d) :
        i > seq[d] => save[d][i].pc = "none" /\ ~save[d][i].live

(* No revision a device or a handler knows lies ahead of the store's. *)
NoFuture ==
    \A d \in Device :
        /\ base[d].rev <= rev
        /\ cache[d].rev <= rev
        /\ poll[d].state.rev <= rev
        /\ \A i \in Seq1(d) : save[d][i].base.rev <= rev /\ save[d][i].reply.rev <= rev

(* Saves that are older than the newest stored one, and could still be
   committed, are based on a revision that has passed. *)
OldIsPast ==
    \A d \in Device :
        /\ newest[d] <= seq[d]
        /\ \A i \in Seq1(d) :
             i <= newest[d] /\ save[d][i].pc \in {"sent", "noted"} => save[d][i].base.rev < rev

(* The newest stored save cannot end in a conflict, so it is never sent again. *)
StoredIsDone ==
    \A d \in Device : \A i \in Seq1(d) :
        i = newest[d] => save[d][i].pc = "none" \/ save[d][i].ok

DesktopInv == TypeOK /\ Unsent /\ PendingIsExact /\ NoFuture /\ OldIsPast /\ StoredIsDone

--------------------------------------------------------------------------------
(* Data.                                                                   *)

(* The constants of the model are of their types. *)
LEMMA DataTypes == /\ Blank \in Desktop
                   /\ Initial \in State
                   /\ NoSave \in Save
<1>1. Blank \in Desktop
  BY DEF Blank, Desktop, Layout
<1>2. Initial \in State
  BY <1>1 DEF Initial, State
<1>3. NoSave \in Save
  BY <1>1, <1>2 DEF NoSave, Save
<1> QED BY <1>1, <1>2, <1>3

(* What the user and the merge make of desktops are desktops. *)
LEMMA DesktopEdits ==
    ASSUME NEW x \in Desktop, NEW w \in Window
    PROVE  /\ [x EXCEPT ![w] = 1] \in Desktop
           /\ [x EXCEPT ![w] = 0] \in Desktop
           /\ x[w] # 0 => [x EXCEPT ![w] = 3 - @] \in Desktop
BY DEF Desktop, Layout

(* mergeDesktopWindows makes a desktop of three. *)
LEMMA MergedType ==
    ASSUME NEW x \in Desktop, NEW y \in Desktop, NEW z \in Desktop
    PROVE  Merged(x, y, z) \in Desktop
BY DEF Desktop, Merged

(* One save request is replaced by r, the others stay as they are. *)
Put(d, i, r) ==
    /\ DOMAIN save' = Device
    /\ \A e \in Device : save'[e] \in [Seq1(e) -> Save]
    /\ \A e \in Device : \A j \in Seq1(e) :
         save'[e][j] = IF e = d /\ j = i THEN r ELSE save[e][j]

(* It is what assigning one element of save does. *)
LEMMA PutSave ==
    ASSUME TypeOK, NEW d \in Device, NEW i \in Seq1(d), NEW r \in Save,
           save' = [save EXCEPT ![d][i] = r]
    PROVE  Put(d, i, r)
<1> HIDE DEF Seq1, Save
<1>1. save' = [save EXCEPT ![d] = [save[d] EXCEPT ![i] = r]]
  OBVIOUS
<1>2. DOMAIN save = Device /\ \A e \in Device : save[e] \in [Seq1(e) -> Save]
  BY DEF TypeOK
<1> QED BY <1>1, <1>2 DEF Put

(* A save as it is, and what each step makes of it. *)
LEMMA SaveType ==
    ASSUME TypeOK, NEW d \in Device, NEW i \in Seq1(d)
    PROVE  save[d][i] \in Save
BY DEF TypeOK

(* mutateWindows sends the next save, based on what the device last knew. *)
LEMMA SubmitPut ==
    ASSUME TypeOK, NEW d \in Device, NEW next \in Desktop, Submit(d, next)
    PROVE  /\ seq[d] + 1 \in Seq1(d)
           /\ \E r \in Save : /\ Put(d, seq[d] + 1, r)
                              /\ r.pc = "sent" /\ r.live
                              /\ r.base = base[d] /\ r.reply = Initial
<1> DEFINE r == [NoSave EXCEPT !.pc = "sent", !.live = TRUE, !.next = next, !.base = base[d]]
<1>1. base[d] \in State
  BY DEF TypeOK
<1>2. r \in Save /\ r.pc = "sent" /\ r.live /\ r.base = base[d] /\ r.reply = Initial
  <2> HIDE DEF State, Desktop, Initial, Blank
  <2> QED BY <1>1, DataTypes DEF NoSave, Save
<1>3. seq[d] + 1 \in Seq1(d) /\ save' = [save EXCEPT ![d][seq[d] + 1] = r]
  BY DEF Submit
<1> HIDE DEF r
<1>4. Put(d, seq[d] + 1, r)
  BY <1>2, <1>3, PutSave
<1> QED BY <1>2, <1>3, <1>4

(* The handler notes the windows it found. *)
LEMMA NotePut ==
    ASSUME TypeOK, NEW d \in Device, NEW i \in Seq1(d), Note(d, i)
    PROVE  \E r \in Save : /\ Put(d, i, r)
                           /\ r.pc = "noted"
                           /\ r.live = save[d][i].live /\ r.ok = save[d][i].ok
                           /\ r.base = save[d][i].base /\ r.reply = save[d][i].reply
<1> DEFINE r == [save[d][i] EXCEPT !.pc = "noted", !.previous = wins]
<1>1. r \in Save /\ r.pc = "noted" /\ r.live = save[d][i].live /\ r.ok = save[d][i].ok
      /\ r.base = save[d][i].base /\ r.reply = save[d][i].reply
  <2>1. wins \in Desktop
    BY DEF TypeOK
  <2> QED BY <2>1, SaveType DEF Save
<1>2. save' = [save EXCEPT ![d][i] = r]
  BY DEF Note, Found
<1> HIDE DEF r
<1> QED BY <1>1, <1>2, PutSave

(* A commit turns the save into an answer that says so. *)
LEMMA CommitPut ==
    ASSUME TypeOK, NEW d \in Device, NEW i \in Seq1(d), Commit(d, i)
    PROVE  \E r \in Save : /\ Put(d, i, r)
                           /\ r.pc = "answer" /\ r.ok
                           /\ r.live = save[d][i].live
                           /\ r.base = Initial /\ r.reply = save[d][i].reply
<1> DEFINE r == [save[d][i] EXCEPT !.pc = "answer", !.ok = TRUE, !.next = Blank, !.base = Initial]
<1>1. r \in Save /\ r.pc = "answer" /\ r.ok /\ r.live = save[d][i].live
      /\ r.base = Initial /\ r.reply = save[d][i].reply
  BY SaveType, DataTypes DEF Save
<1>2. save' = [save EXCEPT ![d][i] = r]
  BY DEF Commit
<1> HIDE DEF r
<1> QED BY <1>1, <1>2, PutSave

(* A refusal turns it into an answer that does not. *)
LEMMA RefusePut ==
    ASSUME TypeOK, NEW d \in Device, NEW i \in Seq1(d), Refuse(d, i)
    PROVE  \E r \in Save : /\ Put(d, i, r)
                           /\ r.pc = "answer"
                           /\ r.live = save[d][i].live /\ r.ok = save[d][i].ok
                           /\ r.base = save[d][i].base /\ r.reply = save[d][i].reply
<1> DEFINE r == [save[d][i] EXCEPT !.pc = "answer", !.previous = Blank]
<1>1. r \in Save /\ r.pc = "answer" /\ r.live = save[d][i].live /\ r.ok = save[d][i].ok
      /\ r.base = save[d][i].base /\ r.reply = save[d][i].reply
  BY SaveType, DataTypes DEF Save
<1>2. save' = [save EXCEPT ![d][i] = r]
  BY DEF Refuse
<1> HIDE DEF r
<1> QED BY <1>1, <1>2, PutSave

(* The answer gets its windows. *)
LEMMA ReadWindowsPut ==
    ASSUME TypeOK, NEW d \in Device, NEW i \in Seq1(d), ReadWindows(d, i)
    PROVE  \E r \in Save : /\ Put(d, i, r)
                           /\ r.pc = "half"
                           /\ r.live = save[d][i].live /\ r.ok = save[d][i].ok
                           /\ r.base = save[d][i].base
                           /\ r.reply.rev = save[d][i].reply.rev
<1> DEFINE x == [save[d][i].reply EXCEPT !.wins = wins]
           r == [save[d][i] EXCEPT !.pc = "half", !.reply = x]
<1>1. wins \in Desktop
  BY DEF TypeOK
<1>2. x \in State /\ x.rev = save[d][i].reply.rev
  BY <1>1, SaveType DEF Save, State
<1>3. save' = [save EXCEPT ![d][i] = r]
  BY DEF ReadWindows
<1> HIDE DEF x
<1>4. r \in Save /\ r.pc = "half" /\ r.live = save[d][i].live /\ r.ok = save[d][i].ok
      /\ r.base = save[d][i].base /\ r.reply = x
  BY <1>2, SaveType DEF Save
<1> HIDE DEF r
<1> QED BY <1>2, <1>3, <1>4, PutSave

(* It gets the present revision, or is dropped when nobody waits. *)
LEMMA RespondPut ==
    ASSUME TypeOK, NEW d \in Device, NEW i \in Seq1(d), Respond(d, i)
    PROVE  \E r \in Save : /\ Put(d, i, r)
                           /\ r.pc \in {"none", "replied"}
                           /\ r.live = save[d][i].live
                           /\ r.pc = "replied" => r.ok = save[d][i].ok
                           /\ r.base.rev \in {0, save[d][i].base.rev}
                           /\ r.reply.rev \in {0, rev}
<1> DEFINE s == save[d][i]
           r == [s EXCEPT !.pc = "replied", !.reply.rev = rev, !.previous = Blank]
<1>1. CASE s.live
  <2>1. [s.reply EXCEPT !.rev = rev] \in State
    <3>1. rev \in Nat
      BY DEF TypeOK
    <3> QED BY <3>1, SaveType DEF Save, State
  <2>2. /\ r \in Save /\ r.pc = "replied" /\ r.live = s.live /\ r.ok = s.ok
        /\ r.base = s.base /\ r.reply.rev = rev
    BY <2>1, SaveType, DataTypes DEF Save, State
  <2>3. save' = [save EXCEPT ![d][i] = r]
    BY <1>1 DEF Respond
  <2> HIDE DEF r
  <2> QED BY <2>2, <2>3, PutSave
<1>2. CASE ~s.live
  <2>1. save' = [save EXCEPT ![d][i] = NoSave]
    BY <1>2 DEF Respond
  <2>2. NoSave.pc = "none" /\ NoSave.live = FALSE /\ NoSave.base.rev = 0 /\ NoSave.reply.rev = 0
    BY DEF NoSave, Initial
  <2>3. s.live \in BOOLEAN
    BY SaveType DEF Save
  <2> QED BY <1>2, <2>1, <2>2, <2>3, DataTypes, PutSave
<1> QED BY <1>1, <1>2

(* A save that is forgotten leaves nothing. *)
LEMMA ForgetPut ==
    ASSUME TypeOK, NEW d \in Device, NEW i \in Seq1(d), Forget(d, i)
    PROVE  /\ Put(d, i, NoSave)
           /\ NoSave.pc = "none" /\ ~NoSave.live
           /\ NoSave.base.rev = 0 /\ NoSave.reply.rev = 0
<1>1. Put(d, i, NoSave)
  BY DataTypes, PutSave DEF Forget
<1> QED BY <1>1 DEF NoSave, Initial

(* A conflict is merged and sent again on the state it was answered with. *)
LEMMA OnConflictPut ==
    ASSUME TypeOK, NEW d \in Device, NEW i \in Seq1(d), OnConflict(d, i)
    PROVE  \E r \in Save : /\ Put(d, i, r)
                           /\ r.pc = "sent" /\ r.live
                           /\ r.base = save[d][i].reply /\ r.reply = Initial
<1> DEFINE s == save[d][i]
           merged == Merged(s.base.wins, s.next, s.reply.wins)
           r == [NoSave EXCEPT !.pc = "sent", !.live = TRUE, !.next = merged, !.base = s.reply]
<1>1. /\ s.reply \in State /\ s.next \in Desktop
      /\ s.base.wins \in Desktop /\ s.reply.wins \in Desktop
  BY SaveType DEF Save, State
<1>2. merged \in Desktop
  BY <1>1, MergedType
<1> HIDE DEF merged
<1>3. r \in Save /\ r.pc = "sent" /\ r.live /\ r.base = s.reply /\ r.reply = Initial
  BY <1>1, <1>2, DataTypes DEF NoSave, Save
<1>4. save' = [save EXCEPT ![d][i] = r]
  BY DEF OnConflict, merged
<1> HIDE DEF r
<1> QED BY <1>3, <1>4, PutSave

(* After an error nobody waits; the handler may go on. *)
LEMMA OnErrorPut ==
    ASSUME TypeOK, NEW d \in Device, NEW i \in Seq1(d), OnError(d, i)
    PROVE  \E r \in Save : /\ Put(d, i, r)
                           /\ r.pc \in {"none", save[d][i].pc} /\ ~r.live
                           /\ r.pc # "none" => r.ok = save[d][i].ok
                           /\ r.base.rev \in {0, save[d][i].base.rev}
                           /\ r.reply.rev \in {0, save[d][i].reply.rev}
<1> DEFINE s == save[d][i]
           r == [s EXCEPT !.live = FALSE]
<1>1. CASE s.pc = "replied"
  <2>1. save' = [save EXCEPT ![d][i] = NoSave]
    BY <1>1 DEF OnError
  <2> QED BY <2>1, ForgetPut, DataTypes DEF Forget
<1>2. CASE s.pc # "replied"
  <2>1. /\ r \in Save /\ r.pc = s.pc /\ ~r.live /\ r.ok = s.ok
        /\ r.base = s.base /\ r.reply = s.reply
    BY SaveType DEF Save
  <2>2. save' = [save EXCEPT ![d][i] = r]
    BY <1>2 DEF OnError
  <2> HIDE DEF r
  <2> QED BY <2>1, <2>2, PutSave
<1> QED BY <1>1, <1>2

--------------------------------------------------------------------------------
(* Types.                                                                  *)

(* The callbacks of the page keep types when they are given states. *)
LEMMA SettleType ==
    ASSUME TypeOK, NEW d \in Device, NEW n \in Nat, NEW x \in State, NEW y \in State,
           Settle(d, n, x, y)
    PROVE  /\ unsaved' \in [Device -> Nat]
           /\ cache' \in [Device -> State]
           /\ shown' \in [Device -> Desktop]
           /\ base' \in [Device -> State]
<1>1. x.wins \in Desktop
  BY DEF State
<1> HIDE DEF State, Desktop
<1> QED BY <1>1 DEF Settle, TypeOK

(* The pending count never becomes negative. *)
LEMMA ReleasedType == \A n \in Nat : Released(n) \in Nat /\ Superseded(n) \in Nat
BY DEF Released, Superseded

(* A change of the user keeps all types. *)
LEMMA SubmitType ==
    ASSUME TypeOK, NEW d \in Device, NEW next \in Desktop, Submit(d, next),
           ended' \subseteq Window, opened' \subseteq Window, closed' \subseteq Window
    PROVE  TypeOK'
<1>1. PICK r \in Save : Put(d, seq[d] + 1, r)
  BY SubmitPut
<1>2. /\ DOMAIN save' = Device
      /\ \A e \in Device : save'[e] \in [Seq1(e) -> Save]
  BY <1>1 DEF Put
<1>3. /\ seq' \in [Device -> Nat]
      /\ \A e \in Device : seq'[e] \in 0..MaxSaves[e]
  BY DesktopAssumption DEF DesktopAssumption, Submit, TypeOK, Seq1
<1>4. unsaved' \in [Device -> Nat] /\ shown' \in [Device -> Desktop]
  BY DEF Submit, TypeOK
<1> HIDE DEF Save, State, Desktop, Seq1
<1> QED BY <1>2, <1>3, <1>4 DEF Submit, TypeOK

(* What the steps of a save leave as it is, or change within its type. *)
LEMMA PutType ==
    ASSUME TypeOK, NEW d \in Device, NEW i \in Seq1(d), NEW r, Put(d, i, r),
           UNCHANGED <<reset, resets, seq, opened, closed>>,
           wins' \in Desktop, rev' \in Nat, ended' \subseteq Window, stored' \subseteq Window,
           unsaved' \in [Device -> Nat], cache' \in [Device -> State],
           shown' \in [Device -> Desktop], base' \in [Device -> State],
           poll' \in [Device -> [pc : {"idle", "half", "answered"}, state : State]],
           newest' \in [Device -> Nat], errors' \in 0..MaxFaults
    PROVE  TypeOK'
<1> HIDE DEF Save, State, Desktop, Seq1
<1>1. DOMAIN save' = Device /\ \A e \in Device : save'[e] \in [Seq1(e) -> Save]
  BY DEF Put
<1> QED BY <1>1 DEF TypeOK

(* So does every step. *)
LEMMA TypeStep ==
    ASSUME TypeOK, Next
    PROVE  TypeOK'
<1> USE DEF TypeOK, server, screen, history
<1>0. ASSUME NEW d \in Device, UserStep(d) PROVE TypeOK'
  <2>1. ASSUME NEW w \in Window, Open(d, w) PROVE TypeOK'
    <3>1. [shown[d] EXCEPT ![w] = 1] \in Desktop
      BY DesktopEdits
    <3> QED BY <2>1, <3>1, SubmitType DEF Open
  <2>2. ASSUME NEW w \in Window, Close(d, w) PROVE TypeOK'
    <3>1. [shown[d] EXCEPT ![w] = 0] \in Desktop
      BY DesktopEdits
    <3> QED BY <2>2, <3>1, SubmitType DEF Close
  <2>3. ASSUME NEW w \in Window, Change(d, w) PROVE TypeOK'
    <3>1. [shown[d] EXCEPT ![w] = 3 - @] \in Desktop
      BY <2>3, DesktopEdits DEF Change, Present
    <3> QED BY <2>3, <3>1, SubmitType DEF Change
  <2> QED BY <1>0, <2>1, <2>2, <2>3 DEF UserStep
<1>1. ASSUME NEW d \in Device, NEW i \in Seq1(d), SaveStep(d, i) PROVE TypeOK'
  <2>1. CASE Note(d, i)
    BY <2>1, NotePut, PutType DEF Note
  <2>2. CASE Commit(d, i)
    <3>1. save[d][i].next \in Desktop
      BY SaveType DEF Save
    <3>2. rev' \in Nat /\ newest' \in [Device -> Nat]
      BY <2>2 DEF Commit, Seq1
    <3>3. stored' \subseteq Window
      BY <2>2 DEF Commit, Present
    <3> QED BY <2>2, <3>1, <3>2, <3>3, CommitPut, PutType DEF Commit
  <2>3. CASE Refuse(d, i)
    BY <2>3, RefusePut, PutType DEF Refuse
  <2>4. CASE ReadWindows(d, i)
    BY <2>4, ReadWindowsPut, PutType DEF ReadWindows
  <2>5. CASE Respond(d, i)
    <3>1. ended' \subseteq Window
      BY <2>5 DEF Respond, Present
    <3> QED BY <2>5, <3>1, RespondPut, PutType DEF Respond
  <2>6. CASE OnSaved(d, i)
    <3>1. save[d][i].reply \in State
      BY SaveType DEF Save
    <3>2. Released(unsaved[d]) \in Nat
      BY ReleasedType
    <3>3. /\ unsaved' \in [Device -> Nat] /\ cache' \in [Device -> State]
          /\ shown' \in [Device -> Desktop] /\ base' \in [Device -> State]
      BY <2>6, <3>1, <3>2, SettleType DEF OnSaved
    <3>4. poll' \in [Device -> [pc : {"idle", "half", "answered"}, state : State]]
      BY <2>6, DataTypes DEF OnSaved
    <3> QED BY <2>6, <3>3, <3>4, ForgetPut, PutType DEF OnSaved
  <2>7. CASE OnSuperseded(d, i)
    <3>1. Superseded(unsaved[d]) \in Nat
      BY ReleasedType
    <3>2. /\ unsaved' \in [Device -> Nat] /\ cache' \in [Device -> State]
          /\ shown' \in [Device -> Desktop] /\ base' \in [Device -> State]
      BY <2>7, <3>1, SettleType DEF OnSuperseded
    <3> QED BY <2>7, <3>2, ForgetPut, PutType DEF OnSuperseded
  <2>8. CASE OnConflict(d, i)
    <3> DEFINE s == save[d][i]
    <3>1. s.reply \in State /\ Merged(s.base.wins, s.next, s.reply.wins) \in Desktop
      <4>1. /\ s.reply \in State /\ s.next \in Desktop
            /\ s.base.wins \in Desktop /\ s.reply.wins \in Desktop
        BY SaveType DEF Save, State
      <4> QED BY <4>1, MergedType
    <3>2. base' \in [Device -> State] /\ shown' \in [Device -> Desktop]
      <4> DEFINE merged == Merged(s.base.wins, s.next, s.reply.wins)
      <4>1. base' = [base EXCEPT ![d] = s.reply] /\ shown' = [shown EXCEPT ![d] = merged]
        BY <2>8 DEF OnConflict
      <4> HIDE DEF merged, s, State, Desktop
      <4>2. s.reply \in State /\ merged \in Desktop
        BY <3>1 DEF merged
      <4> QED BY <4>1, <4>2
    <3>3. PICK r \in Save : Put(d, i, r)
      BY <2>8, OnConflictPut
    <3>4. UNCHANGED <<server, cache, unsaved, seq, poll, history>>
      BY <2>8 DEF OnConflict
    <3> QED
      <4> HIDE DEF s, State, Desktop, Save, Seq1, Put
      <4> QED BY <3>2, <3>3, <3>4, PutType
  <2> QED BY <1>1, <2>1, <2>2, <2>3, <2>4, <2>5, <2>6, <2>7, <2>8 DEF SaveStep
<1>2. ASSUME NEW d \in Device, NEW i \in Seq1(d), OnError(d, i) PROVE TypeOK'
  <2>1. Released(unsaved[d]) \in Nat
    BY ReleasedType
  <2>2. /\ unsaved' \in [Device -> Nat] /\ cache' \in [Device -> State]
        /\ shown' \in [Device -> Desktop] /\ base' \in [Device -> State]
    <3>1. PICK a \in State, b \in State : Settle(d, Released(unsaved[d]), a, b)
      BY <1>2 DEF OnError
    <3> HIDE DEF State, Desktop
    <3> QED BY <2>1, <3>1, SettleType
  <2>3. errors' \in 0..MaxFaults
    BY <1>2, DesktopAssumption DEF DesktopAssumption, OnError
  <2> QED BY <1>2, <2>2, <2>3, OnErrorPut, PutType DEF OnError
<1>3. ASSUME NEW d \in Device, NEW i \in Seq1(d), Aborted(d, i) PROVE TypeOK'
  BY <1>3, ForgetPut, PutType DEF Aborted
<1>4. ASSUME NEW d \in Device, PollStep(d) PROVE TypeOK'
  <2>1. CASE PollWindows(d)
    <3>1. [rev |-> 0, wins |-> wins] \in State
      BY DEF State
    <3> HIDE DEF State, Desktop
    <3> QED BY <2>1, <3>1 DEF PollWindows
  <2>2. CASE PollRevision(d)
    <3>1. poll[d].state \in State /\ rev \in Nat
      <4> HIDE DEF State
      <4> QED OBVIOUS
    <3>2. [poll[d].state EXCEPT !.rev = rev] \in State
      BY <3>1 DEF State
    <3> HIDE DEF State, Desktop
    <3> QED BY <2>2, <3>2 DEF PollRevision
  <2>3. CASE PollArrives(d)
    <3>1. Fresh(d) \in State
      BY DEF Fresh
    <3>2. /\ unsaved' \in [Device -> Nat] /\ cache' \in [Device -> State]
          /\ shown' \in [Device -> Desktop] /\ base' \in [Device -> State]
      BY <2>3, <3>1, SettleType DEF PollArrives
    <3> QED BY <2>3, <3>2, DataTypes DEF PollArrives
  <2> QED BY <1>4, <2>1, <2>2, <2>3 DEF PollStep
<1>5. CASE ResetStep
  <2>1. CASE ResetFind
    BY <2>1, DesktopAssumption DEF DesktopAssumption, ResetFind
  <2>2. CASE ResetWindows
    BY <2>2, DataTypes DEF ResetWindows
  <2>3. CASE ResetRevision
    BY <2>3 DEF ResetRevision
  <2> QED BY <1>5, <2>1, <2>2, <2>3 DEF ResetStep
<1> QED BY <1>0, <1>1, <1>2, <1>3, <1>4, <1>5 DEF Next

--------------------------------------------------------------------------------
(* The count of pending saves.                                             *)

(* A device has finitely many saves. *)
LEMMA PendingFinite ==
    ASSUME NEW d \in Device
    PROVE  IsFiniteSet(Pending(d)) /\ Cardinality(Pending(d)) \in Nat
<1>1. IsFiniteSet(Seq1(d))
  BY DesktopAssumption, FS_Interval DEF DesktopAssumption, Seq1
<1>2. IsFiniteSet(Pending(d))
  BY <1>1, FS_Subset DEF Pending
<1> QED BY <1>2, FS_CardinalityType

(* Only the save that is replaced can enter or leave the pending ones. *)
LEMMA PutCounts ==
    ASSUME TypeOK, NEW d \in Device, NEW i \in Seq1(d), NEW r \in Save, Put(d, i, r)
    PROVE  /\ \A e \in Device : e # d => Pending(e)' = Pending(e)
           /\ r.live = save[d][i].live => Pending(d)' = Pending(d)
           /\ r.live /\ ~save[d][i].live =>
                Cardinality(Pending(d)') = Cardinality(Pending(d)) + 1
           /\ ~r.live /\ save[d][i].live =>
                /\ Cardinality(Pending(d)') = Cardinality(Pending(d)) - 1
                /\ Cardinality(Pending(d)) > 0
<1>1. ASSUME NEW e \in Device, e # d PROVE Pending(e)' = Pending(e)
  BY <1>1 DEF Put, Pending
<1>2. r.live = save[d][i].live => Pending(d)' = Pending(d)
  BY DEF Put, Pending
<1>3. ASSUME r.live, ~save[d][i].live
      PROVE  Cardinality(Pending(d)') = Cardinality(Pending(d)) + 1
  <2>1. Pending(d)' = Pending(d) \cup {i} /\ i \notin Pending(d)
    BY <1>3 DEF Put, Pending
  <2> QED BY <2>1, PendingFinite, FS_AddElement
<1>4. ASSUME ~r.live, save[d][i].live
      PROVE  /\ Cardinality(Pending(d)') = Cardinality(Pending(d)) - 1
             /\ Cardinality(Pending(d)) > 0
  <2>1. Pending(d)' = Pending(d) \ {i} /\ i \in Pending(d)
    BY <1>4 DEF Put, Pending
  <2>2. Cardinality(Pending(d)') = Cardinality(Pending(d)) - 1
    BY <2>1, PendingFinite, FS_RemoveElement
  <2>3. Cardinality(Pending(d)) # 0
    BY <2>1, PendingFinite, FS_EmptySet
  <2> QED BY <2>2, <2>3, PendingFinite
<1> QED BY <1>1, <1>2, <1>3, <1>4

(* A step that changes nobody's waiting leaves the counts alone. *)
LEMMA SameCount ==
    ASSUME TypeOK, PendingIsExact, NEW d \in Device, NEW i \in Seq1(d), NEW r \in Save,
           Put(d, i, r), r.live = save[d][i].live, UNCHANGED unsaved
    PROVE  PendingIsExact'
<1>1. \A e \in Device : Pending(e)' = Pending(e)
  BY PutCounts
<1> QED BY <1>1 DEF PendingIsExact

(* A save whose answer is taken leaves the pending ones and is counted off. *)
LEMMA OneLess ==
    ASSUME TypeOK, PendingIsExact, NEW d \in Device, NEW i \in Seq1(d), NEW r \in Save,
           Put(d, i, r), save[d][i].live, ~r.live,
           unsaved' = [unsaved EXCEPT ![d] = Released(unsaved[d])]
    PROVE  PendingIsExact'
<1> SUFFICES ASSUME NEW e \in Device PROVE unsaved'[e] = Cardinality(Pending(e)')
  BY DEF PendingIsExact
<1>1. CASE e = d
  <2>1. /\ Cardinality(Pending(d)') = Cardinality(Pending(d)) - 1
        /\ Cardinality(Pending(d)) > 0
    BY PutCounts
  <2>2. unsaved'[d] = Released(unsaved[d]) /\ unsaved[d] = Cardinality(Pending(d))
    BY DEF TypeOK, PendingIsExact
  <2> QED BY <1>1, <2>1, <2>2, PendingFinite DEF Released
<1>2. CASE e # d
  <2>1. Pending(e)' = Pending(e)
    BY <1>2, PutCounts
  <2>2. unsaved'[e] = unsaved[e]
    BY <1>2 DEF TypeOK
  <2> QED BY <2>1, <2>2 DEF PendingIsExact
<1> QED BY <1>1, <1>2

(* A new save is pending, and no other changes. *)
LEMMA SubmitCounts ==
    ASSUME TypeOK, Unsent, PendingIsExact, NEW d \in Device, NEW next \in Desktop, Submit(d, next)
    PROVE  Unsent' /\ PendingIsExact'
<1>1. /\ seq[d] + 1 \in Seq1(d)
      /\ seq' = [seq EXCEPT ![d] = seq[d] + 1]
      /\ unsaved' = [unsaved EXCEPT ![d] = unsaved[d] + 1]
      /\ seq[d] \in Nat
  BY SubmitPut DEF Submit, TypeOK
<1>2. PICK r \in Save : Put(d, seq[d] + 1, r) /\ r.live
  BY SubmitPut
<1>3. ~save[d][seq[d] + 1].live
  BY <1>1 DEF Unsent
<1>4. Unsent'
  <2> SUFFICES ASSUME NEW e \in Device, NEW j \in Seq1(e), j > seq'[e]
               PROVE  save'[e][j].pc = "none" /\ ~save'[e][j].live
    BY DEF Unsent, Seq1
  <2>1. j > seq[e] /\ (e = d => j # seq[d] + 1)
    BY <1>1 DEF TypeOK, Seq1
  <2>2. save'[e][j] = save[e][j]
    BY <1>2, <2>1 DEF Put
  <2> QED BY <2>1, <2>2 DEF Unsent
<1>5. ASSUME NEW e \in Device PROVE unsaved'[e] = Cardinality(Pending(e)')
  <2>1. CASE e = d
    <3>1. Cardinality(Pending(d)') = Cardinality(Pending(d)) + 1
      BY <1>1, <1>2, <1>3, PutCounts
    <3> QED BY <1>1, <2>1, <3>1 DEF PendingIsExact, TypeOK
  <2>2. CASE e # d
    <3>1. Pending(e)' = Pending(e)
      BY <1>1, <1>2, <2>2, PutCounts
    <3> QED BY <1>1, <2>2, <3>1 DEF PendingIsExact, TypeOK
  <2> QED BY <2>1, <2>2
<1> QED BY <1>4, <1>5 DEF PendingIsExact

(* What is not yet sent stays so when a save that was sent is replaced. *)
LEMMA StillUnsent ==
    ASSUME TypeOK, Unsent, NEW d \in Device, NEW i \in Seq1(d), NEW r,
           Put(d, i, r), save[d][i].pc # "none" \/ save[d][i].live, UNCHANGED seq
    PROVE  Unsent'
BY DEF Unsent, Put, Seq1

(* Every step adds to the count what it adds to the pending saves. *)
LEMMA PendingStep ==
    ASSUME TypeOK, Unsent, PendingIsExact, Next
    PROVE  Unsent' /\ PendingIsExact'
<1> USE DEF server, screen, history
<1>1. ASSUME NEW d \in Device, UserStep(d) PROVE Unsent' /\ PendingIsExact'
  <2>1. PICK next \in Desktop : Submit(d, next)
    <3> HIDE DEF Desktop
    <3>1. shown[d] \in Desktop
      BY DEF TypeOK
    <3> QED BY <1>1, <3>1, DesktopEdits DEF UserStep, Open, Close, Change, Present
  <2> QED BY <2>1, SubmitCounts
<1>2. ASSUME NEW d \in Device, NEW i \in Seq1(d), SaveStep(d, i)
      PROVE  Unsent' /\ PendingIsExact'
  <2>1. CASE Note(d, i)
    BY <2>1, NotePut, SameCount, StillUnsent DEF Note, At
  <2>2. CASE Commit(d, i)
    BY <2>2, CommitPut, SameCount, StillUnsent DEF Commit, At
  <2>3. CASE Refuse(d, i)
    BY <2>3, RefusePut, SameCount, StillUnsent DEF Refuse, At
  <2>4. CASE ReadWindows(d, i)
    BY <2>4, ReadWindowsPut, SameCount, StillUnsent DEF ReadWindows, At
  <2>5. CASE Respond(d, i)
    BY <2>5, RespondPut, SameCount, StillUnsent DEF Respond, At
  <2>6. CASE OnSaved(d, i)
    BY <2>6, ForgetPut, DataTypes, OneLess, StillUnsent DEF OnSaved, Waiting, Settle
  <2>7. CASE OnSuperseded(d, i)
    BY <2>7, ForgetPut, DataTypes, OneLess, StillUnsent
    DEF OnSuperseded, Waiting, Settle, Superseded
  <2>8. CASE OnConflict(d, i)
    <3>1. save[d][i].live /\ UNCHANGED <<unsaved, seq>>
      BY <2>8 DEF OnConflict, Waiting
    <3>2. PICK r \in Save : Put(d, i, r) /\ r.live
      BY <2>8, OnConflictPut
    <3>3. r.live = save[d][i].live
      BY <3>1, <3>2, SaveType DEF Save
    <3> QED BY <3>1, <3>2, <3>3, SameCount, StillUnsent
  <2> QED BY <1>2, <2>1, <2>2, <2>3, <2>4, <2>5, <2>6, <2>7, <2>8 DEF SaveStep
<1>3. ASSUME NEW d \in Device, NEW i \in Seq1(d), OnError(d, i)
      PROVE  Unsent' /\ PendingIsExact'
  BY <1>3, OnErrorPut, OneLess, StillUnsent DEF OnError, Settle
<1>4. ASSUME NEW d \in Device, NEW i \in Seq1(d), Aborted(d, i)
      PROVE  Unsent' /\ PendingIsExact'
  <2>1. Put(d, i, NoSave) /\ NoSave.live = save[d][i].live
    <3>1. save[d][i].live = FALSE
      BY <1>4, SaveType DEF Aborted, Save
    <3> QED BY <1>4, <3>1, ForgetPut DEF Aborted, NoSave
  <2> QED BY <1>4, <2>1, DataTypes, SameCount, StillUnsent DEF Aborted
<1>5. ASSUME NEW d \in Device, PollStep(d) PROVE Unsent' /\ PendingIsExact'
  <2>1. UNCHANGED <<save, seq, unsaved>>
    BY <1>5 DEF PollStep, PollWindows, PollRevision, PollArrives, Settle, TypeOK
  <2> QED BY <2>1 DEF Unsent, PendingIsExact, Pending
<1>6. CASE ResetStep
  <2>1. UNCHANGED <<save, seq, unsaved>>
    BY <1>6 DEF ResetStep, ResetFind, ResetWindows, ResetRevision
  <2> QED BY <2>1 DEF Unsent, PendingIsExact, Pending
<1> QED BY <1>1, <1>2, <1>3, <1>4, <1>5, <1>6 DEF Next

--------------------------------------------------------------------------------
(* Revisions.                                                              *)

(* One condition on a save, and all of them at once. *)
SaveKnown(s) == s.base.rev <= rev /\ s.reply.rev <= rev

Revisions == NoFuture /\ OldIsPast /\ StoredIsDone

(* A save is replaced while the store stays as it is. *)
LEMMA PutRevisions ==
    ASSUME TypeOK, Revisions, NEW d \in Device, NEW i \in Seq1(d), NEW r \in Save, Put(d, i, r),
           UNCHANGED <<rev, seq, newest>>,
           r.base.rev <= rev, r.reply.rev <= rev,
           r.pc \in {"sent", "noted"} /\ i <= newest[d] => r.base.rev < rev,
           i = newest[d] => r.pc = "none" \/ r.ok,
           \A e \in Device : base'[e].rev <= rev /\ cache'[e].rev <= rev
                             /\ poll'[e].state.rev <= rev
    PROVE  Revisions'
<1>1. NoFuture'
  BY DEF NoFuture, Revisions, Put, Seq1
<1>2. OldIsPast'
  BY DEF OldIsPast, Revisions, Put, Seq1
<1>3. StoredIsDone'
  BY DEF StoredIsDone, Revisions, Put, Seq1
<1> QED BY <1>1, <1>2, <1>3 DEF Revisions

(* What a device knows after an answer it has known, or was told, before. *)
LEMMA SettleKnown ==
    ASSUME TypeOK, NoFuture, NEW d \in Device, NEW n, NEW x, NEW y,
           x.rev <= rev, y.rev <= rev, Settle(d, n, x, y)
    PROVE  \A e \in Device : base'[e].rev <= rev /\ cache'[e].rev <= rev
<1>1. DOMAIN base = Device /\ DOMAIN cache = Device
  BY DEF TypeOK
<1> SUFFICES ASSUME NEW e \in Device PROVE base'[e].rev <= rev /\ cache'[e].rev <= rev
  OBVIOUS
<1>2. base'[e] \in {base[e], x, y} /\ cache'[e] \in {cache[e], x}
  BY <1>1 DEF Settle, TypeOK
<1> QED BY <1>2 DEF NoFuture

(* A new save is newer than the newest stored one and knows what its device does. *)
LEMMA SubmitRevisions ==
    ASSUME TypeOK, Revisions, NEW d \in Device, NEW next \in Desktop, Submit(d, next)
    PROVE  Revisions'
<1>1. /\ seq[d] + 1 \in Seq1(d) /\ seq[d] \in Nat
      /\ seq' = [seq EXCEPT ![d] = seq[d] + 1]
      /\ UNCHANGED <<rev, newest, base, cache, poll>>
  BY SubmitPut DEF Submit, TypeOK
<1>2. PICK r \in Save : Put(d, seq[d] + 1, r) /\ r.base = base[d] /\ r.reply = Initial
  BY SubmitPut
<1>3. base[d].rev <= rev /\ r.reply.rev <= rev
  BY <1>2 DEF Revisions, NoFuture, Initial, TypeOK
<1>4. newest[d] <= seq[d] /\ newest[d] \in Nat
  BY DEF Revisions, OldIsPast, TypeOK
<1>5. NoFuture'
  BY <1>1, <1>2, <1>3 DEF NoFuture, Revisions, Put, Seq1
<1>6. OldIsPast'
  <2>1. ASSUME NEW e \in Device PROVE newest'[e] <= seq'[e]
    BY <1>1, <1>4 DEF TypeOK, Revisions, OldIsPast
  <2>2. ASSUME NEW e \in Device, NEW j \in Seq1(e), j <= newest'[e],
               save'[e][j].pc \in {"sent", "noted"}
        PROVE  save'[e][j].base.rev < rev'
    <3>1. ~(e = d /\ j = seq[d] + 1)
      BY <1>1, <1>4, <2>2
    <3>2. save'[e][j] = save[e][j]
      BY <1>2, <3>1 DEF Put
    <3> QED BY <1>1, <2>2, <3>2 DEF Revisions, OldIsPast
  <2> QED BY <2>1, <2>2 DEF OldIsPast, Seq1
<1>7. StoredIsDone'
  <2> SUFFICES ASSUME NEW e \in Device, NEW j \in Seq1(e), j = newest[e]
               PROVE  save'[e][j].pc = "none" \/ save'[e][j].ok
    BY <1>1 DEF StoredIsDone, Seq1
  <2>1. ~(e = d /\ j = seq[d] + 1)
    BY <1>1, <1>4
  <2>2. save'[e][j] = save[e][j]
    BY <1>2, <2>1 DEF Put
  <2> QED BY <2>2 DEF Revisions, StoredIsDone
<1> QED BY <1>5, <1>6, <1>7 DEF Revisions

(* A commit is of a save newer than all the device has stored, and passes all
   revisions that anybody knows. *)
LEMMA CommitNewest ==
    ASSUME TypeOK, Revisions, NEW d \in Device, NEW i \in Seq1(d), Commit(d, i)
    PROVE  newest[d] < i
<1>1. save[d][i].pc = "noted" /\ save[d][i].base.rev = rev
  BY DEF Commit, At, MayCommit
<1>2. i \in Nat /\ newest[d] \in Nat /\ rev \in Nat
  BY DEF Seq1, TypeOK
<1>3. ~(i <= newest[d])
  BY <1>1, <1>2 DEF Revisions, OldIsPast
<1> QED BY <1>2, <1>3

(* After a commit all known revisions have passed. *)
LEMMA CommitRevisions ==
    ASSUME TypeOK, Revisions, Unsent, NEW d \in Device, NEW i \in Seq1(d), Commit(d, i)
    PROVE  Revisions'
<1>1. /\ rev' = rev + 1 /\ rev \in Nat
      /\ newest' = [newest EXCEPT ![d] = i]
      /\ UNCHANGED <<seq, base, cache, poll>>
  BY DEF Commit, screen, TypeOK
<1>0. i <= seq[d]
  <2>1. save[d][i].pc # "none"
    BY DEF Commit, At
  <2>2. i \in Nat /\ seq[d] \in Nat
    BY DEF Seq1, TypeOK
  <2> QED BY <2>1, <2>2 DEF Unsent
<1>2. PICK r \in Save : /\ Put(d, i, r) /\ r.pc = "answer" /\ r.ok
                        /\ r.base = Initial /\ r.reply = save[d][i].reply
  BY CommitPut
<1>3. r.base.rev = 0 /\ r.reply.rev <= rev
  BY <1>2 DEF Initial, Revisions, NoFuture
<1>4. \A e \in Device : \A j \in Seq1(e) :
        /\ save'[e][j].base.rev <= rev /\ save'[e][j].reply.rev <= rev
        /\ save'[e][j].base.rev \in Nat /\ save'[e][j].reply.rev \in Nat
  <2> SUFFICES ASSUME NEW e \in Device, NEW j \in Seq1(e)
               PROVE  /\ save'[e][j].base.rev <= rev /\ save'[e][j].reply.rev <= rev
                      /\ save'[e][j].base.rev \in Nat /\ save'[e][j].reply.rev \in Nat
    OBVIOUS
  <2>1. save'[e][j] = IF e = d /\ j = i THEN r ELSE save[e][j]
    BY <1>2 DEF Put
  <2>2. save'[e][j] \in Save
    BY <1>2, <2>1, SaveType
  <2>3. save'[e][j].base.rev \in Nat /\ save'[e][j].reply.rev \in Nat
    BY <2>2 DEF Save, State
  <2> QED BY <1>1, <1>3, <2>1, <2>3 DEF Revisions, NoFuture
<1>5. NoFuture'
  <2> SUFFICES ASSUME NEW e \in Device
               PROVE  /\ base[e].rev <= rev + 1
                      /\ cache[e].rev <= rev + 1
                      /\ poll[e].state.rev <= rev + 1
    BY <1>1, <1>4 DEF NoFuture, Seq1
  <2>1. base[e].rev \in Nat /\ cache[e].rev \in Nat /\ poll[e].state.rev \in Nat
    BY DEF TypeOK, State
  <2> QED BY <1>1, <2>1 DEF Revisions, NoFuture
<1>6. OldIsPast'
  <2>1. \A e \in Device : newest'[e] <= seq'[e]
    BY <1>0, <1>1 DEF TypeOK, Revisions, OldIsPast
  <2> QED BY <1>1, <1>4, <2>1 DEF OldIsPast, Seq1
<1>7. StoredIsDone'
  BY <1>1, <1>2 DEF Revisions, StoredIsDone, Put, Seq1, TypeOK
<1> QED BY <1>5, <1>6, <1>7 DEF Revisions

(* Every step keeps what is known behind the store, and old saves in the past. *)
LEMMA RevisionStep ==
    ASSUME TypeOK, Unsent, Revisions, Next
    PROVE  Revisions'
<1> USE DEF server, screen, history
<1>1. ASSUME NEW d \in Device, UserStep(d) PROVE Revisions'
  <2>1. PICK next \in Desktop : Submit(d, next)
    <3> HIDE DEF Desktop
    <3>1. shown[d] \in Desktop
      BY DEF TypeOK
    <3> QED BY <1>1, <3>1, DesktopEdits DEF UserStep, Open, Close, Change, Present
  <2> QED BY <2>1, SubmitRevisions
<1>2. ASSUME NEW d \in Device, NEW i \in Seq1(d)
      PROVE  /\ SaveKnown(save[d][i])
             /\ save[d][i].pc \in {"sent", "noted"} /\ i <= newest[d] => save[d][i].base.rev < rev
             /\ i = newest[d] => save[d][i].pc = "none" \/ save[d][i].ok
  BY DEF Revisions, NoFuture, OldIsPast, StoredIsDone, SaveKnown
<1>3. \A e \in Device : base[e].rev <= rev /\ cache[e].rev <= rev /\ poll[e].state.rev <= rev
  BY DEF Revisions, NoFuture
<1>4. rev \in Nat /\ 0 <= rev
  BY DEF TypeOK
<1>5. ASSUME NEW d \in Device, NEW i \in Seq1(d), SaveStep(d, i) PROVE Revisions'
  <2>1. CASE Note(d, i)
    <3>1. PICK r \in Save : /\ Put(d, i, r) /\ r.pc = "noted" /\ r.ok = save[d][i].ok
                            /\ r.base = save[d][i].base /\ r.reply = save[d][i].reply
      BY <2>1, NotePut
    <3> QED BY <1>2, <1>3, <2>1, <3>1, PutRevisions DEF Note, At, SaveKnown
  <2>2. CASE Commit(d, i)
    BY <2>2, CommitRevisions
  <2>3. CASE Refuse(d, i)
    <3>1. PICK r \in Save : /\ Put(d, i, r) /\ r.pc = "answer" /\ r.ok = save[d][i].ok
                            /\ r.base = save[d][i].base /\ r.reply = save[d][i].reply
      BY <2>3, RefusePut
    <3> QED BY <1>2, <1>3, <2>3, <3>1, PutRevisions DEF Refuse, At, SaveKnown
  <2>4. CASE ReadWindows(d, i)
    <3>1. PICK r \in Save : /\ Put(d, i, r) /\ r.pc = "half" /\ r.ok = save[d][i].ok
                            /\ r.base = save[d][i].base /\ r.reply.rev = save[d][i].reply.rev
      BY <2>4, ReadWindowsPut
    <3> QED BY <1>2, <1>3, <2>4, <3>1, PutRevisions DEF ReadWindows, At, SaveKnown
  <2>5. CASE Respond(d, i)
    <3>1. PICK r \in Save : /\ Put(d, i, r) /\ r.pc \in {"none", "replied"}
                            /\ r.pc = "replied" => r.ok = save[d][i].ok
                            /\ r.base.rev \in {0, save[d][i].base.rev} /\ r.reply.rev \in {0, rev}
      BY <2>5, RespondPut
    <3> QED BY <1>2, <1>3, <1>4, <2>5, <3>1, PutRevisions DEF Respond, At, SaveKnown
  <2>6. CASE OnSaved(d, i)
    <3>1. /\ Put(d, i, NoSave) /\ NoSave.pc = "none"
          /\ NoSave.base.rev = 0 /\ NoSave.reply.rev = 0
      BY <2>6, ForgetPut DEF OnSaved
    <3>2. \A e \in Device : base'[e].rev <= rev /\ cache'[e].rev <= rev
      BY <1>2, <2>6, SettleKnown DEF OnSaved, SaveKnown, Revisions
    <3>3. \A e \in Device : poll'[e].state.rev <= rev
      BY <1>3, <1>4, <2>6 DEF OnSaved, Initial, TypeOK
    <3> QED BY <1>4, <2>6, <3>1, <3>2, <3>3, DataTypes, PutRevisions DEF OnSaved
  <2>7. CASE OnSuperseded(d, i)
    <3>1. /\ Put(d, i, NoSave) /\ NoSave.pc = "none"
          /\ NoSave.base.rev = 0 /\ NoSave.reply.rev = 0
      BY <2>7, ForgetPut DEF OnSuperseded
    <3>2. \A e \in Device : base'[e].rev <= rev /\ cache'[e].rev <= rev
      BY <1>3, <2>7, SettleKnown DEF OnSuperseded, Revisions
    <3> QED BY <1>3, <1>4, <2>7, <3>1, <3>2, DataTypes, PutRevisions DEF OnSuperseded
  <2>8. CASE OnConflict(d, i)
    <3>1. PICK r \in Save : /\ Put(d, i, r) /\ r.pc = "sent"
                            /\ r.base = save[d][i].reply /\ r.reply = Initial
      BY <2>8, OnConflictPut
    <3>2. i # newest[d] /\ newest[d] <= i
      BY <1>2, <2>8 DEF OnConflict, Waiting, At, Revisions, OldIsPast
    <3>3. i \in Nat /\ newest[d] \in Nat
      BY DEF Seq1, TypeOK
    <3>4. \A e \in Device : base'[e].rev <= rev
      BY <1>2, <1>3, <2>8 DEF OnConflict, SaveKnown, TypeOK
    <3>5. r.reply.rev = 0 /\ r.base.rev <= rev
      BY <1>2, <3>1 DEF Initial, SaveKnown
    <3>6. UNCHANGED <<rev, seq, newest, cache, poll>>
      BY <2>8 DEF OnConflict
    <3>7. ~(i <= newest[d])
      BY <3>2, <3>3
    <3> QED BY <1>3, <1>4, <3>1, <3>2, <3>4, <3>5, <3>6, <3>7, PutRevisions
  <2> QED BY <1>5, <2>1, <2>2, <2>3, <2>4, <2>5, <2>6, <2>7, <2>8 DEF SaveStep
<1>6. ASSUME NEW d \in Device, NEW i \in Seq1(d), OnError(d, i) PROVE Revisions'
  <2>1. PICK r \in Save : /\ Put(d, i, r) /\ r.pc \in {"none", save[d][i].pc}
                          /\ r.pc # "none" => r.ok = save[d][i].ok
                          /\ r.base.rev \in {0, save[d][i].base.rev}
                          /\ r.reply.rev \in {0, save[d][i].reply.rev}
    BY <1>6, OnErrorPut
  <2>2. \A e \in Device : base'[e].rev <= rev /\ cache'[e].rev <= rev
    BY <1>3, <1>6, SettleKnown DEF OnError, Revisions
  <2>3. r.base.rev <= rev /\ r.reply.rev <= rev
    BY <1>2, <1>4, <2>1 DEF SaveKnown
  <2>4. r.pc \in {"sent", "noted"} /\ i <= newest[d] => r.base.rev < rev
    <3>1. save[d][i].base.rev \in Nat
      BY SaveType DEF Save, State
    <3> QED BY <1>2, <1>4, <2>1, <3>1
  <2>5. i = newest[d] => r.pc = "none" \/ r.ok
    BY <1>2, <2>1
  <2> QED BY <1>3, <1>6, <2>1, <2>2, <2>3, <2>4, <2>5, PutRevisions DEF OnError
<1>7. ASSUME NEW d \in Device, NEW i \in Seq1(d), Aborted(d, i) PROVE Revisions'
  <2>1. /\ Put(d, i, NoSave) /\ NoSave.pc = "none"
        /\ NoSave.base.rev = 0 /\ NoSave.reply.rev = 0
    BY <1>7, ForgetPut DEF Aborted
  <2> QED BY <1>3, <1>4, <1>7, <2>1, DataTypes, PutRevisions DEF Aborted
<1>8. ASSUME NEW d \in Device, PollStep(d) PROVE Revisions'
  <2>1. UNCHANGED <<rev, save, seq, newest>>
    BY <1>8 DEF PollStep, PollWindows, PollRevision, PollArrives
  <2>2. \A e \in Device : base'[e].rev <= rev /\ cache'[e].rev <= rev
    <3>1. CASE PollArrives(d)
      BY <1>3, <3>1, SettleKnown DEF PollArrives, Fresh, Revisions
    <3> QED BY <1>3, <1>8, <3>1 DEF PollStep, PollWindows, PollRevision
  <2>3. \A e \in Device : poll'[e].state.rev <= rev
    <3>1. CASE PollWindows(d)
      BY <1>3, <1>4, <3>1 DEF PollWindows, TypeOK
    <3>2. CASE PollRevision(d)
      <4> SUFFICES ASSUME NEW e \in Device PROVE poll'[e].state.rev <= rev
        OBVIOUS
      <4>1. CASE e = d
        <5>1. [poll[d].state EXCEPT !.rev = rev].rev = rev
          BY DEF TypeOK, State
        <5>2. poll'[d].state = [poll[d].state EXCEPT !.rev = rev]
          BY <3>2 DEF PollRevision, TypeOK
        <5> QED BY <1>4, <4>1, <5>1, <5>2
      <4>2. CASE e # d
        BY <1>3, <3>2, <4>2 DEF PollRevision, TypeOK
      <4> QED BY <4>1, <4>2
    <3>3. CASE PollArrives(d)
      BY <1>3, <1>4, <3>3 DEF PollArrives, Initial, TypeOK
    <3> QED BY <1>8, <3>1, <3>2, <3>3 DEF PollStep
  <2> QED BY <2>1, <2>2, <2>3 DEF Revisions, NoFuture, OldIsPast, StoredIsDone
<1>9. CASE ResetStep
  <2>1. UNCHANGED <<save, seq, newest, base, cache, poll>> /\ rev' \in {rev, rev + 1}
    BY <1>9 DEF ResetStep, ResetFind, ResetWindows, ResetRevision
  <2>2. /\ \A e \in Device : /\ base[e].rev \in Nat /\ cache[e].rev \in Nat
                             /\ poll[e].state.rev \in Nat
        /\ \A e \in Device : \A j \in Seq1(e) :
             save[e][j].base.rev \in Nat /\ save[e][j].reply.rev \in Nat
    BY SaveType DEF TypeOK, Save, State
  <2>3. NoFuture'
    BY <1>4, <2>1, <2>2 DEF Revisions, NoFuture
  <2>4. OldIsPast'
    BY <1>4, <2>1, <2>2 DEF Revisions, OldIsPast
  <2>5. StoredIsDone'
    BY <2>1 DEF Revisions, StoredIsDone
  <2> QED BY <2>3, <2>4, <2>5 DEF Revisions
<1> QED BY <1>1, <1>5, <1>6, <1>7, <1>8, <1>9 DEF Next

--------------------------------------------------------------------------------
(* The invariant and what follows from it.                                 *)

(* All of it holds on an empty desktop that nobody has changed. *)
LEMMA InitDesktopInv == Init => DesktopInv
<1> SUFFICES ASSUME Init PROVE DesktopInv
  OBVIOUS
<1> USE DEF Init
<1>1. /\ DOMAIN save = Device
      /\ \A d \in Device : \A i \in Seq1(d) : save[d][i] = NoSave
      /\ \A d \in Device : save[d] \in [Seq1(d) -> Save]
  BY DataTypes
<1>2. NoSave.pc = "none" /\ ~NoSave.live /\ NoSave.base.rev = 0 /\ NoSave.reply.rev = 0
  BY DEF NoSave, Initial
<1>3. TypeOK
  <2>1. /\ wins \in Desktop
        /\ shown \in [Device -> Desktop]
        /\ base \in [Device -> State]
        /\ cache \in [Device -> State]
        /\ poll \in [Device -> [pc : {"idle", "half", "answered"}, state : State]]
    BY DataTypes
  <2>2. /\ resets \in 0..MaxFaults /\ errors \in 0..MaxFaults
        /\ \A d \in Device : seq[d] \in 0..MaxSaves[d]
    BY DesktopAssumption DEF DesktopAssumption
  <2> QED BY <1>1, <2>1, <2>2 DEF TypeOK
<1>4. Unsent
  BY <1>1, <1>2 DEF Unsent
<1>5. PendingIsExact
  <2>1. ASSUME NEW d \in Device PROVE unsaved[d] = Cardinality(Pending(d))
    <3>1. Pending(d) = {}
      BY <1>1, <1>2 DEF Pending
    <3> QED BY <3>1, FS_EmptySet
  <2> QED BY <2>1 DEF PendingIsExact
<1>6. NoFuture /\ OldIsPast /\ StoredIsDone
  BY <1>1, <1>2 DEF NoFuture, OldIsPast, StoredIsDone, Initial, Seq1
<1> QED BY <1>3, <1>4, <1>5, <1>6 DEF DesktopInv

(* And every step keeps it. *)
LEMMA NextDesktopInv == DesktopInv /\ [Next]_vars => DesktopInv'
<1> SUFFICES ASSUME DesktopInv, [Next]_vars PROVE DesktopInv'
  OBVIOUS
<1>1. CASE Next
  BY <1>1, TypeStep, PendingStep, RevisionStep DEF DesktopInv, Revisions
<1>2. CASE UNCHANGED vars
  <2> USE <1>2 DEF vars, server, screen, history, DesktopInv
  <2>1. TypeOK'
    BY DEF TypeOK
  <2>2. Unsent' /\ PendingIsExact'
    BY DEF Unsent, PendingIsExact, Pending
  <2>3. NoFuture' /\ OldIsPast' /\ StoredIsDone'
    BY DEF NoFuture, OldIsPast, StoredIsDone
  <2> QED BY <2>1, <2>2, <2>3
<1> QED BY <1>1, <1>2

(* The invariant holds always. *)
LEMMA DesktopInvariant == Spec => []DesktopInv
BY InitDesktopInv, NextDesktopInv, PTL DEF Spec

(* Tables, requests and devices keep their types. *)
THEOREM DesktopTypeCorrect == Spec => []TypeOK
<1>1. DesktopInv => TypeOK
  BY DEF DesktopInv
<1> QED BY DesktopInvariant, <1>1, PTL

(* localDesktopRevision is the number of saves that are still to be answered,
   however many saves of however many devices overlap, conflict and fail. *)
THEOREM PendingCountIsExact == Spec => []PendingIsExact
<1>1. DesktopInv => PendingIsExact
  BY DEF DesktopInv
<1> QED BY DesktopInvariant, <1>1, PTL

(* The comparison of revisions is enough to keep saves that arrive out of order
   from undoing newer ones of the same device. *)
THEOREM OldSavesAreRefused == Spec => StaleSaveNeverWins
<1>1. DesktopInv /\ [Next]_vars =>
        [\A d \in Device : \A i \in Seq1(d) : Commit(d, i) => newest[d] < i]_vars
  BY CommitNewest DEF DesktopInv, Revisions
<1> QED BY DesktopInvariant, <1>1, PTL DEF Spec, StaleSaveNeverWins
================================================================================
