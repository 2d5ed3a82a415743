----------------------------- MODULE AddServerWizard -----------------------------
(* The dialog that adds a server: the operator enters an address (host, port and
   route), tests it, enters a login (user, method and key), tests it, lets the
   target be inspected, names the server and saves it.  Editing a field withdraws
   the results that depended on it, but the requests already sent cannot be
   withdrawn: an answer to a withdrawn test no longer counts as a result, and yet
   it still sets the host key, and a detection is not withdrawn at all.

   A host key is named by the address that presents it; NoAddress and NoLogin
   stand for fields that are not complete.  The texts of the label, the
   overrides and the tags are data. *)
EXTENDS Naturals, FiniteSets

CONSTANTS Address, NoAddress, Login, NoLogin, DefaultLogin,
          MaxWizardCalls, MaxWizardEdits, MaxWizardRounds

ASSUME WizardAssumption ==
    /\ NoAddress \notin Address /\ NoLogin \notin Login /\ DefaultLogin \in Login
    /\ MaxWizardCalls \in Nat /\ MaxWizardEdits \in Nat /\ MaxWizardRounds \in Nat

VARIABLES
    step,          \* the page of the dialog, 0 to 4
    address, login,\* what the fields hold
    label,         \* "", "suggested" or "typed"
    labelEdited,   \* the operator typed a label
    hostKey,       \* the key to be pinned: the address that presented it
    facts,         \* what detection found: a set of at most one record
    tcpPassed, authPassed,
    accessLocked,  \* the last lock state the dialog has read
    wizardCalls,   \* requests without an answer
    savedServer,   \* the last server stored: a set of at most one record
    proved,        \* history: what the tests of this round have confirmed
    lateAnswer,    \* history: an answer about other fields was taken over
    wizardEdits, wizardRound

wizardVars == <<step, address, login, label, labelEdited, hostKey, facts, tcpPassed,
                authPassed, accessLocked, wizardCalls, savedServer, proved,
                lateAnswer, wizardEdits, wizardRound>>

Call == [kind : {"tcp", "auth", "detect"}, address : Address,
         login : Login \cup {NoLogin}, pin : Address \cup {NoAddress},
         attached : BOOLEAN]
Facts == [address : Address, login : Login, usable : BOOLEAN]
ServerRecord == [address : Address, login : Login, hostKey : Address \cup {NoAddress},
                 facts : Facts, proved : SUBSET (Address \X (Login \cup {NoLogin})),
                 late : BOOLEAN]
Saving == {c \in wizardCalls : c.kind = "save"}

Running(kind) == \E c \in wizardCalls : c.kind = kind /\ c.attached
Withdrawn(calls, kinds) ==
    {IF c.kind \in kinds THEN [c EXCEPT !.attached = FALSE] ELSE c : c \in calls}
Room == Cardinality(wizardCalls) < MaxWizardCalls

NewCall(kind) == [kind |-> kind, address |-> address, login |-> login,
                  pin |-> hostKey, attached |-> TRUE]

\* What the summary page lists as blocking.
Blocked ==
    \/ address = NoAddress \/ login = NoLogin \/ ~tcpPassed \/ ~authPassed
    \/ accessLocked \/ label = "" \/ \A f \in facts : ~f.usable

WizardInit ==
    /\ step = 0 /\ address = NoAddress /\ login = DefaultLogin /\ label = ""
    /\ labelEdited = FALSE /\ hostKey = NoAddress /\ facts = {}
    /\ tcpPassed = FALSE /\ authPassed = FALSE /\ accessLocked = FALSE
    /\ wizardCalls = {} /\ savedServer = {} /\ proved = {} /\ lateAnswer = FALSE
    /\ wizardEdits = 0 /\ wizardRound = 0

-----------------------------------------------------------------------------
(* Fields. *)

\* The results that an edit of the address and of the login withdraw.
AddressWithdraws == {"tcp", "auth"}
LoginWithdraws == {"auth"}
(* As if an edit kept the facts that were found before it. *)
WithdrawTests(kinds) ==
    /\ wizardCalls' = Withdrawn(wizardCalls, kinds)
    /\ tcpPassed' = (tcpPassed /\ "tcp" \notin kinds)
    /\ authPassed' = (authPassed /\ "auth" \notin kinds)
    /\ facts' = facts
Withdraw(kinds) ==
    /\ wizardCalls' = Withdrawn(wizardCalls, kinds)
    /\ tcpPassed' = (tcpPassed /\ "tcp" \notin kinds)
    /\ authPassed' = (authPassed /\ "auth" \notin kinds)
    /\ facts' = {}
Unname == label' = IF labelEdited THEN label ELSE ""

EditAddress(a) ==
    /\ step = 0 /\ a # address /\ wizardEdits < MaxWizardEdits
    /\ address' = a /\ wizardEdits' = wizardEdits + 1
    /\ Withdraw(AddressWithdraws) /\ Unname
    /\ UNCHANGED <<step, login, labelEdited, hostKey, accessLocked, savedServer,
                   proved, lateAnswer, wizardRound>>

EditLogin(l) ==
    /\ step = 1 /\ l # login /\ wizardEdits < MaxWizardEdits
    /\ login' = l /\ wizardEdits' = wizardEdits + 1
    /\ Withdraw(LoginWithdraws) /\ Unname
    /\ UNCHANGED <<step, address, labelEdited, hostKey, accessLocked, savedServer,
                   proved, lateAnswer, wizardRound>>

\* The first edit of the label changes labelEdited, on which both effects depend:
\* it withdraws every result although neither address nor login has changed.
EditLabel(text) ==
    /\ step = 3 /\ text # label
    /\ label' = text /\ labelEdited' = TRUE
    /\ IF labelEdited THEN UNCHANGED <<wizardCalls, tcpPassed, authPassed, facts>>
       ELSE Withdraw({"tcp", "auth"})
    /\ UNCHANGED <<step, address, login, hostKey, accessLocked, savedServer, proved,
                   lateAnswer, wizardEdits, wizardRound>>

ReadLockState(locked) ==
    /\ step = 1 /\ accessLocked' = locked
    /\ UNCHANGED <<step, address, login, label, labelEdited, hostKey, facts,
                   tcpPassed, authPassed, wizardCalls, savedServer, proved,
                   lateAnswer, wizardEdits, wizardRound>>

-----------------------------------------------------------------------------
(* Tests and detection. *)

Ask(kind) == Room /\ wizardCalls' = wizardCalls \cup {NewCall(kind)}

AskTCP ==
    /\ step = 0 /\ address # NoAddress /\ ~tcpPassed /\ ~Running("tcp") /\ Ask("tcp")
    /\ UNCHANGED <<step, address, login, label, labelEdited, hostKey, facts,
                   tcpPassed, authPassed, accessLocked, savedServer, proved,
                   lateAnswer, wizardEdits, wizardRound>>

AskAuth ==
    /\ step = 1 /\ address # NoAddress /\ login # NoLogin /\ ~accessLocked
    /\ ~authPassed /\ ~Running("auth") /\ Ask("auth")
    /\ UNCHANGED <<step, address, login, label, labelEdited, hostKey, facts,
                   tcpPassed, authPassed, accessLocked, savedServer, proved,
                   lateAnswer, wizardEdits, wizardRound>>

DetectAgain ==
    /\ step = 2 /\ authPassed /\ ~Running("detect") /\ Ask("detect")
    /\ UNCHANGED <<step, address, login, label, labelEdited, hostKey, facts,
                   tcpPassed, authPassed, accessLocked, savedServer, proved,
                   lateAnswer, wizardEdits, wizardRound>>

\* Opening the third page without facts starts a detection unless one is running.
NextPage ==
    /\ \/ step = 0 /\ address # NoAddress /\ tcpPassed
       \/ step = 1 /\ address # NoAddress /\ login # NoLogin /\ ~accessLocked /\ authPassed
       \/ step = 2 /\ ~Running("detect") /\ facts # {} /\ authPassed
       \/ step = 3 /\ label # ""
    /\ step' = step + 1
    /\ IF step' = 2 /\ facts = {} /\ ~Running("detect")
       THEN Ask("detect") ELSE UNCHANGED wizardCalls
    /\ UNCHANGED <<address, login, label, labelEdited, hostKey, facts, tcpPassed,
                   authPassed, accessLocked, savedServer, proved, lateAnswer,
                   wizardEdits, wizardRound>>

PreviousPage ==
    /\ step > 0 /\ Saving = {} /\ step' = step - 1
    /\ IF step' = 2 /\ authPassed /\ facts = {} /\ ~Running("detect")
       THEN Ask("detect") ELSE UNCHANGED wizardCalls
    /\ UNCHANGED <<address, login, label, labelEdited, hostKey, facts, tcpPassed,
                   authPassed, accessLocked, savedServer, proved, lateAnswer,
                   wizardEdits, wizardRound>>

AnswerTCP(c, passed) ==
    /\ c.kind = "tcp" /\ wizardCalls' = wizardCalls \ {c}
    /\ tcpPassed' = IF c.attached THEN passed ELSE tcpPassed
    /\ proved' = IF c.attached /\ passed THEN proved \cup {<<c.address, NoLogin>>}
                 ELSE proved
    /\ UNCHANGED <<step, address, login, label, labelEdited, hostKey, facts,
                   authPassed, accessLocked, savedServer, lateAnswer, wizardEdits,
                   wizardRound>>

\* A login is refused when the key of the target is not the one sent along.
KeyAccepted(c) == c.pin \in {NoAddress, c.address}

AnswerAuth(c, passed) ==
    /\ c.kind = "auth" /\ (passed => KeyAccepted(c))
    /\ wizardCalls' = wizardCalls \ {c}
    /\ authPassed' = IF c.attached THEN passed ELSE authPassed
    /\ hostKey' = IF passed THEN c.address ELSE hostKey
    /\ lateAnswer' = (lateAnswer \/ (passed /\ c.address # address))
    /\ proved' = IF c.attached /\ passed THEN proved \cup {<<c.address, c.login>>}
                 ELSE proved
    /\ UNCHANGED <<step, address, login, label, labelEdited, facts, tcpPassed,
                   accessLocked, savedServer, wizardEdits, wizardRound>>

AnswerDetect(c, usable) ==
    /\ c.kind = "detect" /\ wizardCalls' = wizardCalls \ {c}
    /\ facts' = {[address |-> c.address, login |-> c.login, usable |-> usable]}
    /\ label' = IF labelEdited /\ label # "" THEN label ELSE "suggested"
    /\ lateAnswer' = (lateAnswer \/ c.address # address \/ c.login # login)
    /\ UNCHANGED <<step, address, login, labelEdited, hostKey, tcpPassed, authPassed,
                   accessLocked, savedServer, proved, wizardEdits, wizardRound>>

\* A failed detection is started again at once while the third page is shown.
DetectFails(c) ==
    /\ c.kind = "detect"
    /\ LET rest == wizardCalls \ {c} IN
       wizardCalls' = IF /\ step = 2 /\ authPassed /\ facts = {}
                         /\ \A d \in rest : d.kind = "detect" => ~d.attached
                      THEN rest \cup {NewCall("detect")} ELSE rest
    /\ UNCHANGED <<step, address, login, label, labelEdited, hostKey, facts,
                   tcpPassed, authPassed, accessLocked, savedServer, proved,
                   lateAnswer, wizardEdits, wizardRound>>

-----------------------------------------------------------------------------
(* Saving and closing. *)

SaveServer ==
    /\ step = 4 /\ Saving = {} /\ ~Blocked /\ Room
    /\ wizardCalls' = wizardCalls \cup
          {[kind |-> "save", address |-> address, login |-> login,
            hostKey |-> hostKey, facts |-> CHOOSE f \in facts : TRUE,
            proved |-> proved, late |-> lateAnswer]}
    /\ UNCHANGED <<step, address, login, label, labelEdited, hostKey, facts,
                   tcpPassed, authPassed, accessLocked, savedServer, proved,
                   lateAnswer, wizardEdits, wizardRound>>

SaveServerFails(c) ==
    /\ c \in Saving /\ wizardCalls' = wizardCalls \ {c}
    /\ UNCHANGED <<step, address, login, label, labelEdited, hostKey, facts,
                   tcpPassed, authPassed, accessLocked, savedServer, proved,
                   lateAnswer, wizardEdits, wizardRound>>

\* Every field and result starts anew; requests without an answer are forgotten
\* by the dialog, but their callbacks stay.
ResetWizard(calls) ==
    /\ wizardRound < MaxWizardRounds /\ wizardRound' = wizardRound + 1
    /\ step' = 0 /\ address' = NoAddress /\ login' = DefaultLogin /\ label' = ""
    /\ labelEdited' = FALSE /\ hostKey' = NoAddress /\ facts' = {}
    /\ tcpPassed' = FALSE /\ authPassed' = FALSE /\ proved' = {} /\ lateAnswer' = FALSE
    /\ wizardCalls' = Withdrawn(calls, {"tcp", "auth", "detect"})
    /\ UNCHANGED <<accessLocked, wizardEdits>>

ServerSaved(c) ==
    /\ c \in Saving
    /\ savedServer' = {[address |-> c.address, login |-> c.login,
                        hostKey |-> c.hostKey, facts |-> c.facts,
                        proved |-> c.proved, late |-> c.late]}
    /\ ResetWizard(wizardCalls \ {c})

CloseWizard == Saving = {} /\ ResetWizard(wizardCalls) /\ UNCHANGED savedServer

WizardNext ==
    \/ \E a \in Address \cup {NoAddress} : EditAddress(a)
    \/ \E l \in Login \cup {NoLogin} : EditLogin(l)
    \/ \E text \in {"", "typed"} : EditLabel(text)
    \/ \E locked \in BOOLEAN : ReadLockState(locked)
    \/ AskTCP \/ AskAuth \/ DetectAgain \/ NextPage \/ PreviousPage
    \/ \E c \in wizardCalls, b \in BOOLEAN :
          AnswerTCP(c, b) \/ AnswerAuth(c, b) \/ AnswerDetect(c, b)
    \/ \E c \in wizardCalls : DetectFails(c) \/ SaveServerFails(c) \/ ServerSaved(c)
    \/ SaveServer \/ CloseWizard

-----------------------------------------------------------------------------
(* Properties. *)

\* Every variable has its type, and no kind of test runs twice at a time: the
\* results of the dialog are those of one request.
WizardTypeOK ==
    /\ step \in 0..4 /\ label \in {"", "suggested", "typed"}
    /\ address \in Address \cup {NoAddress} /\ login \in Login \cup {NoLogin}
    /\ hostKey \in Address \cup {NoAddress} /\ facts \subseteq Facts
    /\ wizardCalls \ Saving \subseteq Call /\ savedServer \subseteq ServerRecord
    /\ {labelEdited, tcpPassed, authPassed, accessLocked, lateAnswer} \subseteq BOOLEAN
    /\ \A kind \in {"tcp", "auth", "detect"} :
          Cardinality({c \in wizardCalls : c.kind = kind /\ c.attached}) <= 1

\* A server is stored with an address and a login that were tested, in this
\* round of the dialog, exactly as they are stored: "Run the TCP connection test
\* successfully before saving this server" (and the same of the login).  The host
\* key and the facts stored with it are those of its own address and login, unless
\* an answer to a question about other fields came late.
SavedBelongsTogether ==
    \A s \in savedServer :
       /\ {<<s.address, NoLogin>>, <<s.address, s.login>>} \subseteq s.proved
       /\ ~s.late => /\ s.hostKey = s.address
                     /\ s.facts.address = s.address /\ s.facts.login = s.login
================================================================================
