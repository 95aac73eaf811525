----------------------------- MODULE AgentSetup -----------------------------
(***************************************************************************)
(* `shinobi agent install | login | setup` (agentsetup.py): run a vendor's *)
(* own installer and login, each confirmed by the operator at the          *)
(* terminal, after it was shown and never before.                          *)
(*                                                                         *)
(* The operator types whenever he likes, also while the vendor's code has  *)
(* the terminal; the binary comes and goes; the journal may refuse a       *)
(* record; and a command may be interrupted, or killed, at every step.     *)
(***************************************************************************)
EXTENDS Naturals, Sequences

CONSTANTS
    Sessions,       \* one invocation of a command each
    Agents,
    WithStatus,     \* the agents that can be asked whether a login worked
    NoAgent,        \* no agent, or a program the registry does not know
    MaxTyped        \* bound on the lines typed and not yet read

ASSUME SetupAssumption == WithStatus \subseteq Agents /\ MaxTyped \in Nat

VARIABLES
    session,        \* session[s]: the invocation
    typed,          \* typed[s]: lines waiting at its terminal
    binary,         \* binary[a]: where the binary of an agent is found
    journal,        \* the audit journal
    defaultAgent,   \* ~/.config/shinobi/default-agent
    answered,       \* history: the questions that were answered yes
    attempted       \* history: the vendor code that was started

vars == <<session, typed, binary, journal, defaultAgent, answered, attempted>>

Commands  == {"install", "login", "setup"}
Questions == {"accept", "install", "login", "default"}
Places    == {"none", "off-path", "on-path"}
NotBegun  == [at |-> "not-begun"]

Init ==
    /\ session = [s \in Sessions |-> NotBegun]
    /\ typed = [s \in Sessions |-> <<>>]
    /\ binary \in [Agents -> Places]
    /\ journal = {}
    /\ defaultAgent = NoAgent
    /\ answered = {}
    /\ attempted = {}

Active(s)    == session[s].at \notin {"not-begun", "ended"}
At(s, place) == session[s].at = place
Set(s, rec)  == session' = [session EXCEPT ![s] = rec]
Goto(s, at)  == Set(s, [session[s] EXCEPT !.at = at])
Stop(s, exit) == Set(s, [session[s] EXCEPT !.at = "ended", !.exit = exit])

(* A step of a command has returned 0: setup goes on to the next one.      *)
Succeed(s) ==
    CASE session[s].command = "setup" /\ session[s].step = "install" ->
            Set(s, [session[s] EXCEPT !.step = "login", !.at = "look-up"])
      [] session[s].command = "setup" /\ session[s].step = "login" ->
            Set(s, [session[s] EXCEPT !.step = "default", !.at = "ask"])
      [] session[s].command # "setup" -> Stop(s, "0")

-----------------------------------------------------------------------------
(* The terminal.                                                           *)

(* The question on the screen; a line typed at another time was typed at   *)
(* "nothing".                                                              *)
OnScreen(s) == IF At(s, "answer") THEN session[s].question ELSE "nothing"

Type(s, says) ==
    /\ Active(s)
    /\ session[s].tty
    /\ Len(typed[s]) < MaxTyped
    /\ typed' = [typed EXCEPT ![s] = Append(@, [says |-> says, at |-> OnScreen(s)])]
    /\ UNCHANGED <<session, binary, journal, defaultAgent, answered, attempted>>

(* _ask(): what is waiting is thrown away, and the question is shown; a    *)
(* line typed between the two counts as typed at the question.             *)
MutDiscard(s) == typed                  \* kept
Discard(s) == [typed EXCEPT ![s] = <<>>]

Ask(s, question) ==
    /\ typed' = Discard(s)
    /\ Set(s, [session[s] EXCEPT !.at = "answer", !.question = question])
    /\ UNCHANGED <<binary, journal, defaultAgent, answered, attempted>>

(* Anything but a clear yes is a no, except at the last question.          *)
IsYes(s, line) ==
    line.says = "yes" \/ (line.says = "enter" /\ session[s].question = "default")

Answer(s) ==
    LET line == Head(typed[s])
        q    == session[s].question
    IN
    /\ At(s, "answer")
    /\ typed[s] # <<>>
    /\ typed' = [typed EXCEPT ![s] = Tail(@)]
    /\ \/ /\ IsYes(s, line)
          /\ answered' = answered \cup {[session |-> s, question |-> q, at |-> line.at]}
          /\ CASE q = "accept" -> Set(s, [session[s] EXCEPT !.ack = "prompt", !.at = "ask"])
               [] q \in {"install", "login"} -> Goto(s, "record-start")
               [] q = "default" -> Goto(s, "set-default")
       \/ /\ ~IsYes(s, line)
          /\ Stop(s, IF q = "default" THEN "0" ELSE "1")
          /\ UNCHANGED answered
    /\ UNCHANGED <<binary, journal, defaultAgent, attempted>>

-----------------------------------------------------------------------------
(* The commands.                                                           *)

(* The acknowledgement may be given by a flag or a variable; `tty` is      *)
(* whether there is a controlling terminal.                                *)
Begin(s, command, agent, tty, given) ==
    /\ session[s] = NotBegun
    /\ Set(s, [at |-> "look-up", command |-> command, agent |-> agent,
               step |-> IF command = "login" THEN "login" ELSE "install",
               tty |-> tty, given |-> given, ack |-> "none",
               question |-> "none", rc |-> "none", denied |-> FALSE,
               unaudited |-> FALSE, exit |-> "none"])
    /\ UNCHANGED <<typed, binary, journal, defaultAgent, answered, attempted>>

(* Installing what is installed succeeds at once; the installer needs      *)
(* tools, and both need a terminal.                                        *)
Installed(s) == binary[session[s].agent] # "none"

LookUp(s) ==
    LET install == session[s].step = "install" IN
    /\ At(s, "look-up")
    /\ \/ install /\ Installed(s) /\ Succeed(s)
       \/ ~install /\ ~Installed(s) /\ Stop(s, "1")
       \/ install # Installed(s) /\ ~session[s].tty /\ Stop(s, "1")
       \/ install /\ ~Installed(s) /\ Stop(s, "1")
       \/ install # Installed(s) /\ session[s].tty /\ Goto(s, "acknowledge")
    /\ UNCHANGED <<typed, binary, journal, defaultAgent, answered, attempted>>

(* Once for each invocation, also when it goes through two steps.          *)
MutAcknowledge(s) ==                    \* not noted for the record
    /\ At(s, "acknowledge")
    /\ Goto(s, "ask")
    /\ UNCHANGED <<typed, binary, journal, defaultAgent, answered, attempted>>
Acknowledge(s) ==
    /\ At(s, "acknowledge")
    /\ \/ /\ session[s].ack = "none"
          /\ session[s].given = "none"
          /\ Ask(s, "accept")
       \/ /\ session[s].ack # "none" \/ session[s].given # "none"
          /\ Set(s, [session[s] EXCEPT !.at = "ask",
                         !.ack = IF @ = "none" THEN session[s].given ELSE @])
          /\ UNCHANGED <<typed, binary, journal, defaultAgent, answered, attempted>>

AskToRun(s) ==
    /\ At(s, "ask")
    /\ Ask(s, session[s].step)

Entry(s, status) ==
    [session |-> s, agent |-> session[s].agent, step |-> session[s].step, status |-> status]

(* Nothing runs when the intent cannot be recorded.                        *)
RecordStart(s) ==
    /\ At(s, "record-start")
    /\ \/ /\ journal' = journal \cup {Entry(s, "started")}
          /\ Goto(s, "vendor")
       \/ Stop(s, "1") /\ UNCHANGED journal
    /\ UNCHANGED <<typed, binary, defaultAgent, answered, attempted>>

(* The vendor's code gets the terminal.  It cannot be run when there is no *)
(* bash, or the binary has gone since it was looked up.                    *)
RunVendor(s) ==
    /\ At(s, "vendor")
    /\ \/ /\ attempted' = attempted \cup {[session |-> s, step |-> session[s].step]}
          /\ Goto(s, "running")
       \/ /\ session[s].step = "install" \/ ~Installed(s)
          /\ Set(s, [session[s] EXCEPT !.at = "record-result", !.rc = "127"])
          /\ UNCHANGED attempted
    /\ UNCHANGED <<typed, binary, journal, defaultAgent, answered>>

(* An installer leaves a binary or does not, whatever its exit status is;  *)
(* Ctrl-C ends the vendor's code with a status too.                        *)
VendorEnds(s, rc) ==
    LET a == session[s].agent IN
    /\ At(s, "running")
    /\ IF session[s].step = "install"
       THEN \E place \in Places : binary' = [binary EXCEPT ![a] = place]
       ELSE UNCHANGED binary
    /\ Set(s, [session[s] EXCEPT !.rc = rc, !.at =
          IF session[s].step = "login" /\ rc = "0" /\ a \in WithStatus
          THEN "verdict" ELSE "record-result"])
    /\ UNCHANGED <<typed, journal, defaultAgent, answered, attempted>>

VendorReads(s) ==
    /\ session[s].at \in {"running", "verdict"}
    /\ typed[s] # <<>>
    /\ typed' = [typed EXCEPT ![s] = Tail(@)]
    /\ UNCHANGED <<session, binary, journal, defaultAgent, answered, attempted>>

(* The vendor's CLI is asked about the login; "not known" is no denial.    *)
Verdict(s) ==
    /\ At(s, "verdict")
    /\ \E denied \in BOOLEAN :
          Set(s, [session[s] EXCEPT !.at = "record-result", !.denied = denied])
    /\ UNCHANGED <<typed, binary, journal, defaultAgent, answered, attempted>>

Ok(s) ==
    /\ session[s].rc = "0"
    /\ session[s].step = "install" => Installed(s)
    /\ ~session[s].denied

MutFinish(s, recorded) ==               \* success whether recorded or not
    IF Ok(s) THEN Succeed(s)
    ELSE Set(s, [session[s] EXCEPT !.at = "ended", !.exit = "1",
                                   !.unaudited = ~recorded])
Finish(s, recorded) ==
    IF Ok(s) /\ recorded THEN Succeed(s)
    ELSE Set(s, [session[s] EXCEPT !.at = "ended", !.exit = "1",
                                   !.unaudited = ~recorded])

RecordResult(s) ==
    /\ At(s, "record-result")
    /\ \/ /\ journal' = journal \cup {Entry(s, IF Ok(s) THEN "completed" ELSE "failed")}
          /\ Finish(s, TRUE)
       \/ Finish(s, FALSE) /\ UNCHANGED journal
    /\ UNCHANGED <<typed, binary, defaultAgent, answered, attempted>>

(* shinobi-default-agent may be missing, and wants the binary on PATH.     *)
SetDefault(s) ==
    LET a == session[s].agent IN
    /\ At(s, "set-default")
    /\ \/ binary[a] = "on-path" /\ defaultAgent' = a /\ Stop(s, "0")
       \/ Stop(s, "1") /\ UNCHANGED defaultAgent
    /\ UNCHANGED <<typed, binary, journal, answered, attempted>>

-----------------------------------------------------------------------------
(* The temporary directory of the vendor's code cannot be made, or cannot  *)
(* be removed: an exception that nothing catches.                          *)
WorkdirFails(s) ==
    /\ session[s].at \in {"vendor", "record-result", "set-default"}
    /\ Stop(s, "traceback")
    /\ UNCHANGED <<typed, binary, journal, defaultAgent, answered, attempted>>

(* Ctrl-C outside the vendor's code; a hangup, or a kill, anywhere.        *)
Interrupt(s) ==
    /\ Active(s)
    /\ \E exit \in {"130", "killed"} :
          /\ exit = "130" => session[s].at \notin {"running", "verdict"}
          /\ Stop(s, exit)
    /\ UNCHANGED <<typed, binary, journal, defaultAgent, answered, attempted>>

(* `shinobi default agent <name>`, which set-up also names to the operator *)
(* when it does not choose the default itself: any program on PATH -- one  *)
(* that is no agent here is NoAgent -- with no login, question or record.  *)
DefaultByHand ==
    /\ \/ \E a \in Agents : binary[a] = "on-path" /\ defaultAgent' = a
       \/ defaultAgent' = NoAgent
    /\ UNCHANGED <<session, typed, binary, journal, answered, attempted>>

(* Somebody installs, moves or removes the binary, or edits PATH.          *)
ChangeBinary(a, place) ==
    /\ binary' = [binary EXCEPT ![a] = place]
    /\ UNCHANGED <<session, typed, journal, defaultAgent, answered, attempted>>

Step(s) ==
    \/ LookUp(s) \/ Acknowledge(s) \/ AskToRun(s) \/ Answer(s)
    \/ RecordStart(s) \/ RunVendor(s) \/ VendorReads(s)
    \/ \E rc \in {"0", "130"} : VendorEnds(s, rc)
    \/ Verdict(s) \/ RecordResult(s) \/ SetDefault(s)
    \/ WorkdirFails(s) \/ Interrupt(s)

Next ==
    \/ \E s \in Sessions, command \in Commands, agent \in Agents,
          tty \in BOOLEAN, given \in {"none", "flag", "env"} :
          Begin(s, command, agent, tty, given)
    \/ \E s \in Sessions : Step(s)
    \/ \E s \in Sessions, says \in {"yes", "no", "enter"} : Type(s, says)
    \/ \E a \in Agents, place \in Places : ChangeBinary(a, place)
    \/ DefaultByHand

Spec == Init /\ [][Next]_vars

-----------------------------------------------------------------------------
(* Properties.                                                             *)

Running == [at: {"look-up", "acknowledge", "ask", "answer", "record-start",
                 "vendor", "running", "verdict", "record-result", "set-default",
                 "ended"},
            command: Commands, agent: Agents, step: {"install", "login", "default"},
            tty: BOOLEAN, given: {"none", "flag", "env"},
            ack: {"none", "flag", "env", "prompt"},
            question: Questions \cup {"none"},
            rc: {"none", "0", "127", "130"},
            denied: BOOLEAN, unaudited: BOOLEAN,
            exit: {"none", "0", "1", "130", "traceback", "killed"}]

(* The types: and whatever is recorded says how the operator took note.    *)
SetupTypeOK ==
    /\ session \in [Sessions -> {NotBegun} \cup Running]
    /\ \A s \in Sessions :
          session[s].at \in {"record-start", "record-result"} => session[s].ack # "none"
    /\ typed \in [Sessions -> Seq([says: {"yes", "no", "enter"},
                                   at: Questions \cup {"nothing"}])]
    /\ binary \in [Agents -> Places]
    /\ journal \subseteq [session: Sessions, agent: Agents, step: {"install", "login"},
                          status: {"started", "completed", "failed"}]
    /\ defaultAgent \in Agents \cup {NoAgent}
    /\ answered \subseteq [session: Sessions, question: Questions,
                           at: Questions \cup {"nothing"}]
    /\ attempted \subseteq [session: Sessions, step: {"install", "login"}]

AskedAt(s, question) ==
    [session |-> s, question |-> question, at |-> question] \in answered

(* Vendor code runs only after its intent was recorded, the operator has   *)
(* taken note that its traffic is not governed, and has said yes to this   *)
(* very question while it was on the screen -- whatever was typed before   *)
(* it was asked, or while the vendor's code had the terminal.              *)
VendorCodeIsConfirmed ==
    \A a \in attempted :
        LET s == a.session IN
        /\ AskedAt(s, a.step)
        /\ session[s].given = "none" => AskedAt(s, "accept")
        /\ \E e \in journal : e.session = s /\ e.step = a.step /\ e.status = "started"

Results(s, step) ==
    {e.status : e \in {x \in journal : x.session = s /\ x.step = step}} \ {"started"}

(* A command that ran vendor code and came to its own end has recorded how *)
(* it went, or has told the operator that it could not; one that says it   *)
(* succeeded has recorded nothing but successes.  Set-up offers to make an *)
(* agent the default, and is told yes, only after its own login to it is   *)
(* on record as completed.                                                 *)
OutcomesAreAccounted ==
    /\ \A a \in attempted :
          LET s == session[a.session]
              results == Results(a.session, a.step)
          IN
          /\ s.at = "ended" /\ s.exit = "0" => results = {"completed"}
          /\ s.at = "ended" /\ s.exit = "1" => s.unaudited \/ results # {}
          /\ results # {"completed", "failed"}
    /\ \A s \in Sessions :
          session[s] # NotBegun /\ session[s].at = "ended" /\ session[s].exit = "0" =>
              session[s].command = "install" \/ Results(s, "login") = {"completed"}
    /\ \A q \in answered : q.question = "default" =>
          Results(q.session, "login") = {"completed"}
=============================================================================
