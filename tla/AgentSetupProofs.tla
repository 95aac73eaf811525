--------------------------- MODULE AgentSetupProofs ---------------------------
(***************************************************************************)
(* Theorems about `shinobi agent install | login | setup`, for any         *)
(* invocations and agents, and any number of lines typed ahead.            *)
(***************************************************************************)
EXTENDS AgentSetup, TLAPS

Lines == [says: {"yes", "no", "enter"}, at: Questions \cup {"nothing"}]

Exits == {"none", "0", "1", "130", "traceback", "killed"}

VendorSteps == {"install", "login"}

(* What an invocation never changes.                                       *)
Kept(s) ==
    /\ session'[s].command = session[s].command
    /\ session'[s].agent = session[s].agent
    /\ session'[s].tty = session[s].tty
    /\ session'[s].given = session[s].given

(* It went to another stage of the same step, and nothing else happened.   *)
Went(s, at) ==
    /\ session'[s].at = at /\ Kept(s)
    /\ session'[s].step = session[s].step
    /\ session'[s].ack = session[s].ack

LEMMA SessionRecord ==
    ASSUME SetupTypeOK, NEW s \in Sessions
    PROVE  /\ session[s].at # "not-begun" => session[s] \in Running
           /\ session[s].at = "not-begun" => session[s] = NotBegun
  <1>1. CASE session[s] = NotBegun
    <2>1. NotBegun.at = "not-begun"
      BY DEF NotBegun
    <2>2. QED
      BY <1>1, <2>1
  <1>2. CASE session[s] # NotBegun
    <2>1. session[s] \in Running
      BY <1>2 DEF SetupTypeOK
    <2>2. session[s].at # "not-begun"
      BY <2>1 DEF Running
    <2>3. QED
      BY <2>1, <2>2
  <1>3. QED
    BY <1>1, <1>2

LEMMA SetShape ==
    ASSUME SetupTypeOK, NEW s \in Sessions, NEW rec \in Running, Set(s, rec)
    PROVE  /\ session' \in [Sessions -> {NotBegun} \cup Running]
           /\ session'[s] = rec
           /\ \A d \in Sessions \ {s} : session'[d] = session[d]
  BY DEF Set, SetupTypeOK

LEMMA GotoShape ==
    ASSUME SetupTypeOK, NEW s \in Sessions, session[s] \in Running,
           NEW at \in {"ask", "acknowledge", "record-start", "vendor", "running",
                       "set-default"},
           Goto(s, at)
    PROVE  /\ session' \in [Sessions -> {NotBegun} \cup Running]
           /\ \A d \in Sessions \ {s} : session'[d] = session[d]
           /\ Went(s, at)
  <1> DEFINE rec == [session[s] EXCEPT !.at = at]
  <1>1. /\ rec \in Running /\ rec.at = at
        /\ rec.command = session[s].command /\ rec.agent = session[s].agent
        /\ rec.tty = session[s].tty /\ rec.given = session[s].given
        /\ rec.step = session[s].step /\ rec.ack = session[s].ack
    BY DEF Running
  <1>2. Set(s, rec)
    BY DEF Goto
  <1> HIDE DEF rec
  <1>3. QED
    BY <1>1, <1>2, SetShape DEF Went, Kept

LEMMA StopShape ==
    ASSUME SetupTypeOK, NEW s \in Sessions, session[s] \in Running,
           NEW exit \in Exits, Stop(s, exit)
    PROVE  /\ session' \in [Sessions -> {NotBegun} \cup Running]
           /\ \A d \in Sessions \ {s} : session'[d] = session[d]
           /\ Went(s, "ended") /\ session'[s].exit = exit
  <1> DEFINE mid == [session[s] EXCEPT !.at = "ended"]
             rec == [mid EXCEPT !.exit = exit]
  <1>1. /\ mid \in Running /\ mid.at = "ended"
        /\ mid.command = session[s].command /\ mid.agent = session[s].agent
        /\ mid.tty = session[s].tty /\ mid.given = session[s].given
        /\ mid.step = session[s].step /\ mid.ack = session[s].ack
    BY DEF Running
  <1>2. Set(s, rec)
    BY DEF Stop, Running
  <1> HIDE DEF mid
  <1>3. exit \in {"none", "0", "1", "130", "traceback", "killed"}
    BY DEF Exits
  <1>4. /\ rec \in Running /\ rec.at = "ended" /\ rec.exit = exit
        /\ rec.command = session[s].command /\ rec.agent = session[s].agent
        /\ rec.tty = session[s].tty /\ rec.given = session[s].given
        /\ rec.step = session[s].step /\ rec.ack = session[s].ack
    BY <1>1, <1>3 DEF Running
  <1> HIDE DEF rec
  <1>5. QED
    BY <1>2, <1>4, SetShape DEF Went, Kept

LEMMA SucceedShape ==
    ASSUME SetupTypeOK, NEW s \in Sessions, session[s] \in Running,
           session[s].step # "default", Succeed(s)
    PROVE  /\ session' \in [Sessions -> {NotBegun} \cup Running]
           /\ \A d \in Sessions \ {s} : session'[d] = session[d]
           /\ Kept(s) /\ session'[s].ack = session[s].ack
           /\ \/ /\ session[s].command = "setup" /\ session[s].step = "install"
                 /\ session'[s].at = "look-up" /\ session'[s].step = "login"
              \/ /\ session[s].command = "setup" /\ session[s].step = "login"
                 /\ session'[s].at = "ask" /\ session'[s].step = "default"
              \/ /\ session[s].command # "setup"
                 /\ Went(s, "ended") /\ session'[s].exit = "0"
  <1> DEFINE rec(step, at) == [session[s] EXCEPT !.step = step, !.at = at]
  <1>1. ASSUME NEW step \in {"login", "default"}, NEW at \in {"look-up", "ask"}
        PROVE  /\ rec(step, at) \in Running
               /\ rec(step, at).at = at /\ rec(step, at).step = step
               /\ rec(step, at).command = session[s].command
               /\ rec(step, at).agent = session[s].agent
               /\ rec(step, at).tty = session[s].tty
               /\ rec(step, at).given = session[s].given
               /\ rec(step, at).ack = session[s].ack
    <2> DEFINE mid == [session[s] EXCEPT !.step = step]
    <2>1. /\ mid \in Running /\ mid.step = step /\ mid.ack = session[s].ack
          /\ mid.command = session[s].command /\ mid.agent = session[s].agent
          /\ mid.tty = session[s].tty /\ mid.given = session[s].given
      BY DEF Running
    <2>2. rec(step, at) = [mid EXCEPT !.at = at]
      OBVIOUS
    <2> HIDE DEF mid, rec
    <2>3. QED
      BY <2>1, <2>2 DEF Running
  <1>2. session[s].step \in {"install", "login"}
    BY DEF Running
  <1>3. CASE session[s].command = "setup" /\ session[s].step = "install"
    <2>1. Set(s, rec("login", "look-up"))
      BY <1>3 DEF Succeed
    <2> HIDE DEF rec
    <2>2. QED
      BY <1>1, <1>3, <2>1, SetShape DEF Kept
  <1>4. CASE session[s].command = "setup" /\ session[s].step = "login"
    <2>1. Set(s, rec("default", "ask"))
      BY <1>4 DEF Succeed
    <2> HIDE DEF rec
    <2>2. QED
      BY <1>1, <1>4, <2>1, SetShape DEF Kept
  <1>5. CASE session[s].command # "setup"
    <2>1. Stop(s, "0")
      BY <1>5 DEF Succeed
    <2>2. Went(s, "ended") /\ session'[s].exit = "0"
      BY <2>1, StopShape DEF Exits
    <2>3. QED
      BY <1>5, <2>1, <2>2, StopShape DEF Exits, Went
  <1>6. QED
    BY <1>2, <1>3, <1>4, <1>5

LEMMA AskShape ==
    ASSUME SetupTypeOK, NEW s \in Sessions, session[s] \in Running,
           NEW question \in Questions, Ask(s, question)
    PROVE  /\ session' \in [Sessions -> {NotBegun} \cup Running]
           /\ \A d \in Sessions \ {s} : session'[d] = session[d]
           /\ Went(s, "answer") /\ session'[s].question = question
           /\ typed' \in [Sessions -> Seq(Lines)]
           /\ typed'[s] = <<>>
           /\ \A d \in Sessions \ {s} : typed'[d] = typed[d]
  <1> DEFINE mid == [session[s] EXCEPT !.at = "answer"]
             rec == [mid EXCEPT !.question = question]
  <1>0. /\ mid \in Running /\ mid.at = "answer"
        /\ mid.command = session[s].command /\ mid.agent = session[s].agent
        /\ mid.tty = session[s].tty /\ mid.given = session[s].given
        /\ mid.step = session[s].step /\ mid.ack = session[s].ack
    BY DEF Running
  <1>2. Set(s, rec)
    BY DEF Ask
  <1> HIDE DEF mid
  <1>1. /\ rec \in Running /\ rec.at = "answer" /\ rec.question = question
        /\ rec.command = session[s].command /\ rec.agent = session[s].agent
        /\ rec.tty = session[s].tty /\ rec.given = session[s].given
        /\ rec.step = session[s].step /\ rec.ack = session[s].ack
    BY <1>0 DEF Running
  <1>3. /\ typed' \in [Sessions -> Seq(Lines)]
        /\ typed'[s] = <<>>
        /\ \A d \in Sessions \ {s} : typed'[d] = typed[d]
    <2>1. typed \in [Sessions -> Seq(Lines)]
      BY DEF SetupTypeOK, Lines
    <2>2. typed' = [typed EXCEPT ![s] = <<>>]
      BY DEF Ask, Discard
    <2>3. <<>> \in Seq(Lines)
      OBVIOUS
    <2>4. QED
      BY <2>1, <2>2, <2>3
  <1> HIDE DEF rec
  <1>4. QED
    BY <1>1, <1>2, <1>3, SetShape DEF Went, Kept

(* The operator's acknowledgement is noted: how he gave it.                *)
LEMMA NoteShape ==
    ASSUME SetupTypeOK, NEW s \in Sessions, session[s] \in Running,
           NEW ack \in {"none", "flag", "env", "prompt"},
           Set(s, [session[s] EXCEPT !.ack = ack, !.at = "ask"])
    PROVE  /\ session' \in [Sessions -> {NotBegun} \cup Running]
           /\ \A d \in Sessions \ {s} : session'[d] = session[d]
           /\ session'[s].at = "ask" /\ Kept(s)
           /\ session'[s].step = session[s].step /\ session'[s].ack = ack
  <1> DEFINE mid == [session[s] EXCEPT !.ack = ack]
             rec == [mid EXCEPT !.at = "ask"]
  <1>0. /\ mid \in Running /\ mid.ack = ack
        /\ mid.command = session[s].command /\ mid.agent = session[s].agent
        /\ mid.tty = session[s].tty /\ mid.given = session[s].given
        /\ mid.step = session[s].step
    BY DEF Running
  <1>2. Set(s, rec)
    OBVIOUS
  <1> HIDE DEF mid
  <1>1. /\ rec \in Running /\ rec.ack = ack /\ rec.at = "ask"
        /\ rec.command = session[s].command /\ rec.agent = session[s].agent
        /\ rec.tty = session[s].tty /\ rec.given = session[s].given
        /\ rec.step = session[s].step
    BY <1>0 DEF Running
  <1> HIDE DEF rec
  <1>3. QED
    BY <1>1, <1>2, SetShape DEF Kept

LEMMA NoteGivenShape ==
    ASSUME SetupTypeOK, NEW s \in Sessions, session[s] \in Running,
           NEW ack \in {"none", "flag", "env", "prompt"},
           Set(s, [session[s] EXCEPT !.at = "ask", !.ack = ack])
    PROVE  /\ session' \in [Sessions -> {NotBegun} \cup Running]
           /\ \A d \in Sessions \ {s} : session'[d] = session[d]
           /\ session'[s].at = "ask" /\ Kept(s)
           /\ session'[s].step = session[s].step /\ session'[s].ack = ack
  <1> DEFINE mid == [session[s] EXCEPT !.at = "ask"]
             rec == [mid EXCEPT !.ack = ack]
  <1>0. /\ mid \in Running /\ mid.at = "ask"
        /\ mid.command = session[s].command /\ mid.agent = session[s].agent
        /\ mid.tty = session[s].tty /\ mid.given = session[s].given
        /\ mid.step = session[s].step
    BY DEF Running
  <1>2. Set(s, rec)
    OBVIOUS
  <1> HIDE DEF mid
  <1>1. /\ rec \in Running /\ rec.at = "ask" /\ rec.ack = ack
        /\ rec.command = session[s].command /\ rec.agent = session[s].agent
        /\ rec.tty = session[s].tty /\ rec.given = session[s].given
        /\ rec.step = session[s].step
    BY <1>0 DEF Running
  <1> HIDE DEF rec
  <1>3. QED
    BY <1>1, <1>2, SetShape DEF Kept

(* The vendor's code, or its status command, has ended.                    *)
LEMMA VendorEndsShape ==
    ASSUME SetupTypeOK, NEW s \in Sessions, session[s] \in Running,
           NEW rc \in {"0", "127", "130"},
           NEW at \in {"verdict", "record-result"},
           Set(s, [session[s] EXCEPT !.rc = rc, !.at = at])
    PROVE  /\ session' \in [Sessions -> {NotBegun} \cup Running]
           /\ \A d \in Sessions \ {s} : session'[d] = session[d]
           /\ Went(s, at)
  <1> DEFINE mid == [session[s] EXCEPT !.rc = rc]
  <1>0. /\ mid \in Running
        /\ mid.command = session[s].command /\ mid.agent = session[s].agent
        /\ mid.tty = session[s].tty /\ mid.given = session[s].given
        /\ mid.step = session[s].step /\ mid.ack = session[s].ack
    BY DEF Running
  <1> HIDE DEF mid
  <1> DEFINE rec == [mid EXCEPT !.at = at]
  <1>1. /\ rec \in Running /\ rec.at = at
        /\ rec.command = session[s].command /\ rec.agent = session[s].agent
        /\ rec.tty = session[s].tty /\ rec.given = session[s].given
        /\ rec.step = session[s].step /\ rec.ack = session[s].ack
    BY <1>0 DEF Running
  <1>2. Set(s, rec)
    BY DEF mid
  <1> HIDE DEF rec
  <1>3. QED
    BY <1>1, <1>2, SetShape DEF Went, Kept

LEMMA MissingShape ==
    ASSUME SetupTypeOK, NEW s \in Sessions, session[s] \in Running,
           Set(s, [session[s] EXCEPT !.at = "record-result", !.rc = "127"])
    PROVE  /\ session' \in [Sessions -> {NotBegun} \cup Running]
           /\ \A d \in Sessions \ {s} : session'[d] = session[d]
           /\ Went(s, "record-result")
  <1> DEFINE mid == [session[s] EXCEPT !.at = "record-result"]
             rec == [mid EXCEPT !.rc = "127"]
  <1>0. /\ mid \in Running /\ mid.at = "record-result"
        /\ mid.command = session[s].command /\ mid.agent = session[s].agent
        /\ mid.tty = session[s].tty /\ mid.given = session[s].given
        /\ mid.step = session[s].step /\ mid.ack = session[s].ack
    BY DEF Running
  <1>2. Set(s, rec)
    OBVIOUS
  <1> HIDE DEF mid
  <1>1. /\ rec \in Running /\ rec.at = "record-result" /\ rec.rc = "127"
        /\ rec.command = session[s].command /\ rec.agent = session[s].agent
        /\ rec.tty = session[s].tty /\ rec.given = session[s].given
        /\ rec.step = session[s].step /\ rec.ack = session[s].ack
    BY <1>0 DEF Running
  <1> HIDE DEF rec
  <1>3. QED
    BY <1>1, <1>2, SetShape DEF Went, Kept

LEMMA VerdictShape ==
    ASSUME SetupTypeOK, NEW s \in Sessions, session[s] \in Running,
           NEW denied \in BOOLEAN,
           Set(s, [session[s] EXCEPT !.at = "record-result", !.denied = denied])
    PROVE  /\ session' \in [Sessions -> {NotBegun} \cup Running]
           /\ \A d \in Sessions \ {s} : session'[d] = session[d]
           /\ Went(s, "record-result")
  <1> DEFINE mid == [session[s] EXCEPT !.at = "record-result"]
             rec == [mid EXCEPT !.denied = denied]
  <1>0. /\ mid \in Running /\ mid.at = "record-result"
        /\ mid.command = session[s].command /\ mid.agent = session[s].agent
        /\ mid.tty = session[s].tty /\ mid.given = session[s].given
        /\ mid.step = session[s].step /\ mid.ack = session[s].ack
    BY DEF Running
  <1>2. Set(s, rec)
    OBVIOUS
  <1> HIDE DEF mid
  <1>1. /\ rec \in Running /\ rec.at = "record-result" /\ rec.denied = denied
        /\ rec.command = session[s].command /\ rec.agent = session[s].agent
        /\ rec.tty = session[s].tty /\ rec.given = session[s].given
        /\ rec.step = session[s].step /\ rec.ack = session[s].ack
    BY <1>0 DEF Running
  <1> HIDE DEF rec
  <1>3. QED
    BY <1>1, <1>2, SetShape DEF Went, Kept

(* The result of a step could not be recorded, or is a failure.            *)
LEMMA FailShape ==
    ASSUME SetupTypeOK, NEW s \in Sessions, session[s] \in Running,
           NEW unaudited \in BOOLEAN,
           Set(s, [session[s] EXCEPT !.at = "ended", !.exit = "1",
                                     !.unaudited = unaudited])
    PROVE  /\ session' \in [Sessions -> {NotBegun} \cup Running]
           /\ \A d \in Sessions \ {s} : session'[d] = session[d]
           /\ Went(s, "ended") /\ session'[s].exit = "1"
           /\ session'[s].unaudited = unaudited
  <1> DEFINE first == [session[s] EXCEPT !.at = "ended"]
             mid == [first EXCEPT !.exit = "1"]
  <1>4. /\ first \in Running /\ first.at = "ended"
        /\ first.command = session[s].command /\ first.agent = session[s].agent
        /\ first.tty = session[s].tty /\ first.given = session[s].given
        /\ first.step = session[s].step /\ first.ack = session[s].ack
    BY DEF Running
  <1>5. mid = [session[s] EXCEPT !.at = "ended", !.exit = "1"]
    OBVIOUS
  <1> HIDE DEF first
  <1>0. /\ mid \in Running /\ mid.at = "ended" /\ mid.exit = "1"
        /\ mid.command = session[s].command /\ mid.agent = session[s].agent
        /\ mid.tty = session[s].tty /\ mid.given = session[s].given
        /\ mid.step = session[s].step /\ mid.ack = session[s].ack
    BY <1>4 DEF Running
  <1> HIDE DEF mid
  <1> DEFINE rec == [mid EXCEPT !.unaudited = unaudited]
  <1>1. /\ rec \in Running /\ rec.at = "ended" /\ rec.exit = "1"
        /\ rec.unaudited = unaudited
        /\ rec.command = session[s].command /\ rec.agent = session[s].agent
        /\ rec.tty = session[s].tty /\ rec.given = session[s].given
        /\ rec.step = session[s].step /\ rec.ack = session[s].ack
    BY <1>0 DEF Running
  <1>2. Set(s, rec)
    BY <1>5 DEF rec
  <1> HIDE DEF rec
  <1>3. QED
    BY <1>1, <1>2, SetShape DEF Went, Kept

LEMMA BeginShape ==
    ASSUME SetupTypeOK, NEW s \in Sessions, NEW command \in Commands,
           NEW agent \in Agents, NEW tty \in BOOLEAN,
           NEW given \in {"none", "flag", "env"},
           Begin(s, command, agent, tty, given)
    PROVE  /\ session' \in [Sessions -> {NotBegun} \cup Running]
           /\ \A d \in Sessions \ {s} : session'[d] = session[d]
           /\ session[s] = NotBegun /\ session[s].at = "not-begun"
           /\ session'[s].at = "look-up" /\ session'[s].command = command
           /\ session'[s].step = IF command = "login" THEN "login" ELSE "install"
           /\ session'[s].ack = "none"
  <1> DEFINE step == IF command = "login" THEN "login" ELSE "install"
             rec == [at |-> "look-up", command |-> command, agent |-> agent,
                     step |-> step, tty |-> tty, given |-> given, ack |-> "none",
                     question |-> "none", rc |-> "none", denied |-> FALSE,
                     unaudited |-> FALSE, exit |-> "none"]
  <1>1. Set(s, rec) /\ session[s] = NotBegun
    BY DEF Begin
  <1>2. step \in {"install", "login"}
    OBVIOUS
  <1>3. /\ rec.at = "look-up" /\ rec.command = command /\ rec.step = step
        /\ rec.ack = "none"
    OBVIOUS
  <1>4. rec \in Running
    <2> HIDE DEF step
    <2>1. QED
      BY <1>2 DEF Running
  <1> HIDE DEF rec
  <1>5. NotBegun.at = "not-begun"
    BY DEF NotBegun
  <1>6. QED
    BY <1>1, <1>3, <1>4, <1>5, SetShape

-----------------------------------------------------------------------------
(* Type correctness: with the stages each step of a command goes through,  *)
(* and what is waiting at the terminal while a question is shown.          *)

StageOf(s) ==
    LET r == session[s] IN
    r.at # "not-begun" =>
    /\ r.command = "install" => r.step = "install"
    /\ r.command = "login" => r.step = "login"
    /\ r.at \notin {"ask", "answer", "set-default", "ended"} =>
          r.step # "default"
    /\ r.at = "set-default" => r.step = "default"
    /\ r.at = "answer" =>
          \/ r.question = r.step
          \/ r.question = "accept" /\ r.step # "default"
    /\ r.at = "answer" =>
          \A i \in 1..Len(typed[s]) : typed[s][i].at = r.question
    /\ r.at \in {"record-start", "vendor", "running", "verdict",
                 "record-result"} => r.ack # "none"
    /\ r.at = "ask" /\ r.step # "default" => r.ack # "none"
    /\ r.at = "answer" /\ r.question \in VendorSteps => r.ack # "none"

SetupBase == SetupTypeOK /\ \A s \in Sessions : StageOf(s)

(* The lines of another invocation's terminal are its own.                 *)
LinesKept(s) ==
    /\ typed' \in [Sessions -> Seq(Lines)]
    /\ \A d \in Sessions \ {s} : typed'[d] = typed[d]

LEMMA TailLines ==
    ASSUME SetupTypeOK, NEW s \in Sessions, typed[s] # <<>>,
           typed' = [typed EXCEPT ![s] = Tail(@)]
    PROVE  /\ LinesKept(s)
           /\ Head(typed[s]) \in Lines
           /\ Head(typed[s]) = typed[s][1] /\ 1 \in 1..Len(typed[s])
  <1>1. typed \in [Sessions -> Seq(Lines)]
    BY DEF SetupTypeOK, Lines
  <1>2. typed[s] \in Seq(Lines)
    BY <1>1
  <1>3. Tail(typed[s]) \in Seq(Lines) /\ Head(typed[s]) \in Lines
    BY <1>2
  <1>4. Head(typed[s]) = typed[s][1] /\ 1 \in 1..Len(typed[s])
    BY <1>2
  <1>5. QED
    BY <1>1, <1>3, <1>4 DEF LinesKept

(* What a step of an invocation does to it.                                *)
Shape(s) ==
    /\ session' \in [Sessions -> {NotBegun} \cup Running]
    /\ \A d \in Sessions \ {s} : session'[d] = session[d]
    /\ Kept(s)
    /\ LinesKept(s)
    /\ StageOf(s)'

LEMMA SameLines ==
    ASSUME SetupTypeOK, NEW s \in Sessions, typed' = typed
    PROVE  LinesKept(s)
  BY DEF SetupTypeOK, LinesKept, Lines

LEMMA StopStage ==
    ASSUME SetupBase, NEW s \in Sessions, session[s] \in Running,
           NEW exit \in Exits, Stop(s, exit), LinesKept(s)
    PROVE  Shape(s)
  <1>1. SetupTypeOK /\ StageOf(s) /\ session[s].at # "not-begun"
    BY DEF SetupBase, Running
  <1>2. /\ session' \in [Sessions -> {NotBegun} \cup Running]
        /\ \A d \in Sessions \ {s} : session'[d] = session[d]
        /\ Went(s, "ended")
    BY <1>1, StopShape
  <1>3. StageOf(s)'
    BY <1>1, <1>2 DEF StageOf, Went, Kept
  <1>4. QED
    BY <1>2, <1>3 DEF Shape, Went

LEMMA SucceedStage ==
    ASSUME SetupBase, NEW s \in Sessions, session[s] \in Running,
           session[s].step # "default", Succeed(s), LinesKept(s)
    PROVE  Shape(s)
  <1>1. SetupTypeOK /\ StageOf(s) /\ session[s].at # "not-begun"
    BY DEF SetupBase, Running
  <1>2. /\ session' \in [Sessions -> {NotBegun} \cup Running]
        /\ \A d \in Sessions \ {s} : session'[d] = session[d]
        /\ Kept(s)
    BY <1>1, SucceedShape
  <1>3. StageOf(s)'
    BY <1>1, SucceedShape DEF StageOf, Went, Kept
  <1>4. QED
    BY <1>2, <1>3 DEF Shape

LEMMA AcceptIsAQuestion == "accept" \in Questions /\ "accept" \notin VendorSteps
  BY DEF Questions, VendorSteps

LEMMA AskStage ==
    ASSUME SetupBase, NEW s \in Sessions, session[s] \in Running,
           NEW question \in Questions, Ask(s, question),
           \/ question = session[s].step
           \/ question = "accept" /\ session[s].step # "default",
           question \in VendorSteps => session[s].ack # "none"
    PROVE  Shape(s)
  <1>1. SetupTypeOK /\ StageOf(s) /\ session[s].at # "not-begun"
    BY DEF SetupBase, Running
  <1>2. /\ session' \in [Sessions -> {NotBegun} \cup Running]
        /\ \A d \in Sessions \ {s} : session'[d] = session[d]
        /\ Went(s, "answer") /\ session'[s].question = question
        /\ LinesKept(s) /\ typed'[s] = <<>>
    BY <1>1, AskShape DEF LinesKept
  <1>3. \A i \in 1..Len(typed'[s]) : FALSE
    BY <1>2
  <1>4. StageOf(s)'
    BY <1>1, <1>2, <1>3 DEF StageOf, Went, Kept
  <1>5. QED
    BY <1>2, <1>4 DEF Shape, Went

LEMMA StepShape ==
    ASSUME SetupBase, NEW s \in Sessions, Step(s)
    PROVE  session[s] \in Running /\ session[s].at # "not-begun" /\ Shape(s)
  <1>0. /\ SetupTypeOK /\ StageOf(s)
        /\ session[s] \in Running /\ session[s].at # "not-begun"
    <2>1. session[s].at # "not-begun"
      BY DEF Step, At, Active, LookUp, Acknowledge, AskToRun, Answer,
             RecordStart, RunVendor, VendorReads, VendorEnds, Verdict,
             RecordResult, SetDefault, WorkdirFails, Interrupt
    <2>2. QED
      BY <2>1, SessionRecord DEF SetupBase
  <1>1. /\ session[s].command \in Commands
        /\ session[s].step \in {"install", "login", "default"}
        /\ session[s].question \in Questions \cup {"none"}
        /\ session[s].ack \in {"none", "flag", "env", "prompt"}
        /\ session[s].given \in {"none", "flag", "env"}
    BY <1>0 DEF Running
  <1>2. CASE LookUp(s)
    <2>1. session[s].at = "look-up" /\ session[s].step # "default" /\ LinesKept(s)
      BY <1>0, <1>2, SameLines DEF LookUp, At, StageOf
    <2>2. Succeed(s) \/ Stop(s, "1") \/ Goto(s, "acknowledge")
      BY <1>2 DEF LookUp
    <2>3. CASE Goto(s, "acknowledge")
      BY <1>0, <2>1, <2>3, GotoShape DEF Shape, StageOf, Went, Kept
    <2>4. QED
      BY <1>0, <2>1, <2>2, <2>3, SucceedStage, StopStage DEF Exits
  <1>3. CASE Acknowledge(s)
    <2>0. session[s].at = "acknowledge" /\ session[s].step # "default"
      BY <1>0, <1>3 DEF Acknowledge, At, StageOf
    <2>1. CASE Ask(s, "accept")
      BY <1>0, <2>0, <2>1, AcceptIsAQuestion, AskStage
    <2>2. CASE ~ Ask(s, "accept")
      <3>1. PICK ack \in {"flag", "env", "prompt"} :
               Set(s, [session[s] EXCEPT !.at = "ask", !.ack = ack])
        BY <1>1, <1>3, <2>2 DEF Acknowledge
      <3>2. LinesKept(s)
        BY <1>0, <1>3, <2>2, SameLines DEF Acknowledge
      <3>3. QED
        BY <1>0, <2>0, <3>1, <3>2, NoteGivenShape DEF Shape, StageOf, Kept
    <2>3. QED
      BY <2>1, <2>2
  <1>4. CASE AskToRun(s)
    <2>1. session[s].at = "ask" /\ Ask(s, session[s].step)
      BY <1>4 DEF AskToRun, At
    <2>2. session[s].step \in Questions
      BY <1>1 DEF Questions
    <2>3. session[s].step \in VendorSteps => session[s].ack # "none"
      BY <1>0, <2>1 DEF StageOf, VendorSteps
    <2>4. QED
      BY <1>0, <2>1, <2>2, <2>3, AskStage
  <1>5. CASE Answer(s)
    <2>1. session[s].at = "answer" /\ LinesKept(s)
      BY <1>0, <1>5, TailLines DEF Answer, At
    <2>2. CASE \E exit \in {"0", "1"} : Stop(s, exit)
      BY <1>0, <2>1, <2>2, StopStage DEF Exits
    <2>3. CASE /\ session[s].question = "accept"
               /\ Set(s, [session[s] EXCEPT !.ack = "prompt", !.at = "ask"])
      BY <1>0, <2>1, <2>3, NoteShape DEF Shape, StageOf, Kept
    <2>4. CASE session[s].question \in VendorSteps /\ Goto(s, "record-start")
      BY <1>0, <2>1, <2>4, GotoShape DEF Shape, StageOf, Went, Kept, VendorSteps
    <2>5. CASE session[s].question = "default" /\ Goto(s, "set-default")
      BY <1>0, <2>1, <2>5, GotoShape DEF Shape, StageOf, Went, Kept, VendorSteps
    <2>6. session[s].question \in {"accept", "install", "login", "default"}
      BY <1>0, <1>1, <2>1 DEF StageOf
    <2>7. QED
      BY <1>5, <2>2, <2>3, <2>4, <2>5, <2>6 DEF Answer, VendorSteps
  <1>6. CASE RecordStart(s)
    <2>1. session[s].at = "record-start" /\ LinesKept(s)
      BY <1>0, <1>6, SameLines DEF RecordStart, At
    <2>2. CASE Goto(s, "vendor")
      BY <1>0, <2>1, <2>2, GotoShape DEF Shape, StageOf, Went, Kept
    <2>3. QED
      BY <1>0, <1>6, <2>1, <2>2, StopStage DEF RecordStart, Exits
  <1>7. CASE RunVendor(s)
    <2>1. session[s].at = "vendor" /\ LinesKept(s)
      BY <1>0, <1>7, SameLines DEF RunVendor, At
    <2>2. CASE Goto(s, "running")
      BY <1>0, <2>1, <2>2, GotoShape DEF Shape, StageOf, Went, Kept
    <2>3. CASE Set(s, [session[s] EXCEPT !.at = "record-result", !.rc = "127"])
      BY <1>0, <2>1, <2>3, MissingShape DEF Shape, StageOf, Went, Kept
    <2>4. QED
      BY <1>7, <2>2, <2>3 DEF RunVendor
  <1>8. CASE VendorReads(s)
    <2>1. /\ session[s].at \in {"running", "verdict"} /\ session' = session
          /\ LinesKept(s)
      BY <1>0, <1>8, TailLines DEF VendorReads
    <2>2. QED
      BY <1>0, <2>1 DEF Shape, StageOf, Kept, SetupTypeOK
  <1>9. ASSUME NEW rc \in {"0", "130"}, VendorEnds(s, rc)
        PROVE  Shape(s)
    <2>1. session[s].at = "running" /\ LinesKept(s)
      BY <1>0, <1>9, SameLines DEF VendorEnds, At
    <2>2. PICK at \in {"verdict", "record-result"} :
             Set(s, [session[s] EXCEPT !.rc = rc, !.at = at])
      BY <1>9 DEF VendorEnds
    <2>3. QED
      BY <1>0, <2>1, <2>2, VendorEndsShape DEF Shape, StageOf, Went, Kept
  <1>10. CASE Verdict(s)
    <2>1. session[s].at = "verdict" /\ LinesKept(s)
      BY <1>0, <1>10, SameLines DEF Verdict, At
    <2>2. PICK denied \in BOOLEAN :
             Set(s, [session[s] EXCEPT !.at = "record-result", !.denied = denied])
      BY <1>10 DEF Verdict
    <2>3. QED
      BY <1>0, <2>1, <2>2, VerdictShape DEF Shape, StageOf, Went, Kept
  <1>11. CASE RecordResult(s)
    <2>1. /\ session[s].at = "record-result" /\ session[s].step # "default"
          /\ LinesKept(s)
      BY <1>0, <1>11, SameLines DEF RecordResult, At, StageOf
    <2>2. \/ Succeed(s)
          \/ \E unaudited \in BOOLEAN :
                Set(s, [session[s] EXCEPT !.at = "ended", !.exit = "1",
                                          !.unaudited = unaudited])
      BY <1>11 DEF RecordResult, Finish
    <2>3. ASSUME NEW unaudited \in BOOLEAN,
                 Set(s, [session[s] EXCEPT !.at = "ended", !.exit = "1",
                                           !.unaudited = unaudited])
          PROVE  Shape(s)
      BY <1>0, <2>1, <2>3, FailShape DEF Shape, StageOf, Went, Kept
    <2>4. QED
      BY <1>0, <2>1, <2>2, <2>3, SucceedStage
  <1>12. CASE SetDefault(s) \/ WorkdirFails(s) \/ Interrupt(s)
    <2>1. /\ LinesKept(s)
          /\ \E exit \in Exits : Stop(s, exit)
      BY <1>0, <1>12, SameLines DEF SetDefault, WorkdirFails, Interrupt, Exits
    <2>2. QED
      BY <1>0, <2>1, StopStage
  <1>13. QED
    BY <1>0, <1>2, <1>3, <1>4, <1>5, <1>6, <1>7, <1>8, <1>9, <1>10, <1>11, <1>12
    DEF Step

LEMMA TypeShape ==
    ASSUME SetupBase, NEW s \in Sessions, NEW says \in {"yes", "no", "enter"},
           Type(s, says)
    PROVE  LinesKept(s) /\ StageOf(s)'
  <1> DEFINE line == [says |-> says, at |-> OnScreen(s)]
  <1>0. SetupTypeOK /\ StageOf(s) /\ session[s] \in Running /\ session' = session
        /\ session[s].at # "not-begun"
    BY SessionRecord DEF SetupBase, Type, Active
  <1>1. OnScreen(s) \in Questions \cup {"nothing"}
    <2>1. session[s].question \in Questions \cup {"none"}
          /\ session[s].step \in {"install", "login", "default"}
      BY <1>0 DEF Running
    <2>2. QED
      BY <1>0, <2>1 DEF OnScreen, At, StageOf, Questions
  <1>2. /\ line \in Lines
        /\ session[s].at = "answer" => line.at = session[s].question
    BY <1>1 DEF Lines, OnScreen, At
  <1> HIDE DEF line
  <1>3. typed \in [Sessions -> Seq(Lines)]
    BY <1>0 DEF SetupTypeOK, Lines
  <1>4. typed' = [typed EXCEPT ![s] = Append(typed[s], line)]
    BY DEF Type, line
  <1>5. /\ Append(typed[s], line) \in Seq(Lines)
        /\ Len(Append(typed[s], line)) = Len(typed[s]) + 1
        /\ Len(typed[s]) \in Nat
        /\ \A i \in 1..Len(typed[s]) : Append(typed[s], line)[i] = typed[s][i]
        /\ Append(typed[s], line)[Len(typed[s]) + 1] = line
    BY <1>2, <1>3
  <1>6. LinesKept(s) /\ typed'[s] = Append(typed[s], line)
    BY <1>3, <1>4, <1>5 DEF LinesKept
  <1>7. session[s].at = "answer" =>
           \A i \in 1..Len(typed'[s]) : typed'[s][i].at = session[s].question
    <2> SUFFICES ASSUME session[s].at = "answer", NEW i \in 1..Len(typed'[s])
                 PROVE  typed'[s][i].at = session[s].question
      OBVIOUS
    <2>1. CASE i \in 1..Len(typed[s])
      BY <1>0, <1>5, <1>6, <2>1 DEF StageOf
    <2>2. CASE i = Len(typed[s]) + 1
      BY <1>2, <1>5, <1>6, <2>2
    <2>3. QED
      BY <1>5, <1>6, <2>1, <2>2
  <1>8. QED
    BY <1>0, <1>6, <1>7 DEF StageOf

LEMMA SetupBaseInit == Init => SetupBase
  <1> SUFFICES ASSUME Init PROVE SetupBase
    OBVIOUS
  <1>1. NotBegun.at = "not-begun"
    BY DEF NotBegun
  <1>2. \A s \in Sessions : session[s] = NotBegun
    BY DEF Init
  <1>3. SetupTypeOK
    <2>1. typed \in [Sessions -> Seq(Lines)]
      <3>1. <<>> \in Seq(Lines)
        OBVIOUS
      <3>2. QED
        BY <3>1 DEF Init
    <2>2. \A s \in Sessions : session[s].at = "not-begun"
      BY <1>1, <1>2
    <2>3. QED
      BY <2>1, <2>2 DEF Init, SetupTypeOK, Lines
  <1>4. QED
    BY <1>1, <1>2, <1>3 DEF SetupBase, StageOf

(* What a step adds to the histories: about the step the invocation is at. *)
LEMMA HistoryMoves ==
    ASSUME SetupBase, NEW s \in Sessions, Step(s)
    PROVE  /\ binary' \in [Agents -> Places]
           /\ defaultAgent' \in Agents \cup {NoAgent}
           /\ \/ journal' = journal
              \/ \E status \in {"started", "completed", "failed"} :
                    /\ session[s].at \in {"record-start", "record-result"}
                    /\ journal' = journal \cup {Entry(s, status)}
           /\ \/ attempted' = attempted
              \/ /\ session[s].at = "vendor" /\ session'[s].at = "running"
                 /\ attempted' = attempted \cup
                       {[session |-> s, step |-> session[s].step]}
           /\ \/ answered' = answered
              \/ /\ session[s].at = "answer"
                 /\ answered' = answered \cup
                       {[session |-> s, question |-> session[s].question,
                         at |-> session[s].question]}
  <1>0. SetupTypeOK /\ StageOf(s) /\ session[s] \in Running
        /\ session[s].at # "not-begun"
    BY StepShape DEF SetupBase
  <1>1. session[s].agent \in Agents
    BY <1>0 DEF Running
  <1>2. binary' \in [Agents -> Places]
    BY <1>0, <1>1
    DEF SetupTypeOK, Step, LookUp, Acknowledge, AskToRun, Answer, Ask,
        RecordStart, RunVendor, VendorReads, VendorEnds, Verdict, RecordResult,
        SetDefault, WorkdirFails, Interrupt
  <1>3. defaultAgent' \in Agents \cup {NoAgent}
    BY <1>0, <1>1
    DEF SetupTypeOK, Step, LookUp, Acknowledge, AskToRun, Answer, Ask,
        RecordStart, RunVendor, VendorReads, VendorEnds, Verdict, RecordResult,
        SetDefault, WorkdirFails, Interrupt
  <1>4. \/ journal' = journal
        \/ \E status \in {"started", "completed", "failed"} :
              /\ session[s].at \in {"record-start", "record-result"}
              /\ journal' = journal \cup {Entry(s, status)}
    BY DEF Step, LookUp, Acknowledge, AskToRun, Answer, Ask, At,
        RecordStart, RunVendor, VendorReads, VendorEnds, Verdict, RecordResult,
        SetDefault, WorkdirFails, Interrupt
  <1>5. \/ attempted' = attempted
        \/ /\ session[s].at = "vendor" /\ session'[s].at = "running"
           /\ attempted' = attempted \cup
                 {[session |-> s, step |-> session[s].step]}
    <2>1. CASE RunVendor(s)
      <3>1. Goto(s, "running") => session'[s].at = "running"
        BY <1>0, GotoShape DEF Went
      <3>2. QED
        BY <2>1, <3>1 DEF RunVendor, At
    <2>2. CASE ~ RunVendor(s)
      BY <2>2
      DEF Step, LookUp, Acknowledge, AskToRun, Answer, Ask,
        RecordStart, VendorReads, VendorEnds, Verdict, RecordResult,
        SetDefault, WorkdirFails, Interrupt
    <2>3. QED
      BY <2>1, <2>2
  <1>6. \/ answered' = answered
        \/ /\ session[s].at = "answer"
           /\ answered' = answered \cup
                 {[session |-> s, question |-> session[s].question,
                   at |-> session[s].question]}
    <2>1. CASE Answer(s)
      <3>1. /\ session[s].at = "answer" /\ typed[s] # <<>>
            /\ typed' = [typed EXCEPT ![s] = Tail(@)]
        BY <2>1 DEF Answer, At
      <3>2. Head(typed[s]).at = session[s].question
        BY <1>0, <3>1, TailLines DEF StageOf
      <3>3. \/ answered' = answered
            \/ answered' = answered \cup
                 {[session |-> s, question |-> session[s].question,
                   at |-> Head(typed[s]).at]}
        BY <2>1 DEF Answer
      <3>4. QED
        BY <3>1, <3>2, <3>3
    <2>2. CASE ~ Answer(s)
      BY <2>2
      DEF Step, LookUp, Acknowledge, AskToRun, Ask,
        RecordStart, RunVendor, VendorReads, VendorEnds, Verdict, RecordResult,
        SetDefault, WorkdirFails, Interrupt
    <2>3. QED
      BY <2>1, <2>2
  <1>7. QED
    BY <1>2, <1>3, <1>4, <1>5, <1>6

LEMMA SameStage ==
    ASSUME NEW s \in Sessions, StageOf(s),
           session'[s] = session[s], typed'[s] = typed[s]
    PROVE  StageOf(s)'
  BY DEF StageOf

LEMMA SetupBaseStep == SetupBase /\ [Next]_vars => SetupBase'
  <1> SUFFICES ASSUME SetupBase, [Next]_vars PROVE SetupBase'
    OBVIOUS
  <1>0. SetupTypeOK
    BY DEF SetupBase
  <1> DEFINE Histories ==
        /\ binary' \in [Agents -> Places]
        /\ defaultAgent' \in Agents \cup {NoAgent}
        /\ journal' \subseteq [session: Sessions, agent: Agents, step: VendorSteps,
                               status: {"started", "completed", "failed"}]
        /\ answered' \subseteq [session: Sessions, question: Questions,
                                at: Questions \cup {"nothing"}]
        /\ attempted' \subseteq [session: Sessions, step: VendorSteps]
  <1>1. ASSUME UNCHANGED <<journal, defaultAgent, answered, attempted>>,
               binary' \in [Agents -> Places]
        PROVE  Histories
    BY <1>0, <1>1 DEF SetupTypeOK, VendorSteps
  <1>2. ASSUME session' \in [Sessions -> {NotBegun} \cup Running],
               typed' \in [Sessions -> Seq(Lines)], Histories,
               \A d \in Sessions : StageOf(d)'
        PROVE  SetupBase'
    <2>1. \A d \in Sessions : session'[d].at \in {"record-start", "record-result"}
                              => session'[d].ack # "none"
      BY <1>2 DEF StageOf
    <2>2. QED
      BY <1>2, <2>1 DEF SetupBase, SetupTypeOK, Lines, VendorSteps
  <1>3. ASSUME NEW s \in Sessions, Step(s)
        PROVE  SetupBase'
    <2>1. Shape(s) /\ session[s] \in Running /\ StageOf(s)
          /\ session[s].at # "not-begun"
      BY <1>3, StepShape DEF SetupBase
    <2>2. \A d \in Sessions \ {s} : StageOf(d)'
      BY <2>1, SameStage DEF SetupBase, Shape, LinesKept
    <2>3. /\ session[s].agent \in Agents
          /\ session[s].step \in {"install", "login", "default"}
          /\ session[s].question \in Questions \cup {"none"}
      BY <2>1 DEF Running
    <2>4. /\ session[s].at \in {"record-start", "record-result", "vendor"} =>
                session[s].step \in VendorSteps
          /\ session[s].at = "answer" => session[s].question \in Questions
      BY <2>1, <2>3 DEF StageOf, VendorSteps, Questions
    <2>5. Histories
      <3>1. journal' \subseteq
               [session: Sessions, agent: Agents, step: VendorSteps,
                status: {"started", "completed", "failed"}]
        <4>1. journal \subseteq
               [session: Sessions, agent: Agents, step: VendorSteps,
                status: {"started", "completed", "failed"}]
          BY <1>0 DEF SetupTypeOK, VendorSteps
        <4>2. \A status \in {"started", "completed", "failed"} :
                 session[s].step \in VendorSteps =>
                    Entry(s, status) \in
                       [session: Sessions, agent: Agents, step: VendorSteps,
                        status: {"started", "completed", "failed"}]
          BY <2>3 DEF Entry
        <4>3. \/ journal' = journal
              \/ \E status \in {"started", "completed", "failed"} :
                    /\ session[s].at \in {"record-start", "record-result"}
                    /\ journal' = journal \cup {Entry(s, status)}
          BY <1>3, HistoryMoves
        <4>4. QED
          BY <2>4, <4>1, <4>2, <4>3
      <3>2. attempted' \subseteq [session: Sessions, step: VendorSteps]
        <4>1. attempted \subseteq [session: Sessions, step: VendorSteps]
          BY <1>0 DEF SetupTypeOK, VendorSteps
        <4>2. \/ attempted' = attempted
              \/ /\ session[s].at = "vendor"
                 /\ attempted' = attempted \cup
                       {[session |-> s, step |-> session[s].step]}
          BY <1>3, HistoryMoves
        <4>3. session[s].step \in VendorSteps =>
                 [session |-> s, step |-> session[s].step]
                    \in [session: Sessions, step: VendorSteps]
          OBVIOUS
        <4>4. QED
          BY <2>4, <4>1, <4>2, <4>3
      <3>3. answered' \subseteq [session: Sessions, question: Questions,
                                 at: Questions \cup {"nothing"}]
        <4>1. answered \subseteq [session: Sessions, question: Questions,
                                  at: Questions \cup {"nothing"}]
          BY <1>0 DEF SetupTypeOK
        <4>2. \/ answered' = answered
              \/ /\ session[s].at = "answer"
                 /\ answered' = answered \cup
                       {[session |-> s, question |-> session[s].question,
                         at |-> session[s].question]}
          BY <1>3, HistoryMoves
        <4>3. session[s].question \in Questions =>
                 [session |-> s, question |-> session[s].question,
                  at |-> session[s].question]
                    \in [session: Sessions, question: Questions,
                         at: Questions \cup {"nothing"}]
          OBVIOUS
        <4>4. QED
          BY <2>4, <4>1, <4>2, <4>3
      <3>4. QED
        BY <1>3, <3>1, <3>2, <3>3, HistoryMoves
    <2>6. QED
      BY <1>2, <2>1, <2>2, <2>5 DEF Shape, LinesKept
  <1>4. ASSUME NEW s \in Sessions, NEW says \in {"yes", "no", "enter"},
               Type(s, says)
        PROVE  SetupBase'
    <2>1. LinesKept(s) /\ StageOf(s)'
      BY <1>4, TypeShape
    <2>2. session' = session
          /\ UNCHANGED <<binary, journal, defaultAgent, answered, attempted>>
      BY <1>4 DEF Type
    <2>3. \A d \in Sessions \ {s} : StageOf(d)'
      BY <2>1, <2>2, SameStage DEF SetupBase, LinesKept
    <2>4. Histories
      BY <1>0, <1>1, <2>2 DEF SetupTypeOK
    <2>5. QED
      BY <1>0, <1>2, <2>1, <2>2, <2>3, <2>4 DEF SetupTypeOK, LinesKept
  <1>5. ASSUME NEW s \in Sessions, NEW command \in Commands, NEW agent \in Agents,
               NEW tty \in BOOLEAN, NEW given \in {"none", "flag", "env"},
               Begin(s, command, agent, tty, given)
        PROVE  SetupBase'
    <2>1. UNCHANGED <<typed, binary, journal, defaultAgent, answered, attempted>>
      BY <1>5 DEF Begin
    <2>2. StageOf(s)'
      BY <1>0, <1>5, BeginShape DEF StageOf, Commands
    <2>3. \A d \in Sessions \ {s} : StageOf(d)'
      <3>1. ASSUME NEW d \in Sessions \ {s}
            PROVE  session'[d] = session[d]
        BY <1>0, <1>5 DEF Begin, Set, SetupTypeOK
      <3>2. QED
        BY <2>1, <3>1, SameStage DEF SetupBase
    <2>4. Histories
      BY <1>0, <1>1, <2>1 DEF SetupTypeOK
    <2>5. typed' \in [Sessions -> Seq(Lines)]
      BY <1>0, <2>1 DEF SetupTypeOK, Lines
    <2>6. session' \in [Sessions -> {NotBegun} \cup Running]
      BY <1>0, <1>5, BeginShape
    <2>7. QED
      BY <1>2, <2>2, <2>3, <2>4, <2>5, <2>6
  <1>6. ASSUME \/ UNCHANGED vars
               \/ \E a \in Agents, place \in Places : ChangeBinary(a, place)
               \/ DefaultByHand
        PROVE  SetupBase'
    <2>1. /\ UNCHANGED <<session, typed, journal, answered, attempted>>
          /\ binary' \in [Agents -> Places]
          /\ defaultAgent' \in Agents \cup {NoAgent}
      BY <1>0, <1>6 DEF vars, ChangeBinary, DefaultByHand, SetupTypeOK
    <2>2. QED
      BY <2>1 DEF SetupBase, SetupTypeOK, StageOf
  <1>7. QED
    BY <1>3, <1>4, <1>5, <1>6 DEF Next

(* Every variable keeps its type, and what is recorded of the vendor's     *)
(* code says how the operator took note of it: SetupTypeOK.                *)
THEOREM SetupTypeCorrect == Spec => []SetupTypeOK
  <1>1. SetupBase => SetupTypeOK
    BY DEF SetupBase
  <1>2. QED
    BY <1>1, SetupBaseInit, SetupBaseStep, PTL DEF Spec

-----------------------------------------------------------------------------
(* What was confirmed before the vendor's code runs.                       *)

Started(s, step) ==
    \E e \in journal : e.session = s /\ e.step = step /\ e.status = "started"

ConfirmOf(s) ==
    LET r == session[s] IN
    r.at # "not-begun" =>
    /\ r.ack # "none" /\ r.given = "none" => AskedAt(s, "accept")
    /\ r.at \in {"record-start", "vendor"} => AskedAt(s, r.step)
    /\ r.at = "vendor" => Started(s, r.step)

(* Nothing of an invocation is on record before it begins, and what is on  *)
(* record is about its agent.                                              *)
BegunInv ==
    /\ \A a \in attempted : session[a.session].at # "not-begun"
    /\ \A e \in journal : /\ session[e.session].at # "not-begun"
                          /\ e.agent = session[e.session].agent

ConfirmInv ==
    /\ \A s \in Sessions : ConfirmOf(s)
    /\ BegunInv
    /\ VendorCodeIsConfirmed

(* An invocation that took a step goes on, and what it may rely on was     *)
(* said and written down.                                                  *)
LEMMA ConfirmOfStep ==
    ASSUME SetupBase, NEW s \in Sessions, Step(s), ConfirmOf(s)
    PROVE  session'[s].at # "not-begun" /\ ConfirmOf(s)'
  <1>0. /\ SetupTypeOK /\ StageOf(s) /\ session[s] \in Running
        /\ session[s].at # "not-begun" /\ Kept(s)
    BY StepShape DEF SetupBase, Shape
  <1>1. journal \subseteq journal' /\ answered \subseteq answered'
    BY HistoryMoves
  <1>2. \A q \in Questions : AskedAt(s, q) => AskedAt(s, q)'
    BY <1>1 DEF AskedAt
  <1>3. /\ session[s].step \in {"install", "login", "default"}
        /\ session[s].question \in Questions \cup {"none"}
        /\ session[s].ack \in {"none", "flag", "env", "prompt"}
        /\ session[s].given \in {"none", "flag", "env"}
    BY <1>0 DEF Running
  <1>4. ASSUME NEW at \in {"look-up", "acknowledge", "ask", "answer", "running", "verdict",
                           "record-result", "set-default", "ended"},
               session'[s].at = at, session'[s].ack = session[s].ack
        PROVE  session'[s].at # "not-begun" /\ ConfirmOf(s)'
    BY <1>0, <1>2, <1>4 DEF ConfirmOf, Kept, Questions
  <1>5. ASSUME NEW exit \in Exits, Stop(s, exit)
        PROVE  session'[s].at # "not-begun" /\ ConfirmOf(s)'
    BY <1>0, <1>4, <1>5, StopShape DEF Went
  <1>6. ASSUME session[s].step # "default", Succeed(s)
        PROVE  session'[s].at # "not-begun" /\ ConfirmOf(s)'
    BY <1>0, <1>4, <1>6, SucceedShape DEF Went
  <1>7. ASSUME NEW q \in Questions, Ask(s, q)
        PROVE  session'[s].at # "not-begun" /\ ConfirmOf(s)'
    BY <1>0, <1>4, <1>7, AskShape DEF Went
  <1>8. ASSUME NEW at \in {"acknowledge", "running", "set-default"}, Goto(s, at)
        PROVE  session'[s].at # "not-begun" /\ ConfirmOf(s)'
    BY <1>0, <1>4, <1>8, GotoShape DEF Went
  <1>9. CASE LookUp(s)
    BY <1>0, <1>5, <1>6, <1>8, <1>9 DEF LookUp, At, StageOf, Exits
  <1>10. CASE Acknowledge(s)
    <2>1. CASE Ask(s, "accept")
      BY <1>7, <2>1 DEF Questions
    <2>2. CASE ~ Ask(s, "accept")
      <3>1. PICK ack \in {"flag", "env", "prompt"} :
               /\ Set(s, [session[s] EXCEPT !.at = "ask", !.ack = ack])
               /\ session[s].ack # "none" \/ session[s].given # "none"
        BY <1>3, <1>10, <2>2 DEF Acknowledge
      <3>2. session'[s].at = "ask" /\ session'[s].ack = ack
        BY <1>0, <3>1, NoteGivenShape
      <3>3. QED
        BY <1>0, <1>2, <3>1, <3>2 DEF ConfirmOf, Kept, Questions
    <2>3. QED
      BY <2>1, <2>2
  <1>11. CASE AskToRun(s)
    BY <1>3, <1>7, <1>11 DEF AskToRun, Questions
  <1>12. CASE Answer(s)
    <2>1. session[s].at = "answer"
      BY <1>12 DEF Answer, At
    <2>2. CASE \E exit \in {"0", "1"} : Stop(s, exit)
      BY <1>5, <2>2 DEF Exits
    <2> DEFINE q == session[s].question
               yes == [session |-> s, question |-> q, at |-> q] \in answered'
    <2>3. ASSUME ~ \E exit \in {"0", "1"} : Stop(s, exit)
          PROVE  /\ yes
                 /\ \/ /\ session[s].question = "accept"
                       /\ Set(s, [session[s] EXCEPT !.ack = "prompt", !.at = "ask"])
                    \/ session[s].question \in VendorSteps /\ Goto(s, "record-start")
                    \/ session[s].question = "default" /\ Goto(s, "set-default")
      <3>1. /\ typed[s] # <<>>
            /\ typed' = [typed EXCEPT ![s] = Tail(@)]
            /\ [session |-> s, question |-> session[s].question,
                at |-> Head(typed[s]).at] \in answered'
        BY <1>12, <2>3 DEF Answer
      <3>2. Head(typed[s]).at = session[s].question
        BY <1>0, <2>1, <3>1, TailLines DEF StageOf
      <3>3. session[s].question \in {"accept", "install", "login", "default"}
        BY <1>0, <1>3, <2>1 DEF StageOf
      <3>4. yes
        BY <3>1, <3>2
      <3>5. QED
        BY <1>12, <2>3, <3>3, <3>4 DEF Answer, VendorSteps
    <2>4. CASE /\ session[s].question = "accept" /\ yes
               /\ Set(s, [session[s] EXCEPT !.ack = "prompt", !.at = "ask"])
      <3>1. session'[s].at = "ask" /\ AskedAt(s, "accept")'
        BY <1>0, <2>4, NoteShape DEF AskedAt
      <3>2. session'[s].at \notin {"record-start", "vendor"}
        BY <3>1
      <3>3. QED
        BY <3>1, <3>2, Zenon DEF ConfirmOf
    <2>5. CASE /\ session[s].question \in VendorSteps
               /\ yes
               /\ Goto(s, "record-start")
      <3>1. Went(s, "record-start")
        BY <1>0, <2>5, GotoShape
      <3>2. session[s].question = session[s].step
        BY <1>0, <2>1, <2>5 DEF StageOf, VendorSteps
      <3>3. session'[s].step = q /\ AskedAt(s, session[s].step)'
        BY <2>5, <3>1, <3>2 DEF AskedAt, Went
      <3>4. QED
        BY <1>0, <1>2, <3>1, <3>3 DEF ConfirmOf, AskedAt, Went, Kept, Questions
    <2>6. CASE Goto(s, "set-default")
      BY <1>8, <2>6
    <2>7. QED
      BY <2>2, <2>3, <2>4, <2>5, <2>6
  <1>13. CASE RecordStart(s)
    <2>1. session[s].at = "record-start"
      BY <1>13 DEF RecordStart, At
    <2>2. CASE Goto(s, "vendor") /\ Entry(s, "started") \in journal'
      <3>1. Went(s, "vendor")
        BY <1>0, <2>2, GotoShape
      <3>2. AskedAt(s, session[s].step) /\ session[s].step \in Questions
        BY <1>0, <1>3, <2>1 DEF ConfirmOf, Questions
      <3>3. Started(s, session[s].step)'
        BY <2>2, <3>1 DEF Started, Entry, Went
      <3>4. AskedAt(s, session[s].step)'
        BY <1>1, <3>1, <3>2 DEF AskedAt, Went
      <3>5. QED
        BY <1>0, <1>2, <3>1, <3>3, <3>4 DEF ConfirmOf, Went, Kept, Questions
    <2>3. QED
      BY <1>5, <1>13, <2>2 DEF RecordStart, Exits
  <1>14. CASE RunVendor(s)
    <2>1. CASE Set(s, [session[s] EXCEPT !.at = "record-result", !.rc = "127"])
      BY <1>0, <1>4, <2>1, MissingShape DEF Went
    <2>2. QED
      BY <1>8, <1>14, <2>1 DEF RunVendor
  <1>15. CASE VendorReads(s)
    BY <1>0, <1>4, <1>15 DEF VendorReads
  <1>16. ASSUME NEW rc \in {"0", "130"}, VendorEnds(s, rc)
         PROVE  session'[s].at # "not-begun" /\ ConfirmOf(s)'
    <2>1. PICK at \in {"verdict", "record-result"} :
             Set(s, [session[s] EXCEPT !.rc = rc, !.at = at])
      BY <1>16 DEF VendorEnds
    <2>2. Went(s, at)
      BY <1>0, <2>1, VendorEndsShape
    <2>3. QED
      BY <1>4, <2>2 DEF Went
  <1>17. CASE Verdict(s)
    <2>1. PICK denied \in BOOLEAN :
             Set(s, [session[s] EXCEPT !.at = "record-result", !.denied = denied])
      BY <1>17 DEF Verdict
    <2>2. Went(s, "record-result")
      BY <1>0, <2>1, VerdictShape
    <2>3. QED
      BY <1>4, <2>2 DEF Went
  <1>18. CASE RecordResult(s)
    <2>1. ASSUME NEW unaudited \in BOOLEAN,
                 Set(s, [session[s] EXCEPT !.at = "ended", !.exit = "1",
                                           !.unaudited = unaudited])
          PROVE  session'[s].at # "not-begun" /\ ConfirmOf(s)'
      <3>1. Went(s, "ended")
        BY <1>0, <2>1, FailShape
      <3>2. QED
        BY <1>4, <3>1 DEF Went
    <2>2. session[s].step # "default"
      BY <1>0, <1>18 DEF RecordResult, At, StageOf
    <2>3. \/ Succeed(s)
          \/ \E unaudited \in BOOLEAN :
                Set(s, [session[s] EXCEPT !.at = "ended", !.exit = "1",
                                          !.unaudited = unaudited])
      BY <1>18 DEF RecordResult, Finish
    <2>4. QED
      BY <1>6, <2>1, <2>2, <2>3
  <1>19. CASE SetDefault(s) \/ WorkdirFails(s) \/ Interrupt(s)
    <2>1. \E exit \in Exits : Stop(s, exit)
      BY <1>19 DEF SetDefault, WorkdirFails, Interrupt, Exits
    <2>2. QED
      BY <1>5, <2>1
  <1>20. QED
    BY <1>9, <1>10, <1>11, <1>12, <1>13, <1>14, <1>15, <1>16, <1>17, <1>18, <1>19
    DEF Step

(* An invocation that has begun keeps what it was asked to do.             *)
LEMMA ConfirmInvFrame ==
    ASSUME SetupTypeOK, ConfirmInv,
           journal \subseteq journal', answered \subseteq answered',
           \A s \in Sessions : session[s].at # "not-begun" =>
              session'[s].at # "not-begun" /\ Kept(s),
           \A s \in Sessions : ConfirmOf(s)',
           \A a \in attempted' \ attempted :
              /\ a.session \in Sessions /\ session[a.session].at = "vendor"
              /\ a.step = session[a.session].step
              /\ session[a.session].ack # "none",
           \A e \in journal' \ journal :
              /\ e.session \in Sessions /\ session[e.session].at # "not-begun"
              /\ e.agent = session[e.session].agent
    PROVE  ConfirmInv'
  <1>1. attempted \subseteq [session: Sessions, step: VendorSteps]
        /\ journal \subseteq [session: Sessions, agent: Agents, step: VendorSteps,
                              status: {"started", "completed", "failed"}]
    BY DEF SetupTypeOK, VendorSteps
  <1>2. \A a \in attempted : a.session \in Sessions
    BY <1>1
  <1>3. \A e \in journal : e.session \in Sessions
    BY <1>1
  <1>4. BegunInv'
    BY <1>2, <1>3 DEF BegunInv, ConfirmInv, Kept
  <1>5. ASSUME NEW a \in attempted'
        PROVE  /\ AskedAt(a.session, a.step)
               /\ session[a.session].given = "none" => AskedAt(a.session, "accept")
               /\ \E e \in journal : /\ e.session = a.session /\ e.step = a.step
                                     /\ e.status = "started"
               /\ a.session \in Sessions /\ session[a.session].at # "not-begun"
    <2>1. CASE a \in attempted
      BY <1>2, <2>1 DEF ConfirmInv, VendorCodeIsConfirmed, BegunInv
    <2>2. CASE a \notin attempted
      <3>1. /\ a.session \in Sessions /\ session[a.session].at = "vendor"
            /\ a.step = session[a.session].step
            /\ session[a.session].ack # "none"
        BY <2>2
      <3>2. ConfirmOf(a.session)
        BY <3>1 DEF ConfirmInv
      <3>3. QED
        BY <3>1, <3>2 DEF ConfirmOf, Started
    <2>3. QED
      BY <2>1, <2>2
  <1>6. VendorCodeIsConfirmed'
    BY <1>5 DEF VendorCodeIsConfirmed, AskedAt, Kept
  <1>7. QED
    BY <1>4, <1>6 DEF ConfirmInv

(* What a step adds to the journal is about the agent of its invocation.   *)
LEMMA NewRecords ==
    ASSUME SetupBase, NEW s \in Sessions, Step(s)
    PROVE  /\ journal \subseteq journal' /\ answered \subseteq answered'
           /\ \A a \in attempted' \ attempted :
                 /\ a.session = s /\ session[s].at = "vendor"
                 /\ a.step = session[s].step
           /\ \A e \in journal' \ journal :
                 /\ e.session = s /\ e.agent = session[s].agent
                 /\ e.step = session[s].step
  <1>1. journal \subseteq journal' /\ answered \subseteq answered'
    BY HistoryMoves
  <1>2. ASSUME NEW a \in attempted' \ attempted
        PROVE  /\ a.session = s /\ session[s].at = "vendor"
               /\ a.step = session[s].step
    <2>1. /\ session[s].at = "vendor"
          /\ a = [session |-> s, step |-> session[s].step]
      BY HistoryMoves
    <2>2. QED
      BY <2>1
  <1>3. ASSUME NEW e \in journal' \ journal
        PROVE  /\ e.session = s /\ e.agent = session[s].agent
               /\ e.step = session[s].step
    <2>1. \E status \in {"started", "completed", "failed"} : e = Entry(s, status)
      BY HistoryMoves
    <2>2. QED
      BY <2>1 DEF Entry
  <1>4. QED
    BY <1>1, <1>2, <1>3

LEMMA ConfirmInvInit == Init => ConfirmInv
  <1> SUFFICES ASSUME Init PROVE ConfirmInv
    OBVIOUS
  <1>1. NotBegun.at = "not-begun"
    BY DEF NotBegun
  <1>2. \A s \in Sessions : session[s].at = "not-begun"
    BY <1>1 DEF Init
  <1>3. journal = {} /\ attempted = {}
    BY DEF Init
  <1>4. QED
    BY <1>2, <1>3 DEF ConfirmInv, ConfirmOf, BegunInv, VendorCodeIsConfirmed

LEMMA ConfirmInvStep == SetupBase /\ ConfirmInv /\ [Next]_vars => ConfirmInv'
  <1> SUFFICES ASSUME SetupBase, ConfirmInv, [Next]_vars PROVE ConfirmInv'
    OBVIOUS
  <1>0. SetupTypeOK
    BY DEF SetupBase
  <1>1. ASSUME NEW s \in Sessions, Step(s)
        PROVE  ConfirmInv'
    <2>1. /\ session[s].at # "not-begun" /\ StageOf(s) /\ Kept(s)
          /\ \A d \in Sessions \ {s} : session'[d] = session[d]
      BY <1>1, StepShape DEF SetupBase, Shape
    <2>2. session'[s].at # "not-begun" /\ ConfirmOf(s)'
      BY <1>1, ConfirmOfStep DEF ConfirmInv
    <2>3. \A d \in Sessions : session[d].at # "not-begun" =>
             session'[d].at # "not-begun" /\ Kept(d)
      BY <2>1, <2>2 DEF Kept
    <2>4. journal \subseteq journal' /\ answered \subseteq answered'
      BY <1>1, NewRecords
    <2>5. ASSUME NEW d \in Sessions \ {s}
          PROVE  ConfirmOf(d)'
      <3>1. ConfirmOf(d) /\ session'[d] = session[d]
        BY <2>1 DEF ConfirmInv
      <3>2. QED
        BY <2>4, <3>1 DEF ConfirmOf, AskedAt, Started
    <2>6. \A a \in attempted' \ attempted :
             /\ a.session \in Sessions /\ session[a.session].at = "vendor"
             /\ a.step = session[a.session].step
             /\ session[a.session].ack # "none"
      BY <1>1, <2>1, NewRecords DEF StageOf
    <2>7. \A e \in journal' \ journal :
             /\ e.session \in Sessions /\ session[e.session].at # "not-begun"
             /\ e.agent = session[e.session].agent
      BY <1>1, <2>1, NewRecords
    <2>8. \A d \in Sessions : ConfirmOf(d)'
      BY <2>2, <2>5
    <2>9. QED
      BY <1>0, <2>3, <2>4, <2>6, <2>7, <2>8, ConfirmInvFrame
  <1>2. ASSUME NEW s \in Sessions, NEW command \in Commands, NEW agent \in Agents,
               NEW tty \in BOOLEAN, NEW given \in {"none", "flag", "env"},
               Begin(s, command, agent, tty, given)
        PROVE  ConfirmInv'
    <2>1. /\ UNCHANGED <<journal, answered, attempted>>
          /\ \A d \in Sessions \ {s} : session'[d] = session[d]
          /\ session[s].at = "not-begun"
          /\ session'[s].at = "look-up" /\ session'[s].ack = "none"
      <3>1. UNCHANGED <<journal, answered, attempted>>
        BY <1>2 DEF Begin
      <3>2. ASSUME NEW d \in Sessions \ {s}
            PROVE  session'[d] = session[d]
        BY <1>0, <1>2 DEF Begin, Set, SetupTypeOK
      <3>3. /\ session[s].at = "not-begun"
            /\ session'[s].at = "look-up" /\ session'[s].ack = "none"
        BY <1>0, <1>2, BeginShape
      <3>4. QED
        BY <3>1, <3>2, <3>3
    <2>2. ConfirmOf(s)'
      BY <2>1 DEF ConfirmOf
    <2>3. ASSUME NEW d \in Sessions \ {s}
          PROVE  ConfirmOf(d)'
      <3>1. ConfirmOf(d) /\ session'[d] = session[d]
        BY <2>1 DEF ConfirmInv
      <3>2. QED
        BY <2>1, <3>1 DEF ConfirmOf, AskedAt, Started
    <2>4. \A d \in Sessions : session[d].at # "not-begun" =>
             session'[d].at # "not-begun" /\ Kept(d)
      BY <2>1 DEF Kept
    <2>5. \A d \in Sessions : ConfirmOf(d)'
      BY <2>2, <2>3
    <2>6. QED
      BY <1>0, <2>1, <2>4, <2>5, ConfirmInvFrame
  <1>3. ASSUME UNCHANGED <<session, journal, answered, attempted>>
        PROVE  ConfirmInv'
    BY <1>3 DEF ConfirmInv, ConfirmOf, BegunInv, VendorCodeIsConfirmed, AskedAt,
                Started
  <1>4. QED
    BY <1>1, <1>2, <1>3 DEF Next, Type, ChangeBinary, DefaultByHand, vars

(* Vendor code runs only after its intent is on record, the operator has   *)
(* taken note that its traffic is not governed, and has said yes to this   *)
(* very question on the screen: VendorCodeIsConfirmed, whatever is typed   *)
(* when, and whoever else is setting up an agent.                          *)
THEOREM NothingRunsUnasked == Spec => []VendorCodeIsConfirmed
  <1>1. ConfirmInv => VendorCodeIsConfirmed
    BY DEF ConfirmInv
  <1>2. QED
    BY <1>1, SetupBaseInit, SetupBaseStep, ConfirmInvInit, ConfirmInvStep, PTL
    DEF Spec

-----------------------------------------------------------------------------
(* What is on record of an invocation, at each of its stages.              *)

Attempted(s, step) == [session |-> s, step |-> step] \in attempted

Answerable == {"look-up", "acknowledge", "ask", "answer", "record-start", "vendor"}

(* Of a step of an invocation r: whether its vendor's code was started,    *)
(* and the results on record.                                              *)
Accounted(r, step, tried, results) ==
    /\ results \in {{}, {"completed"}, {"failed"}}
    /\ r.at = "not-begun" => ~tried /\ results = {}
    /\ r.at # "not-begun" =>
        /\ r.step = "install" /\ step = "login" => ~tried /\ results = {}
        /\ r.step # "install" /\ step = "install" => (tried => results = {"completed"})
        /\ r.step = "default" /\ step = "login" => results = {"completed"}
        /\ r.step = step /\ r.at \in Answerable => ~tried /\ results = {}
        /\ r.step = step /\ r.at \in {"running", "verdict", "record-result"} =>
            results = {}
        /\ r.at = "ended" /\ r.exit = "0" =>
            /\ tried => results = {"completed"}
            /\ step = "login" /\ r.command # "install" => results = {"completed"}
        /\ r.at = "ended" /\ r.exit = "1" => (tried => r.unaudited \/ results # {})

OutcomeOf(s) ==
    \A step \in VendorSteps :
        Accounted(session[s], step, Attempted(s, step), Results(s, step))

DefaultInv ==
    \A q \in answered : q.question = "default" =>
        Results(q.session, "login") = {"completed"}

OutcomeInv == (\A s \in Sessions : OutcomeOf(s)) /\ DefaultInv

(* Another record says nothing of a step's results unless it is one.       *)
LEMMA ResultsStay ==
    ASSUME NEW d, NEW step,
           \/ journal' = journal
           \/ \E e : /\ journal' = journal \cup {e}
                     /\ e.session # d \/ e.step # step \/ e.status = "started"
    PROVE  Results(d, step)' = Results(d, step)
  BY DEF Results

LEMMA ResultsGrow ==
    ASSUME NEW d, NEW step, NEW e, journal' = journal \cup {e},
           e.session = d, e.step = step, e.status # "started"
    PROVE  Results(d, step)' = Results(d, step) \cup {e.status}
  BY DEF Results

SameRecord(s) ==
    \A step \in VendorSteps :
        /\ Attempted(s, step)' <=> Attempted(s, step)
        /\ Results(s, step)' = Results(s, step)

LEMMA OthersRecord ==
    ASSUME SetupBase, NEW s \in Sessions, Step(s), NEW d \in Sessions \ {s}
    PROVE  SameRecord(d)
  <1> SUFFICES ASSUME NEW step \in VendorSteps
               PROVE  /\ Attempted(d, step)' <=> Attempted(d, step)
                      /\ Results(d, step)' = Results(d, step)
    BY DEF SameRecord
  <1>1. Attempted(d, step)' <=> Attempted(d, step)
    <2>1. \/ attempted' = attempted
          \/ attempted' = attempted \cup {[session |-> s, step |-> session[s].step]}
      BY HistoryMoves
    <2>2. [session |-> d, step |-> step] # [session |-> s, step |-> session[s].step]
      OBVIOUS
    <2>3. QED
      BY <2>1, <2>2 DEF Attempted
  <1>2. Results(d, step)' = Results(d, step)
    <2>1. \/ journal' = journal
          \/ \E status \in {"started", "completed", "failed"} :
                journal' = journal \cup {Entry(s, status)}
      BY HistoryMoves
    <2>2. \A status : Entry(s, status).session # d
      BY DEF Entry
    <2>3. QED
      BY <2>1, <2>2, ResultsStay
  <1>3. QED
    BY <1>1, <1>2

LEMMA AccountedSame ==
    ASSUME NEW d \in Sessions, OutcomeOf(d), SameRecord(d), session'[d] = session[d]
    PROVE  OutcomeOf(d)'
  BY DEF OutcomeOf, SameRecord, Accounted

(* What a step of an invocation means for what is on record of it.         *)
LEMMA OutcomeOfStep ==
    ASSUME SetupBase, NEW s \in Sessions, Step(s), OutcomeOf(s)
    PROVE  OutcomeOf(s)'
  <1>0. /\ SetupTypeOK /\ StageOf(s) /\ session[s] \in Running
        /\ session[s].at # "not-begun" /\ Kept(s)
    BY StepShape DEF SetupBase, Shape
  <1>1. /\ session[s].step \in {"install", "login", "default"}
        /\ session[s].question \in Questions \cup {"none"}
        /\ session[s].command \in Commands
        /\ session[s].step # "install" => session[s].command # "install"
    BY <1>0 DEF Running, StageOf
  <1> DEFINE r == session[s]
             r2 == session'[s]
             Before(step) == Accounted(r, step, Attempted(s, step), Results(s, step))
             After(step) == Accounted(r2, step, Attempted(s, step)', Results(s, step)')
  <1>2. \A step \in VendorSteps : Before(step)
    BY DEF OutcomeOf
  <1>3. (\A step \in VendorSteps : After(step)) => OutcomeOf(s)'
    BY DEF OutcomeOf
  <1>4. ASSUME attempted' = attempted,
               journal' = journal \/ journal' = journal \cup {Entry(s, "started")}
        PROVE  SameRecord(s)
    <2>1. Entry(s, "started").status = "started"
      BY DEF Entry
    <2>2. QED
      BY <1>4, <2>1, ResultsStay DEF SameRecord, Attempted
  <1> HIDE DEF r, r2
  (* It goes on within the same step.                                      *)
  <1>5. ASSUME SameRecord(s), r2.at # "ended", r2.at # "not-begun",
               r2.step = r.step,
               \/ r.at \in Answerable
               \/ r.step = "default"
               \/ /\ r.at \in {"running", "verdict", "record-result"}
                  /\ r2.at \in {"running", "verdict", "record-result"}
        PROVE  OutcomeOf(s)'
    <2> SUFFICES ASSUME NEW step \in VendorSteps PROVE After(step)
      BY <1>3
    <2>1. Before(step) /\ r.at # "not-begun"
      BY <1>0, <1>2 DEF r
    <2>2. QED
      BY <1>5, <2>1 DEF SameRecord, Accounted, Answerable, VendorSteps
  (* It ends, before the vendor's code has run or after its result is on   *)
  (* record.                                                               *)
  <1>6. ASSUME SameRecord(s), r2.at = "ended", r2.step = r.step,
               r2.command = r.command,
               \/ r2.exit \notin {"0", "1"}
               \/ r2.exit = "1" /\ (r.at \in Answerable \/ r.step = "default")
               \/ r2.exit = "0" /\ r.step = "default"
        PROVE  OutcomeOf(s)'
    <2> SUFFICES ASSUME NEW step \in VendorSteps PROVE After(step)
      BY <1>3
    <2>1. Before(step) /\ r.at # "not-begun" /\ r.step \in {"install", "login", "default"}
      BY <1>0, <1>1, <1>2 DEF r
    <2>2. QED
      BY <1>6, <2>1 DEF SameRecord, Accounted, Answerable, VendorSteps
  <1>7. ASSUME NEW exit \in Exits, Stop(s, exit), SameRecord(s),
               \/ exit \notin {"0", "1"}
               \/ exit = "1" /\ (session[s].at \in Answerable \/ session[s].step = "default")
               \/ exit = "0" /\ session[s].step = "default"
        PROVE  OutcomeOf(s)'
    <2>1. Went(s, "ended") /\ session'[s].exit = exit
      BY <1>0, <1>7, StopShape
    <2>2. QED
      BY <1>6, <1>7, <2>1 DEF Went, Kept, r, r2
  <1>8. ASSUME SameRecord(s), session'[s].step = session[s].step,
               session[s].at \in Answerable \/ session[s].step = "default",
               session'[s].at # "ended", session'[s].at # "not-begun"
        PROVE  OutcomeOf(s)'
    BY <1>5, <1>8 DEF r, r2
  <1>9. ASSUME NEW at \in {"ask", "acknowledge", "record-start", "vendor", "running",
                           "set-default"},
               Goto(s, at), SameRecord(s),
               session[s].at \in Answerable \/ session[s].step = "default"
        PROVE  OutcomeOf(s)'
    <2>1. Went(s, at)
      BY <1>0, <1>9, GotoShape
    <2>2. QED
      BY <1>8, <1>9, <2>1 DEF Went
  <1>10. ASSUME NEW q \in Questions, Ask(s, q), SameRecord(s),
                session[s].at \in Answerable
         PROVE  OutcomeOf(s)'
    <2>1. Went(s, "answer")
      BY <1>0, <1>10, AskShape
    <2>2. QED
      BY <1>8, <1>10, <2>1 DEF Went
  <1>11. CASE LookUp(s)
    <2>1. /\ session[s].at = "look-up" /\ session[s].at \in Answerable
          /\ session[s].step # "default" /\ SameRecord(s)
      BY <1>0, <1>4, <1>11 DEF LookUp, At, StageOf, Answerable
    <2>2. CASE Succeed(s) /\ session[s].step = "install"
      <3> SUFFICES ASSUME NEW step \in VendorSteps PROVE After(step)
        BY <1>3
      <3>1. ~Attempted(s, step) /\ Results(s, step) = {}
        BY <1>0, <1>2, <2>1, <2>2 DEF Accounted, VendorSteps, r
      <3>2. ~Attempted(s, step)' /\ Results(s, step)' = {}
        BY <2>1, <3>1 DEF SameRecord
      <3>3. \/ session'[s].at = "look-up" /\ session'[s].step = "login"
            \/ /\ session'[s].at = "ended" /\ session'[s].exit = "0"
               /\ session'[s].step = "install" /\ session'[s].command = "install"
        BY <1>0, <1>1, <2>2, SucceedShape DEF Went, Kept, StageOf, Commands
      <3>4. QED
        BY <3>2, <3>3 DEF Accounted, VendorSteps, r2
    <2>3. \/ Succeed(s) /\ session[s].step = "install"
          \/ Stop(s, "1")
          \/ Goto(s, "acknowledge")
      BY <1>11 DEF LookUp
    <2>4. QED
      BY <1>7, <1>9, <2>1, <2>2, <2>3 DEF Exits
  <1>12. CASE Acknowledge(s)
    <2>1. session[s].at \in Answerable /\ SameRecord(s)
      BY <1>4, <1>12 DEF Acknowledge, Ask, At, Answerable
    <2>2. CASE Ask(s, "accept")
      BY <1>10, <2>1, <2>2 DEF Questions
    <2>3. CASE ~ Ask(s, "accept")
      <3>0. /\ session[s].ack \in {"none", "flag", "env", "prompt"}
            /\ session[s].given \in {"none", "flag", "env"}
        BY <1>0 DEF Running
      <3>1. PICK ack \in {"flag", "env", "prompt"} :
               Set(s, [session[s] EXCEPT !.at = "ask", !.ack = ack])
        BY <3>0, <1>12, <2>3 DEF Acknowledge
      <3>2. session'[s].at = "ask" /\ session'[s].step = session[s].step
        BY <1>0, <3>1, NoteGivenShape
      <3>3. QED
        BY <1>8, <2>1, <3>2
    <2>4. QED
      BY <2>2, <2>3
  <1>13. CASE AskToRun(s)
    <2>1. session[s].at \in Answerable /\ SameRecord(s)
      BY <1>4, <1>13 DEF AskToRun, Ask, At, Answerable
    <2>2. QED
      BY <1>1, <1>10, <1>13, <2>1 DEF AskToRun, Questions
  <1>14. CASE Answer(s)
    <2>1. session[s].at = "answer" /\ session[s].at \in Answerable /\ SameRecord(s)
      BY <1>4, <1>14 DEF Answer, At, Answerable
    <2>2. \/ session[s].question = session[s].step
          \/ session[s].question = "accept" /\ session[s].step # "default"
      BY <1>0, <2>1 DEF StageOf
    <2>3. \/ Set(s, [session[s] EXCEPT !.ack = "prompt", !.at = "ask"])
          \/ Goto(s, "record-start")
          \/ Goto(s, "set-default")
          \/ Stop(s, "0") /\ session[s].question = "default"
          \/ Stop(s, "1")
      BY <1>1, <1>14, <2>2 DEF Answer
    <2>4. CASE Set(s, [session[s] EXCEPT !.ack = "prompt", !.at = "ask"])
      <3>1. session'[s].at = "ask" /\ session'[s].step = session[s].step
        BY <1>0, <2>4, NoteShape
      <3>2. QED
        BY <1>8, <2>1, <3>1
    <2>5. QED
      BY <1>7, <1>9, <2>1, <2>2, <2>3, <2>4 DEF Exits
  <1>15. CASE RecordStart(s)
    <2>1. session[s].at \in Answerable /\ SameRecord(s)
      BY <1>4, <1>15 DEF RecordStart, At, Answerable
    <2>2. Goto(s, "vendor") \/ Stop(s, "1")
      BY <1>15 DEF RecordStart
    <2>3. QED
      BY <1>7, <1>9, <2>1, <2>2 DEF Exits
  <1>16. CASE RunVendor(s)
    <2>1. /\ session[s].at = "vendor" /\ session[s].at \in Answerable
          /\ session[s].step # "default" /\ journal' = journal
      BY <1>0, <1>16 DEF RunVendor, At, StageOf, Answerable
    <2>2. CASE /\ Set(s, [session[s] EXCEPT !.at = "record-result", !.rc = "127"])
               /\ attempted' = attempted
      <3>1. Went(s, "record-result")
        BY <1>0, <2>2, MissingShape
      <3>2. SameRecord(s)
        BY <1>4, <2>1, <2>2
      <3>3. QED
        BY <1>8, <2>1, <3>1, <3>2 DEF Went
    <2>3. CASE /\ Goto(s, "running")
               /\ attempted' = attempted \cup {[session |-> s, step |-> session[s].step]}
      <3> SUFFICES ASSUME NEW step \in VendorSteps PROVE After(step)
        BY <1>3
      <3>1. Went(s, "running")
        BY <1>0, <2>3, GotoShape
      <3>2. Results(s, step)' = Results(s, step)
        BY <2>1, ResultsStay
      <3>3. Before(step) /\ r.at = "vendor" /\ r2.at = "running" /\ r2.step = r.step
        BY <1>2, <2>1, <3>1 DEF r, r2, Went
      <3>4. CASE r.step = step
        BY <3>2, <3>3, <3>4 DEF Accounted, Answerable, VendorSteps
      <3>5. CASE r.step # step
        <4>1. [session |-> s, step |-> step] # [session |-> s, step |-> session[s].step]
          BY <3>5 DEF r
        <4>2. Attempted(s, step)' <=> Attempted(s, step)
          BY <2>3, <4>1 DEF Attempted
        <4>3. QED
          BY <3>2, <3>3, <3>5, <4>2 DEF Accounted, Answerable
      <3>6. QED
        BY <3>4, <3>5
    <2>4. QED
      BY <1>16, <2>2, <2>3 DEF RunVendor
  <1>17. ASSUME SameRecord(s), session'[s].step = session[s].step,
                session[s].at \in {"running", "verdict", "record-result"},
                session'[s].at \in {"running", "verdict", "record-result"}
         PROVE  OutcomeOf(s)'
    BY <1>5, <1>17 DEF r, r2
  <1>18. CASE VendorReads(s)
    BY <1>0, <1>4, <1>17, <1>18 DEF VendorReads
  <1>19. ASSUME NEW rc \in {"0", "130"}, VendorEnds(s, rc)
         PROVE  OutcomeOf(s)'
    <2>1. PICK at \in {"verdict", "record-result"} :
             Set(s, [session[s] EXCEPT !.rc = rc, !.at = at])
      BY <1>19 DEF VendorEnds
    <2>2. Went(s, at)
      BY <1>0, <2>1, VendorEndsShape
    <2>3. session[s].at = "running" /\ SameRecord(s)
      BY <1>4, <1>19 DEF VendorEnds, At
    <2>4. QED
      BY <1>17, <2>2, <2>3 DEF Went
  <1>20. CASE Verdict(s)
    <2>1. PICK denied \in BOOLEAN :
             Set(s, [session[s] EXCEPT !.at = "record-result", !.denied = denied])
      BY <1>20 DEF Verdict
    <2>2. Went(s, "record-result")
      BY <1>0, <2>1, VerdictShape
    <2>3. session[s].at = "verdict" /\ SameRecord(s)
      BY <1>4, <1>20 DEF Verdict, At
    <2>4. QED
      BY <1>17, <2>2, <2>3 DEF Went
  <1>21. CASE RecordResult(s)
    <2>1. /\ session[s].at = "record-result" /\ session[s].step \in VendorSteps
          /\ session[s].step # "default" /\ attempted' = attempted
      BY <1>0, <1>1, <1>21 DEF RecordResult, At, StageOf, VendorSteps
    <2>2. \A step \in VendorSteps : Attempted(s, step)' <=> Attempted(s, step)
      BY <2>1 DEF Attempted
    <2>3. CASE /\ session'[s].at = "ended" /\ session'[s].exit = "1"
               /\ session'[s].unaudited
               /\ session'[s].step = session[s].step
               /\ journal' = journal
      <3>1. SameRecord(s)
        BY <1>4, <2>1, <2>3
      <3> SUFFICES ASSUME NEW step \in VendorSteps PROVE After(step)
        BY <1>3
      <3>2. QED
        BY <1>0, <1>1, <1>2, <2>1, <2>3, <3>1
        DEF Accounted, SameRecord, Answerable, VendorSteps, r, r2
    <2>4. ASSUME NEW status \in {"completed", "failed"},
                 journal' = journal \cup {Entry(s, status)},
                 NEW step \in VendorSteps
          PROVE  Results(s, step)' = IF step = session[s].step THEN {status}
                                     ELSE Results(s, step)
      <3>1. /\ Entry(s, status).session = s /\ Entry(s, status).step = session[s].step
            /\ Entry(s, status).status = status /\ status # "started"
        BY DEF Entry
      <3>2. CASE step = session[s].step
        <4>1. Results(s, step) = {}
          BY <1>0, <1>2, <2>1, <3>2 DEF Accounted, r
        <4>2. Results(s, step)' = Results(s, step) \cup {status}
          BY <2>4, <3>1, <3>2, ResultsGrow
        <4>3. QED
          BY <3>2, <4>1, <4>2
      <3>3. CASE step # session[s].step
        BY <2>4, <3>1, <3>3, ResultsStay
      <3>4. QED
        BY <3>2, <3>3
    <2>5. CASE /\ session'[s].at = "ended" /\ session'[s].exit = "1"
               /\ session'[s].step = session[s].step
               /\ \E status \in {"completed", "failed"} :
                     journal' = journal \cup {Entry(s, status)}
      <3> SUFFICES ASSUME NEW step \in VendorSteps PROVE After(step)
        BY <1>3
      <3>1. PICK status \in {"completed", "failed"} :
               Results(s, step)' = IF step = session[s].step THEN {status}
                                   ELSE Results(s, step)
        BY <2>4, <2>5
      <3>2. QED
        BY <1>0, <1>1, <1>2, <2>1, <2>2, <2>5, <3>1
        DEF Accounted, Answerable, VendorSteps, r, r2
    <2>6. CASE Succeed(s) /\ journal' = journal \cup {Entry(s, "completed")}
      <3> SUFFICES ASSUME NEW step \in VendorSteps PROVE After(step)
        BY <1>3
      <3>1. Results(s, step)' = IF step = session[s].step THEN {"completed"}
                                ELSE Results(s, step)
        BY <2>4, <2>6
      <3>2. \/ /\ session[s].step = "install"
               /\ session'[s].at = "look-up" /\ session'[s].step = "login"
            \/ /\ session[s].step = "login"
               /\ session'[s].at = "ask" /\ session'[s].step = "default"
            \/ /\ session'[s].at = "ended" /\ session'[s].exit = "0"
               /\ session'[s].step = session[s].step
               /\ session'[s].command = session[s].command
               /\ session[s].command \in {"install", "login"}
        BY <1>0, <1>1, <2>1, <2>6, SucceedShape DEF Went, Kept, Commands
      <3>3. \/ session[s].command = "install" /\ session[s].step = "install"
            \/ session[s].command = "login" /\ session[s].step = "login"
            \/ session[s].command = "setup"
        BY <1>0, <1>1 DEF StageOf, Commands
      <3>4. Before(step) /\ r.at = "record-result"
        BY <1>2, <2>1 DEF r
      <3>5. QED
        BY <2>1, <2>2, <3>1, <3>2, <3>3, <3>4
        DEF Accounted, Answerable, VendorSteps, r, r2
    <2>7. \/ Succeed(s) /\ journal' = journal \cup {Entry(s, "completed")}
          \/ /\ Set(s, [session[s] EXCEPT !.at = "ended", !.exit = "1",
                                          !.unaudited = FALSE])
             /\ \E status \in {"completed", "failed"} :
                   journal' = journal \cup {Entry(s, status)}
          \/ /\ Set(s, [session[s] EXCEPT !.at = "ended", !.exit = "1",
                                          !.unaudited = TRUE])
             /\ journal' = journal
      BY <1>21 DEF RecordResult, Finish
    <2>8. ASSUME NEW unaudited \in BOOLEAN,
                 Set(s, [session[s] EXCEPT !.at = "ended", !.exit = "1",
                                           !.unaudited = unaudited])
          PROVE  /\ session'[s].at = "ended" /\ session'[s].exit = "1"
                 /\ session'[s].unaudited = unaudited
                 /\ session'[s].step = session[s].step
      BY <1>0, <2>8, FailShape DEF Went
    <2>9. QED
      BY <2>3, <2>5, <2>6, <2>7, <2>8
  <1>22. CASE SetDefault(s)
    <2>1. session[s].step = "default" /\ SameRecord(s)
      BY <1>0, <1>4, <1>22 DEF SetDefault, At, StageOf
    <2>2. Stop(s, "0") \/ Stop(s, "1")
      BY <1>22 DEF SetDefault
    <2>3. QED
      BY <1>7, <2>1, <2>2 DEF Exits
  <1>23. CASE WorkdirFails(s) \/ Interrupt(s)
    <2>1. SameRecord(s)
      BY <1>4, <1>23 DEF WorkdirFails, Interrupt
    <2>2. \E exit \in Exits \ {"0", "1"} : Stop(s, exit)
      BY <1>23 DEF WorkdirFails, Interrupt, Exits
    <2>3. QED
      BY <1>7, <2>1, <2>2
  <1>24. QED
    BY <1>11, <1>12, <1>13, <1>14, <1>15, <1>16, <1>18, <1>19, <1>20, <1>21,
       <1>22, <1>23 DEF Step

LEMMA OutcomeInvInit == Init => OutcomeInv
  <1> SUFFICES ASSUME Init PROVE OutcomeInv
    OBVIOUS
  <1>1. NotBegun.at = "not-begun"
    BY DEF NotBegun
  <1>2. \A s \in Sessions : session[s].at = "not-begun"
    BY <1>1 DEF Init
  <1>3. journal = {} /\ attempted = {} /\ answered = {}
    BY DEF Init
  <1>4. \A s \in Sessions, step \in VendorSteps :
           Results(s, step) = {} /\ ~Attempted(s, step)
    BY <1>3 DEF Results, Attempted
  <1>5. QED
    BY <1>2, <1>3, <1>4 DEF OutcomeInv, OutcomeOf, Accounted, DefaultInv

(* Yes is said to "make it the default" where the step is that one, after  *)
(* a completed login; and a completed login stays the one result.          *)
LEMMA DefaultIsLoggedIn ==
    ASSUME SetupBase, OutcomeInv, NEW s \in Sessions, Step(s),
           journal \subseteq journal', \A d \in Sessions : OutcomeOf(d)'
    PROVE  DefaultInv'
  <1> SUFFICES ASSUME NEW q \in answered', q.question = "default"
               PROVE  Results(q.session, "login")' = {"completed"}
    BY DEF DefaultInv
  <1>1. q.session \in Sessions /\ "completed" \in Results(q.session, "login")
    <2>1. CASE q \in answered
      BY <2>1 DEF OutcomeInv, DefaultInv, SetupBase, SetupTypeOK
    <2>2. CASE q \notin answered
      <3>1. /\ session[s].at = "answer" /\ q.session = s
            /\ session[s].question = "default"
        BY <2>2, HistoryMoves
      <3>2. session[s].step = "default"
        BY <3>1 DEF SetupBase, StageOf, VendorSteps
      <3>3. Results(s, "login") = {"completed"}
        BY <3>1, <3>2 DEF OutcomeInv, OutcomeOf, Accounted, VendorSteps
      <3>4. QED
        BY <3>1, <3>3
    <2>3. QED
      BY <2>1, <2>2
  <1>2. "completed" \in Results(q.session, "login")'
    BY <1>1 DEF Results
  <1>3. Results(q.session, "login")' \in {{}, {"completed"}, {"failed"}}
    BY <1>1 DEF OutcomeOf, Accounted, VendorSteps
  <1>4. QED
    BY <1>2, <1>3

LEMMA OutcomeInvStep ==
    SetupBase /\ ConfirmInv /\ OutcomeInv /\ [Next]_vars => OutcomeInv'
  <1> SUFFICES ASSUME SetupBase, ConfirmInv, OutcomeInv, [Next]_vars
               PROVE  OutcomeInv'
    OBVIOUS
  <1>0. SetupTypeOK
    BY DEF SetupBase
  <1>1. ASSUME NEW s \in Sessions, Step(s)
        PROVE  OutcomeInv'
    <2>1. \A d \in Sessions \ {s} : session'[d] = session[d]
      BY <1>1, StepShape DEF Shape
    <2>2. ASSUME NEW d \in Sessions \ {s}
          PROVE  OutcomeOf(d)'
      BY <1>1, <2>1, OthersRecord, AccountedSame DEF OutcomeInv
    <2>3. OutcomeOf(s)'
      BY <1>1, OutcomeOfStep DEF OutcomeInv
    <2>4. DefaultInv'
      BY <1>1, <2>2, <2>3, NewRecords, DefaultIsLoggedIn
    <2>5. QED
      BY <2>2, <2>3, <2>4 DEF OutcomeInv
  <1>2. ASSUME NEW s \in Sessions, NEW command \in Commands, NEW agent \in Agents,
               NEW tty \in BOOLEAN, NEW given \in {"none", "flag", "env"},
               Begin(s, command, agent, tty, given)
        PROVE  OutcomeInv'
    <2>1. UNCHANGED <<journal, attempted, answered>>
      BY <1>2 DEF Begin
    <2>2. \A d \in Sessions : SameRecord(d)
      BY <2>1 DEF SameRecord, Attempted, Results
    <2>3. ASSUME NEW d \in Sessions \ {s}
          PROVE  OutcomeOf(d)'
      <3>1. session'[d] = session[d]
        BY <1>0, <1>2 DEF Begin, Set, SetupTypeOK
      <3>2. QED
        BY <2>2, <3>1, AccountedSame DEF OutcomeInv
    <2>4. OutcomeOf(s)'
      <3>1. session[s].at = "not-begun" /\ session'[s].at = "look-up"
        BY <1>0, <1>2, BeginShape
      <3>2. session'[s].step \in VendorSteps
        <4>1. s \in DOMAIN session
          BY <1>0 DEF SetupTypeOK
        <4>2. QED
          BY <1>2, <4>1 DEF Begin, Set, VendorSteps
      <3>3. ASSUME NEW step \in VendorSteps
            PROVE  ~Attempted(s, step)' /\ Results(s, step)' = {}
        BY <2>2, <3>1 DEF OutcomeInv, OutcomeOf, Accounted, SameRecord
      <3>4. QED
        BY <3>1, <3>2, <3>3 DEF OutcomeOf, Accounted, VendorSteps
    <2>5. DefaultInv'
      BY <2>1 DEF OutcomeInv, DefaultInv, Results
    <2>6. QED
      BY <2>3, <2>4, <2>5 DEF OutcomeInv
  <1>3. ASSUME UNCHANGED <<session, journal, attempted, answered>>
        PROVE  OutcomeInv'
    <2>1. \A d \in Sessions : SameRecord(d) /\ session'[d] = session[d]
      BY <1>3 DEF SameRecord, Attempted, Results
    <2>2. \A d \in Sessions : OutcomeOf(d)'
      BY <2>1, AccountedSame DEF OutcomeInv
    <2>3. QED
      BY <1>3, <2>2 DEF OutcomeInv, DefaultInv, Results
  <1>4. QED
    BY <1>1, <1>2, <1>3 DEF Next, Type, ChangeBinary, DefaultByHand, vars

LEMMA OutcomesFollow ==
    ASSUME SetupTypeOK, ConfirmInv, OutcomeInv
    PROVE  OutcomesAreAccounted
  <1>1. ASSUME NEW a \in attempted
        PROVE  LET r       == session[a.session]
                   results == Results(a.session, a.step)
               IN  /\ r.at = "ended" /\ r.exit = "0" => results = {"completed"}
                   /\ r.at = "ended" /\ r.exit = "1" => r.unaudited \/ results # {}
                   /\ results # {"completed", "failed"}
    <2>1. /\ a \in [session: Sessions, step: VendorSteps]
          /\ session[a.session].at # "not-begun"
      BY DEF SetupTypeOK, VendorSteps, ConfirmInv, BegunInv
    <2>2. a.session \in Sessions /\ a.step \in VendorSteps
          /\ Attempted(a.session, a.step)
      BY <2>1 DEF Attempted
    <2>3. Accounted(session[a.session], a.step, Attempted(a.session, a.step),
                    Results(a.session, a.step))
      BY <2>2 DEF OutcomeInv, OutcomeOf
    <2>4. {"completed", "failed"} \notin {{}, {"completed"}, {"failed"}}
      OBVIOUS
    <2>5. QED
      BY <2>1, <2>2, <2>3, <2>4 DEF Accounted
  <1>2. ASSUME NEW s \in Sessions, session[s] # NotBegun,
               session[s].at = "ended", session[s].exit = "0"
        PROVE  session[s].command = "install" \/ Results(s, "login") = {"completed"}
    <2>1. Accounted(session[s], "login", Attempted(s, "login"), Results(s, "login"))
      BY DEF OutcomeInv, OutcomeOf, VendorSteps
    <2>2. QED
      BY <1>2, <2>1 DEF Accounted
  <1>3. QED
    BY <1>1, <1>2 DEF OutcomesAreAccounted, OutcomeInv, DefaultInv

(* A command that ran vendor code and came to its own end has recorded how *)
(* it went or said that it could not; success means recorded successes     *)
(* only; set-up has an agent made the default only after its own login to  *)
(* it is on record as completed: OutcomesAreAccounted, over any            *)
(* interruption and any refused record.                                    *)
THEOREM OutcomesAreOnRecord == Spec => []OutcomesAreAccounted
  <1>1. SetupBase => SetupTypeOK
    BY DEF SetupBase
  <1>2. SetupBase /\ ConfirmInv /\ OutcomeInv => OutcomesAreAccounted
    BY <1>1, OutcomesFollow
  <1>3. QED
    BY <1>2, SetupBaseInit, SetupBaseStep, ConfirmInvInit, ConfirmInvStep,
       OutcomeInvInit, OutcomeInvStep, PTL DEF Spec
=============================================================================
