-------------------------- MODULE ReconServerProofs --------------------------
(***************************************************************************)
(* Theorems about the recon server, for any servers, hosts, scans, tools,  *)
(* approvals and profiles, and any limit on redirects.                     *)
(***************************************************************************)
EXTENDS ReconServer, PermitProofs

CallRecs ==
    [at: Stages, tool: Tools, target: Hosts, scan: Scans,
     permit: Ids \cup {NoId}, fault: Faults, logged: BOOLEAN,
     host: Hosts, hops: 0..MaxRedirects,
     verdict: {"allowed", "refused", "error"}]

LogRecs ==
    [id: CallIds, tool: Tools, target: Hosts, phase: {"intent", "result"},
     verdict: {"pending", "allowed", "refused", "error"}, kept: BOOLEAN]

ContactRecs == [id: CallIds, tool: Tools, host: Hosts, use: Requests]

(* A call keeps what it was asked for.                                     *)
Kept(s) ==
    /\ call'[s].tool = call[s].tool
    /\ call'[s].target = call[s].target
    /\ call'[s].scan = call[s].scan

LEMMA CallRecord ==
    ASSUME ReconTypeOK, NEW s \in Servers
    PROVE  /\ call[s] # Idle <=> call[s].at # "idle"
           /\ call[s].at # "idle" => call[s] \in CallRecs /\ call[s].at \in Stages
  <1>1. CASE call[s] = Idle
    BY <1>1 DEF Idle
  <1>2. CASE call[s] # Idle
    <2>1. call[s] \in CallRecs
      BY <1>2 DEF ReconTypeOK, CallRecs
    <2>2. call[s].at \in Stages
      BY <2>1 DEF CallRecs
    <2>3. QED
      BY <1>2, <2>1, <2>2 DEF Stages, Over
  <1>3. QED
    BY <1>1, <1>2

LEMMA SetCall ==
    ASSUME ReconTypeOK, NEW s \in Servers, NEW rec \in {Idle} \cup CallRecs,
           call' = [call EXCEPT ![s] = rec]
    PROVE  /\ call' \in [Servers -> {Idle} \cup CallRecs]
           /\ call'[s] = rec
           /\ \A d \in Servers \ {s} : call'[d] = call[d]
  BY DEF ReconTypeOK, CallRecs

LEMMA GotoShape ==
    ASSUME ReconTypeOK, NEW s \in Servers, call[s].at # "idle",
           NEW step \in Stages, Goto(s, step)
    PROVE  /\ call' \in [Servers -> {Idle} \cup CallRecs]
           /\ \A d \in Servers \ {s} : call'[d] = call[d]
           /\ call'[s] # Idle /\ call'[s].at = step /\ Kept(s)
           /\ call'[s].host = call[s].host
           /\ call'[s].verdict = call[s].verdict
           /\ call'[s].logged = call[s].logged
  <1> DEFINE rec == [call[s] EXCEPT !.at = step]
  <1>1. call[s] \in CallRecs
    BY CallRecord
  <1>2. /\ rec \in CallRecs /\ rec.at = step
        /\ rec.tool = call[s].tool /\ rec.target = call[s].target
        /\ rec.scan = call[s].scan
        /\ rec.host = call[s].host /\ rec.verdict = call[s].verdict
        /\ rec.logged = call[s].logged
    BY <1>1 DEF CallRecs
  <1>3. rec # Idle
    BY <1>2 DEF Idle, Stages, Over
  <1>4. call' = [call EXCEPT ![s] = rec]
    BY DEF Goto
  <1> HIDE DEF rec
  <1>5. QED
    BY <1>2, <1>3, <1>4, SetCall DEF Kept

Moved(s, step) ==
    /\ call'[s].at = step /\ Kept(s)
    /\ call'[s].host = call[s].host
    /\ call'[s].verdict = call[s].verdict
    /\ call'[s].logged = call[s].logged

LEMMA GotoMoves ==
    ASSUME ReconTypeOK, NEW s \in Servers, call[s].at # "idle",
           NEW step \in Stages, Goto(s, step)
    PROVE  Moved(s, step)
  BY GotoShape DEF Moved

LEMMA VerdictShape ==
    ASSUME ReconTypeOK, NEW s \in Servers, call[s].at # "idle",
           NEW verdict \in {"allowed", "refused", "error"}, Verdict(s, verdict)
    PROVE  /\ call' \in [Servers -> {Idle} \cup CallRecs]
           /\ \A d \in Servers \ {s} : call'[d] = call[d]
           /\ call'[s] # Idle /\ call'[s].at = "finish" /\ Kept(s)
           /\ call'[s].verdict = verdict
           /\ call'[s].logged = call[s].logged
  <1> DEFINE rec == [call[s] EXCEPT !.at = "finish", !.verdict = verdict]
  <1>1. call[s] \in CallRecs
    BY CallRecord
  <1>2. /\ rec \in CallRecs /\ rec.at = "finish" /\ rec.verdict = verdict
        /\ rec.tool = call[s].tool /\ rec.target = call[s].target
        /\ rec.scan = call[s].scan /\ rec.logged = call[s].logged
    BY <1>1 DEF CallRecs, Stages
  <1>3. rec # Idle
    BY <1>2 DEF Idle
  <1>4. call' = [call EXCEPT ![s] = rec]
    BY DEF Verdict
  <1> HIDE DEF rec
  <1>5. QED
    BY <1>2, <1>3, <1>4, SetCall DEF Kept

LEMMA FindShape ==
    ASSUME ReconTypeOK, NEW s \in Servers, FindEngagement(s)
    PROVE  /\ call' \in [Servers -> {Idle} \cup CallRecs]
           /\ \A d \in Servers \ {s} : call'[d] = call[d]
           /\ call'[s] # Idle /\ Kept(s)
           /\ call'[s].at \in {"guarded", "raised", "check"}
           /\ call'[s].verdict = call[s].verdict
           /\ call'[s].at # "raised" /\ home => call'[s].logged
  <1> DEFINE step == CASE call[s].fault = "unknown" -> "guarded"
                       [] call[s].fault = "port"    -> "raised"
                       [] OTHER                     -> "check"
             kept == home /\ call[s].fault # "port"
             rec == [call[s] EXCEPT !.at = step, !.logged = kept]
  <1>1. call[s] \in CallRecs
    BY CallRecord DEF FindEngagement
  <1>2. /\ step \in {"guarded", "raised", "check"} /\ kept \in BOOLEAN
        /\ step # "raised" /\ home => kept
    BY DEF ReconTypeOK
  <1>3. call' = [call EXCEPT ![s] = rec]
    BY DEF FindEngagement
  <1> HIDE DEF step, kept
  <1>4. /\ rec \in CallRecs /\ rec.at = step
        /\ rec.tool = call[s].tool /\ rec.target = call[s].target
        /\ rec.scan = call[s].scan /\ rec.verdict = call[s].verdict
        /\ rec.logged = kept
    BY <1>1, <1>2 DEF CallRecs, Stages, Over
  <1>5. rec # Idle
    BY <1>2, <1>4 DEF Idle
  <1> HIDE DEF rec
  <1>6. QED
    BY <1>2, <1>3, <1>4, <1>5, SetCall DEF Kept

LEMMA RedirectShape ==
    ASSUME ReconTypeOK, NEW s \in Servers, NEW host \in Hosts, Redirect(s, host)
    PROVE  /\ call' \in [Servers -> {Idle} \cup CallRecs]
           /\ \A d \in Servers \ {s} : call'[d] = call[d]
           /\ call'[s] # Idle /\ Kept(s)
           /\ call'[s].logged = call[s].logged
           /\ \/ /\ call'[s].at = "authorize"
                 /\ call'[s].verdict = call[s].verdict
              \/ call'[s].at = "finish" /\ call'[s].verdict = "refused"
  <1> DEFINE rec == [call[s] EXCEPT !.at = "authorize", !.host = host,
                                   !.hops = NextHop(call[s].hops)]
  <1>1. call[s] \in CallRecs /\ call[s].at # "idle"
    BY CallRecord DEF Redirect
  <1>2. CASE Verdict(s, "refused")
    BY <1>1, <1>2, VerdictShape
  <1>3. CASE ~ Verdict(s, "refused")
    <2>1. call[s].hops \in 0..MaxRedirects /\ call[s].hops < MaxRedirects
      BY <1>1, <1>3 DEF Redirect, CallRecs
    <2>2. NextHop(call[s].hops) \in 0..MaxRedirects
      BY <2>1, ReconAssumption DEF NextHop
    <2>3. /\ rec \in CallRecs /\ rec.at = "authorize"
          /\ rec.tool = call[s].tool /\ rec.target = call[s].target
          /\ rec.scan = call[s].scan /\ rec.verdict = call[s].verdict
          /\ rec.logged = call[s].logged
      BY <1>1, <2>2 DEF CallRecs, Stages, Over
    <2>4. rec # Idle
      BY <2>3 DEF Idle
    <2>5. call' = [call EXCEPT ![s] = rec]
      BY <1>3 DEF Redirect
    <2> HIDE DEF rec
    <2>6. QED
      BY <2>3, <2>4, <2>5, SetCall DEF Kept
  <1>4. QED
    BY <1>2, <1>3

LEMMA ReceiveShape ==
    ASSUME ReconTypeOK, NEW s \in Servers, NEW tool \in Tools,
           NEW req \in Requests, NEW i \in Ids \cup {NoId}, NEW fault \in Faults,
           Receive(s, tool, req, i, fault)
    PROVE  /\ call' \in [Servers -> {Idle} \cup CallRecs]
           /\ \A d \in Servers \ {s} : call'[d] = call[d]
           /\ call'[s] # Idle /\ call'[s].at = "received"
           /\ call'[s].verdict = "allowed"
           /\ served' \in [Servers -> 0..MaxCalls]
           /\ served'[s] = served[s] + 1
           /\ \A d \in Servers \ {s} : served'[d] = served[d]
           /\ inScope' \in [Servers -> SUBSET Hosts]
           /\ inScope'[s] = IF home THEN scope ELSE {}
           /\ \A d \in Servers \ {s} : inScope'[d] = inScope[d]
           /\ absent \subseteq absent' /\ absent' \subseteq CallIds
           /\ home \/ Id(s)' \in absent'
           /\ \A d \in Servers \ {s} : Id(d) \in absent' => Id(d) \in absent
  <1> DEFINE rec == [at |-> "received", tool |-> tool, target |-> req.target,
                     scan |-> req.scan, permit |-> i, fault |-> fault,
                     logged |-> FALSE, host |-> req.target, hops |-> 0,
                     verdict |-> "allowed"]
  <1>1. req.target \in Hosts /\ req.scan \in Scans
    BY DEF Requests
  <1>2. 0 \in 0..MaxRedirects
    BY ReconAssumption
  <1>3. rec \in CallRecs /\ rec # Idle /\ rec.at = "received"
        /\ rec.verdict = "allowed"
    BY <1>1, <1>2 DEF CallRecs, Stages, Idle
  <1>4. call' = [call EXCEPT ![s] = rec]
    BY DEF Receive
  <1> HIDE DEF rec
  <1>5. /\ served' \in [Servers -> 0..MaxCalls]
        /\ served'[s] = served[s] + 1
        /\ \A d \in Servers \ {s} : served'[d] = served[d]
    <2>1. served[s] + 1 \in 0..MaxCalls
      BY ReconAssumption DEF Receive, ReconTypeOK
    <2>2. QED
      BY <2>1 DEF Receive, ReconTypeOK
  <1>6. /\ inScope' \in [Servers -> SUBSET Hosts]
        /\ inScope'[s] = IF home THEN scope ELSE {}
        /\ \A d \in Servers \ {s} : inScope'[d] = inScope[d]
    BY DEF Receive, ReconTypeOK
  <1>7. Id(s)' \in CallIds /\ \A d \in Servers \ {s} : Id(s)' # Id(d)
    BY <1>5, ReconAssumption DEF Id, CallIds, ReconTypeOK
  <1>8. /\ absent \subseteq absent' /\ absent' \subseteq CallIds
        /\ home \/ Id(s)' \in absent'
        /\ \A d \in Servers \ {s} : Id(d) \in absent' => Id(d) \in absent
    BY <1>7 DEF Receive, ReconTypeOK
  <1>9. QED
    BY <1>3, <1>4, <1>5, <1>6, <1>8, SetCall

-----------------------------------------------------------------------------
(* Each kind of step: what it writes and where the call goes.              *)

(* A call that is being handled has been counted.                          *)
ReconBase ==
    /\ ReconTypeOK
    /\ \A s \in Servers : call[s].at # "idle" => served[s] \in 1..MaxCalls

(* The steps that only move the call.                                      *)
Walks(s) ==
    \/ FindEngagement(s) \/ LogFails(s) \/ HelperFails(s)
    \/ \E i \in Ids : AskForApproval(s, i)
    \/ ConsumeApproval(s) \/ AuthorizeHop(s)
    \/ InScope(call[s].target) /\ CheckScope(s)

(* The steps that write a record: what, and at which stages.               *)
Writes(s) ==
    \/ RefuseArguments(s)
    \/ ~InScope(call[s].target) /\ CheckScope(s)
    \/ RecordIntent(s) \/ RecordRefusal(s) \/ RecordResult(s)

Contacts(s) ==
    \/ Run(s) \/ HostAnswers(s) \/ HostFails(s)
    \/ \E host \in Hosts : Redirect(s, host)

Leaves(s) == Reply(s) \/ Restart(s)

LEMMA ServeKinds ==
    ASSUME NEW s \in Servers, Serve(s) \/ Restart(s)
    PROVE  Walks(s) \/ Writes(s) \/ Contacts(s) \/ Leaves(s)
  <1>1. CheckScope(s) => Walks(s) \/ Writes(s)
    BY DEF Walks, Writes
  <1>2. \A host \in Hosts : Redirect(s, host) => Contacts(s)
    BY DEF Contacts
  <1>3. \A i \in Ids : AskForApproval(s, i) => Walks(s)
    BY DEF Walks
  <1>4. FindEngagement(s) \/ LogFails(s) \/ HelperFails(s)
          \/ ConsumeApproval(s) \/ AuthorizeHop(s) => Walks(s)
    BY DEF Walks
  <1>5. RefuseArguments(s) \/ RecordIntent(s) \/ RecordRefusal(s)
          \/ RecordResult(s) => Writes(s)
    BY DEF Writes
  <1>6. Run(s) \/ HostAnswers(s) \/ HostFails(s) => Contacts(s)
    BY DEF Contacts
  <1>7. Reply(s) \/ Restart(s) => Leaves(s)
    BY DEF Leaves
  <1>8. QED
    BY <1>1, <1>2, <1>3, <1>4, <1>5, <1>6, <1>7 DEF Serve

(* A step leaves the other servers' calls alone; a call that does not end  *)
(* keeps its request.                                                      *)
LEMMA ServeShape ==
    ASSUME ReconTypeOK, NEW s \in Servers, Serve(s) \/ Restart(s)
    PROVE  /\ call' \in [Servers -> {Idle} \cup CallRecs]
           /\ \A d \in Servers \ {s} : call'[d] = call[d]
           /\ served' = served /\ inScope' = inScope /\ absent' = absent
           /\ UNCHANGED <<profile, home, scope>>
           /\ call[s].at # "idle"
           /\ call'[s].at # "idle" => Kept(s)
  <1> USE DEF settings, Stages, Over
  <1>0. call[s].at # "idle"
    BY CallRecord
    DEF Serve, Restart, FindEngagement, RefuseArguments, CheckScope,
        RecordIntent, LogFails, AskForApproval, HelperFails, ConsumeApproval,
        Run, AuthorizeHop, HostAnswers, HostFails, Redirect, RecordRefusal,
        RecordResult, Reply
  <1>1. CASE \E step \in Stages : Goto(s, step)
    <2>1. /\ served' = served /\ inScope' = inScope /\ absent' = absent
          /\ UNCHANGED <<profile, home, scope>>
      BY DEF Serve, Restart, FindEngagement, RefuseArguments, CheckScope,
        RecordIntent, LogFails, AskForApproval, HelperFails, ConsumeApproval,
        Run, AuthorizeHop, HostAnswers, HostFails, Redirect, RecordRefusal,
        RecordResult, Reply
    <2>2. QED
      BY <1>0, <1>1, <2>1, GotoShape
  <1>2. CASE \E verdict \in {"allowed", "refused", "error"} : Verdict(s, verdict)
    <2>1. /\ served' = served /\ inScope' = inScope /\ absent' = absent
          /\ UNCHANGED <<profile, home, scope>>
      BY DEF Serve, Restart, FindEngagement, RefuseArguments, CheckScope,
        RecordIntent, LogFails, AskForApproval, HelperFails, ConsumeApproval,
        Run, AuthorizeHop, HostAnswers, HostFails, Redirect, RecordRefusal,
        RecordResult, Reply
    <2>2. QED
      BY <1>0, <1>2, <2>1, VerdictShape
  <1>3. CASE FindEngagement(s)
    BY <1>0, <1>3, FindShape DEF FindEngagement
  <1>4. ASSUME NEW host \in Hosts, Redirect(s, host)
        PROVE  /\ call' \in [Servers -> {Idle} \cup CallRecs]
               /\ \A d \in Servers \ {s} : call'[d] = call[d]
               /\ served' = served /\ inScope' = inScope /\ absent' = absent
               /\ UNCHANGED <<profile, home, scope>>
               /\ call'[s].at # "idle" => Kept(s)
    BY <1>4, RedirectShape DEF Redirect
  <1>5. CASE Leaves(s)
    BY <1>0, <1>5, SetCall DEF Leaves, Reply, Restart, Idle
  <1>6. CASE Run(s) \/ HelperFails(s) \/ ConsumeApproval(s)
             \/ \E i \in Ids : AskForApproval(s, i)
    BY <1>1, <1>6
    DEF Run, HelperFails, ConsumeApproval, AskForApproval, NotApproved
  <1>7. CASE RefuseArguments(s) \/ CheckScope(s) \/ LogFails(s)
             \/ RecordRefusal(s) \/ RecordResult(s)
    BY <1>1, <1>7
    DEF RefuseArguments, CheckScope, LogFails, RecordRefusal, RecordResult
  <1>8. CASE RecordIntent(s)
    <2>1. \E step \in {"approval", "authorize", "run"} : Goto(s, step)
      BY <1>8 DEF RecordIntent, Intent
    <2>2. QED
      BY <1>1, <2>1
  <1>9. CASE AuthorizeHop(s)
    BY <1>1, <1>2, <1>9 DEF AuthorizeHop
  <1>10. CASE HostAnswers(s) \/ HostFails(s)
    BY <1>1, <1>2, <1>10 DEF HostAnswers, HostFails
  <1>11. QED
    BY <1>0, <1>3, <1>4, <1>5, <1>6, <1>7, <1>8, <1>9, <1>10
    DEF Serve, Leaves

(* The record a step writes.                                               *)
LEMMA WriteShape ==
    ASSUME ReconBase, NEW s \in Servers, Writes(s)
    PROVE  \E rec \in LogRecs :
              /\ records' = records \cup {rec} /\ touched' = touched
              /\ UNCHANGED permitVars
              /\ rec.id = Id(s) /\ rec.tool = call[s].tool
              /\ rec.kept = call[s].logged
              /\ \/ /\ call[s].at \in {"guarded", "check", "finish-refused"}
                    /\ rec.phase = "result" /\ rec.verdict = "refused"
                    /\ Goto(s, "refused")
                 \/ /\ call[s].at = "intent"
                    /\ rec.phase = "intent" /\ rec.verdict = "pending"
                    /\ Intent(s)
                 \/ /\ call[s].at = "finish"
                    /\ rec.phase = "result" /\ rec.verdict = call[s].verdict
                    /\ Goto(s, "returned")
  <1>0. call[s].at # "idle" /\ call[s] \in CallRecs /\ Id(s) \in CallIds
    <2>1. call[s].at # "idle"
      BY DEF Writes, RefuseArguments, CheckScope, RecordIntent, RecordRefusal,
             RecordResult
    <2>2. QED
      BY <2>1, CallRecord DEF ReconBase, Id, CallIds
  <1>1. ASSUME NEW phase \in {"intent", "result"},
               NEW verdict \in {"pending", "allowed", "refused", "error"}
        PROVE  /\ Record(s, phase, verdict) \in LogRecs
               /\ Record(s, phase, verdict).id = Id(s)
               /\ Record(s, phase, verdict).tool = call[s].tool
               /\ Record(s, phase, verdict).phase = phase
               /\ Record(s, phase, verdict).verdict = verdict
               /\ Record(s, phase, verdict).kept = call[s].logged
    BY <1>0 DEF Record, LogRecs, CallRecs
  <1>2. CASE \/ RefuseArguments(s) \/ RecordRefusal(s)
             \/ ~InScope(call[s].target) /\ CheckScope(s)
    BY <1>1, <1>2 DEF RefuseArguments, CheckScope, RecordRefusal, Logged
  <1>3. CASE RecordIntent(s)
    BY <1>1, <1>3 DEF RecordIntent, Intent, Logged
  <1>4. CASE RecordResult(s)
    <2>1. call[s].verdict \in {"allowed", "refused", "error"}
      BY <1>0 DEF CallRecs
    <2>2. QED
      BY <1>1, <1>4, <2>1 DEF RecordResult, Logged
  <1>5. QED
    BY <1>2, <1>3, <1>4 DEF Writes

(* The hosts a step contacts: of those a program may wander to, nothing is *)
(* known but that its own target was checked.                              *)
ContactOf(s, t) ==
    /\ t \in ContactRecs
    /\ t.id = Id(s) /\ t.tool = call[s].tool /\ t.use = RequestOf(s)
    /\ call[s].at = "run" =>
          t.host = call[s].target \/ Wanders(call[s].tool, call[s].scan)
    /\ call[s].at = "fetch" => t.host = call[s].host

LEMMA ContactShape ==
    ASSUME ReconBase, NEW s \in Servers, Contacts(s)
    PROVE  /\ records' = records /\ UNCHANGED permitVars
           /\ call[s].at \in {"run", "fetch"}
           /\ touched \subseteq touched'
           /\ \A t \in touched' : t \in touched \/ ContactOf(s, t)
  <1>0. call[s].at \in {"run", "fetch"}
    BY DEF Contacts, Run, HostAnswers, HostFails, Redirect
  <1>1. call[s] \in CallRecs /\ Id(s) \in CallIds
    BY <1>0, CallRecord DEF ReconBase, Id, CallIds
  <1>2. RequestOf(s) \in Requests
    BY <1>1 DEF RequestOf, Requests, CallRecs
  <1>3. ASSUME NEW host \in Hosts
        PROVE  /\ Contact(s, host) \in ContactRecs
               /\ Contact(s, host).id = Id(s)
               /\ Contact(s, host).tool = call[s].tool
               /\ Contact(s, host).use = RequestOf(s)
               /\ Contact(s, host).host = host
    BY <1>1, <1>2 DEF Contact, ContactRecs, CallRecs
  <1>4. CASE call[s].at = "run"
    <2>1. Run(s)
      BY <1>4 DEF Contacts, Run, HostAnswers, HostFails, Redirect
    <2>2. PICK hosts \in Reach(s) : Touch(s, hosts)
      BY <2>1 DEF Run
    <2>3. /\ hosts \subseteq Hosts
          /\ \A h \in hosts : \/ h = call[s].target
                             \/ Wanders(call[s].tool, call[s].scan)
      BY <1>1 DEF Reach, CallRecs
    <2>4. \A h \in hosts : ContactOf(s, Contact(s, h))
      BY <1>3, <1>4, <2>3 DEF ContactOf
    <2>5. QED
      BY <1>0, <2>1, <2>2, <2>4 DEF Run, Touch
  <1>5. CASE call[s].at = "fetch"
    <2>1. /\ Touch(s, {call[s].host}) /\ records' = records
          /\ UNCHANGED permitVars
      BY <1>5 DEF Contacts, Run, HostAnswers, HostFails, Redirect
    <2>2. ContactOf(s, Contact(s, call[s].host))
      BY <1>1, <1>3, <1>5 DEF ContactOf, CallRecs
    <2>3. QED
      BY <1>0, <2>1, <2>2 DEF Touch
  <1>6. QED
    BY <1>0, <1>4, <1>5

LEMMA WalkShape ==
    ASSUME NEW s \in Servers, Walks(s) \/ Leaves(s)
    PROVE  records' = records /\ touched' = touched
  BY DEF Walks, Leaves, FindEngagement, LogFails, HelperFails, AskForApproval,
         ConsumeApproval, AuthorizeHop, CheckScope, Reply, Restart

-----------------------------------------------------------------------------
(* The approvals of the servers and their operators are permits.           *)

LEMMA ReconMovesPermits ==
    ASSUME ReconTypeOK, [ReconNext]_reconVars
    PROVE  \/ \/ UNCHANGED permitVars
              \/ \E i \in Ids, use \in Uses : Ask(i, use)
              \/ \E i \in Ids : Sanction(i)
           \/ \E s \in Servers :
                 /\ ConsumeApproval(s)
                 /\ call[s].permit \in Ids /\ UseOf(s) \in Uses
                 /\ Spend(call[s].permit, UseOf(s))
  <1>1. ASSUME NEW s \in Servers, NEW i \in Ids, AskForApproval(s, i)
        PROVE  \E use \in Uses : Ask(i, use)
    <2>1. call[s] \in CallRecs
      BY <1>1, CallRecord DEF AskForApproval
    <2>2. RequestOf(s) \in Calls /\ profile \in Profiles
      BY <2>1, CallsAreScans DEF RequestOf, Requests, CallRecs, ReconTypeOK
    <2>3. [call |-> RequestOf(s), profile |-> profile, live |-> FALSE] \in Uses
      BY <2>2 DEF Uses
    <2>4. QED
      BY <1>1, <2>3 DEF AskForApproval
  <1>2. ASSUME NEW s \in Servers, ConsumeApproval(s)
        PROVE  /\ call[s].permit \in Ids /\ UseOf(s) \in Uses
               /\ Spend(call[s].permit, UseOf(s))
    <2>1. call[s] \in CallRecs
      BY <1>2, CallRecord DEF ConsumeApproval
    <2>2. RequestOf(s) \in Calls
      BY <2>1, CallsAreScans DEF RequestOf, Requests, CallRecs
    <2>3. UseOf(s) \in Uses
      BY <2>2 DEF Uses, UseOf
    <2>4. QED
      BY <1>2, <2>1, <2>3 DEF ConsumeApproval, Granted, Spend, CallRecs
  <1>3. ASSUME NEW i \in Ids, RequestApproval(i)
        PROVE  \E use \in Uses : Ask(i, use)
    <2>1. PICK req \in Requests, p \in Profiles :
             Ask(i, [call |-> req, profile |-> p, live |-> FALSE])
      BY <1>3 DEF RequestApproval
    <2>2. [call |-> req, profile |-> p, live |-> FALSE] \in Uses
      BY CallsAreScans DEF Uses
    <2>3. QED
      BY <2>1, <2>2
  <1>4. ASSUME NEW s \in Servers, Serve(s) \/ Restart(s),
               ~ ConsumeApproval(s), ~ \E i \in Ids : AskForApproval(s, i)
        PROVE  UNCHANGED permitVars
    BY <1>4
    DEF Serve, Restart, FindEngagement, RefuseArguments, CheckScope,
        RecordIntent, LogFails, HelperFails, Run, AuthorizeHop, HostAnswers,
        HostFails, Redirect, RecordRefusal, RecordResult, Reply
  <1>5. ASSUME \/ EditScope \/ SetProfile \/ UNCHANGED reconVars
               \/ \E s \in Servers, tool \in Tools, req \in Requests,
                     i \in Ids \cup {NoId}, fault \in Faults :
                        Receive(s, tool, req, i, fault)
        PROVE  UNCHANGED permitVars
    BY <1>5 DEF EditScope, SetProfile, reconVars, Receive
  <1>6. ASSUME NEW i \in Ids, Approve(i)
        PROVE  Sanction(i)
    BY <1>6 DEF Approve
  <1>7. QED
    BY <1>1, <1>2, <1>3, <1>4, <1>5, <1>6 DEF ReconNext

LEMMA ReconPermitStep ==
    ASSUME ReconTypeOK, [ReconNext]_reconVars
    PROVE  [PermitNext]_permitVars
  BY ReconMovesPermits DEF PermitNext

-----------------------------------------------------------------------------
(* Type correctness.                                                       *)

LEMMA ReconBaseInit == ReconInit => ReconBase
  BY ReconAssumption DEF ReconInit, PermitInit, ReconBase, ReconTypeOK, Idle

LEMMA ReconBaseStep == ReconBase /\ [ReconNext]_reconVars => ReconBase'
  <1> SUFFICES ASSUME ReconBase, [ReconNext]_reconVars PROVE ReconBase'
    OBVIOUS
  <1>0. ReconTypeOK
    BY DEF ReconBase
  <1> DEFINE Files == /\ records' \subseteq LogRecs
                      /\ touched' \subseteq ContactRecs
             Calling == /\ call' \in [Servers -> {Idle} \cup CallRecs]
                        /\ served' \in [Servers -> 0..MaxCalls]
                        /\ inScope' \in [Servers -> SUBSET Hosts]
                        /\ absent' \subseteq CallIds
                        /\ profile' \in Profiles /\ home' \in BOOLEAN
                        /\ scope' \subseteq Hosts
             Counted == \A s \in Servers : call'[s].at # "idle" =>
                           served'[s] \in 1..MaxCalls
  <1>1. /\ asked' \in [Ids -> Uses \cup {NoUse}]
        /\ sanctioned' \subseteq Ids
        /\ spentOn' \in [Ids -> Uses \cup {NoUse}]
    <2>1. CASE UNCHANGED permitVars
      BY <1>0, <2>1 DEF permitVars, ReconTypeOK
    <2>2. ASSUME NEW i \in Ids, NEW use \in Uses,
                 Ask(i, use) \/ Sanction(i) \/ Spend(i, use)
          PROVE  /\ asked' \in [Ids -> Uses \cup {NoUse}]
                 /\ sanctioned' \subseteq Ids
                 /\ spentOn' \in [Ids -> Uses \cup {NoUse}]
      BY <1>0, <2>2 DEF Ask, Sanction, Spend, ReconTypeOK
    <2>3. ASSUME NEW i \in Ids, Sanction(i)
          PROVE  /\ asked' \in [Ids -> Uses \cup {NoUse}]
                 /\ sanctioned' \subseteq Ids
                 /\ spentOn' \in [Ids -> Uses \cup {NoUse}]
      BY <1>0, <2>3 DEF Sanction, ReconTypeOK
    <2>4. QED
      BY <1>0, <2>1, <2>2, <2>3, ReconPermitStep DEF PermitNext
  <1>2. ASSUME NEW s \in Servers, Serve(s) \/ Restart(s)
        PROVE  Files /\ Calling /\ Counted
    <2>1. Files
      <3>1. CASE Writes(s)
        BY <1>0, <3>1, WriteShape DEF ReconTypeOK, LogRecs, ContactRecs
      <3>2. CASE Contacts(s)
        BY <1>0, <3>2, ContactShape
        DEF ReconTypeOK, LogRecs, ContactRecs, ContactOf
      <3>3. CASE Walks(s) \/ Leaves(s)
        BY <1>0, <3>3, WalkShape DEF ReconTypeOK, LogRecs, ContactRecs
      <3>4. QED
        BY <1>2, <3>1, <3>2, <3>3, ServeKinds
    <2>2. Calling
      BY <1>0, <1>2, ServeShape DEF ReconTypeOK
    <2>3. Counted
      BY <1>0, <1>2, ServeShape DEF ReconBase
    <2>4. QED
      BY <2>1, <2>2, <2>3
  <1>3. ASSUME NEW s \in Servers, NEW tool \in Tools, NEW req \in Requests,
               NEW i \in Ids \cup {NoId}, NEW fault \in Faults,
               Receive(s, tool, req, i, fault)
        PROVE  Files /\ Calling /\ Counted
    <2>1. Files /\ profile' = profile /\ home' = home /\ scope' = scope
      BY <1>0, <1>3 DEF Receive, ReconTypeOK, LogRecs, ContactRecs
    <2>2. Calling
      BY <1>0, <1>3, <2>1, ReceiveShape DEF ReconTypeOK
    <2>3. served'[s] \in 1..MaxCalls
      BY <1>0, <1>3, ReceiveShape, ReconAssumption DEF Receive, ReconTypeOK
    <2>4. Counted
      BY <1>0, <1>3, <2>3, ReceiveShape DEF ReconBase
    <2>5. QED
      BY <2>1, <2>2, <2>4
  <1>4. CASE EditScope
    <2>1. /\ inScope' \in [Servers -> SUBSET Hosts]
          /\ absent' \subseteq CallIds
      <3>1. \A s \in Servers : call[s] # Idle => Id(s) \in CallIds
        BY <1>0, CallRecord DEF ReconBase, Id, CallIds
      <3>2. QED
        BY <1>0, <1>4, <3>1 DEF EditScope, ReconTypeOK
    <2>2. QED
      BY <1>0, <1>1, <1>4, <2>1 DEF EditScope, ReconBase, ReconTypeOK
  <1>5. CASE \/ SetProfile \/ UNCHANGED reconVars
             \/ \E i \in Ids : RequestApproval(i) \/ Approve(i)
    BY <1>0, <1>1, <1>5
    DEF SetProfile, RequestApproval, Approve, reconVars, settings, ReconBase,
        ReconTypeOK
  <1>6. Files /\ Calling /\ Counted => ReconBase'
    BY <1>1 DEF ReconBase, ReconTypeOK, LogRecs, CallRecs, ContactRecs
  <1>7. QED
    BY <1>2, <1>3, <1>4, <1>5, <1>6 DEF ReconNext

(* Every variable of the servers keeps its type, and a redirect never      *)
(* takes a call past the limit on redirects: ReconTypeOK in every state.   *)
THEOREM ReconTypeCorrect == ReconSpec => []ReconTypeOK
  <1>1. ReconBase => ReconTypeOK
    BY DEF ReconBase
  <1>2. QED
    BY <1>1, ReconBaseInit, ReconBaseStep, PTL DEF ReconSpec

-----------------------------------------------------------------------------
(* A call, its records and the hosts it contacted.                         *)

Results(s) == RecordsOf(Id(s), "result")

Intents(s) == RecordsOf(Id(s), "intent")

Touches(s) == {t \in touched : t.id = Id(s)}

InScopeOf(s, t) ==
    /\ t.use.target \in inScope[s]
    /\ ~Wanders(t.tool, t.use.scan) => t.host \in inScope[s]

CallOf(s) ==
    /\ home => scope \subseteq inScope[s]
    /\ Id(s) \notin absent => home
    /\ call[s].at \notin {"received", "raised"} =>
          Id(s) \in absent \/ call[s].logged
    /\ call[s].at \in {"intent", "approval", "run", "authorize", "fetch"} =>
          call[s].target \in inScope[s]
    /\ call[s].at = "fetch" => call[s].host \in inScope[s]
    /\ \A t \in Touches(s) : InScopeOf(s, t)
    /\ call[s].at \in {"approval", "run", "authorize", "fetch", "finish",
                       "finish-refused"} => OnFile(Id(s), Intents(s))
    /\ call[s].at \notin Over => Results(s) = {}
    /\ call[s].at \in {"refused", "returned"} => OnFile(Id(s), Results(s))
    /\ call[s].at \notin {"authorize", "fetch", "finish"} \cup Over =>
          Touches(s) = {}
    /\ call[s].at = "approval" => call[s].tool = "nmap_scan"
    /\ call[s].at \in {"authorize", "fetch"} => call[s].tool = "http_headers"
    /\ call[s].tool # "http_headers" => call[s].verdict = "allowed"

CallInv == \A s \in Servers : call[s].at # "idle" => CallOf(s)

(* The ids in the log and of the contacts are those of calls received.     *)
FreshInv ==
    /\ \A e \in records : e.id[2] <= served[e.id[1]]
    /\ \A t \in touched : t.id[2] <= served[t.id[1]]

(* LogIsTrue, and what keeps it true: a refusal is a result.               *)
RecordsInv ==
    /\ \A t \in touched : OnFile(t.id, RecordsOf(t.id, "intent"))
    /\ \A e \in records : e.phase = "result" =>
          /\ RecordsOf(e.id, "result") = {e}
          /\ e.verdict # "refused" => RecordsOf(e.id, "intent") # {}
    /\ \A e \in records : e.verdict = "refused" => e.phase = "result"
    /\ \A e \in records : e.verdict = "refused" /\ e.tool # "http_headers" =>
          \A t \in touched : t.id # e.id

ReconInv == ReconBase /\ CallInv /\ FreshInv /\ RecordsInv

(* A step of one call is none of another's.                                *)
LEMMA OthersCall ==
    ASSUME ReconInv, NEW s \in Servers, Serve(s) \/ Restart(s),
           NEW d \in Servers \ {s}, CallOf(d)
    PROVE  CallOf(d)'
  <1>0. ReconBase /\ ReconTypeOK
    BY DEF ReconInv, ReconBase
  <1>1. /\ call'[d] = call[d] /\ Id(d)' = Id(d) /\ Id(d) # Id(s)
        /\ UNCHANGED <<inScope, absent, home, scope>>
    BY <1>0, ServeShape DEF Id
  <1>2. Results(d)' = Results(d) /\ Intents(d)' = Intents(d)
    <2>1. \/ records' = records
          \/ \E rec : records' = records \cup {rec} /\ rec.id = Id(s)
      BY <1>0, ServeKinds, WriteShape, ContactShape, WalkShape
    <2>2. QED
      BY <1>1, <2>1 DEF Results, Intents, RecordsOf
  <1>3. Touches(d)' = Touches(d)
    <2>1. /\ touched \subseteq touched'
          /\ \A t \in touched' : t \in touched \/ t.id = Id(s)
      BY <1>0, ServeKinds, WriteShape, ContactShape, WalkShape DEF ContactOf
    <2>2. QED
      BY <1>1, <2>1 DEF Touches
  <1>4. QED
    BY <1>1, <1>2, <1>3 DEF CallOf, OnFile, InScopeOf

LEMMA WalkCall ==
    ASSUME ReconInv, NEW s \in Servers, Walks(s), CallOf(s)
    PROVE  CallOf(s)'
  <1>0. ReconBase /\ ReconTypeOK /\ Serve(s) /\ call[s].at # "idle"
    <2>1. Serve(s)
      BY DEF Walks, Serve
    <2>2. QED
      BY <2>1, ServeShape DEF ReconInv, ReconBase
  <1>1. /\ Results(s)' = Results(s) /\ Intents(s)' = Intents(s)
        /\ Touches(s)' = Touches(s) /\ Id(s)' = Id(s)
        /\ UNCHANGED <<inScope, absent, home, scope>>
    BY <1>0, WalkShape, ServeShape
    DEF Results, Intents, Touches, RecordsOf, Id
  <1> USE DEF CallOf, OnFile, InScopeOf, Over, Kept
  <1>2. CASE FindEngagement(s)
    <2>1. call[s].at = "received"
      BY <1>2 DEF FindEngagement
    <2>2. QED
      BY <1>0, <1>1, <1>2, <2>1, FindShape
  <1>3. CASE LogFails(s)
    <2>1. Moved(s, "raised")
      BY <1>0, <1>3, GotoMoves DEF LogFails, Stages
    <2>2. QED
      BY <1>1, <2>1 DEF Moved
  <1>4. CASE HelperFails(s) \/ \E i \in Ids : AskForApproval(s, i)
    <2>1. call[s].at = "approval" /\ NotApproved(s)
      BY <1>4 DEF HelperFails, AskForApproval
    <2>2. Moved(s, "finish-refused") \/ Moved(s, "raised")
      BY <1>0, <2>1, GotoMoves DEF NotApproved, Stages
    <2>3. QED
      BY <1>1, <2>1, <2>2 DEF Moved
  <1>5. CASE ConsumeApproval(s)
    <2>1. call[s].at = "approval" /\ (Goto(s, "run") \/ Goto(s, "raised"))
      BY <1>5 DEF ConsumeApproval
    <2>2. Moved(s, "run") \/ Moved(s, "raised")
      BY <1>0, <2>1, GotoMoves DEF Stages
    <2>3. QED
      BY <1>1, <2>1, <2>2 DEF Moved
  <1>6. CASE AuthorizeHop(s)
    <2>1. CASE HopAllowed(call[s].host) /\ Goto(s, "fetch")
      <3>1. Moved(s, "fetch")
        BY <1>0, <2>1, GotoMoves DEF Stages
      <3>2. QED
        BY <1>1, <1>6, <2>1, <3>1
        DEF AuthorizeHop, HopAllowed, InScope, Moved
    <2>2. CASE Verdict(s, "refused")
      BY <1>0, <1>1, <1>6, <2>2, VerdictShape DEF AuthorizeHop
    <2>3. QED
      BY <1>6, <2>1, <2>2 DEF AuthorizeHop
  <1>7. CASE InScope(call[s].target) /\ CheckScope(s)
    <2>1. call[s].at = "check" /\ Goto(s, "intent")
      BY <1>7 DEF CheckScope
    <2>2. Moved(s, "intent")
      BY <1>0, <2>1, GotoMoves DEF Stages
    <2>3. QED
      BY <1>1, <1>7, <2>1, <2>2 DEF InScope, Moved
  <1>8. QED
    BY <1>2, <1>3, <1>4, <1>5, <1>6, <1>7 DEF Walks

LEMMA WriteCall ==
    ASSUME ReconInv, NEW s \in Servers, Writes(s), CallOf(s)
    PROVE  CallOf(s)'
  <1>0. ReconBase /\ ReconTypeOK /\ Serve(s) /\ call[s].at # "idle"
    <2>1. Serve(s)
      BY DEF Writes, Serve
    <2>2. QED
      BY <2>1, ServeShape DEF ReconInv, ReconBase
  <1>1. PICK rec \in LogRecs :
              /\ records' = records \cup {rec} /\ touched' = touched
              /\ rec.id = Id(s) /\ rec.tool = call[s].tool
              /\ rec.kept = call[s].logged
              /\ \/ /\ call[s].at \in {"guarded", "check", "finish-refused"}
                    /\ rec.phase = "result" /\ rec.verdict = "refused"
                    /\ Goto(s, "refused")
                 \/ /\ call[s].at = "intent"
                    /\ rec.phase = "intent" /\ rec.verdict = "pending"
                    /\ Intent(s)
                 \/ /\ call[s].at = "finish"
                    /\ rec.phase = "result" /\ rec.verdict = call[s].verdict
                    /\ Goto(s, "returned")
    BY <1>0, WriteShape
  <1>2. /\ Id(s)' = Id(s) /\ Touches(s)' = Touches(s)
        /\ UNCHANGED <<inScope, absent, home, scope>>
    BY <1>0, <1>1, ServeShape DEF Touches, Id
  <1>3. /\ rec.phase = "result" =>
              Results(s)' = Results(s) \cup {rec} /\ Intents(s)' = Intents(s)
        /\ rec.phase = "intent" =>
              Intents(s)' = Intents(s) \cup {rec} /\ Results(s)' = Results(s)
    BY <1>1, <1>2 DEF Results, Intents, RecordsOf
  <1> USE DEF CallOf, OnFile, InScopeOf, Over, Kept
  <1>4. CASE Intent(s) /\ call[s].at = "intent" /\ rec.phase = "intent"
    <2>1. \/ Goto(s, "approval") /\ call[s].tool = "nmap_scan"
          \/ Goto(s, "authorize") /\ call[s].tool = "http_headers"
          \/ Goto(s, "run")
      BY <1>4 DEF Intent
    <2>2. \/ Moved(s, "approval") /\ call[s].tool = "nmap_scan"
          \/ Moved(s, "authorize") /\ call[s].tool = "http_headers"
          \/ Moved(s, "run")
      BY <1>0, <2>1, GotoMoves DEF Stages
    <2>3. OnFile(Id(s), Intents(s))'
      BY <1>1, <1>2, <1>3, <1>4
    <2> HIDE DEF OnFile
    <2>4. Results(s)' = {} /\ Touches(s)' = {} /\ Over' = Over
      BY <1>2, <1>3, <1>4
    <2>5. QED
      BY <1>2, <1>4, <2>2, <2>3, <2>4 DEF Moved
  <1>5. CASE Goto(s, "refused") /\ rec.phase = "result"
    <2>1. Moved(s, "refused")
      BY <1>0, <1>5, GotoMoves DEF Stages, Over
    <2>2. QED
      BY <1>1, <1>2, <1>3, <1>5, <2>1 DEF Moved
  <1>6. CASE Goto(s, "returned") /\ rec.phase = "result"
    <2>1. Moved(s, "returned")
      BY <1>0, <1>6, GotoMoves DEF Stages, Over
    <2>2. QED
      BY <1>1, <1>2, <1>3, <1>6, <2>1 DEF Moved
  <1>7. QED
    BY <1>1, <1>4, <1>5, <1>6

LEMMA ContactCall ==
    ASSUME ReconInv, NEW s \in Servers, Contacts(s), CallOf(s)
    PROVE  CallOf(s)'
  <1>0. ReconBase /\ ReconTypeOK /\ Serve(s) /\ call[s].at # "idle"
    <2>1. Serve(s)
      BY DEF Contacts, Serve
    <2>2. QED
      BY <2>1, ServeShape DEF ReconInv, ReconBase
  <1>1. /\ Results(s)' = Results(s) /\ Intents(s)' = Intents(s)
        /\ Id(s)' = Id(s)
        /\ UNCHANGED <<inScope, absent, home, scope>>
    BY <1>0, ContactShape, ServeShape DEF Results, Intents, RecordsOf, Id
  <1>2. \A t \in Touches(s)' : InScopeOf(s, t)
    <2>1. call[s].at \in {"run", "fetch"}
      BY <1>0, ContactShape
    <2>2. ASSUME NEW t, ContactOf(s, t)
          PROVE  InScopeOf(s, t)
      <3>1. /\ t.use.target = call[s].target /\ t.use.scan = call[s].scan
            /\ t.tool = call[s].tool
        BY <2>2 DEF ContactOf, RequestOf
      <3>2. QED
        BY <2>1, <2>2, <3>1 DEF ContactOf, InScopeOf, CallOf
    <2>3. QED
      BY <1>0, <1>1, <2>2, ContactShape DEF Touches, CallOf
  <1>3. /\ call[s].at \in {"run", "fetch"}
        /\ call'[s].at \in {"authorize", "finish", "raised"}
        /\ call'[s].at = "authorize" => call[s].at = "fetch"
        /\ Kept(s)
        /\ call'[s].logged = call[s].logged
        /\ call[s].tool # "http_headers" => call'[s].verdict = call[s].verdict
    <2>1. CASE Run(s)
      <3>1. Moved(s, "finish") \/ Moved(s, "raised")
        BY <1>0, <2>1, GotoMoves DEF Run, Stages, Over
      <3>2. QED
        BY <2>1, <3>1 DEF Run, Moved
    <2>2. CASE HostAnswers(s)
      BY <1>0, <2>2, VerdictShape DEF HostAnswers, CallOf
    <2>3. CASE HostFails(s)
      BY <1>0, <2>3, GotoShape, VerdictShape DEF HostFails, CallOf, Stages, Over
    <2>4. ASSUME NEW host \in Hosts, Redirect(s, host)
          PROVE  /\ call[s].at \in {"run", "fetch"}
                 /\ call'[s].at \in {"authorize", "finish", "raised"}
                 /\ call'[s].at = "authorize" => call[s].at = "fetch"
                 /\ Kept(s) /\ call'[s].logged = call[s].logged
                 /\ call[s].tool # "http_headers" =>
                       call'[s].verdict = call[s].verdict
      BY <1>0, <2>4, RedirectShape DEF Redirect, CallOf
    <2>5. QED
      BY <2>1, <2>2, <2>3, <2>4 DEF Contacts
  <1>4. QED
    BY <1>1, <1>2, <1>3 DEF CallOf, OnFile, InScopeOf, Over, Kept

LEMMA NewCall ==
    ASSUME ReconInv, NEW s \in Servers, NEW tool \in Tools,
           NEW req \in Requests, NEW i \in Ids \cup {NoId}, NEW fault \in Faults,
           Receive(s, tool, req, i, fault), NEW d \in Servers,
           d # s => CallOf(d)
    PROVE  CallOf(d)'
  <1>0. ReconTypeOK
    BY DEF ReconInv, ReconBase
  <1>1. /\ UNCHANGED <<home, scope, records, touched>>
        /\ served[s] \in Nat
    BY <1>0, ReconAssumption DEF Receive, ReconTypeOK
  <1>2. CASE d # s
    <2>1. /\ call'[d] = call[d] /\ inScope'[d] = inScope[d] /\ Id(d)' = Id(d)
      BY <1>0, <1>2, ReceiveShape DEF Id
    <2>2. /\ Results(d)' = Results(d) /\ Intents(d)' = Intents(d)
          /\ Touches(d)' = Touches(d)
      BY <1>1, <2>1 DEF Results, Intents, Touches, RecordsOf
    <2>3. Id(d) \in absent' <=> Id(d) \in absent
      BY <1>0, <1>2, ReceiveShape
    <2>4. QED
      BY <1>1, <1>2, <2>1, <2>2, <2>3 DEF CallOf, OnFile, InScopeOf
  <1>3. CASE d = s
    <2>1. Id(s)' = <<s, served[s] + 1>>
      BY <1>0, ReceiveShape DEF Id
    <2>2. \A e \in records \cup touched : e.id # Id(s)'
      BY <1>0, <1>1, <2>1 DEF ReconInv, FreshInv, ReconTypeOK, CallIds
    <2>3. Results(s)' = {} /\ Intents(s)' = {} /\ Touches(s)' = {}
      BY <1>1, <2>2 DEF Results, Intents, Touches, RecordsOf
    <2>4. QED
      BY <1>0, <1>1, <1>3, <2>3, ReceiveShape DEF CallOf, OnFile, Over
  <1>4. QED
    BY <1>2, <1>3

LEMMA CallStep == ReconInv /\ [ReconNext]_reconVars => CallInv'
  <1> SUFFICES ASSUME ReconInv, [ReconNext]_reconVars,
                      NEW d \in Servers, call'[d].at # "idle"
               PROVE  CallOf(d)'
    BY DEF CallInv
  <1>0. ReconTypeOK
    BY DEF ReconInv, ReconBase
  <1>1. ASSUME NEW s \in Servers, Serve(s) \/ Restart(s)
        PROVE  CallOf(d)'
    <2>1. CASE d # s
      <3>1. call[d].at # "idle"
        BY <1>0, <1>1, <2>1, ServeShape
      <3>2. CallOf(d)
        BY <3>1 DEF ReconInv, CallInv
      <3>3. QED
        BY <1>1, <2>1, <3>2, OthersCall
    <2>2. CASE d = s
      <3>1. CallOf(s)
        BY <1>0, <1>1, ServeShape DEF ReconInv, CallInv
      <3>2. ~ Leaves(s)
        BY <1>0, <2>2 DEF Leaves, Reply, Restart, Idle, ReconTypeOK
      <3>3. QED
        BY <1>1, <2>2, <3>1, <3>2, ServeKinds, WalkCall, WriteCall, ContactCall
    <2>3. QED
      BY <2>1, <2>2
  <1>2. ASSUME NEW s \in Servers, NEW tool \in Tools, NEW req \in Requests,
               NEW i \in Ids \cup {NoId}, NEW fault \in Faults,
               Receive(s, tool, req, i, fault)
        PROVE  CallOf(d)'
    <2>1. d # s => call[d].at # "idle"
      BY <1>0, <1>2, ReceiveShape
    <2>2. d # s => CallOf(d)
      BY <2>1 DEF ReconInv, CallInv
    <2>3. QED
      BY <1>2, <2>2, NewCall
  <1>3. CASE EditScope
    <2>1. CallOf(d) /\ UNCHANGED <<call, served, records, touched>>
      BY <1>3 DEF EditScope, ReconInv, CallInv
    <2>2. /\ inScope[d] \subseteq inScope'[d]
          /\ home' => scope' \subseteq inScope'[d]
          /\ absent \subseteq absent' /\ (Id(d) \in absent' \/ home')
      <3>1. call[d] # Idle
        BY <1>0, <2>1, CallRecord
      <3>2. QED
        BY <1>0, <1>3, <3>1 DEF EditScope, ReconTypeOK
    <2>3. /\ Results(d)' = Results(d) /\ Intents(d)' = Intents(d)
          /\ Touches(d)' = Touches(d) /\ Id(d)' = Id(d)
      BY <2>1 DEF Results, Intents, Touches, RecordsOf, Id
    <2>4. QED
      BY <2>1, <2>2, <2>3 DEF CallOf, OnFile, InScopeOf
  <1>4. CASE \/ SetProfile \/ UNCHANGED reconVars
             \/ \E i \in Ids : RequestApproval(i) \/ Approve(i)
    <2>1. UNCHANGED <<home, scope, inScope, absent, call, served, records,
                     touched>>
      BY <1>4 DEF SetProfile, RequestApproval, Approve, reconVars, settings
    <2>2. QED
      BY <2>1
      DEF ReconInv, CallInv, CallOf, OnFile, InScopeOf, Results, Intents,
          Touches, RecordsOf, Id
  <1>5. QED
    BY <1>1, <1>2, <1>3, <1>4 DEF ReconNext

(* What may be added to the log and to the contacts, and when.             *)
LEMMA HistoryMoves ==
    ASSUME ReconInv, [ReconNext]_reconVars
    PROVE  \/ records' = records /\ touched' = touched
           \/ \E s \in Servers, rec \in LogRecs :
                 /\ records' = records \cup {rec} /\ touched' = touched
                 /\ rec.id = Id(s)
                 /\ rec.phase = "result" =>
                       /\ Results(s) = {}
                       /\ rec.verdict # "refused" => Intents(s) # {}
                 /\ rec.verdict = "refused" =>
                       /\ rec.phase = "result"
                       /\ rec.tool # "http_headers" => Touches(s) = {}
           \/ \E s \in Servers :
                 /\ records' = records
                 /\ \A t \in touched' : t \in touched \/ t.id = Id(s)
                 /\ OnFile(Id(s), Intents(s)) /\ Results(s) = {}
  <1>0. ReconBase /\ ReconTypeOK
    BY DEF ReconInv, ReconBase
  <1>1. ASSUME NEW s \in Servers, Writes(s)
        PROVE  \E rec \in LogRecs :
                 /\ records' = records \cup {rec} /\ touched' = touched
                 /\ rec.id = Id(s)
                 /\ rec.phase = "result" =>
                       /\ Results(s) = {}
                       /\ rec.verdict # "refused" => Intents(s) # {}
                 /\ rec.verdict = "refused" =>
                       /\ rec.phase = "result"
                       /\ rec.tool # "http_headers" => Touches(s) = {}
    <2>1. CallOf(s)
      <3>1. call[s].at # "idle"
        BY <1>0, <1>1, WriteShape
      <3>2. QED
        BY <3>1 DEF ReconInv, CallInv
    <2>2. call[s].at \in {"guarded", "check", "finish-refused"} =>
             Results(s) = {} /\ Touches(s) = {}
      BY <2>1 DEF CallOf, Over
    <2>3. call[s].at = "finish" =>
             /\ Results(s) = {} /\ Intents(s) # {}
             /\ call[s].verdict = "refused" => call[s].tool = "http_headers"
      BY <2>1 DEF CallOf, OnFile, Over
    <2>4. QED
      BY <1>0, <1>1, <2>2, <2>3, WriteShape
  <1>2. ASSUME NEW s \in Servers, Contacts(s), touched' # touched
        PROVE  /\ records' = records
               /\ \A t \in touched' : t \in touched \/ t.id = Id(s)
               /\ OnFile(Id(s), Intents(s)) /\ Results(s) = {}
    <2>1. call[s].at \in {"run", "fetch"}
      BY <1>0, <1>2, ContactShape
    <2>2. CallOf(s)
      BY <2>1 DEF ReconInv, CallInv
    <2>3. Results(s) = {}
      BY <2>1, <2>2 DEF CallOf, Over
    <2>4. OnFile(Id(s), Intents(s))
      BY <2>1, <2>2 DEF CallOf
    <2>5. QED
      BY <1>0, <1>2, <2>3, <2>4, ContactShape DEF ContactOf
  <1>3. ASSUME NEW s \in Servers, Contacts(s), touched' = touched
        PROVE  records' = records
    BY <1>0, <1>3, ContactShape
  <1>4. ASSUME \/ \E s \in Servers, tool \in Tools, req \in Requests,
                     i \in Ids \cup {NoId}, fault \in Faults :
                        Receive(s, tool, req, i, fault)
               \/ EditScope \/ SetProfile \/ UNCHANGED reconVars
               \/ \E i \in Ids : RequestApproval(i) \/ Approve(i)
        PROVE  records' = records /\ touched' = touched
    BY <1>4 DEF Receive, EditScope, SetProfile, reconVars, RequestApproval,
                Approve
  <1>5. ASSUME NEW s \in Servers, Serve(s) \/ Restart(s),
               ~ Writes(s), ~ Contacts(s)
        PROVE  records' = records /\ touched' = touched
    BY <1>5, ServeKinds, WalkShape
  <1>6. QED
    BY <1>1, <1>2, <1>3, <1>4, <1>5 DEF ReconNext

LEMMA ServedGrows ==
    ASSUME ReconTypeOK, [ReconNext]_reconVars, NEW s \in Servers
    PROVE  served[s] <= served'[s]
  <1>0. served[s] \in Nat
    BY ReconAssumption DEF ReconTypeOK
  <1>1. ASSUME NEW d \in Servers, NEW tool \in Tools, NEW req \in Requests,
               NEW i \in Ids \cup {NoId}, NEW fault \in Faults,
               Receive(d, tool, req, i, fault)
        PROVE  served[s] <= served'[s]
    <2>1. served'[s] \in {served[s], served[s] + 1}
      BY <1>1, ReceiveShape
    <2>2. QED
      BY <1>0, <2>1
  <1>2. ASSUME \/ \E d \in Servers : Serve(d) \/ Restart(d)
               \/ EditScope \/ SetProfile \/ UNCHANGED reconVars
               \/ \E i \in Ids : RequestApproval(i) \/ Approve(i)
        PROVE  served' = served
    BY <1>2, ServeShape
    DEF EditScope, SetProfile, reconVars, RequestApproval, Approve
  <1>3. QED
    BY <1>0, <1>1, <1>2 DEF ReconNext

LEMMA AbsentGrows ==
    ASSUME ReconTypeOK, [ReconNext]_reconVars
    PROVE  absent \subseteq absent'
  BY ReceiveShape, ServeShape
  DEF ReconNext, EditScope, SetProfile, reconVars, settings, RequestApproval,
      Approve

LEMMA FreshStep == ReconInv /\ [ReconNext]_reconVars => FreshInv'
  <1> SUFFICES ASSUME ReconInv, [ReconNext]_reconVars PROVE FreshInv'
    OBVIOUS
  <1>0. ReconTypeOK
    BY DEF ReconInv, ReconBase
  <1>1. \A e \in records' \cup touched' :
           \/ e \in records \cup touched
           \/ \E s \in Servers : e.id = Id(s)
    BY HistoryMoves
  <1>2. \A e \in records' \cup touched' : e.id[2] <= served'[e.id[1]]
    <2> SUFFICES ASSUME NEW e \in records' \cup touched'
                 PROVE  e.id[2] <= served'[e.id[1]]
      OBVIOUS
    <2>1. CASE e \in records \cup touched
      <3>1. e.id[1] \in Servers /\ e.id[2] \in Nat
        BY <1>0, <2>1, ReconAssumption DEF ReconTypeOK, CallIds
      <3>2. /\ e.id[2] <= served[e.id[1]]
            /\ served[e.id[1]] <= served'[e.id[1]]
        BY <1>0, <2>1, <3>1, ServedGrows DEF ReconInv, FreshInv
      <3>3. /\ served[e.id[1]] \in Nat /\ served'[e.id[1]] \in Nat
        <4>1. ReconTypeOK'
          BY ReconBaseStep DEF ReconInv, ReconBase
        <4>2. QED
          BY <1>0, <3>1, <4>1, ReconAssumption DEF ReconTypeOK
      <3>4. QED
        BY <3>1, <3>2, <3>3
    <2>2. ASSUME NEW s \in Servers, e.id = Id(s)
          PROVE  e.id[2] <= served'[e.id[1]]
      BY <1>0, <2>2, ServedGrows DEF Id
    <2>3. QED
      BY <1>1, <2>1, <2>2
  <1>3. QED
    BY <1>2 DEF FreshInv

LEMMA RecordsStep == ReconInv /\ [ReconNext]_reconVars => RecordsInv'
  <1> SUFFICES ASSUME ReconInv, [ReconNext]_reconVars PROVE RecordsInv'
    OBVIOUS
  <1>0. RecordsInv /\ ReconTypeOK
    BY DEF ReconInv, ReconBase
  <1>1. CASE records' = records /\ touched' = touched
    BY <1>0, <1>1, AbsentGrows DEF RecordsInv, RecordsOf, OnFile
  <1>2. ASSUME NEW s \in Servers, NEW rec \in LogRecs,
               records' = records \cup {rec}, touched' = touched, rec.id = Id(s),
               rec.phase = "result" =>
                  /\ Results(s) = {}
                  /\ rec.verdict # "refused" => Intents(s) # {},
               rec.verdict = "refused" =>
                  /\ rec.phase = "result"
                  /\ rec.tool # "http_headers" => Touches(s) = {}
        PROVE  RecordsInv'
    <2>1. \A id, phase : RecordsOf(id, phase) \subseteq RecordsOf(id, phase)'
      BY <1>2 DEF RecordsOf
    <2>2. \A t \in touched' : OnFile(t.id, RecordsOf(t.id, "intent"))'
      BY <1>0, <1>2, <2>1, AbsentGrows DEF RecordsInv, OnFile
    <2>3. ASSUME NEW e \in records', e.phase = "result"
          PROVE  /\ RecordsOf(e.id, "result")' = {e}
                 /\ e.verdict # "refused" => RecordsOf(e.id, "intent")' # {}
      <3>1. CASE e = rec
        BY <1>2, <2>1, <2>3, <3>1 DEF Results, Intents, RecordsOf
      <3>2. CASE e # rec
        <4>1. e \in records /\ RecordsOf(e.id, "result") = {e}
          BY <1>0, <1>2, <2>3, <3>2 DEF RecordsInv
        <4>2. rec.phase = "result" => rec.id # e.id
          BY <1>2, <2>3, <4>1 DEF Results, RecordsOf
        <4>3. RecordsOf(e.id, "result")' = {e}
          BY <1>2, <4>1, <4>2 DEF RecordsOf
        <4>4. e.verdict # "refused" => RecordsOf(e.id, "intent")' # {}
          BY <1>0, <1>2, <2>3, <4>1 DEF RecordsInv, RecordsOf
        <4>5. QED
          BY <4>3, <4>4
      <3>3. QED
        BY <3>1, <3>2
    <2>4. \A e \in records' : e.verdict = "refused" => e.phase = "result"
      BY <1>0, <1>2 DEF RecordsInv
    <2>5. \A e \in records' : e.verdict = "refused" /\ e.tool # "http_headers" =>
             \A t \in touched' : t.id # e.id
      BY <1>0, <1>2 DEF RecordsInv, Touches
    <2>6. QED
      BY <2>2, <2>3, <2>4, <2>5 DEF RecordsInv, RecordsOf
  <1>3. ASSUME NEW s \in Servers, records' = records,
               \A t \in touched' : t \in touched \/ t.id = Id(s),
               OnFile(Id(s), Intents(s)), Results(s) = {}
        PROVE  RecordsInv'
    <2>1. \A u \in touched' : OnFile(u.id, RecordsOf(u.id, "intent"))'
      <3>1. \A u \in touched' : OnFile(u.id, RecordsOf(u.id, "intent"))
        BY <1>0, <1>3 DEF RecordsInv, Intents
      <3>2. \A id : RecordsOf(id, "intent")' = RecordsOf(id, "intent")
        BY <1>3 DEF RecordsOf
      <3>3. QED
        BY <1>0, <3>1, <3>2, AbsentGrows DEF OnFile
    <2>2. \A e \in records : e.verdict = "refused" => e.id # Id(s)
      BY <1>0, <1>3 DEF RecordsInv, Results, RecordsOf
    <2>3. \A e \in records' : e.verdict = "refused" /\ e.tool # "http_headers" =>
             \A u \in touched' : u.id # e.id
      BY <1>0, <1>3, <2>2 DEF RecordsInv
    <2>4. QED
      BY <1>0, <1>3, <2>1, <2>3 DEF RecordsInv, RecordsOf
  <1>4. QED
    BY <1>1, <1>2, <1>3, HistoryMoves

LEMMA ReconInvInit == ReconInit => ReconInv
  <1> SUFFICES ASSUME ReconInit PROVE ReconInv
    OBVIOUS
  <1>1. /\ records = {} /\ touched = {}
        /\ \A s \in Servers : call[s].at = "idle"
    BY DEF ReconInit, Idle
  <1>2. QED
    BY <1>1, ReconBaseInit DEF ReconInv, CallInv, FreshInv, RecordsInv

LEMMA ReconInvStep == ReconInv /\ [ReconNext]_reconVars => ReconInv'
  BY ReconBaseStep, CallStep, FreshStep, RecordsStep DEF ReconInv

LEMMA ReconInvariant == ReconSpec => []ReconInv
  BY ReconInvInit, ReconInvStep, PTL DEF ReconSpec

(* However a call is redirected and however its scope is edited meanwhile, *)
(* a program is pointed only at a target that was in scope during the      *)
(* call, and no host but such a one is touched by a tool that does not     *)
(* follow redirects by itself: OnlyScopedHosts.                            *)
THEOREM HostsAreInScope == ReconSpec => []OnlyScopedHosts
  <1>1. ReconInv => OnlyScopedHosts
    <2> SUFFICES ASSUME ReconInv, NEW s \in Servers, call[s] # Idle,
                        NEW t \in touched, t.id = Id(s)
                 PROVE  InScopeOf(s, t)
      BY DEF OnlyScopedHosts, InScopeOf
    <2>1. CallOf(s)
      BY CallRecord DEF ReconInv, ReconBase, CallInv
    <2>2. QED
      BY <2>1 DEF CallOf, Touches
  <1>2. QED
    BY <1>1, ReconInvariant, PTL

(* Wherever a server is killed, the intent of every contact it made is on  *)
(* record, and in the engagement's log itself if the engagement was usable *)
(* throughout the call: IntentBeforeTouch.                                 *)
THEOREM IntentComesFirst == ReconSpec => []IntentBeforeTouch
  <1>1. ReconInv => IntentBeforeTouch
    BY DEF ReconInv, RecordsInv, IntentBeforeTouch
  <1>2. QED
    BY <1>1, ReconInvariant, PTL

(* At most one result per call, after its intent unless it is a refusal;   *)
(* one for each call that is answered, in the engagement's log if that was *)
(* usable throughout; and no contact by a program whose call is recorded   *)
(* as refused: LogIsTrue.                                                  *)
THEOREM LogTellsTheTruth == ReconSpec => []LogIsTrue
  <1>1. ReconInv => LogIsTrue
    <2> SUFFICES ASSUME ReconInv PROVE LogIsTrue
      OBVIOUS
    <2>1. ASSUME NEW s \in Servers, call[s].at \in {"refused", "returned"}
          PROVE  OnFile(Id(s), RecordsOf(Id(s), "result"))
      BY <2>1 DEF ReconInv, CallInv, CallOf, Results
    <2>2. QED
      BY <2>1 DEF ReconInv, RecordsInv, LogIsTrue
  <1>2. QED
    BY <1>1, ReconInvariant, PTL

-----------------------------------------------------------------------------
(* The calls whose scan ran for a request, and the calls that are about to run   *)
(* one: no more of both than permits spent for it.  A call that leaves the *)
(* second set may enter the first; only a permit lets one enter the second.*)

ScansOf(r) ==
    {t.id : t \in {u \in touched : u.tool = "nmap_scan" /\ u.use = r}}

Pending(r) ==
    {s \in Servers : /\ call[s].at = "run" /\ call[s].tool = "nmap_scan"
                     /\ RequestOf(s) = r}

Paid(r) ==
    /\ IsFiniteSet(ScansOf(r)) /\ IsFiniteSet(Pending(r))
    /\ IsFiniteSet(SpentFor(r))
    /\ Cardinality(ScansOf(r)) + Cardinality(Pending(r))
          <= Cardinality(SpentFor(r))

ScanInv == PermitOK /\ \A r \in Requests : Paid(r)

(* The three ways these sets may move, and the sum that stays bounded.     *)
LEMMA FewerPending ==
    ASSUME NEW scans, NEW pending, NEW spent,
           NEW scans2, NEW pending2, NEW spent2,
           IsFiniteSet(scans), IsFiniteSet(pending), IsFiniteSet(spent),
           Cardinality(scans) + Cardinality(pending) <= Cardinality(spent),
           IsFiniteSet(spent2), Cardinality(spent) <= Cardinality(spent2),
           scans2 = scans, pending2 \subseteq pending
    PROVE  /\ IsFiniteSet(scans2) /\ IsFiniteSet(pending2)
           /\ Cardinality(scans2) + Cardinality(pending2)
                 <= Cardinality(spent2)
  <1>1. /\ Cardinality(scans) \in Nat /\ Cardinality(pending) \in Nat
        /\ Cardinality(spent) \in Nat /\ Cardinality(spent2) \in Nat
    BY FS_CardinalityType
  <1>2. IsFiniteSet(pending2) /\ Cardinality(pending2) <= Cardinality(pending)
    BY FS_Subset
  <1>3. Cardinality(pending2) \in Nat
    BY <1>2, FS_CardinalityType
  <1>4. QED
    BY <1>1, <1>2, <1>3

LEMMA PendingRuns ==
    ASSUME NEW scans, IsFiniteSet(scans), NEW pending, IsFiniteSet(pending),
           NEW s \in pending, NEW t,
           NEW pending2 \in SUBSET (pending \ {s})
    PROVE  /\ IsFiniteSet(scans \cup {t}) /\ IsFiniteSet(pending2)
           /\ Cardinality(scans \cup {t}) + Cardinality(pending2)
                 <= Cardinality(scans) + Cardinality(pending)
  <1>1. Cardinality(scans) \in Nat /\ Cardinality(pending) \in Nat
    BY FS_CardinalityType
  <1>2. /\ IsFiniteSet(scans \cup {t})
        /\ Cardinality(scans \cup {t})
              \in {Cardinality(scans), Cardinality(scans) + 1}
    BY FS_AddElement
  <1>3. /\ IsFiniteSet(pending \ {s})
        /\ Cardinality(pending \ {s}) = Cardinality(pending) - 1
    BY FS_RemoveElement
  <1>4. /\ IsFiniteSet(pending2)
        /\ Cardinality(pending2) <= Cardinality(pending \ {s})
    BY <1>3, FS_Subset
  <1>5. Cardinality(pending2) \in Nat
    BY <1>4, FS_CardinalityType
  <1>6. QED
    BY <1>1, <1>2, <1>3, <1>4, <1>5

LEMMA PermitPays ==
    ASSUME NEW scans, NEW pending, NEW spent,
           NEW scans2, NEW pending2, NEW spent2,
           IsFiniteSet(scans), IsFiniteSet(pending), IsFiniteSet(spent),
           Cardinality(scans) + Cardinality(pending) <= Cardinality(spent),
           IsFiniteSet(spent2), Cardinality(spent) <= Cardinality(spent2),
           NEW s, pending2 \subseteq pending \cup {s}, scans2 = scans,
           Cardinality(spent2) = Cardinality(spent) + 1
    PROVE  /\ IsFiniteSet(scans2) /\ IsFiniteSet(pending2)
           /\ Cardinality(scans2) + Cardinality(pending2)
                 <= Cardinality(spent2)
  <1>1. /\ Cardinality(scans) \in Nat /\ Cardinality(pending) \in Nat
        /\ Cardinality(spent) \in Nat /\ Cardinality(spent2) \in Nat
    BY FS_CardinalityType
  <1>2. /\ IsFiniteSet(pending \cup {s})
        /\ Cardinality(pending \cup {s})
              \in {Cardinality(pending), Cardinality(pending) + 1}
    BY FS_AddElement
  <1>3. /\ IsFiniteSet(pending2)
        /\ Cardinality(pending2) <= Cardinality(pending \cup {s})
    BY <1>2, FS_Subset
  <1>4. Cardinality(pending2) \in Nat
    BY <1>3, FS_CardinalityType
  <1>5. QED
    BY <1>1, <1>2, <1>3, <1>4

(* The only way to a scan is a permit.                                     *)
LEMMA OnlyPermitsLeadToScans ==
    ASSUME ReconInv, NEW s \in Servers, Serve(s) \/ Restart(s),
           call'[s].at = "run", call[s].tool = "nmap_scan"
    PROVE  ConsumeApproval(s)
  <1>0. ReconBase /\ ReconTypeOK /\ call[s].at # "idle"
    BY ServeShape DEF ReconInv, ReconBase
  <1>1. CASE Leaves(s)
    BY <1>0, <1>1 DEF Leaves, Reply, Restart, Idle, ReconTypeOK
  <1>2. CASE Contacts(s)
    <2>1. CASE Run(s)
      <3>1. Moved(s, "finish") \/ Moved(s, "raised")
        BY <1>0, <2>1, GotoMoves DEF Run, Stages, Over
      <3>2. QED
        BY <3>1 DEF Moved
    <2>2. CASE HostAnswers(s)
      BY <1>0, <2>2, VerdictShape DEF HostAnswers
    <2>3. CASE HostFails(s)
      <3>1. Verdict(s, "error") \/ Moved(s, "raised")
        BY <1>0, <2>3, GotoMoves DEF HostFails, Stages, Over
      <3>2. QED
        BY <1>0, <3>1, VerdictShape DEF Moved
    <2>4. CASE \E host \in Hosts : Redirect(s, host)
      BY <1>0, <2>4, RedirectShape
    <2>5. QED
      BY <1>2, <2>1, <2>2, <2>3, <2>4 DEF Contacts
  <1>3. CASE Writes(s)
    <2>1. Goto(s, "refused") \/ Goto(s, "returned") \/ Goto(s, "approval")
      BY <1>0, <1>3, WriteShape DEF Intent
    <2>2. Moved(s, "refused") \/ Moved(s, "returned") \/ Moved(s, "approval")
      BY <1>0, <2>1, GotoMoves DEF Stages, Over
    <2>3. QED
      BY <2>2 DEF Moved
  <1>4. CASE Walks(s) /\ ~ ConsumeApproval(s)
    <2>1. CASE FindEngagement(s)
      BY <1>0, <2>1, FindShape
    <2>2. CASE Verdict(s, "refused")
      BY <1>0, <2>2, VerdictShape
    <2>3. CASE \/ Goto(s, "raised") \/ Goto(s, "finish-refused")
               \/ Goto(s, "fetch") \/ Goto(s, "intent")
      <3>1. \/ Moved(s, "raised") \/ Moved(s, "finish-refused")
            \/ Moved(s, "fetch") \/ Moved(s, "intent")
        BY <1>0, <2>3, GotoMoves DEF Stages, Over
      <3>2. QED
        BY <3>1 DEF Moved
    <2>4. QED
      BY <1>4, <2>1, <2>2, <2>3
      DEF Walks, LogFails, HelperFails, AskForApproval, NotApproved,
          AuthorizeHop, CheckScope
  <1>5. QED
    BY <1>1, <1>2, <1>3, <1>4, ServeKinds

(* Which calls may become pending: the one whose permit is spent.          *)
LEMMA PendingMoves ==
    ASSUME ReconInv, [ReconNext]_reconVars, NEW r \in Requests,
           NEW s \in Pending(r)', s \notin Pending(r)
    PROVE  ConsumeApproval(s) /\ RequestOf(s) = r
  <1>0. ReconTypeOK
    BY DEF ReconInv, ReconBase
  <1>1. /\ s \in Servers /\ call'[s].at = "run"
        /\ call'[s].tool = "nmap_scan" /\ RequestOf(s)' = r
    BY DEF Pending
  <1>2. call'[s] # call[s]
    BY <1>1 DEF Pending, RequestOf
  <1>3. ~ \E d \in Servers, tool \in Tools, req \in Requests,
             i \in Ids \cup {NoId}, fault \in Faults :
                Receive(d, tool, req, i, fault)
    BY <1>0, <1>1, <1>2, ReceiveShape
  <1>4. ASSUME \/ EditScope \/ SetProfile \/ UNCHANGED reconVars
               \/ \E i \in Ids : RequestApproval(i) \/ Approve(i)
        PROVE  call' = call
    BY <1>4 DEF EditScope, SetProfile, reconVars, RequestApproval, Approve
  <1>5. Serve(s) \/ Restart(s)
    BY <1>0, <1>1, <1>2, <1>3, <1>4, ServeShape DEF ReconNext
  <1>6. Kept(s)
    BY <1>0, <1>1, <1>5, ServeShape
  <1>7. QED
    BY <1>1, <1>5, <1>6, OnlyPermitsLeadToScans DEF Kept, RequestOf

(* Which contacts are scans: those of the calls that were pending.         *)
LEMMA ScansMove ==
    ASSUME ReconInv, [ReconNext]_reconVars, NEW r \in Requests
    PROVE  \/ ScansOf(r)' = ScansOf(r)
           \/ \E s \in Pending(r) : \E t :
                 /\ ScansOf(r)' = ScansOf(r) \cup {t}
                 /\ Pending(r)' \subseteq Pending(r) \ {s}
  <1>0. ReconBase /\ ReconTypeOK
    BY DEF ReconInv, ReconBase
  <1>1. CASE touched' = touched
    BY <1>1 DEF ScansOf
  <1>2. CASE touched' # touched
    <2>1. PICK s \in Servers : Contacts(s)
      <3>1. ASSUME \/ \E s \in Servers, tool \in Tools, req \in Requests,
                         i \in Ids \cup {NoId}, fault \in Faults :
                            Receive(s, tool, req, i, fault)
                   \/ EditScope \/ SetProfile \/ UNCHANGED reconVars
                   \/ \E i \in Ids : RequestApproval(i) \/ Approve(i)
            PROVE  touched' = touched
        BY <3>1 DEF Receive, EditScope, SetProfile, reconVars,
                    RequestApproval, Approve
      <3>2. \A s \in Servers : Walks(s) \/ Leaves(s) => touched' = touched
        BY WalkShape
      <3>3. \A s \in Servers : Writes(s) => touched' = touched
        BY <1>0, WriteShape
      <3>4. QED
        BY <1>2, <3>1, <3>2, <3>3, ServeKinds DEF ReconNext
    <2>2. /\ touched \subseteq touched'
          /\ \A t \in touched' \ touched :
                /\ t.id = Id(s) /\ t.tool = call[s].tool
                /\ t.use = RequestOf(s)
      BY <1>0, <2>1, ContactShape DEF ContactOf
    <2>3. CASE call[s].tool = "nmap_scan" /\ RequestOf(s) = r
      <3>1. call[s].at = "run"
        <4>1. call[s].at \in {"run", "fetch"}
          BY <1>0, <2>1, ContactShape
        <4>2. call[s].at = "fetch" => call[s].tool = "http_headers"
          BY <4>1 DEF ReconInv, CallInv, CallOf
        <4>3. QED
          BY <2>3, <4>1, <4>2
      <3>2. s \in Pending(r)
        BY <2>3, <3>1 DEF Pending
      <3>3. ScansOf(r)' = ScansOf(r) \cup {Id(s)}
        BY <1>2, <2>2, <2>3 DEF ScansOf
      <3>4. s \notin Pending(r)'
        <4>1. Run(s)
          BY <2>1, <3>1 DEF Contacts, Run, HostAnswers, HostFails, Redirect
        <4>2. Moved(s, "finish") \/ Moved(s, "raised")
          BY <1>0, <4>1, GotoMoves DEF Run, Stages, Over
        <4>3. QED
          BY <4>2 DEF Moved, Pending
      <3>5. Pending(r)' \subseteq Pending(r)
        <4>1. \A d \in Servers : ~ ConsumeApproval(d)
          BY <1>2 DEF ConsumeApproval
        <4>2. QED
          BY <4>1, PendingMoves DEF Pending
      <3>6. QED
        BY <3>2, <3>3, <3>4, <3>5
    <2>4. CASE ~(call[s].tool = "nmap_scan" /\ RequestOf(s) = r)
      BY <2>2, <2>4 DEF ScansOf
    <2>5. QED
      BY <2>3, <2>4
  <1>3. QED
    BY <1>1, <1>2

LEMMA ScanStep == ReconInv /\ ScanInv /\ [ReconNext]_reconVars => ScanInv'
  <1> SUFFICES ASSUME ReconInv, ScanInv, [ReconNext]_reconVars PROVE ScanInv'
    OBVIOUS
  <1>0. /\ ReconTypeOK /\ PermitOK /\ NoUse \notin Uses
        /\ [PermitNext]_permitVars
    BY ReconPermitStep, ReconAssumption DEF ReconInv, ReconBase, ScanInv
  <1>1. PermitOK'
    BY <1>0, PermitOKStep
  <1>2. ASSUME NEW r \in Requests
        PROVE  Paid(r)'
    <2>1. Paid(r)
      BY DEF ScanInv
    <2>2. /\ IsFiniteSet(SpentFor(r)')
          /\ Cardinality(SpentFor(r)) <= Cardinality(SpentFor(r)')
      BY <1>0, <2>1, SpentForGrows DEF Paid
    <2>3. CASE Pending(r)' \subseteq Pending(r)
      <3>1. CASE ScansOf(r)' = ScansOf(r)
        BY <2>1, <2>2, <2>3, <3>1, FewerPending DEF Paid
      <3>2. ASSUME NEW s \in Pending(r), NEW t,
                   ScansOf(r)' = ScansOf(r) \cup {t},
                   Pending(r)' \subseteq Pending(r) \ {s}
            PROVE  Paid(r)'
        <4>1. /\ IsFiniteSet(ScansOf(r)) /\ IsFiniteSet(Pending(r))
              /\ IsFiniteSet(SpentFor(r))
              /\ Cardinality(ScansOf(r)) + Cardinality(Pending(r))
                    <= Cardinality(SpentFor(r))
          BY <2>1 DEF Paid
        <4> DEFINE pending2 == Pending(r)'
        <4>2. pending2 \in SUBSET (Pending(r) \ {s})
          BY <3>2
        <4> HIDE DEF pending2
        <4>3. /\ IsFiniteSet(ScansOf(r) \cup {t}) /\ IsFiniteSet(pending2)
              /\ Cardinality(ScansOf(r) \cup {t}) + Cardinality(pending2)
                    <= Cardinality(ScansOf(r)) + Cardinality(Pending(r))
          BY <4>1, <4>2, PendingRuns
        <4>4. /\ IsFiniteSet(ScansOf(r)') /\ IsFiniteSet(Pending(r)')
              /\ Cardinality(ScansOf(r)') + Cardinality(Pending(r)')
                    <= Cardinality(ScansOf(r)) + Cardinality(Pending(r))
          BY <3>2, <4>3 DEF pending2
        <4>5. /\ Cardinality(ScansOf(r)) \in Nat /\ Cardinality(Pending(r)) \in Nat
              /\ Cardinality(ScansOf(r)') \in Nat
              /\ Cardinality(Pending(r)') \in Nat
              /\ Cardinality(SpentFor(r)) \in Nat
              /\ Cardinality(SpentFor(r)') \in Nat
          BY <2>2, <4>1, <4>4, FS_CardinalityType
        <4>6. QED
          BY <2>2, <4>1, <4>4, <4>5 DEF Paid
      <3>3. QED
        BY <3>1, <3>2, ScansMove
    <2>4. CASE ~(Pending(r)' \subseteq Pending(r))
      <3>1. PICK s \in Servers : s \in Pending(r)' /\ s \notin Pending(r)
        BY <2>4 DEF Pending
      <3>2. ConsumeApproval(s) /\ RequestOf(s) = r
        BY <3>1, PendingMoves
      <3>3. \A d \in Pending(r)' : d \in Pending(r) \/ d = s
        <4> SUFFICES ASSUME NEW d \in Pending(r)', d # s
                     PROVE  d \in Pending(r)
          OBVIOUS
        <4>1. d \in Servers /\ call'[d] = call[d]
          BY <1>0, <3>2, ServeShape DEF Serve, Pending
        <4>2. QED
          BY <4>1 DEF Pending, RequestOf
      <3>4. ScansOf(r)' = ScansOf(r)
        BY <3>2 DEF ConsumeApproval, ScansOf
      <3>5. /\ call[s].permit \in Ids /\ UseOf(s) \in Uses
            /\ UseOf(s).call = r
            /\ Spend(call[s].permit, UseOf(s))
        <4>1. call[s] \in CallRecs
          BY <1>0, <3>2, CallRecord DEF ConsumeApproval
        <4>2. RequestOf(s) \in Calls
          BY <3>2, CallsAreScans
        <4>3. UseOf(s) \in Uses /\ UseOf(s).call = r
          BY <3>2, <4>2 DEF Uses, UseOf
        <4>4. QED
          BY <3>2, <4>1, <4>3 DEF ConsumeApproval, Granted, Spend, CallRecs
      <3>6. Cardinality(SpentFor(r)') = Cardinality(SpentFor(r)) + 1
        <4>1. /\ SpentFor(r)' = SpentFor(r) \cup {call[s].permit}
              /\ call[s].permit \notin SpentFor(r)
          BY <1>0, <3>5, SpendAdds
        <4>2. QED
          BY <2>1, <4>1, FS_AddElement DEF Paid
      <3>7. QED
        BY <2>1, <2>2, <3>3, <3>4, <3>6, PermitPays DEF Paid
    <2>5. QED
      BY <2>3, <2>4
  <1>3. QED
    BY <1>1, <1>2 DEF ScanInv

LEMMA ScanInit == ReconInit => ScanInv
  <1> SUFFICES ASSUME ReconInit PROVE ScanInv
    OBVIOUS
  <1>1. \A r : ScansOf(r) = {} /\ Pending(r) = {} /\ SpentFor(r) = {}
    BY NothingSpent DEF ReconInit, ScansOf, Pending, Idle
  <1>2. \A r : Paid(r)
    BY <1>1, FS_EmptySet DEF Paid
  <1>3. QED
    BY <1>2, PermitOKInit DEF ReconInit, ScanInv

LEMMA PaidScansAreApproved ==
    ASSUME ReconTypeOK, ScanInv
    PROVE  ScansAreApproved
  <1> SUFFICES ASSUME NEW t \in touched, t.tool = "nmap_scan"
               PROVE  Cardinality({u.id : u \in
                         {v \in {w \in touched : w.tool = "nmap_scan"} :
                             v.use = t.use}})
                         <= Cardinality(SpentFor(t.use))
    BY DEF ScansAreApproved, SpentFor
  <1>1. {u.id : u \in {v \in {w \in touched : w.tool = "nmap_scan"} :
                          v.use = t.use}}
           = ScansOf(t.use)
    BY DEF ScansOf
  <1>2. Paid(t.use)
    BY DEF ReconTypeOK, ScanInv
  <1>3. /\ Cardinality(ScansOf(t.use)) \in Nat
        /\ Cardinality(Pending(t.use)) \in Nat
        /\ Cardinality(SpentFor(t.use)) \in Nat
    BY <1>2, FS_CardinalityType DEF Paid
  <1>4. Cardinality(ScansOf(t.use)) <= Cardinality(SpentFor(t.use))
    BY <1>2, <1>3 DEF Paid
  <1>5. QED
    BY <1>1, <1>4

(* However many servers run at once and whoever restarts them, a target is *)
(* scanned at most as often as a person's approval was spent on exactly    *)
(* that scan: ScansAreApproved.                                            *)
THEOREM EveryScanWasApproved == ReconSpec => []ScansAreApproved
  <1>1. ReconInv /\ ScanInv /\ [ReconNext]_reconVars => ScanInv'
    BY ScanStep
  <1>2. ReconInv /\ ScanInv => ScansAreApproved
    BY PaidScansAreApproved DEF ReconInv, ReconBase
  <1>3. QED
    BY <1>1, <1>2, ReconInvInit, ReconInvStep, ScanInit, PTL DEF ReconSpec
=============================================================================
