----------------------------- MODULE ReconServer -----------------------------
(***************************************************************************)
(* The MCP server mcp-servers/shinobi-recon: server.py over scope.py,      *)
(* argcheck.py, process.py and httpclient.py.                              *)
(*                                                                         *)
(* Every tool call finds the engagement whose log it writes to, checks its *)
(* target against the engagement's scope file, records the intent, asks    *)
(* the approval helper if its manifest says so, touches hosts, and records *)
(* the result -- while operators edit the scope, approve and are slow.  A  *)
(* server handles one call at a time; Servers is the set of them, one per  *)
(* agent.  Approvals are the permits of module Permit.                     *)
(***************************************************************************)
EXTENDS Permit, Naturals, FiniteSets

CONSTANTS
    Servers,
    Hosts,
    Scans,          \* the profiles of nmap_scan: quick, full, ...
    Scripted,       \* those whose flags run scripts (-sC)
    Tools,          \* the tools that are called: "nmap_scan", "http_headers",
                    \* and the programs that need no approval, "dns_lookup"
                    \* and "whatweb_scan"
    MaxRedirects,   \* max_redirects of fetch_headers()
    NoId,
    MaxCalls        \* bound on the calls a server is sent

ASSUME ReconAssumption ==
    /\ MaxRedirects \in Nat /\ MaxCalls \in Nat
    /\ NoId \notin Ids
    /\ NoUse \notin Uses
    /\ Scripted \subseteq Scans
    /\ Tools \subseteq {"nmap_scan", "http_headers", "dns_lookup",
                        "whatweb_scan"}

Requests == [target: Hosts, scan: Scans]

ASSUME CallsAreScans == Calls = Requests

VARIABLES
    profile,    \* the trust profile
    home,       \* SHINOBI_ENGAGEMENT names a usable engagement directory
    scope,      \* the hosts scope.yaml authorizes today: none, when it is
                \* malformed or its window is closed
    call,       \* call[s]: the call the server is handling
    served,     \* served[s]: how many it has been sent
    records,    \* the audit records: those in the engagement's log and those
                \* that were only printed to stderr
    touched,    \* history: the hosts packets were sent to, by call
    inScope,    \* history: inScope[s]: the hosts that were in scope at some
                \* moment of the call
    absent      \* history: the calls during which the engagement directory
                \* was for a moment not usable

settings  == <<profile, home, scope, inScope, absent>>
reconVars == <<permitVars, settings, call, served, records, touched>>

Idle == [at |-> "idle"]

MutId(s) == <<s, served[s] + 1>>
Id(s) == <<s, served[s]>>

ReconInit ==
    /\ PermitInit
    /\ profile \in Profiles
    /\ home \in BOOLEAN
    /\ scope \in SUBSET Hosts
    /\ call = [s \in Servers |-> Idle]
    /\ served = [s \in Servers |-> 0]
    /\ records = {}
    /\ touched = {}
    /\ inScope = [s \in Servers |-> {}]
    /\ absent = {}

(* log_call(): one record, fsynced; on stderr without an engagement, and   *)
(* then it is not kept.                                                    *)
Record(s, phase, verdict) ==
    [id |-> Id(s), tool |-> call[s].tool, target |-> call[s].target,
     phase |-> phase, verdict |-> verdict, kept |-> call[s].logged]

Logged(s, phase, verdict) ==
    /\ call[s].logged => home
    /\ records' = records \cup {Record(s, phase, verdict)}

Goto(s, step) == call' = [call EXCEPT ![s].at = step]

(* require_in_scope(), of a host name that is well formed.                 *)
InScope(host) == home /\ host \in scope

-----------------------------------------------------------------------------
(* A call arrives.                                                         *)

Receive(s, tool, req, i, fault) ==
    /\ call[s] = Idle
    /\ served[s] < MaxCalls
    /\ fault = "port" => tool = "http_headers"
    /\ i # NoId => tool = "nmap_scan"
    /\ served' = [served EXCEPT ![s] = @ + 1]
    /\ call' = [call EXCEPT ![s] =
                  [at |-> "received", tool |-> tool, target |-> req.target,
                   scan |-> req.scan, permit |-> i, fault |-> fault,
                   logged |-> FALSE, host |-> req.target, hops |-> 0,
                   verdict |-> "allowed"]]
    /\ inScope' = [inScope EXCEPT ![s] = IF home THEN scope ELSE {}]
    /\ absent' = absent \cup IF home THEN {} ELSE {Id(s)'}
    /\ UNCHANGED <<permitVars, profile, home, scope, records, touched>>

(* _engagement_for_call(), and the argument guard's own refusal.  A port   *)
(* out of range is refused by http_headers() before it looks for the       *)
(* engagement.                                                             *)
FindEngagement(s) ==
    /\ call[s].at = "received"
    /\ call' = [call EXCEPT
                  ![s].at = CASE call[s].fault = "unknown" -> "guarded"
                              [] call[s].fault = "port"    -> "raised"
                              [] OTHER                     -> "check",
                  ![s].logged = home /\ call[s].fault # "port"]
    /\ UNCHANGED <<permitVars, settings, served, records, touched>>

RefuseArguments(s) ==
    /\ call[s].at = "guarded"
    /\ Logged(s, "result", "refused")
    /\ Goto(s, "refused")
    /\ UNCHANGED <<permitVars, settings, served, touched>>

(* _authorized(): the scope is read again, and then the intent recorded.   *)
CheckScope(s) ==
    /\ call[s].at = "check"
    /\ \/ /\ InScope(call[s].target)
          /\ Goto(s, "intent")
          /\ UNCHANGED records
       \/ /\ ~InScope(call[s].target)
          /\ Logged(s, "result", "refused")
          /\ Goto(s, "refused")
    /\ UNCHANGED <<permitVars, settings, served, touched>>

(* The engagement's directory is gone: log_call() raises where a record    *)
(* was to be written, and nothing catches it.                              *)
LogFails(s) ==
    /\ call[s].at \in {"guarded", "check", "intent", "finish-refused",
                       "finish"}
    /\ call[s].logged /\ ~home
    /\ Goto(s, "raised")
    /\ UNCHANGED <<permitVars, settings, served, records, touched>>

MutIntent(s) ==                        \* recorded with the outcome only
    /\ Goto(s, "approval")
    /\ UNCHANGED records
Intent(s) ==
    /\ Logged(s, "intent", "pending")
    /\ Goto(s, CASE call[s].tool = "nmap_scan"    -> "approval"
                 [] call[s].tool = "http_headers" -> "authorize"
                 [] OTHER                         -> "run")

RecordIntent(s) ==
    /\ call[s].at = "intent"
    /\ Intent(s)
    /\ UNCHANGED <<permitVars, settings, served, touched>>

-----------------------------------------------------------------------------
(* _require_approval(): `shinobi-approval request` or `consume`, run as a  *)
(* subprocess of at most 30 seconds.                                       *)

RequestOf(s) == [target |-> call[s].target, scan |-> call[s].scan]

(* The helper does not compare profiles: no --profile is passed.           *)
UseOf(s) ==
    [call |-> RequestOf(s), profile |-> AnyProfile, live |-> FALSE]

(* What becomes of the call once the helper has refused it, or when the    *)
(* helper is missing or fails: a refusal; or, when it exceeds the timeout, *)
(* an exception that nothing catches.                                      *)
NotApproved(s) ==
    \/ Goto(s, "finish-refused")
    \/ Goto(s, "raised")

AskForApproval(s, i) ==
    /\ call[s].at = "approval"
    /\ call[s].permit = NoId
    /\ Ask(i, [call |-> RequestOf(s), profile |-> profile, live |-> FALSE])
    /\ NotApproved(s)
    /\ UNCHANGED <<settings, served, records, touched>>

HelperFails(s) ==
    /\ call[s].at = "approval"
    /\ NotApproved(s)
    /\ UNCHANGED <<permitVars, settings, served, records, touched>>

MutGranted(s, i) ==                    \* its arguments are not compared
    i \in sanctioned /\ spentOn[i] = NoUse
Granted(s, i) ==
    i \in sanctioned /\ spentOn[i] = NoUse /\ Covers(asked[i], UseOf(s))

(* The timeout may also strike after the claim.                            *)
ConsumeApproval(s) ==
    LET i == call[s].permit IN
    /\ call[s].at = "approval"
    /\ i # NoId
    /\ Granted(s, i)
    /\ spentOn' = [spentOn EXCEPT ![i] = UseOf(s)]
    /\ Goto(s, "run") \/ Goto(s, "raised")
    /\ UNCHANGED <<asked, sanctioned, settings, served, records, touched>>

-----------------------------------------------------------------------------
(* The tools.                                                              *)

Contact(s, host) ==
    [id |-> Id(s), tool |-> call[s].tool, host |-> host,
     use |-> RequestOf(s)]

Touch(s, hosts) == touched' = touched \cup {Contact(s, h) : h \in hosts}

(* The programs that go on to other hosts by themselves: whatweb is not    *)
(* told to leave redirects alone, and the scripts of nmap follow them      *)
(* within a domain.  Nothing asks require_in_scope() about such a host.    *)
Wanders(tool, scan) ==
    \/ tool = "whatweb_scan"
    \/ tool = "nmap_scan" /\ scan \in Scripted

Reach(s) ==
    {{}, {call[s].target}} \cup
    IF Wanders(call[s].tool, call[s].scan)
    THEN {hosts \in SUBSET Hosts : call[s].target \in hosts}
    ELSE {}

(* process.run(): the program ends, runs out of time, or is missing, which *)
(* is a result; or it cannot be started, or prints what is no text, which  *)
(* raises.                                                                 *)
Run(s) ==
    /\ call[s].at = "run"
    /\ \E hosts \in Reach(s) : Touch(s, hosts)
    /\ Goto(s, "finish") \/ Goto(s, "raised")
    /\ UNCHANGED <<permitVars, settings, served, records>>

(* fetch_headers(): the first host, and every host redirected to, is       *)
(* authorized before it is fetched.                                        *)
Verdict(s, verdict) ==
    call' = [call EXCEPT ![s].at = "finish", ![s].verdict = verdict]

MutHopAllowed(host) == TRUE            \* the first URL alone is checked
HopAllowed(host) == InScope(host)

AuthorizeHop(s) ==
    /\ call[s].at = "authorize"
    /\ \/ HopAllowed(call[s].host) /\ Goto(s, "fetch")
       \/ ~HopAllowed(call[s].host) /\ Verdict(s, "refused")
    /\ UNCHANGED <<permitVars, settings, served, records, touched>>

HostAnswers(s) ==
    /\ call[s].at = "fetch"
    /\ Touch(s, {call[s].host})
    /\ Verdict(s, "allowed")
    /\ UNCHANGED <<permitVars, settings, served, records>>

(* A network failure; a malformed response is not caught.                  *)
HostFails(s) ==
    /\ call[s].at = "fetch"
    /\ Touch(s, {call[s].host})
    /\ Verdict(s, "error") \/ Goto(s, "raised")
    /\ UNCHANGED <<permitVars, settings, served, records>>

MutNextHop(hops) == hops               \* hops are not counted
NextHop(hops) == hops + 1

(* redirect_request(): the limit, the host, and then the next fetch; a     *)
(* redirect that is not followed, or that goes in a circle, is a refusal.  *)
Redirect(s, host) ==
    /\ call[s].at = "fetch"
    /\ Touch(s, {call[s].host})
    /\ \/ /\ call[s].hops < MaxRedirects
          /\ call' = [call EXCEPT ![s].at = "authorize", ![s].host = host,
                                 ![s].hops = NextHop(@)]
       \/ Verdict(s, "refused")
    /\ UNCHANGED <<permitVars, settings, served, records>>

-----------------------------------------------------------------------------
(* The result, and the end of the call.                                    *)

MutRecordRefusal(s) ==                 \* raised, and not recorded
    /\ call[s].at = "finish-refused"
    /\ Goto(s, "refused")
    /\ UNCHANGED <<permitVars, settings, served, records, touched>>
RecordRefusal(s) ==
    /\ call[s].at = "finish-refused"
    /\ Logged(s, "result", "refused")
    /\ Goto(s, "refused")
    /\ UNCHANGED <<permitVars, settings, served, touched>>

RecordResult(s) ==
    /\ call[s].at = "finish"
    /\ Logged(s, "result", call[s].verdict)
    /\ Goto(s, "returned")
    /\ UNCHANGED <<permitVars, settings, served, touched>>

Over == {"refused", "returned", "raised"}

Reply(s) ==
    /\ call[s].at \in Over
    /\ call' = [call EXCEPT ![s] = Idle]
    /\ UNCHANGED <<permitVars, settings, served, records, touched>>

(* The agent that started the server is killed and started again.          *)
Restart(s) ==
    /\ call[s] # Idle
    /\ call' = [call EXCEPT ![s] = Idle]
    /\ UNCHANGED <<permitVars, settings, served, records, touched>>

Serve(s) ==
    \/ FindEngagement(s) \/ RefuseArguments(s)
    \/ CheckScope(s) \/ RecordIntent(s) \/ LogFails(s)
    \/ \E i \in Ids : AskForApproval(s, i)
    \/ HelperFails(s) \/ ConsumeApproval(s)
    \/ Run(s)
    \/ AuthorizeHop(s) \/ HostAnswers(s) \/ HostFails(s)
    \/ \E host \in Hosts : Redirect(s, host)
    \/ RecordRefusal(s) \/ RecordResult(s) \/ Reply(s)

(* Operators: scope.yaml, the engagement directory, the profile and the    *)
(* approvals.                                                              *)
EditScope ==
    /\ scope' \in SUBSET Hosts
    /\ home' \in BOOLEAN
    /\ inScope' = [s \in Servers |->
                     inScope[s] \cup IF home' THEN scope' ELSE {}]
    /\ absent' = absent \cup
          {Id(s) : s \in {d \in Servers : call[d] # Idle /\ ~home'}}
    /\ UNCHANGED <<permitVars, profile, call, served, records, touched>>

SetProfile ==
    /\ profile' \in Profiles
    /\ UNCHANGED <<permitVars, home, scope, inScope, absent, call, served,
                   records, touched>>

(* `shinobi approval request`, whose --profile is free.                     *)
RequestApproval(i) ==
    /\ \E req \in Requests, p \in Profiles :
           Ask(i, [call |-> req, profile |-> p, live |-> FALSE])
    /\ UNCHANGED <<settings, call, served, records, touched>>

Approve(i) ==
    /\ Sanction(i)
    /\ UNCHANGED <<settings, call, served, records, touched>>

Faults == {"none", "unknown", "port"}

ReconNext ==
    \/ \E s \in Servers, tool \in Tools, req \in Requests,
          i \in Ids \cup {NoId}, fault \in Faults :
              Receive(s, tool, req, i, fault)
    \/ \E s \in Servers : Serve(s) \/ Restart(s)
    \/ EditScope
    \/ SetProfile
    \/ \E i \in Ids : RequestApproval(i) \/ Approve(i)

ReconSpec == ReconInit /\ [][ReconNext]_reconVars

(* Programs and the helper have a timeout; that of a fetch starts anew with *)
(* every read, so nothing is assumed of a host that is being fetched.      *)
FairReconSpec ==
    /\ ReconSpec
    /\ \A s \in Servers : WF_reconVars(Serve(s) /\ call[s].at # "fetch")

-----------------------------------------------------------------------------
(* Properties.                                                             *)

Stages == {"received", "guarded", "check", "intent", "approval", "run",
           "authorize", "fetch", "finish-refused", "finish"} \cup Over

CallIds == Servers \X (1..MaxCalls)

ReconTypeOK ==
    /\ asked \in [Ids -> Uses \cup {NoUse}]
    /\ sanctioned \subseteq Ids
    /\ spentOn \in [Ids -> Uses \cup {NoUse}]
    /\ profile \in Profiles
    /\ home \in BOOLEAN
    /\ scope \subseteq Hosts
    /\ call \in [Servers -> {Idle} \cup
          [at: Stages, tool: Tools, target: Hosts, scan: Scans,
           permit: Ids \cup {NoId}, fault: Faults, logged: BOOLEAN,
           host: Hosts, hops: 0..MaxRedirects,
           verdict: {"allowed", "refused", "error"}]]
    /\ served \in [Servers -> 0..MaxCalls]
    /\ records \subseteq
          [id: CallIds, tool: Tools, target: Hosts,
           phase: {"intent", "result"},
           verdict: {"pending", "allowed", "refused", "error"},
           kept: BOOLEAN]
    /\ touched \subseteq
          [id: CallIds, tool: Tools, host: Hosts, use: Requests]
    /\ inScope \in [Servers -> SUBSET Hosts]
    /\ absent \subseteq CallIds

RecordsOf(id, phase) == {e \in records : e.id = id /\ e.phase = phase}

(* Some of these records is in the engagement's log -- unless there was a  *)
(* moment of the call at which there was no engagement to write it to.     *)
OnFile(id, recs) == recs # {} /\ (id \in absent \/ \E e \in recs : e.kept)

(* A program is pointed only at a target that was in scope at a moment of  *)
(* the call, and what does not wander by itself touches no other host than *)
(* such a one, however often the call is redirected and the scope edited.  *)
OnlyScopedHosts ==
    \A s \in Servers : call[s] # Idle =>
        \A t \in touched : t.id = Id(s) =>
            /\ t.use.target \in inScope[s]
            /\ ~Wanders(t.tool, t.use.scan) => t.host \in inScope[s]

(* "The intent record ... is the only surviving evidence": whatever kills  *)
(* the server, no host is touched for a call before its intent stands in   *)
(* the engagement's log, if the engagement is usable throughout the call;  *)
(* before it was at least printed, if not.                                 *)
IntentBeforeTouch ==
    \A t \in touched : OnFile(t.id, RecordsOf(t.id, "intent"))

(* A scan runs only on an approval a person gave for this target and scan, *)
(* and no approval is good for two scans.                                  *)
ScansAreApproved ==
    LET scans == {t \in touched : t.tool = "nmap_scan"}
        used(t) == {i \in sanctioned : /\ asked[i].call = t.use
                                       /\ spentOn[i] # NoUse}
    IN  \A t \in scans :
            Cardinality({u.id : u \in {v \in scans : v.use = t.use}})
                <= Cardinality(used(t))

(* The records tell the truth about a call: at most one result, none       *)
(* without an intent unless it is a refusal, and one in the engagement's   *)
(* log for every call the agent gets an answer to, if the engagement is    *)
(* usable throughout; and a call they say policy refused before it ran     *)
(* never touched a host, for the tools that are run as programs.           *)
LogIsTrue ==
    /\ \A e \in records : e.phase = "result" =>
          /\ RecordsOf(e.id, "result") = {e}
          /\ e.verdict # "refused" => RecordsOf(e.id, "intent") # {}
    /\ \A s \in Servers : call[s].at \in {"refused", "returned"} =>
          OnFile(Id(s), RecordsOf(Id(s), "result"))
    /\ \A e \in records : e.verdict = "refused" /\ e.tool # "http_headers" =>
          \A t \in touched : t.id # e.id

(* Every call ends, through every redirect and helper, unless one host of  *)
(* it never stops sending.                                                 *)
CallsEnd ==
    \A s \in Servers :
        \/ []<>(call[s] = Idle)
        \/ <>[](call[s].at = "fetch")

(* README.md:102: an approval is bound to the trust profile.               *)
SpentUnderItsProfile ==
    [][\A i \in Ids : spentOn'[i] # spentOn[i] =>
          profile = asked[i].profile]_reconVars
=============================================================================
