----------------------------- MODULE AgentDaemon -----------------------------
(***************************************************************************)
(* The control-plane daemon: daemon.py and policy.py of shinobi_control,   *)
(* over its socket and its D-Bus adapter.                                  *)
(*                                                                         *)
(* One event loop serves every connection: dispatch() runs without a pause *)
(* up to the point where it waits for the capability's handler, which runs *)
(* in a thread of a pool of bounded size.  The wait has a timeout and the  *)
(* thread has not, so a call may be answered, and recorded, as failed      *)
(* while its handler goes on.  Approvals are the permits of module Permit. *)
(***************************************************************************)
EXTENDS Permit, Naturals, FiniteSets

CONSTANTS
    Connections,    \* each carries one request
    Capabilities,
    Arguments,
    Declared,       \* Declared[cap]: the policy fields of a capability that
                    \* is registered
    Powerful,       \* operator, administrator, emergency
    Emergency,      \* the profile "emergency"
    PoolSize,       \* threads of the default executor
    NoId

Requests == [cap: Capabilities, args: Arguments]

ASSUME DaemonAssumption ==
    /\ Calls = Requests
    /\ DOMAIN Declared \subseteq Capabilities
    /\ PoolSize \in Nat \ {0}
    /\ NoId \notin Ids
    /\ NoUse \notin Uses

VARIABLES
    profile, engaged, live, \* the trust profile; whether an engagement is in
                            \* use; whether this is the live image
    up,         \* the daemon is running
    conn,       \* conn[c]: how far the request of connection c has come
    job,        \* job[c]: its handler, in the pool
    reply,      \* reply[c]: the status the client was sent
    journal,    \* the audit journal
    ran         \* history: the handlers started, by connection

settings   == <<profile, engaged, live>>
daemonVars == <<permitVars, settings, up, conn, job, reply, journal, ran>>

None == [at |-> "none"]         \* no request yet; no handler

DaemonInit ==
    /\ PermitInit
    /\ profile \in Profiles
    /\ engaged \in BOOLEAN
    /\ live \in BOOLEAN
    /\ up = TRUE
    /\ conn = [c \in Connections |-> None]
    /\ job = [c \in Connections |-> None]
    /\ reply = [c \in Connections |-> "none"]
    /\ journal = {}
    /\ ran = {}

-----------------------------------------------------------------------------
(* policy.allowed(), up to the approval.                                   *)

PolicyAdmits(cap) ==
    LET d == Declared[cap] IN
    /\ d.privileged => profile \in Powerful
    /\ d.risk = "high" => profile = Emergency
    /\ d.engagement => engaged
    /\ d.live => live

MutApproved(i, use) == i \in sanctioned /\ spentOn[i] = NoUse
Approved(i, use) ==
    i \in sanctioned /\ spentOn[i] = NoUse /\ Covers(asked[i], use)

-----------------------------------------------------------------------------
(* handle() and dispatch().                                                *)

(* A request line arrives; a line that is no request is answered without a *)
(* request id, and without a record.                                       *)
Receive(c, req, i, fault) ==
    /\ up
    /\ conn[c] = None
    /\ conn' = [conn EXCEPT ![c] =
                  [at |-> "received", req |-> req, permit |-> i,
                   fault |-> fault]]
    /\ UNCHANGED <<permitVars, settings, up, job, reply, journal, ran>>

(* audit_write() and then the response, with nothing in between that could *)
(* wait; or the journal cannot be written, and the client is told of an    *)
(* internal error.                                                         *)
MutRecorded(c, status) ==               \* failures are not recorded
    /\ journal' = IF status = "failed" THEN journal
                  ELSE journal \cup {[conn |-> c, status |-> status]}
    /\ conn' = [conn EXCEPT ![c] = [at |-> "answer", status |-> status]]
Recorded(c, status) ==
    \/ /\ journal' = journal \cup {[conn |-> c, status |-> status]}
       /\ conn' = [conn EXCEPT ![c] = [at |-> "answer", status |-> status]]
    \/ /\ journal' = journal
       /\ conn' = [conn EXCEPT ![c] = [at |-> "answer", status |-> "internal"]]

Dispatching(c) == up /\ conn[c].at = "received"

Reject(c) ==
    /\ Dispatching(c)
    /\ conn[c].fault = "malformed"
    /\ conn' = [conn EXCEPT ![c] = [at |-> "answer", status |-> "internal"]]
    /\ UNCHANGED <<permitVars, settings, up, job, reply, journal, ran>>

(* agent.status and agent.capabilities are answered on the spot.           *)
Describe(c) ==
    /\ Dispatching(c)
    /\ conn[c].fault = "status"
    /\ conn' = [conn EXCEPT ![c] = [at |-> "answer", status |-> "described"]]
    /\ UNCHANGED <<permitVars, settings, up, job, reply, journal, ran>>

MutUseOf(c) ==                          \* the live image is not bound
    [call |-> conn[c].req, profile |-> profile]
UseOf(c) ==
    [call |-> conn[c].req, profile |-> profile, live |-> live]

Registered(c) == conn[c].req.cap \in DOMAIN Declared

NeedsApproval(c) == Declared[conn[c].req.cap].approval

(* Unknown, an approval_id that is no string, or refused by the policy; an *)
(* approval that covers the call is refused too, when it is out of date.   *)
Deny(c) ==
    /\ Dispatching(c)
    /\ \/ conn[c].fault = "approval_id"
       \/ /\ conn[c].fault = "none"
          /\ Registered(c) =>
                \/ ~PolicyAdmits(conn[c].req.cap)
                \/ NeedsApproval(c) /\ conn[c].permit # NoId
    /\ Recorded(c, "denied")
    /\ UNCHANGED <<permitVars, settings, up, job, reply, ran>>

RequireApproval(c, i) ==
    /\ Dispatching(c)
    /\ conn[c].fault = "none"
    /\ Registered(c)
    /\ PolicyAdmits(conn[c].req.cap)
    /\ NeedsApproval(c)
    /\ conn[c].permit = NoId
    /\ Ask(i, UseOf(c))
    /\ Recorded(c, "approval-required")
    /\ UNCHANGED <<settings, up, job, reply, ran>>

Await(c) ==
    /\ conn' = [conn EXCEPT ![c].at = "await"]
    /\ job' = [job EXCEPT ![c] = [at |-> "queued", req |-> conn[c].req]]

SubmitFree(c) ==
    /\ Dispatching(c)
    /\ conn[c].fault = "none"
    /\ Registered(c)
    /\ PolicyAdmits(conn[c].req.cap)
    /\ ~NeedsApproval(c)
    /\ Await(c)
    /\ UNCHANGED <<permitVars, settings, up, reply, journal, ran>>

SubmitApproved(c) ==
    LET i == conn[c].permit IN
    /\ Dispatching(c)
    /\ conn[c].fault = "none"
    /\ Registered(c)
    /\ PolicyAdmits(conn[c].req.cap)
    /\ NeedsApproval(c)
    /\ i # NoId
    /\ Approved(i, UseOf(c))
    /\ spentOn' = [spentOn EXCEPT ![i] = UseOf(c)]
    /\ Await(c)
    /\ UNCHANGED <<asked, sanctioned, settings, up, reply, journal, ran>>

(* An approval that cannot be written raises an OSError, before the claim  *)
(* or after it, which only handle() catches.                               *)
StoreFails(c) ==
    LET i == conn[c].permit IN
    /\ Dispatching(c)
    /\ conn[c].fault = "none"
    /\ Registered(c)
    /\ PolicyAdmits(conn[c].req.cap)
    /\ NeedsApproval(c)
    /\ \/ UNCHANGED spentOn
       \/ /\ i # NoId
          /\ Approved(i, UseOf(c))
          /\ spentOn' = [spentOn EXCEPT ![i] = UseOf(c)]
    /\ conn' = [conn EXCEPT ![c] = [at |-> "answer", status |-> "internal"]]
    /\ UNCHANGED <<asked, sanctioned, settings, up, job, reply, journal, ran>>

-----------------------------------------------------------------------------
(* asyncio.wait_for(asyncio.to_thread(handler)).                           *)

Running == {c \in Connections : job[c].at = "running"}

StartHandler(c) ==
    /\ up
    /\ job[c].at = "queued"
    /\ Cardinality(Running) < PoolSize
    /\ job' = [job EXCEPT ![c].at = "running"]
    /\ ran' = ran \cup {[conn |-> c, req |-> job[c].req]}
    /\ UNCHANGED <<permitVars, settings, up, conn, reply, journal>>

(* A handler returns, raises, or returns what encode() cannot write: what  *)
(* no JSON stands for.                                                     *)
Ends == {"returned", "raised", "unencodable"}

HandlerEnds(c) ==
    /\ up
    /\ job[c].at = "running"
    /\ \E end \in Ends : job' = [job EXCEPT ![c].at = end]
    /\ UNCHANGED <<permitVars, settings, up, conn, reply, journal, ran>>

Collect(c) ==
    /\ up
    /\ conn[c].at = "await"
    /\ job[c].at \in Ends
    /\ Recorded(c, IF job[c].at = "raised" THEN "failed" ELSE "completed")
    /\ UNCHANGED <<permitVars, settings, up, job, reply, ran>>

(* The timeout cancels a call that is still queued; a thread that runs is  *)
(* not stopped.                                                            *)
MutAfterTimeout(state) == state         \* the queued call is left there
AfterTimeout(state) == IF state = "queued" THEN "cancelled" ELSE state

MutHandlerTimeout(c) == FALSE           \* no wait_for()
HandlerTimeout(c) == conn[c].at = "await"

TimeOut(c) ==
    /\ up
    /\ HandlerTimeout(c)
    /\ job[c].at \in {"queued", "running"}
    /\ job' = [job EXCEPT ![c].at = AfterTimeout(@)]
    /\ Recorded(c, "failed")
    /\ UNCHANGED <<permitVars, settings, up, reply, ran>>

(* encode() is called outside the try of handle(): a result that cannot be *)
(* encoded ends the connection with no answer at all.                      *)
Encodable(c) == conn[c].status = "completed" => job[c].at # "unencodable"

Drop(c) ==
    /\ up
    /\ conn[c].at = "answer"
    /\ ~Encodable(c)
    /\ conn' = [conn EXCEPT ![c] = [at |-> "closed"]]
    /\ UNCHANGED <<permitVars, settings, up, job, reply, journal, ran>>

Answer(c) ==
    /\ up
    /\ conn[c].at = "answer"
    /\ Encodable(c)
    /\ reply' = [reply EXCEPT ![c] = conn[c].status]
    /\ conn' = [conn EXCEPT ![c] = [at |-> "closed"]]
    /\ UNCHANGED <<permitVars, settings, up, job, journal, ran>>

(* The daemon dies with its threads, and systemd starts it again.          *)
Crash ==
    /\ up
    /\ up' = FALSE
    /\ conn' = [c \in Connections |->
                  IF conn[c] = None THEN None ELSE [at |-> "closed"]]
    /\ job' = [c \in Connections |->
                 IF job[c].at \in {"queued", "running"}
                 THEN [job[c] EXCEPT !.at = "killed"] ELSE job[c]]
    /\ UNCHANGED <<permitVars, settings, reply, journal, ran>>

Start ==
    /\ ~up
    /\ up' = TRUE
    /\ UNCHANGED <<permitVars, settings, conn, job, reply, journal, ran>>

Serve(c) ==
    \/ Reject(c) \/ Describe(c) \/ Deny(c)
    \/ \E i \in Ids : RequireApproval(c, i)
    \/ SubmitFree(c) \/ SubmitApproved(c) \/ StoreFails(c)
    \/ StartHandler(c) \/ Collect(c) \/ TimeOut(c)
    \/ Answer(c) \/ Drop(c)

(* Operators, and `shinobi approval`.                                      *)
ChangeSettings ==
    /\ profile' \in Profiles
    /\ engaged' \in BOOLEAN
    /\ UNCHANGED <<permitVars, live, up, conn, job, reply, journal, ran>>

Approve(i) ==
    /\ Sanction(i)
    /\ UNCHANGED <<settings, up, conn, job, reply, journal, ran>>

Faults == {"none", "malformed", "status", "approval_id"}

DaemonNext ==
    \/ \E c \in Connections, req \in Requests, i \in Ids \cup {NoId},
          fault \in Faults : Receive(c, req, i, fault)
    \/ \E c \in Connections : Serve(c) \/ HandlerEnds(c)
    \/ Crash
    \/ Start
    \/ ChangeSettings
    \/ \E i \in Ids : Approve(i)

DaemonSpec == DaemonInit /\ [][DaemonNext]_daemonVars

(* The loop serves whoever is ready; nothing is assumed of a handler.      *)
FairDaemonSpec ==
    DaemonSpec /\ \A c \in Connections : WF_daemonVars(Serve(c))

-----------------------------------------------------------------------------
(* Properties.                                                             *)

Statuses == {"denied", "approval-required", "completed", "failed"}

DaemonTypeOK ==
    /\ asked \in [Ids -> Uses \cup {NoUse}]
    /\ sanctioned \subseteq Ids
    /\ spentOn \in [Ids -> Uses \cup {NoUse}]
    /\ profile \in Profiles
    /\ engaged \in BOOLEAN
    /\ live \in BOOLEAN
    /\ up \in BOOLEAN
    /\ conn \in [Connections ->
          {None, [at |-> "closed"]}
          \cup [at: {"received", "await"}, req: Requests,
                permit: Ids \cup {NoId}, fault: Faults]
          \cup [at: {"answer"},
                status: Statuses \cup {"internal", "described"}]]
    /\ job \in [Connections ->
          {None} \cup [at: {"queued", "running", "cancelled", "killed"}
                                \cup Ends, req: Requests]]
    /\ reply \in [Connections ->
          Statuses \cup {"none", "internal", "described"}]
    /\ journal \subseteq [conn: Connections, status: Statuses]
    /\ ran \subseteq [conn: Connections, req: Requests]

(* A handler that needs an approval has been started for as many calls, at *)
(* most, as approvals were given, and spent, for exactly that call.        *)
RunsAreApproved ==
    \A r \in ran : Declared[r.req.cap].approval =>
        Cardinality({q \in ran : q.req = r.req})
            <= Cardinality({i \in sanctioned : /\ asked[i].call = r.req
                                               /\ spentOn[i] # NoUse})

(* What the client is told is true: the journal says the same, once -- a   *)
(* call that timed out is not recorded again when its handler ends -- and  *)
(* after "denied" or "approval-required" the handler has not run and never *)
(* will.                                                                   *)
RepliesAreTrue ==
    \A c \in Connections :
        LET records == {e \in journal : e.conn = c} IN
        /\ Cardinality(records) <= 1
        /\ reply[c] \in Statuses =>
              records = {[conn |-> c, status |-> reply[c]]}
        /\ reply[c] \in {"denied", "approval-required"} =>
              (\A r \in ran : r.conn # c) /\ job[c] = None

(* A call that was answered while it was queued does not run afterwards.   *)
AnsweredIsNotStarted ==
    [][\A r \in ran' \ ran : reply[r.conn] = "none"]_daemonVars

(* However long its handler runs, and however many threads are stuck, a    *)
(* request is answered -- unless the daemon dies, or the handler returned  *)
(* what cannot be encoded, of which the client is told nothing while the   *)
(* journal says "completed".                                               *)
EveryRequestIsAnswered ==
    \A c \in Connections : conn[c].at = "received" ~>
        \/ reply[c] # "none"
        \/ ~up
        \/ /\ job[c].at = "unencodable"
           /\ [conn |-> c, status |-> "completed"] \in journal
=============================================================================
