-------------------------- MODULE AgentDaemonProofs --------------------------
(***************************************************************************)
(* Theorems about the control-plane daemon, for any connections, requests, *)
(* capabilities, approvals and profiles, and any size of the thread pool.  *)
(***************************************************************************)
EXTENDS AgentDaemon, PermitProofs

Closed == [at |-> "closed"]

Open == [at: {"received", "await"}, req: Requests, permit: Ids \cup {NoId},
         fault: Faults]

Answers == [at: {"answer"}, status: Statuses \cup {"internal", "described"}]

Jobs == [at: {"queued", "running", "cancelled", "killed"} \cup Ends,
         req: Requests]

-----------------------------------------------------------------------------
(* Type correctness: inductive on its own.                                 *)

LEMMA ConnRecord ==
    ASSUME DaemonTypeOK, NEW c \in Connections
    PROVE  /\ conn[c].at \in {"received", "await"} => conn[c] \in Open
           /\ conn[c].at = "answer" => conn[c] \in Answers
           /\ conn[c].at \in {"none", "received", "await", "answer", "closed"}
           /\ conn[c].at = "none" => conn[c] = None
  BY DEF DaemonTypeOK, Open, Answers, None

LEMMA JobRecord ==
    ASSUME DaemonTypeOK, NEW c \in Connections
    PROVE  /\ job[c] # None => job[c] \in Jobs
           /\ job[c].at # "none" => job[c] # None
           /\ job[c].at = "none" => job[c] = None
  BY DEF DaemonTypeOK, Jobs, Ends, None

LEMMA UseIsUse ==
    ASSUME DaemonTypeOK, NEW c \in Connections, conn[c].at = "received"
    PROVE  UseOf(c) \in Uses /\ UseOf(c) # NoUse
  <1>1. conn[c].req \in Calls
    BY ConnRecord, DaemonAssumption DEF Open
  <1>2. UseOf(c) \in Uses
    BY <1>1 DEF UseOf, Uses, DaemonTypeOK
  <1>3. QED
    BY <1>2, DaemonAssumption

LEMMA RecordedShape ==
    ASSUME DaemonTypeOK, NEW c \in Connections, NEW status \in Statuses,
           Recorded(c, status)
    PROVE  /\ conn' \in [Connections -> {None, Closed} \cup Open \cup Answers]
           /\ journal' \subseteq [conn: Connections, status: Statuses]
           /\ \A d \in Connections \ {c} : conn'[d] = conn[d]
           /\ conn'[c].at = "answer"
           /\ \/ /\ conn'[c].status = status
                 /\ journal' = journal \cup {[conn |-> c, status |-> status]}
              \/ /\ conn'[c].status = "internal"
                 /\ journal' = journal
  <1> DEFINE new(s) == [at |-> "answer", status |-> s]
  <1>1. \A s \in {status, "internal"} :
           new(s) \in Answers /\ new(s).at = "answer" /\ new(s).status = s
    BY DEF Answers
  <1> HIDE DEF new
  <1>2. PICK s \in {status, "internal"} :
           /\ conn' = [conn EXCEPT ![c] = new(s)]
           /\ \/ s = status /\ journal' = journal \cup {[conn |-> c, status |-> status]}
              \/ s = "internal" /\ journal' = journal
    BY DEF Recorded, new
  <1>3. /\ conn'[c] = new(s)
        /\ \A d \in Connections \ {c} : conn'[d] = conn[d]
        /\ conn' \in [Connections -> {None, Closed} \cup Open \cup Answers]
    BY <1>1, <1>2 DEF DaemonTypeOK, Open, Answers, Closed
  <1>4. [conn |-> c, status |-> status] \in [conn: Connections, status: Statuses]
    OBVIOUS
  <1>5. QED
    BY <1>1, <1>2, <1>3, <1>4 DEF DaemonTypeOK

LEMMA DaemonTypeInit == DaemonInit => DaemonTypeOK
  BY DEF DaemonInit, PermitInit, DaemonTypeOK, None

LEMMA DaemonTypeStep == DaemonTypeOK /\ [DaemonNext]_daemonVars => DaemonTypeOK'
  <1> SUFFICES ASSUME DaemonTypeOK, [DaemonNext]_daemonVars
               PROVE  DaemonTypeOK'
    OBVIOUS
  <1> USE DEF permitVars, settings
  <1>1. ASSUME NEW c \in Connections, NEW req \in Requests,
               NEW i \in Ids \cup {NoId}, NEW fault \in Faults,
               Receive(c, req, i, fault)
        PROVE  DaemonTypeOK'
    <2> DEFINE new == [at |-> "received", req |-> req, permit |-> i,
                       fault |-> fault]
    <2>1. new \in Open
      BY DEF Open
    <2>2. conn' = [conn EXCEPT ![c] = new]
      BY <1>1 DEF Receive
    <2> HIDE DEF new
    <2>3. QED
      BY <1>1, <2>1, <2>2 DEF Receive, DaemonTypeOK, Open
  <1>2. ASSUME NEW c \in Connections, Reject(c) \/ Describe(c) \/ StoreFails(c)
        PROVE  DaemonTypeOK'
    <2>1. conn[c].at = "received"
      BY <1>2 DEF Reject, Describe, StoreFails, Dispatching
    <2>2. spentOn' \in [Ids -> Uses \cup {NoUse}]
      BY <1>2, <2>1, UseIsUse DEF Reject, Describe, StoreFails, DaemonTypeOK
    <2>3. PICK status \in {"internal", "described"} :
             conn' = [conn EXCEPT ![c] = [at |-> "answer", status |-> status]]
      BY <1>2 DEF Reject, Describe, StoreFails
    <2>4. [at |-> "answer", status |-> status] \in Answers
      BY DEF Answers
    <2>5. QED
      BY <1>2, <2>2, <2>3, <2>4
      DEF Reject, Describe, StoreFails, DaemonTypeOK, Answers
  <1>3. ASSUME NEW c \in Connections, Deny(c)
        PROVE  DaemonTypeOK'
    <2>1. Recorded(c, "denied") /\ "denied" \in Statuses
      BY <1>3 DEF Deny, Statuses
    <2>2. QED
      BY <1>3, <2>1, RecordedShape
      DEF Deny, DaemonTypeOK, Open, Answers, Closed
  <1>4. ASSUME NEW c \in Connections, NEW i \in Ids, RequireApproval(c, i)
        PROVE  DaemonTypeOK'
    <2>1. /\ Recorded(c, "approval-required")
          /\ "approval-required" \in Statuses
          /\ conn[c].at = "received"
      BY <1>4 DEF RequireApproval, Statuses, Dispatching
    <2>2. asked' \in [Ids -> Uses \cup {NoUse}]
      BY <1>4, <2>1, UseIsUse DEF RequireApproval, Ask, DaemonTypeOK
    <2>3. QED
      BY <1>4, <2>1, <2>2, RecordedShape
      DEF RequireApproval, Ask, DaemonTypeOK, Open, Answers, Closed
  <1>5. ASSUME NEW c \in Connections, SubmitFree(c) \/ SubmitApproved(c)
        PROVE  DaemonTypeOK'
    <2>1. conn[c].at = "received" /\ conn[c] \in Open /\ Await(c)
      BY <1>5, ConnRecord DEF SubmitFree, SubmitApproved, Dispatching
    <2>2. /\ [conn[c] EXCEPT !.at = "await"] \in Open
          /\ [at |-> "queued", req |-> conn[c].req] \in Jobs
      BY <2>1 DEF Open, Jobs
    <2>3. /\ conn' \in [Connections -> {None, Closed} \cup Open \cup Answers]
          /\ job' \in [Connections -> {None} \cup Jobs]
      BY <2>1, <2>2 DEF Await, DaemonTypeOK, Open, Answers, Closed, Jobs
    <2>4. spentOn' \in [Ids -> Uses \cup {NoUse}]
      BY <1>5, <2>1, UseIsUse DEF SubmitFree, SubmitApproved, DaemonTypeOK
    <2>5. QED
      BY <1>5, <2>3, <2>4
      DEF SubmitFree, SubmitApproved, DaemonTypeOK, Open, Answers, Closed, Jobs
  <1>6. ASSUME NEW c \in Connections, StartHandler(c)
        PROVE  DaemonTypeOK'
    <2>1. job[c] \in Jobs
      BY <1>6, JobRecord DEF StartHandler
    <2>2. [job[c] EXCEPT !.at = "running"] \in Jobs /\ job[c].req \in Requests
      BY <2>1 DEF Jobs
    <2>3. job' \in [Connections -> {None} \cup Jobs]
      BY <1>6, <2>2 DEF StartHandler, DaemonTypeOK, Jobs
    <2>4. ran' \subseteq [conn: Connections, req: Requests]
      BY <1>6, <2>2 DEF StartHandler, DaemonTypeOK
    <2>5. QED
      BY <1>6, <2>3, <2>4 DEF StartHandler, DaemonTypeOK, Jobs
  <1>7. ASSUME NEW c \in Connections, HandlerEnds(c)
        PROVE  DaemonTypeOK'
    <2>1. job[c] \in Jobs
      BY <1>7, JobRecord DEF HandlerEnds
    <2>2. \A end \in Ends : [job[c] EXCEPT !.at = end] \in Jobs
      BY <2>1 DEF Jobs
    <2>3. job' \in [Connections -> {None} \cup Jobs]
      BY <1>7, <2>2 DEF HandlerEnds, DaemonTypeOK, Jobs
    <2>4. QED
      BY <1>7, <2>3 DEF HandlerEnds, DaemonTypeOK, Jobs
  <1>8. ASSUME NEW c \in Connections, Collect(c)
        PROVE  DaemonTypeOK'
    <2>1. PICK status \in {"completed", "failed"} : Recorded(c, status)
      BY <1>8 DEF Collect
    <2>2. QED
      BY <1>8, <2>1, RecordedShape
      DEF Collect, Statuses, DaemonTypeOK, Open, Answers, Closed
  <1>9. ASSUME NEW c \in Connections, TimeOut(c)
        PROVE  DaemonTypeOK'
    <2>1. job[c] \in Jobs
      BY <1>9, JobRecord DEF TimeOut
    <2>2. [job[c] EXCEPT !.at = AfterTimeout(job[c].at)] \in Jobs
      BY <2>1 DEF Jobs, AfterTimeout
    <2>3. job' = [job EXCEPT ![c] = [job[c] EXCEPT !.at = AfterTimeout(job[c].at)]]
      BY <1>9 DEF TimeOut
    <2>4. job' \in [Connections -> {None} \cup Jobs]
      BY <2>2, <2>3 DEF DaemonTypeOK, Jobs
    <2>5. Recorded(c, "failed") /\ "failed" \in Statuses
      BY <1>9 DEF TimeOut, Statuses
    <2>6. QED
      BY <1>9, <2>4, <2>5, RecordedShape
      DEF TimeOut, DaemonTypeOK, Open, Answers, Closed, Jobs
  <1>10. ASSUME NEW c \in Connections, Answer(c) \/ Drop(c)
         PROVE  DaemonTypeOK'
    <2>1. conn[c].status \in Statuses \cup {"internal", "described"}
      BY <1>10, ConnRecord DEF Answer, Drop, Answers
    <2>2. QED
      BY <1>10, <2>1 DEF Answer, Drop, DaemonTypeOK
  <1>11. CASE Crash
    <2>1. \A c \in Connections :
             job[c].at \in {"queued", "running"}
             => [job[c] EXCEPT !.at = "killed"] \in Jobs
      BY JobRecord DEF Jobs
    <2>2. job' \in [Connections -> {None} \cup Jobs]
      BY <1>11, <2>1 DEF Crash, DaemonTypeOK, Jobs
    <2>3. QED
      BY <1>11, <2>2 DEF Crash, DaemonTypeOK, Jobs
  <1>12. CASE Start \/ ChangeSettings \/ UNCHANGED daemonVars
    BY <1>12 DEF Start, ChangeSettings, daemonVars, DaemonTypeOK
  <1>13. ASSUME NEW i \in Ids, Approve(i)
         PROVE  DaemonTypeOK'
    BY <1>13 DEF Approve, Sanction, DaemonTypeOK
  <1>14. QED
    BY <1>1, <1>2, <1>3, <1>4, <1>5, <1>6, <1>7, <1>8, <1>9, <1>10, <1>11,
       <1>12, <1>13 DEF DaemonNext, Serve

(* Every variable of the daemon keeps its type through its restarts.       *)
THEOREM DaemonTypeCorrect == DaemonSpec => []DaemonTypeOK
  BY DaemonTypeInit, DaemonTypeStep, PTL DEF DaemonSpec

-----------------------------------------------------------------------------
(* A call, its handler and its records.                                    *)

Records(c) == {e \in journal : e.conn = c}

Starts(c) == {r \in ran : r.conn = c}

Refusals == {"denied", "approval-required"}

CallOf(c) ==
    /\ conn[c].at \in {"none", "received"} => job[c] = None
    /\ conn[c].at \in {"none", "received", "await"} => Records(c) = {}
    /\ conn[c].at # "closed" => reply[c] = "none"
    /\ conn[c].at = "answer" /\ conn[c].status \in Statuses =>
          Records(c) = {[conn |-> c, status |-> conn[c].status]}
    /\ conn[c].at = "answer" /\ conn[c].status \in Refusals => job[c] = None
    /\ job[c].at = "queued" => conn[c].at = "await"
    /\ job[c] = None => Starts(c) = {}
    /\ reply[c] \in Statuses =>
          Records(c) = {[conn |-> c, status |-> reply[c]]}
    /\ reply[c] \in Refusals => job[c] = None
    /\ Records(c) # {} => \E e : Records(c) = {e}

CallInv == \A c \in Connections : CallOf(c)

SameCall(c) ==
    /\ conn'[c] = conn[c] /\ job'[c] = job[c] /\ reply'[c] = reply[c]
    /\ Records(c)' = Records(c) /\ Starts(c)' = Starts(c)

LEMMA SameCallOf ==
    ASSUME NEW c \in Connections, CallOf(c), SameCall(c)
    PROVE  CallOf(c)'
  BY DEF CallOf, SameCall

LEMMA RecordedOnce ==
    ASSUME DaemonTypeOK, NEW c \in Connections, NEW status \in Statuses,
           Recorded(c, status)
    PROVE  /\ \A d \in Connections \ {c} :
                 Records(d)' = Records(d) /\ conn'[d] = conn[d]
           /\ conn'[c].at = "answer"
           /\ \/ /\ conn'[c].status = status
                 /\ Records(c)' = Records(c) \cup {[conn |-> c, status |-> status]}
              \/ /\ conn'[c].status = "internal"
                 /\ Records(c)' = Records(c)
  BY RecordedShape DEF Records

LEMMA OthersCall ==
    ASSUME DaemonTypeOK, NEW c \in Connections, NEW d \in Connections \ {c},
           \/ \E req \in Requests, i \in Ids \cup {NoId}, fault \in Faults :
                 Receive(c, req, i, fault)
           \/ Serve(c) \/ HandlerEnds(c)
    PROVE  SameCall(d)
  <1> USE DEF SameCall, Records, Starts
  <1>1. ASSUME \E req \in Requests, i \in Ids \cup {NoId}, fault \in Faults :
                  Receive(c, req, i, fault)
        PROVE  SameCall(d)
    BY <1>1 DEF Receive, DaemonTypeOK
  <1>2. CASE Reject(c) \/ Describe(c) \/ StoreFails(c)
    BY <1>2 DEF Reject, Describe, StoreFails, DaemonTypeOK
  <1>3. CASE Deny(c)
    BY <1>3, RecordedOnce DEF Deny, Statuses
  <1>4. CASE \E i \in Ids : RequireApproval(c, i)
    BY <1>4, RecordedOnce DEF RequireApproval, Statuses
  <1>5. CASE SubmitFree(c) \/ SubmitApproved(c)
    BY <1>5 DEF SubmitFree, SubmitApproved, Await, DaemonTypeOK
  <1>6. CASE StartHandler(c)
    BY <1>6 DEF StartHandler, DaemonTypeOK
  <1>7. CASE HandlerEnds(c)
    BY <1>7 DEF HandlerEnds, DaemonTypeOK
  <1>8. CASE Collect(c)
    BY <1>8, RecordedOnce DEF Collect, Statuses
  <1>9. CASE TimeOut(c)
    <2>1. Recorded(c, "failed") /\ "failed" \in Statuses
      BY <1>9 DEF TimeOut, Statuses
    <2>2. job'[d] = job[d] /\ reply' = reply /\ ran' = ran
      BY <1>9 DEF TimeOut, DaemonTypeOK
    <2>3. QED
      BY <2>1, <2>2, RecordedOnce
  <1>10. CASE Answer(c) \/ Drop(c)
    BY <1>10 DEF Answer, Drop, DaemonTypeOK
  <1>11. QED
    BY <1>1, <1>2, <1>3, <1>4, <1>5, <1>6, <1>7, <1>8, <1>9, <1>10 DEF Serve

LEMMA CallInit == DaemonInit => CallInv
  BY DEF DaemonInit, CallInv, CallOf, Records, Starts, None, Statuses, Refusals

LEMMA OwnCall ==
    ASSUME DaemonTypeOK, NEW c \in Connections, CallOf(c),
           \/ \E req \in Requests, i \in Ids \cup {NoId}, fault \in Faults :
                 Receive(c, req, i, fault)
           \/ Serve(c) \/ HandlerEnds(c)
    PROVE  CallOf(c)'
  <1> USE DEF CallOf, Refusals, Statuses
  <1>1. ASSUME \E req \in Requests, i \in Ids \cup {NoId}, fault \in Faults :
                  Receive(c, req, i, fault)
        PROVE  CallOf(c)'
    <2>1. PICK req \in Requests, i \in Ids \cup {NoId}, fault \in Faults :
             Receive(c, req, i, fault)
      BY <1>1
    <2>2. conn[c].at = "none" /\ conn'[c].at = "received"
      BY <2>1 DEF Receive, DaemonTypeOK, None
    <2>3. /\ job' = job /\ reply' = reply
          /\ Records(c)' = Records(c) /\ Starts(c)' = Starts(c)
      BY <2>1 DEF Receive, Records, Starts
    <2>4. QED
      BY <2>2, <2>3
  <1>2. CASE Reject(c) \/ Describe(c) \/ StoreFails(c)
    <2>1. /\ conn[c].at = "received" /\ conn'[c].at = "answer"
          /\ conn'[c].status \in {"internal", "described"}
      BY <1>2 DEF Reject, Describe, StoreFails, Dispatching, DaemonTypeOK
    <2>2. /\ job' = job /\ reply' = reply
          /\ Records(c)' = Records(c) /\ Starts(c)' = Starts(c)
      BY <1>2 DEF Reject, Describe, StoreFails, Records, Starts
    <2>3. QED
      BY <2>1, <2>2
  <1>3. CASE Deny(c) \/ \E i \in Ids : RequireApproval(c, i)
    <2>1. /\ conn[c].at = "received" /\ job' = job /\ reply' = reply
          /\ Starts(c)' = Starts(c)
          /\ \E status \in Refusals : Recorded(c, status)
      BY <1>3 DEF Deny, RequireApproval, Dispatching, Starts
    <2>2. QED
      BY <2>1, RecordedOnce
  <1>4. CASE SubmitFree(c) \/ SubmitApproved(c)
    <2>1. /\ conn[c].at = "received" /\ Await(c)
          /\ reply' = reply
          /\ Records(c)' = Records(c) /\ Starts(c)' = Starts(c)
      BY <1>4 DEF SubmitFree, SubmitApproved, Dispatching, Records, Starts
    <2>2. conn'[c].at = "await" /\ job'[c].at = "queued"
      BY <2>1, ConnRecord DEF Await, DaemonTypeOK, Open
    <2>3. job[c] = None /\ job'[c] # None
      BY <2>1, <2>2 DEF None
    <2>4. QED
      BY <2>1, <2>2, <2>3
  <1>5. CASE StartHandler(c) \/ HandlerEnds(c)
    <2>1. job[c] \in Jobs
      BY <1>5, JobRecord DEF StartHandler, HandlerEnds
    <2>2. /\ conn' = conn /\ reply' = reply /\ Records(c)' = Records(c)
          /\ job[c] # None /\ job'[c] # None
          /\ job'[c].at \in {"running"} \cup Ends /\ job'[c].at # "queued"
      BY <1>5, <2>1 DEF Ends, StartHandler, HandlerEnds, Records, DaemonTypeOK, Jobs, None
    <2>3. QED
      BY <2>2
  <1>6. CASE Collect(c) \/ TimeOut(c)
    <2>1. job[c] \in Jobs
      BY <1>6, JobRecord DEF Collect, TimeOut, Ends
    <2>2. /\ conn[c].at = "await" /\ job[c] # None /\ reply' = reply
          /\ Starts(c)' = Starts(c)
          /\ \E status \in {"completed", "failed"} : Recorded(c, status)
      BY <1>6, <2>1
      DEF Collect, TimeOut, HandlerTimeout, Starts, Jobs, Ends, None
    <2>3. job'[c] # None /\ job'[c].at # "queued"
      BY <1>6, <2>1
      DEF Collect, TimeOut, AfterTimeout, DaemonTypeOK, Jobs, Ends, None
    <2>4. QED
      BY <2>2, <2>3, RecordedOnce
  <1>7. CASE Answer(c)
    <2>1. /\ conn[c].at = "answer" /\ conn'[c].at = "closed"
          /\ reply'[c] = conn[c].status
          /\ job' = job
          /\ Records(c)' = Records(c) /\ Starts(c)' = Starts(c)
      BY <1>7 DEF Answer, Records, Starts, DaemonTypeOK
    <2>2. QED
      BY <2>1
  <1>8. CASE Drop(c)
    <2>1. /\ conn[c].at = "answer" /\ conn'[c].at = "closed"
          /\ reply' = reply /\ job' = job
          /\ Records(c)' = Records(c) /\ Starts(c)' = Starts(c)
      BY <1>8 DEF Drop, Records, Starts, DaemonTypeOK
    <2>2. QED
      BY <2>1
  <1>9. QED
    BY <1>1, <1>2, <1>3, <1>4, <1>5, <1>6, <1>7, <1>8 DEF Serve

LEMMA CrashCall ==
    ASSUME DaemonTypeOK, NEW c \in Connections, CallOf(c), Crash
    PROVE  CallOf(c)'
  <1>1. /\ reply' = reply /\ Records(c)' = Records(c) /\ Starts(c)' = Starts(c)
    BY DEF Crash, Records, Starts
  <1>2. \/ conn'[c].at = "none" /\ conn[c].at = "none" /\ conn'[c] = conn[c]
        \/ conn'[c].at = "closed"
    BY DEF Crash, None
  <1>3. /\ job'[c].at # "queued"
        /\ job'[c] = None <=> job[c] = None
    <2>1. CASE job[c].at \in {"queued", "running"}
      <3>1. job[c] \in Jobs
        BY <2>1, JobRecord
      <3>2. QED
        BY <2>1, <3>1 DEF Crash, Jobs, None
    <2>2. CASE job[c].at \notin {"queued", "running"}
      BY <2>2 DEF Crash
    <2>3. QED
      BY <2>1, <2>2
  <1>4. QED
    BY <1>1, <1>2, <1>3 DEF CallOf

LEMMA CallStep ==
    DaemonTypeOK /\ CallInv /\ [DaemonNext]_daemonVars => CallInv'
  <1> SUFFICES ASSUME DaemonTypeOK, CallInv, [DaemonNext]_daemonVars,
                      NEW d \in Connections
               PROVE  CallOf(d)'
    BY DEF CallInv
  <1>1. ASSUME NEW c \in Connections,
               \/ \E req \in Requests, i \in Ids \cup {NoId}, fault \in Faults :
                     Receive(c, req, i, fault)
               \/ Serve(c) \/ HandlerEnds(c)
        PROVE  CallOf(d)'
    BY <1>1, OthersCall, OwnCall, SameCallOf DEF CallInv
  <1>2. CASE Crash
    BY <1>2, CrashCall DEF CallInv
  <1>3. ASSUME \/ Start \/ ChangeSettings \/ UNCHANGED daemonVars
               \/ \E i \in Ids : Approve(i)
        PROVE  CallOf(d)'
    BY <1>3, SameCallOf
    DEF CallInv, SameCall, Records, Starts, Start, ChangeSettings, Approve, daemonVars
  <1>4. QED
    BY <1>1, <1>2, <1>3 DEF DaemonNext

LEMMA CallsGiveTruth == CallInv => RepliesAreTrue
  <1> SUFFICES ASSUME CallInv, NEW c \in Connections
               PROVE  /\ Cardinality(Records(c)) <= 1
                      /\ reply[c] \in Statuses =>
                            Records(c) = {[conn |-> c, status |-> reply[c]]}
                      /\ reply[c] \in Refusals =>
                            (\A r \in ran : r.conn # c) /\ job[c] = None
    BY DEF RepliesAreTrue, Records, Refusals
  <1>1. CallOf(c)
    BY DEF CallInv
  <1>2. Cardinality(Records(c)) <= 1
    <2>1. CASE Records(c) = {}
      BY <2>1, FS_EmptySet
    <2>2. CASE Records(c) # {}
      <3>1. PICK e : Records(c) = {e}
        BY <1>1, <2>2 DEF CallOf
      <3>2. Cardinality({e}) = 1
        BY FS_Singleton
      <3>3. QED
        BY <3>1, <3>2
    <2>3. QED
      BY <2>1, <2>2
  <1>3. QED
    BY <1>1, <1>2 DEF CallOf, Starts

(* The client is told what the journal says, once per call; a call that is *)
(* refused never reaches its handler: RepliesAreTrue in every state.       *)
THEOREM RepliesMatchJournal == DaemonSpec => []RepliesAreTrue
  BY DaemonTypeInit, DaemonTypeStep, CallInit, CallStep, CallsGiveTruth, PTL
  DEF DaemonSpec

LEMMA StartsUnanswered ==
    DaemonTypeOK /\ CallInv /\ [DaemonNext]_daemonVars
    => \A r \in ran' \ ran : reply[r.conn] = "none"
  <1> SUFFICES ASSUME DaemonTypeOK, CallInv, [DaemonNext]_daemonVars,
                      NEW r \in ran' \ ran
               PROVE  reply[r.conn] = "none"
    OBVIOUS
  <1>1. PICK c \in Connections : StartHandler(c)
    BY DEF DaemonNext, Receive, Serve, Reject, Describe, Deny, RequireApproval,
           SubmitFree, SubmitApproved, StoreFails, Collect, TimeOut, Answer,
           Drop, HandlerEnds, Crash, Start, ChangeSettings, Approve, daemonVars
  <1>2. r.conn = c
    BY <1>1 DEF StartHandler
  <1>3. QED
    BY <1>1, <1>2 DEF StartHandler, CallInv, CallOf

(* No handler is started for a call that was answered: the timeout of a    *)
(* queued call cancels it (AnsweredIsNotStarted).                          *)
THEOREM NoLateStarts == DaemonSpec => AnsweredIsNotStarted
  <1>1. DaemonTypeOK /\ CallInv /\ [DaemonNext]_daemonVars
        => [\A r \in ran' \ ran : reply[r.conn] = "none"]_daemonVars
    BY StartsUnanswered
  <1>2. QED
    BY <1>1, DaemonTypeInit, DaemonTypeStep, CallInit, CallStep, PTL
    DEF DaemonSpec, AnsweredIsNotStarted

-----------------------------------------------------------------------------
(* The daemon's approvals are permits, asked for and spent as module       *)
(* Permit allows.                                                          *)

LEMMA DaemonMovesPermits ==
    ASSUME DaemonTypeOK, [DaemonNext]_daemonVars
    PROVE  \/ \/ UNCHANGED permitVars
              \/ \E i \in Ids, use \in Uses : Ask(i, use)
              \/ \E i \in Ids : Sanction(i)
           \/ \E c \in Connections :
                 /\ SubmitApproved(c) \/ StoreFails(c)
                 /\ conn[c].permit \in Ids /\ UseOf(c) \in Uses
                 /\ Spend(conn[c].permit, UseOf(c))
  <1>1. ASSUME NEW c \in Connections, NEW i \in Ids, RequireApproval(c, i)
        PROVE  \E use \in Uses : Ask(i, use)
    BY <1>1, UseIsUse DEF RequireApproval, Dispatching
  <1>2. ASSUME NEW c \in Connections, SubmitApproved(c) \/ StoreFails(c),
               ~ UNCHANGED permitVars
        PROVE  /\ conn[c].permit \in Ids /\ UseOf(c) \in Uses
               /\ Spend(conn[c].permit, UseOf(c))
    <2>1. UseOf(c) \in Uses
      BY <1>2, UseIsUse DEF SubmitApproved, StoreFails, Dispatching
    <2>2. QED
      BY <1>2, <2>1
      DEF SubmitApproved, StoreFails, permitVars, Approved, Spend, DaemonTypeOK
  <1>3. ASSUME NEW c \in Connections,
               \/ Reject(c) \/ Describe(c) \/ Deny(c) \/ SubmitFree(c)
               \/ StartHandler(c) \/ Collect(c) \/ TimeOut(c) \/ Answer(c)
               \/ Drop(c) \/ HandlerEnds(c)
               \/ \E req \in Requests, i \in Ids \cup {NoId}, fault \in Faults :
                     Receive(c, req, i, fault)
        PROVE  UNCHANGED permitVars
    BY <1>3 DEF Receive, Reject, Describe, Deny, SubmitFree, StartHandler,
                Collect, TimeOut, Answer, Drop, HandlerEnds
  <1>4. CASE Crash \/ Start \/ ChangeSettings \/ UNCHANGED daemonVars
    BY <1>4 DEF Crash, Start, ChangeSettings, daemonVars
  <1>5. CASE \E i \in Ids : Approve(i)
    BY <1>5 DEF Approve
  <1>6. QED
    BY <1>1, <1>2, <1>3, <1>4, <1>5 DEF DaemonNext, Serve

LEMMA DaemonPermitStep ==
    ASSUME DaemonTypeOK, [DaemonNext]_daemonVars
    PROVE  [PermitNext]_permitVars
  BY DaemonMovesPermits DEF PermitNext

-----------------------------------------------------------------------------
(* The handlers that were submitted for a request.  Nothing is assumed of  *)
(* the size of Connections and Ids: handlers and spent permits are added   *)
(* one at a time.                                                          *)

Submitted(r) == {c \in Connections : job[c] # None /\ job[c].req = r}

Accounted(r) ==
    /\ IsFiniteSet(Submitted(r))
    /\ IsFiniteSet(SpentFor(r))
    /\ Cardinality(Submitted(r)) <= Cardinality(SpentFor(r))

SpendInv ==
    /\ PermitOK
    /\ \A q \in ran : job[q.conn] # None /\ job[q.conn].req = q.req
    /\ \A r \in Requests : Declared[r.cap].approval => Accounted(r)

LEMMA SpendInit == DaemonInit => SpendInv
  <1> SUFFICES ASSUME DaemonInit PROVE SpendInv
    OBVIOUS
  <1>1. \A r : Submitted(r) = {} /\ SpentFor(r) = {}
    BY NothingSpent DEF DaemonInit, Submitted
  <1>2. \A r : Accounted(r)
    BY <1>1, FS_EmptySet DEF Accounted
  <1>3. QED
    BY <1>2, PermitOKInit DEF DaemonInit, SpendInv

(* A handler keeps its request, and goes on existing, in every step.       *)
LEMMA JobsStay ==
    ASSUME DaemonTypeOK, CallInv, [DaemonNext]_daemonVars,
           NEW c \in Connections, job[c] # None
    PROVE  job'[c] # None /\ job'[c].req = job[c].req
  <1>0. job[c] \in Jobs
    BY JobRecord
  <1>1. ASSUME NEW d \in Connections,
               \/ \E req \in Requests, i \in Ids \cup {NoId}, fault \in Faults :
                     Receive(d, req, i, fault)
               \/ Serve(d) \/ HandlerEnds(d)
        PROVE  job'[c] # None /\ job'[c].req = job[c].req
    <2>1. CASE d # c
      BY <1>1, <2>1, OthersCall DEF SameCall
    <2>2. CASE d = c
      <3>1. CASE SubmitFree(c) \/ SubmitApproved(c)
        BY <3>1 DEF SubmitFree, SubmitApproved, Dispatching, CallInv, CallOf
      <3>2. CASE StartHandler(c)
        BY <1>0, <3>2 DEF StartHandler, DaemonTypeOK, Jobs, None
      <3>3. CASE HandlerEnds(c)
        BY <1>0, <3>3 DEF HandlerEnds, DaemonTypeOK, Jobs, Ends, None
      <3>4. CASE TimeOut(c)
        BY <1>0, <3>4 DEF TimeOut, DaemonTypeOK, Jobs, None, AfterTimeout
      <3>5. ASSUME \/ \E req \in Requests, i \in Ids \cup {NoId}, fault \in Faults :
                         Receive(c, req, i, fault)
                   \/ Reject(c) \/ Describe(c) \/ Deny(c)
                   \/ \E i \in Ids : RequireApproval(c, i)
                   \/ StoreFails(c) \/ Collect(c) \/ Answer(c) \/ Drop(c)
            PROVE  job' = job
        BY <3>5 DEF Receive, Reject, Describe, Deny, RequireApproval, StoreFails,
                    Collect, Answer, Drop
      <3>6. QED
        BY <1>1, <2>2, <3>1, <3>2, <3>3, <3>4, <3>5 DEF Serve
    <2>3. QED
      BY <2>1, <2>2
  <1>2. CASE Crash
    <2>1. CASE job[c].at \in {"queued", "running"}
      BY <1>0, <1>2, <2>1 DEF Crash, Jobs, None
    <2>2. CASE job[c].at \notin {"queued", "running"}
      BY <1>2, <2>2 DEF Crash
    <2>3. QED
      BY <2>1, <2>2
  <1>3. CASE \/ Start \/ ChangeSettings \/ UNCHANGED daemonVars
             \/ \E i \in Ids : Approve(i)
    BY <1>3 DEF Start, ChangeSettings, Approve, daemonVars
  <1>4. QED
    BY <1>1, <1>2, <1>3 DEF DaemonNext

(* The handlers of a call that is not submitted in this step are those     *)
(* there were.                                                             *)
LEMMA JobsComeFromSubmit ==
    ASSUME DaemonTypeOK, [DaemonNext]_daemonVars,
           NEW c \in Connections, job[c] = None, job'[c] # None
    PROVE  SubmitFree(c) \/ SubmitApproved(c)
  <1>1. ASSUME NEW d \in Connections,
               \/ \E req \in Requests, i \in Ids \cup {NoId}, fault \in Faults :
                     Receive(d, req, i, fault)
               \/ Serve(d) \/ HandlerEnds(d)
        PROVE  SubmitFree(c) \/ SubmitApproved(c)
    <2>1. d = c
      BY <1>1, OthersCall DEF SameCall
    <2>2. ~(StartHandler(c) \/ HandlerEnds(c) \/ TimeOut(c))
      BY DEF StartHandler, HandlerEnds, TimeOut, None
    <2>3. ASSUME \/ \E req \in Requests, i \in Ids \cup {NoId}, fault \in Faults :
                       Receive(c, req, i, fault)
                 \/ Reject(c) \/ Describe(c) \/ Deny(c)
                 \/ \E i \in Ids : RequireApproval(c, i)
                 \/ StoreFails(c) \/ Collect(c) \/ Answer(c) \/ Drop(c)
          PROVE  job' = job
      BY <2>3 DEF Receive, Reject, Describe, Deny, RequireApproval, StoreFails,
                  Collect, Answer, Drop
    <2>4. QED
      BY <1>1, <2>1, <2>2, <2>3 DEF Serve
  <1>2. CASE Crash
    BY <1>2 DEF Crash, None
  <1>3. CASE \/ Start \/ ChangeSettings \/ UNCHANGED daemonVars
             \/ \E i \in Ids : Approve(i)
    BY <1>3 DEF Start, ChangeSettings, Approve, daemonVars
  <1>4. QED
    BY <1>1, <1>2, <1>3 DEF DaemonNext

LEMMA SpendStep ==
    ASSUME DaemonTypeOK, CallInv, SpendInv, [DaemonNext]_daemonVars
    PROVE  SpendInv'
  <1>0. NoUse \notin Uses /\ [PermitNext]_permitVars
    BY DaemonPermitStep, DaemonAssumption
  <1>1. PermitOK'
    BY <1>0, PermitOKStep DEF SpendInv
  <1>2. \A q \in ran' : job'[q.conn] # None /\ job'[q.conn].req = q.req
    <2> SUFFICES ASSUME NEW q \in ran'
                 PROVE  job'[q.conn] # None /\ job'[q.conn].req = q.req
      OBVIOUS
    <2>1. CASE q \in ran
      BY <2>1, JobsStay DEF SpendInv, DaemonTypeOK
    <2>2. CASE q \notin ran
      <3>1. PICK c \in Connections : StartHandler(c)
        BY <2>2 DEF DaemonNext, Receive, Serve, Reject, Describe, Deny,
           RequireApproval, SubmitFree, SubmitApproved, StoreFails, Collect,
           TimeOut, Answer, Drop, HandlerEnds, Crash, Start, ChangeSettings, Approve,
           daemonVars
      <3>2. q.conn = c /\ q.req = job[c].req /\ job[c] # None
        BY <2>2, <3>1, JobRecord DEF StartHandler
      <3>3. QED
        BY <3>2, JobsStay
    <2>3. QED
      BY <2>1, <2>2
  <1>3. ASSUME NEW r \in Requests, Declared[r.cap].approval
        PROVE  Accounted(r)'
    <2>0. Accounted(r)
      BY <1>3 DEF SpendInv
    <2>1. /\ IsFiniteSet(SpentFor(r)')
          /\ Cardinality(SpentFor(r)) \in Nat
          /\ Cardinality(SpentFor(r)') \in Nat
          /\ Cardinality(SpentFor(r)) <= Cardinality(SpentFor(r)')
      BY <1>0, <2>0, SpentForGrows DEF SpendInv, Accounted
    <2>2. CASE Submitted(r)' = Submitted(r)
      <3>1. Cardinality(Submitted(r)) \in Nat
        BY <2>0, FS_CardinalityType DEF Accounted
      <3>2. QED
        BY <2>0, <2>1, <2>2, <3>1 DEF Accounted
    <2>3. CASE Submitted(r)' # Submitted(r)
      <3>1. \A c \in Submitted(r) : c \in Submitted(r)'
        BY JobsStay DEF Submitted
      <3>2. PICK c \in Connections : c \notin Submitted(r) /\ c \in Submitted(r)'
        BY <2>3, <3>1 DEF Submitted
      <3>3. job[c] = None /\ job'[c] # None /\ job'[c].req = r
        BY <3>2, JobsStay DEF Submitted
      <3>4. SubmitFree(c) \/ SubmitApproved(c)
        BY <3>3, JobsComeFromSubmit
      <3>5. conn[c].req = r /\ conn[c] \in Open
        BY <3>3, <3>4, ConnRecord
        DEF SubmitFree, SubmitApproved, Dispatching, Await, DaemonTypeOK
      <3>6. SubmitApproved(c)
        BY <1>3, <3>4, <3>5 DEF SubmitFree, NeedsApproval
      <3>7. Submitted(r)' = Submitted(r) \cup {c}
        <4>1. \A d \in Connections \ {c} : job'[d] = job[d]
          BY <3>6, OthersCall DEF Serve, SameCall
        <4>2. QED
          BY <3>2, <4>1 DEF Submitted
      <3> DEFINE i == conn[c].permit
      <3>8. /\ UseOf(c) \in Uses /\ UseOf(c).call = r /\ i \in Ids
            /\ Spend(i, UseOf(c))
        BY <3>5, <3>6, UseIsUse
        DEF SubmitApproved, Approved, Spend, UseOf, Dispatching, DaemonTypeOK
      <3>9. SpentFor(r)' = SpentFor(r) \cup {i} /\ i \notin SpentFor(r)
        <4> HIDE DEF i
        <4>1. QED
          BY <1>0, <3>8, SpendAdds DEF SpendInv
      <3>10. /\ IsFiniteSet(Submitted(r)') /\ IsFiniteSet(SpentFor(r)')
             /\ Cardinality(Submitted(r)') = Cardinality(Submitted(r)) + 1
             /\ Cardinality(SpentFor(r)') = Cardinality(SpentFor(r)) + 1
        BY <2>0, <3>2, <3>7, <3>9, FS_AddElement DEF Accounted
      <3>11. /\ Cardinality(Submitted(r)) \in Nat
             /\ Cardinality(SpentFor(r)) \in Nat
        BY <2>0, FS_CardinalityType DEF Accounted
      <3>12. QED
        BY <2>0, <3>10, <3>11 DEF Accounted
    <2>4. QED
      BY <2>2, <2>3
  <1>4. QED
    BY <1>1, <1>2, <1>3 DEF SpendInv

LEMMA AccountsGiveApproval ==
    ASSUME DaemonTypeOK, SpendInv
    PROVE  RunsAreApproved
  <1> SUFFICES ASSUME NEW r \in ran, Declared[r.req.cap].approval
               PROVE  Cardinality({q \in ran : q.req = r.req})
                         <= Cardinality(SpentFor(r.req))
    BY DEF RunsAreApproved, SpentFor
  <1> DEFINE runs == {q \in ran : q.req = r.req}
             f == [q \in runs |-> q.conn]
  <1>1. r.req \in Requests /\ Accounted(r.req)
    BY DEF DaemonTypeOK, SpendInv
  <1>2. \A q \in runs : q = [conn |-> q.conn, req |-> r.req]
    BY DEF DaemonTypeOK
  <1>3. f \in Injection(runs, Submitted(r.req))
    <2>1. \A q \in runs : q.conn \in Submitted(r.req)
      BY DEF DaemonTypeOK, SpendInv, Submitted
    <2>2. f \in [runs -> Submitted(r.req)]
      BY <2>1
    <2>3. ASSUME NEW p \in runs, NEW q \in runs, f[p] = f[q]
          PROVE  p = q
      <3>1. p.conn = q.conn
        BY <2>3
      <3>2. QED
        BY <1>2, <3>1
    <2>4. QED
      BY <2>2, <2>3 DEF Injection, IsInjective
  <1>4. /\ IsFiniteSet(runs)
        /\ Cardinality(runs) <= Cardinality(Submitted(r.req))
    BY <1>1, <1>3, FS_Injection DEF Accounted
  <1>5. /\ Cardinality(runs) \in Nat
        /\ Cardinality(Submitted(r.req)) \in Nat
        /\ Cardinality(SpentFor(r.req)) \in Nat
    BY <1>1, <1>4, FS_CardinalityType DEF Accounted
  <1>6. QED
    BY <1>1, <1>4, <1>5 DEF Accounted

(* As many approvals were given and spent for a request as handlers were   *)
(* started for it, at least, across crashes and timeouts: RunsAreApproved. *)
THEOREM EveryRunWasApproved == DaemonSpec => []RunsAreApproved
  <1>1. DaemonTypeOK /\ CallInv /\ SpendInv /\ [DaemonNext]_daemonVars
        => SpendInv'
    BY SpendStep
  <1>2. DaemonTypeOK /\ SpendInv => RunsAreApproved
    BY AccountsGiveApproval
  <1>3. QED
    BY <1>1, <1>2, DaemonTypeInit, DaemonTypeStep, CallInit, CallStep, SpendInit,
       PTL DEF DaemonSpec
=============================================================================
