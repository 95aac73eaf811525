----------------------------- MODULE McpClient -----------------------------
(***************************************************************************)
(* The MCP client of llm/mcp.py, as run() of llm/agent.py uses it: server  *)
(* processes that are started, asked for their tools, called and stopped,  *)
(* over a pipe each way.                                                   *)
(*                                                                         *)
(* The client has one request outstanding at a time, and gives up on it    *)
(* after a while; the server does not know.  What it writes late, and what *)
(* it writes unasked, is in the pipe, or half of it in the client's        *)
(* buffer, when the next request, or the next process, begins.             *)
(***************************************************************************)
EXTENDS Naturals, Sequences, FiniteSets, Functions

CONSTANTS
    Servers,
    Tools,
    NoTool, NoRequest,
    MaxRequests,    \* bound on the requests of all servers together
    MaxLines        \* bound on the lines in their pipes and buffers

ASSUME ClientAssumption == MaxRequests \in Nat /\ MaxLines \in Nat

VARIABLES
    handle,     \* handle[s]: self._process, by the id of the request it was
                \* started for; 0 is None
    running,    \* the processes that have not ended
    inbox,      \* inbox[s]: requests on the standard input of its process
    pipe,       \* pipe[s]: lines on its standard output
    buffer,     \* buffer[s]: self._buffer: whole lines, and what follows
    lastId,     \* lastId[s]: self._next_id
    cache,      \* cache[s]: self._tools
    run,        \* the caller, and its call of run()
    wait,       \* the request that is waited for
    answer,     \* history: the last request, when answered, with its reply
    kept        \* history: the servers a caller entered and has not exited

vars == <<handle, running, inbox, pipe, buffer, lastId, cache, run, wait,
          answer, kept>>

(* The unfinished line at the end of a buffer: there is none, its rest is  *)
(* in the pipe, or it came from a process that is gone.                    *)
Halves == {"none", "begun", "orphan"}

(* tools() has not been answered yet.                                      *)
NotListed     == [listed |-> FALSE, tools |-> {}]
Listed(tools) == [listed |-> TRUE, tools |-> tools]

Outside == [at |-> "outside", servers |-> {}, mine |-> {}, left |-> {}, index |-> {}]

Init ==
    /\ handle = [s \in Servers |-> 0]
    /\ running = {}
    /\ inbox = [s \in Servers |-> <<>>]
    /\ pipe = [s \in Servers |-> <<>>]
    /\ buffer = [s \in Servers |-> [lines |-> <<>>, half |-> "none"]]
    /\ lastId = [s \in Servers |-> 0]
    /\ cache = [s \in Servers |-> NotListed]
    /\ run = Outside
    /\ wait = NoRequest
    /\ answer = NoRequest
    /\ kept = {}

Total(f) == SumFunction(f)

MutStarted(s) == FALSE                  \* entered twice
Started(s) == handle[s] # 0

Process(s) == <<s, handle[s]>>

(* Room for n more requests: what begins can come to its end.              *)
Room(n) == Total(lastId) + n <= MaxRequests

-----------------------------------------------------------------------------
(* Requests.                                                               *)

(* An exception leaves run() through its finally clause.  A caller that    *)
(* enters a server by hand keeps it, even when the handshake has failed.   *)
MutUnwound == Outside                   \* no finally clause
Unwound == IF run.at = "entering-by-hand" THEN Outside
           ELSE [run EXCEPT !.at = "leaving", !.left = run.mine]

Fail ==
    /\ wait' = NoRequest
    /\ run' = Unwound

MutNextId(s, method) ==                 \* counted anew for each process
    IF method = "initialize" THEN 1 ELSE lastId[s] + 1
NextId(s, method) == lastId[s] + 1

Request(s, method, tool, process) ==
    [server |-> s, id |-> NextId(s, method), method |-> method, tool |-> tool,
     process |-> process]

(* _send() to a process that has ended raises.                             *)
Ask(s, method, tool) ==
    /\ wait = NoRequest
    /\ \/ /\ Process(s) \in running
          /\ wait' = Request(s, method, tool, handle[s])
          /\ lastId' = [lastId EXCEPT ![s] = wait'.id]
          /\ inbox' = [inbox EXCEPT ![s] = Append(@, wait')]
          /\ UNCHANGED run
       \/ /\ Process(s) \notin running
          /\ lastId' = [lastId EXCEPT ![s] = NextId(s, method)]
          /\ Fail
          /\ UNCHANGED inbox
    /\ answer' = NoRequest
    /\ UNCHANGED <<handle, running, pipe, buffer, cache, kept>>

(* _readline() takes what is in the pipe, the last line possibly not whole *)
(* yet.  The first line of a process that lands behind what another left   *)
(* of its last one is not JSON.                                            *)
Waiting(s) == wait # NoRequest /\ wait.server = s

ReadChunk(s) ==
    LET half == buffer[s].half IN
    /\ Waiting(s)
    /\ buffer[s].lines = <<>>
    /\ pipe[s] # <<>>
    /\ \E cut \in BOOLEAN :
          LET n     == IF cut THEN Len(pipe[s]) - 1 ELSE Len(pipe[s])
              whole == SubSeq(pipe[s], 1, n)
          IN
          /\ n > 0 \/ half = "none"
          /\ buffer' = [buffer EXCEPT ![s] =
                [lines |-> IF n > 0 /\ half = "orphan"
                           THEN <<[kind |-> "garbage"]>> \o Tail(whole) ELSE whole,
                 half  |-> IF cut THEN "begun" ELSE "none"]]
          /\ pipe' = [pipe EXCEPT ![s] = SubSeq(@, n + 1, Len(@))]
    /\ UNCHANGED <<handle, running, inbox, lastId, cache, run, wait, answer, kept>>

(* No line within the time limit, which starts again with every line; or   *)
(* the end of the file; or the operator interrupts.                        *)
MutGiveUp(s) == FALSE                   \* no deadline
GiveUp(s) == buffer[s].lines = <<>>

TimeOut(s) ==
    /\ Waiting(s)
    /\ GiveUp(s)
    /\ Fail
    /\ UNCHANGED <<handle, running, inbox, pipe, buffer, lastId, cache, answer, kept>>

Interrupt ==
    /\ wait # NoRequest
    /\ Fail
    /\ UNCHANGED <<handle, running, inbox, pipe, buffer, lastId, cache, answer, kept>>

(* What the request was for decides how the caller goes on.  The handshake *)
(* ends with a notification, which a process that has ended cannot take.   *)
MutClash(s, offered) == {}              \* the last one wins
Clash(s, offered) == {b \in run.index : b.tool \in offered /\ b.server # s}

Bind(s, offered) ==
    IF Clash(s, offered) # {} THEN Unwound
    ELSE [run EXCEPT !.left = @ \ {s},
                     !.index = @ \cup [tool: offered, server: {s}]]

Continue(reply) ==
    LET s == wait.server IN
    CASE wait.method = "initialize" /\ Process(s) \notin running ->
            run' = Unwound /\ UNCHANGED cache
      [] wait.method = "initialize" /\ Process(s) \in running /\ run.at = "entering-by-hand" ->
            run' = Outside /\ UNCHANGED cache
      [] wait.method = "initialize" /\ Process(s) \in running /\ run.at = "entering" ->
            run' = [run EXCEPT !.left = @ \ {s}] /\ UNCHANGED cache
      [] wait.method = "tools/list" ->
            run' = Bind(s, reply.tools) /\ cache' = [cache EXCEPT ![s] = Listed(reply.tools)]
      [] wait.method = "tools/call" ->
            UNCHANGED <<run, cache>>

(* _request(): a line that is no JSON raises, another id is skipped -- a   *)
(* notification, a late answer -- and an error or an unusable result       *)
(* raises.                                                                 *)
MutIsReply(line) == line.kind = "reply"
IsReply(line) == line.kind = "reply" /\ line.req.id = wait.id

TakeLine(s) ==
    LET line == Head(buffer[s].lines) IN
    /\ Waiting(s)
    /\ buffer[s].lines # <<>>
    /\ buffer' = [buffer EXCEPT ![s].lines = Tail(@)]
    /\ \/ line.kind # "garbage" /\ ~IsReply(line) /\ UNCHANGED <<cache, run, wait, answer>>
       \/ line.kind = "garbage" /\ Fail /\ UNCHANGED <<cache, answer>>
       \/ IsReply(line) /\ ~line.ok /\ Fail /\ UNCHANGED <<cache, answer>>
       \/ /\ IsReply(line) /\ line.ok
          /\ answer' = [asked |-> wait, for |-> line.req]
          /\ Continue(line)
          /\ wait' = NoRequest
    /\ UNCHANGED <<handle, running, inbox, pipe, lastId, kept>>

-----------------------------------------------------------------------------
(* __enter__() and __exit__().                                             *)

(* Popen, and the first request of the handshake.  The buffer and the      *)
(* cache of an earlier process stay.                                       *)
Enter(s) ==
    /\ ~Started(s)
    /\ wait = NoRequest
    /\ wait' = Request(s, "initialize", NoTool, NextId(s, "initialize"))
    /\ lastId' = [lastId EXCEPT ![s] = wait'.id]
    /\ handle' = [handle EXCEPT ![s] = wait'.id]
    /\ running' = running \cup {<<s, wait'.id>>}
    /\ inbox' = [inbox EXCEPT ![s] = <<wait'>>]
    /\ pipe' = [pipe EXCEPT ![s] = <<>>]
    /\ answer' = NoRequest
    /\ UNCHANGED <<buffer, cache>>

(* Its input is closed; a process that does not end by itself is killed.   *)
Exit(s) ==
    /\ wait = NoRequest
    /\ handle' = [handle EXCEPT ![s] = 0]
    /\ running' = running \ {Process(s)}
    /\ buffer' = [buffer EXCEPT ![s].half = IF @ = "begun" THEN "orphan" ELSE @]
    /\ inbox' = [inbox EXCEPT ![s] = <<>>]
    /\ pipe' = [pipe EXCEPT ![s] = <<>>]
    /\ UNCHANGED <<lastId, cache, wait, answer>>

(* A caller that keeps a server for several conversations.                 *)
EnterByHand(s) ==
    /\ run = Outside
    /\ Enter(s)
    /\ run' = [run EXCEPT !.at = "entering-by-hand"]
    /\ kept' = kept \cup {s}

ExitByHand(s) ==
    /\ run = Outside
    /\ Started(s)
    /\ Exit(s)
    /\ kept' = kept \ {s}
    /\ UNCHANGED run

-----------------------------------------------------------------------------
(* run(): enter what is not running, gather the tools, call some, and exit *)
(* what was entered here.                                                  *)

Begin(servers) ==
    LET mine == {s \in servers : ~Started(s)} IN
    /\ run = Outside
    /\ wait = NoRequest
    /\ run' = [at |-> "entering", servers |-> servers, mine |-> mine,
               left |-> mine, index |-> {}]
    /\ UNCHANGED <<handle, running, inbox, pipe, buffer, lastId, cache, wait, answer, kept>>

EnterNext(s) ==
    /\ run.at = "entering"
    /\ s \in run.left
    /\ Enter(s)
    /\ UNCHANGED <<run, kept>>

(* No executable of that name, or Popen fails.                             *)
EnterFails ==
    /\ run.at = "entering"
    /\ run.left # {}
    /\ wait = NoRequest
    /\ Fail
    /\ UNCHANGED <<handle, running, inbox, pipe, buffer, lastId, cache, answer, kept>>

Advance(from, to, left) ==
    /\ run.at = from
    /\ run.left = {}
    /\ wait = NoRequest
    /\ run' = [run EXCEPT !.at = to, !.left = left]
    /\ UNCHANGED <<handle, running, inbox, pipe, buffer, lastId, cache, wait, answer, kept>>

Gather(s) ==
    /\ run.at = "gathering"
    /\ s \in run.left
    /\ \/ cache[s] = NotListed /\ Ask(s, "tools/list", NoTool)
       \/ /\ cache[s] # NotListed
          /\ wait = NoRequest
          /\ run' = Bind(s, cache[s].tools)
          /\ UNCHANGED <<handle, running, inbox, pipe, buffer, lastId, cache,
                         wait, answer, kept>>

(* A name that is not in the index is answered with a text, by nobody.     *)
CallTool(b) ==
    /\ run.at = "talking"
    /\ b \in run.index
    /\ Room(1)
    /\ Ask(b.server, "tools/call", b.tool)

(* The conversation is over, or refused, or its own part of it fails.      *)
EndRun ==
    /\ run.at = "talking"
    /\ wait = NoRequest
    /\ run' = Unwound
    /\ UNCHANGED <<handle, running, inbox, pipe, buffer, lastId, cache, wait, answer, kept>>

Leave(s) ==
    /\ run.at = "leaving"
    /\ s \in run.left
    /\ Exit(s)
    /\ run' = [run EXCEPT !.left = @ \ {s}]
    /\ UNCHANGED kept

Return ==
    /\ run.at = "leaving"
    /\ run.left = {}
    /\ run' = Outside
    /\ UNCHANGED <<handle, running, inbox, pipe, buffer, lastId, cache, wait, answer, kept>>

-----------------------------------------------------------------------------
(* A server: it takes a request and may answer it, once, in its own time,  *)
(* notifies whenever it likes, writes something that is no JSON, or ends.  *)
(* What it writes while nobody reads is seen no sooner than the next time  *)
(* it is waited for, and is written then.                                  *)

Writes(s, line) ==
    /\ Waiting(s)
    /\ Process(s) \in running
    /\ Total([t \in Servers |-> Len(pipe[t]) + Len(buffer[t].lines)]) < MaxLines
    /\ pipe' = [pipe EXCEPT ![s] = Append(@, line)]

Answer(s, ok, offered) ==
    /\ inbox[s] # <<>>
    /\ Head(inbox[s]).method = "tools/list" \/ offered = {}
    /\ Writes(s, [kind |-> "reply", req |-> Head(inbox[s]), ok |-> ok, tools |-> offered])
    /\ inbox' = [inbox EXCEPT ![s] = Tail(@)]
    /\ UNCHANGED <<handle, running, buffer, lastId, cache, run, wait, answer, kept>>

Ignore(s) ==
    /\ Waiting(s)
    /\ Process(s) \in running
    /\ inbox[s] # <<>>
    /\ inbox' = [inbox EXCEPT ![s] = Tail(@)]
    /\ UNCHANGED <<handle, running, pipe, buffer, lastId, cache, run, wait, answer, kept>>

Chatter(s) ==
    /\ \E kind \in {"notice", "garbage"} : Writes(s, [kind |-> kind])
    /\ UNCHANGED <<handle, running, inbox, buffer, lastId, cache, run, wait, answer, kept>>

Die(s) ==
    /\ Process(s) \in running
    /\ running' = running \ {Process(s)}
    /\ inbox' = [inbox EXCEPT ![s] = <<>>]
    /\ UNCHANGED <<handle, pipe, buffer, lastId, cache, run, wait, answer, kept>>

Serve(s) ==
    \/ \E ok \in BOOLEAN, offered \in SUBSET Tools : Answer(s, ok, offered)
    \/ Ignore(s) \/ Chatter(s) \/ Die(s)

Receive(s) == ReadChunk(s) \/ TakeLine(s) \/ TimeOut(s)

Next ==
    \/ \E s \in Servers : Serve(s) \/ Receive(s)
    \/ Interrupt
    \/ \E s \in Servers : Room(1) /\ EnterByHand(s)
    \/ \E s \in Servers : ExitByHand(s)
    \/ \E servers \in SUBSET Servers : Room(2 * Cardinality(servers)) /\ Begin(servers)
    \/ \E s \in Servers : EnterNext(s) \/ Gather(s) \/ Leave(s)
    \/ EnterFails
    \/ Advance("entering", "gathering", run.servers)
    \/ Advance("gathering", "talking", {})
    \/ \E b \in [tool: Tools, server: Servers] : CallTool(b)
    \/ EndRun \/ Return

Spec == Init /\ [][Next]_vars

(* The client waits with a deadline; nothing is assumed of a server.       *)
FairSpec == Spec /\ \A s \in Servers : WF_vars(Receive(s))

-----------------------------------------------------------------------------
(* Properties.                                                             *)

Requests(s) ==
    [server: {s}, id: 1..lastId[s], tool: Tools \cup {NoTool},
     method: {"initialize", "tools/list", "tools/call"}, process: 1..lastId[s]]

Lines(s) ==
    [kind: {"notice", "garbage"}] \cup
    [kind: {"reply"}, req: Requests(s), ok: BOOLEAN, tools: SUBSET Tools]

Caches == {NotListed} \cup {Listed(tools) : tools \in SUBSET Tools}

(* The types: what stands in a server's pipes and in the client's buffer   *)
(* was asked, or answers what was asked, of that server.                   *)
McpTypeOK ==
    /\ lastId \in [Servers -> Nat]
    /\ handle \in [Servers -> Nat]
    /\ \A s \in Servers :
        /\ handle[s] <= lastId[s]
        /\ inbox[s] \in Seq(Requests(s))
        /\ pipe[s] \in Seq(Lines(s))
        /\ buffer[s] \in [lines: Seq(Lines(s)), half: Halves]
    /\ running \subseteq Servers \X (Nat \ {0})
    /\ cache \in [Servers -> Caches]
    /\ run \in [at: {"outside", "entering-by-hand", "entering", "gathering",
                     "talking", "leaving"},
                servers: SUBSET Servers, mine: SUBSET Servers, left: SUBSET Servers,
                index: SUBSET [tool: Tools, server: Servers]]
    /\ wait # NoRequest => \E s \in Servers : wait \in Requests(s)
    /\ answer # NoRequest =>
        \E s \in Servers : answer.asked \in Requests(s) /\ answer.for \in Requests(s)
    /\ kept \subseteq Servers

(* What _request() returns is the answer to what it asked: not to an       *)
(* earlier request that was given up on, nor to one of an earlier process, *)
(* whatever is still in the pipe or in the buffer.                         *)
AnswersAreOwn == answer # NoRequest => answer.for = answer.asked

(* A tool the model is offered belongs to one server, the one that will be *)
(* asked to run it, though a server may have listed its tools for another  *)
(* conversation, or another process.                                       *)
OneOwner ==
    run.at = "talking" =>
        /\ \A b \in run.index : {s \in run.servers : b.tool \in cache[s].tools} = {b.server}
        /\ \A s \in run.servers : cache[s].tools \subseteq {b.tool : b \in run.index}

(* No process outlives its handle, and a run stops what it started and     *)
(* leaves alone what it did not start, whatever ends it.                   *)
NothingLeftBehind ==
    /\ running \subseteq {Process(s) : s \in Servers}
    /\ run = Outside => {s \in Servers : Started(s)} = kept

(* A request ends, with its answer or without: only a server that never    *)
(* stops writing is waited for forever, because the deadline starts again  *)
(* with every line.                                                        *)
SilenceIsEnded ==
    \/ []<>(wait = NoRequest)
    \/ []<><<\E s \in Servers : Chatter(s)>>_vars
=============================================================================
