---------------------------- MODULE Conversation ----------------------------
(***************************************************************************)
(* `shinobi llm ask`: the conversation loop of llm/agent.py over the       *)
(* transport of llm/transport.py and the gate of egress.py.                *)
(*                                                                         *)
(* A turn asks a person to approve the whole request, asks the gate,       *)
(* connects to the candidate addresses the gate resolved, one after the    *)
(* other, until one answers, and runs the tools the answer asks for, whose *)
(* results make the next request.  A request is abstracted to the sequence *)
(* of tool results in it: that is all that tells one turn's text from      *)
(* another's.                                                              *)
(***************************************************************************)
EXTENDS EgressGate, Sequences, FiniteSets

CONSTANTS
    ToolResults,    \* what a tool may return to the conversation
    MaxTurns        \* max_turns

ASSUME TurnsAssumption == MaxTurns \in Nat \ {0}
ASSUME PromptsAreConversations ==
    Prompts = UNION {[1..n -> ToolResults] : n \in 0..(MaxTurns - 1)}

VARIABLES
    talk,   \* talk[c]: the local state of one run()
    wire    \* history: the requests written to a socket

convVars == <<talk, wire>>
allVars  == <<gateVars, convVars>>

(* Where the approvals of a run come from: nobody (--yes, or a local       *)
(* provider), --approval-id, or a person, waited for or not (--no-wait).   *)
Approvers == {"none", "given", "wait", "nowait"}

Ended == {"answered", "egress-refused", "loop-refused", "transport-refused",
          "transport-error", "wire-error", "not-json", "wrong-type",
          "mcp-error", "raised", "killed"}

NotStarted == [at |-> "not-started"]

ConvInit ==
    /\ GateInit
    /\ talk = [c \in Callers |-> NotStarted]
    /\ wire = {}

Goto(c, step) == talk' = [talk EXCEPT ![c].at = step]

-----------------------------------------------------------------------------
(* One turn: the request, its approval, and the gate.                      *)

MutDigest(messages) == <<>>      \* the operator's words, not the request
Digest(messages) == messages

RequestOf(c) == [provider |-> talk[c].provider, model |-> talk[c].model,
                 prompt |-> Digest(talk[c].messages)]

(* _cmd_ask(): a local provider never gets an approver.                    *)
Start(c, p, m, approver, i) ==
    /\ talk[c] = NotStarted
    /\ p \in DOMAIN manifest
    /\ ~IsCloud(p) => approver = "none"
    /\ (approver = "given") = (i # NoId)
    /\ talk' = [talk EXCEPT ![c] =
                  [at |-> "ask", turn |-> 1, provider |-> p, model |-> m,
                   messages |-> <<>>, approver |-> approver, permit |-> i,
                   left |-> {}, peer |-> {}]]
    /\ UNCHANGED <<gateVars, wire>>

(* The approver that is not a person: none, or one id for the first turn.  *)
UsePermit(c) ==
    /\ talk[c].at = "ask"
    /\ \/ talk[c].approver = "none" /\ Goto(c, "authorize")
       \/ /\ talk[c].approver = "given"
          /\ Goto(c, IF talk[c].turn = 1 THEN "authorize" ELSE "loop-refused")
    /\ UNCHANGED <<gateVars, wire>>

(* interactive_approver(): create() an approval for the request ...        *)
AskPerson(c, i) ==
    /\ talk[c].at = "ask"
    /\ talk[c].approver \in {"wait", "nowait"}
    /\ RequestApproval(i, RequestOf(c))
    /\ talk' = [talk EXCEPT
                  ![c].at = IF talk[c].approver = "wait" THEN "await"
                                                         ELSE "loop-refused",
                  ![c].permit = i]
    /\ UNCHANGED wire

(* ... which raises when the store cannot be written ...                   *)
AskFails(c) ==
    /\ talk[c].at = "ask"
    /\ talk[c].approver \in {"wait", "nowait"}
    /\ Goto(c, "raised")
    /\ UNCHANGED <<gateVars, wire>>

(* ... and poll it until it is resolved, or unreadable, or time is up.  A  *)
(* poll that meets set_state() between its truncation and its write ends   *)
(* the run as the timeout does.                                            *)
Poll(c) ==
    LET i == talk[c].permit IN
    /\ talk[c].at = "await"
    /\ \/ i \in sanctioned /\ Goto(c, "authorize")
       \/ i \in void /\ Goto(c, "loop-refused")
    /\ UNCHANGED <<gateVars, wire>>

MutApprovalTimeout(c) == FALSE           \* polled without a deadline
ApprovalTimeout(c) ==
    /\ talk[c].at = "await"
    /\ Goto(c, "loop-refused")
    /\ UNCHANGED <<gateVars, wire>>

CallGate(c) ==
    /\ talk[c].at = "authorize"
    /\ Authorize(c, RequestOf(c), talk[c].permit)
    /\ Goto(c, "gate")
    /\ UNCHANGED wire

Decide(c) ==
    /\ talk[c].at = "gate"
    /\ GateStep(c)
    /\ UNCHANGED convVars

GateRefuses(c) ==
    /\ talk[c].at = "gate"
    /\ gate[c].at \in {"refused", "raised"}
    /\ Goto(c, IF gate[c].at = "refused" THEN "egress-refused" ELSE "raised")
    /\ UNCHANGED <<gateVars, wire>>

-----------------------------------------------------------------------------
(* post(): from a cleared decision to a response.                          *)

MutCleared(c) == gate[c].at \in {"record", "cleared"} \* before the intent
Cleared(c) == gate[c].at = "cleared"

(* Record the outcome and go on: finish() is part of the step, and what it *)
(* raises ends the run.                                                    *)
Conclude(c, ok, step) ==
    /\ Finish(c, ok)
    /\ Goto(c, IF gate'[c].at = "raised" THEN "raised" ELSE step)
    /\ UNCHANGED wire

(* get_key(), when the provider needs one: the stored key may be gone.     *)
GetKey(c) ==
    LET p == talk[c].provider IN
    /\ talk[c].at = "gate"
    /\ Cleared(c)
    /\ \/ /\ manifest[p].key => p \in keys
          /\ talk' = [talk EXCEPT ![c].at = "connect",
                                  ![c].left = gate[c].peers]
          /\ UNCHANGED <<gateVars, wire>>
       \/ manifest[p].key /\ Conclude(c, FALSE, "loop-refused")

Others(c, a) == talk[c].left \ {a}

MutPeerPermitted(c, q) == TRUE           \* the socket is not asked
PeerPermitted(c, q) == q \in gate[c].allowed

(* A candidate does not answer; or the socket's own peer is what is        *)
(* compared with the peers that were cleared.                              *)
ConnectFails(c, a) ==
    /\ talk[c].at = "connect"
    /\ a \in talk[c].left
    /\ talk' = [talk EXCEPT ![c].left = Others(c, a)]
    /\ UNCHANGED <<gateVars, wire>>

Connect(c, a, q) ==
    /\ talk[c].at = "connect"
    /\ a \in talk[c].left
    /\ \/ /\ PeerPermitted(c, q)
          /\ talk' = [talk EXCEPT ![c].at = "send", ![c].peer = {q},
                                  ![c].left = Others(c, a)]
          /\ UNCHANGED <<gateVars, wire>>
       \/ ~PeerPermitted(c, q) /\ Conclude(c, FALSE, "transport-refused")

NoCandidate(c) ==
    /\ talk[c].at = "connect"
    /\ talk[c].left = {}
    /\ Conclude(c, FALSE, "transport-error")

Send(c) ==
    /\ talk[c].at = "send"
    /\ wire' = wire \cup {[call |-> CallId(c), provider |-> talk[c].provider,
                           messages |-> talk[c].messages,
                           peer |-> talk[c].peer]}
    /\ Goto(c, "receive")
    /\ UNCHANGED gateVars

(* The socket fails while the answer is read: on to the next candidate.    *)
AnswerLost(c) ==
    /\ talk[c].at = "receive"
    /\ Goto(c, "connect")
    /\ UNCHANGED <<gateVars, wire>>

(* Responses that end the run: a redirect, a body over the limit, a body   *)
(* that is no JSON, and one that is no completion.  Response.json() raises *)
(* where nothing calls finish(); so does wire.parse() when a part of the   *)
(* body has the wrong type, which is no WireError.                         *)
MutUnrecorded == {"not-json", "wrong-type", "wire-error"}
Unrecorded == {"not-json", "wrong-type"}

BadAnswer(c, kind) ==
    /\ talk[c].at = "receive"
    /\ kind \in {"transport-refused", "transport-error", "wire-error"}
                \cup Unrecorded
    /\ \/ kind \in Unrecorded /\ Goto(c, kind) /\ UNCHANGED <<gateVars, wire>>
       \/ kind \notin Unrecorded /\ Conclude(c, FALSE, kind)

(* A completion: text, tool calls to run, or more of them than a turn may  *)
(* have.                                                                   *)
GoodAnswer(c, step) ==
    /\ talk[c].at = "receive"
    /\ step \in {"answered", "tools", "loop-refused"}
    /\ Conclude(c, TRUE, step)

-----------------------------------------------------------------------------
(* The tools of a turn, and the next turn.                                 *)

(* A refused tool is a result like another; a broken server ends the run.  *)
ToolServerFails(c) ==
    /\ talk[c].at = "tools"
    /\ Goto(c, "mcp-error")
    /\ UNCHANGED <<gateVars, wire>>

MutTurnsLeft(c) == talk[c].turn <= MaxTurns
TurnsLeft(c) == talk[c].turn < MaxTurns

RunTools(c, result) ==
    /\ talk[c].at = "tools"
    /\ Leave(c)
    /\ talk' = [talk EXCEPT ![c] =
                  IF TurnsLeft(c)
                  THEN [talk[c] EXCEPT !.at = "ask", !.turn = talk[c].turn + 1,
                                       !.messages = Append(talk[c].messages, result)]
                  ELSE [talk[c] EXCEPT !.at = "loop-refused"]]
    /\ UNCHANGED wire

Kill(c) ==
    /\ talk[c].at \notin Ended \cup {"not-started"}
    /\ Goto(c, "killed")
    /\ UNCHANGED <<gateVars, wire>>

(* What the run does by itself, given that every wait of it is bounded: a  *)
(* poll and a connect by their timeouts.                                   *)
Advance(c) ==
    \/ UsePermit(c)
    \/ \E i \in Ids : AskPerson(c, i)
    \/ AskFails(c)
    \/ Poll(c) \/ ApprovalTimeout(c)
    \/ CallGate(c) \/ Decide(c) \/ GateRefuses(c)
    \/ GetKey(c)
    \/ \E a \in Addresses : ConnectFails(c, a)
    \/ \E a, q \in Addresses : Connect(c, a, q)
    \/ NoCandidate(c) \/ Send(c)

(* What ends a wait for a provider or a tool: its answer, or a timeout,    *)
(* which counts from what was read last -- an interim reply, or a line.    *)
HearPeer(c) ==
    \/ AnswerLost(c)
    \/ \E kind \in Ended : BadAnswer(c, kind)
    \/ \E step \in Ended \cup {"tools"} : GoodAnswer(c, step)
    \/ ToolServerFails(c)
    \/ \E result \in ToolResults : RunTools(c, result)

Proceed(c) == Advance(c) \/ HearPeer(c)

(* `shinobi approval request`, for the --approval-id of a run to come: one *)
(* made after every run has started concerns none of them.                 *)
Prepare ==
    /\ \E c \in Callers : talk[c] = NotStarted
    /\ \E i \in Ids, req \in Requests :
          /\ IsCloud(req.provider)
          /\ req.prompt # NotText
          /\ RequestApproval(i, req)
    /\ UNCHANGED convVars

ConvNext ==
    \/ \E c \in Callers, p \in Providers, m \in Models, k \in Approvers,
          i \in Ids \cup {NoId} : Start(c, p, m, k, i)
    \/ \E c \in Callers : Proceed(c) \/ Kill(c)
    \/ Operators /\ UNCHANGED convVars
    \/ Prepare

ConvSpec == ConvInit /\ [][ConvNext]_allVars

(* A peer that never stops sending is waited for without end, so nothing   *)
(* is assumed of HearPeer.                                                 *)
FairConvSpec == ConvSpec /\ \A c \in Callers : WF_allVars(Advance(c))

-----------------------------------------------------------------------------
(* Properties.                                                             *)

ConvTypeOK ==
    /\ GateTypeOK
    /\ talk \in [Callers ->
          {NotStarted} \cup
          [at: Ended \cup {"ask", "await", "authorize", "gate", "connect",
                           "send", "receive", "tools"},
           turn: 1..MaxTurns, provider: Providers, model: Models,
           messages: Prompts, approver: Approvers,
           permit: Ids \cup {NoId}, left: SUBSET Addresses,
           peer: SUBSET Addresses]]
    /\ wire \subseteq [call: CallIds, provider: Providers, messages: Prompts,
                       peer: SUBSET Addresses]

RecordsFor(call, phase) == {e \in trail : e.call = call /\ e.phase = phase}

(* The intent record is written before the request: a prompt on a socket   *)
(* always has one, whatever kills the client.                              *)
IntentBeforeWire ==
    \A s \in wire : RecordsFor(s.call, "intent") # {}

(* "Every turn is separately approved": whatever has been written to a     *)
(* cloud provider, a person approved that very text for that provider, and *)
(* no approval stands for two texts.                                       *)
EverySendWasApproved ==
    \A s \in wire : IsCloud(s.provider) =>
        \E i \in sanctioned :
            /\ spender[i] = s.call
            /\ asked[i].call.prompt = s.messages
            /\ asked[i].call.provider = s.provider

(* The socket a prompt is written to ends on an address that was vouched   *)
(* for during the gate call of this very turn, although the name may have  *)
(* been rebound since, and although a socket may end elsewhere than it was *)
(* sent.                                                                   *)
PromptsStayWithPeers ==
    \A s \in wire : s.peer \subseteq Vouched(s.call, s.provider)

Abandoned == {"not-json", "wrong-type", "raised", "killed"}

(* Once a turn is over, what was sent in it has its result, and only one,  *)
(* unless the client was killed, its log could not be written, or the      *)
(* provider's answer was no JSON or had a part of the wrong type.          *)
TurnIsOver(c, s) ==
    \/ s.call # CallId(c)
    \/ talk[c].at \in {"tools"} \cup (Ended \ Abandoned)

SendsAreAccounted ==
    \A s \in wire :
        LET results == Cardinality(RecordsFor(s.call, "result")) IN
        /\ results <= 1
        /\ TurnIsOver(s.call[1], s) => results = 1

(* A run ends, unless one provider or one tool never stops sending to it:  *)
(* neither approvers nor turns, candidates or lost answers keep it going.  *)
RunsEnd ==
    \A c \in Callers :
        \/ []<>(talk[c].at \in Ended \cup {"not-started"})
        \/ <>[](talk[c].at = "receive")
        \/ <>[](talk[c].at = "tools")

SentBy(c) == {s \in wire : s.call[1] = c}

(* egress.py:809: finish() is "called by the client after the request      *)
(* completes", so a run that has ended by itself has finished its request. *)
CompletedMeansFinished ==
    \A c \in Callers : talk[c].at \in Ended \ {"raised", "killed"} =>
        \A s \in SentBy(c) : RecordsFor(s.call, "result") # {}
=============================================================================
