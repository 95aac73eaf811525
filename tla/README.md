# Shinobi OS, specified

Shinobi OS gives an AI agent access to security tools, and decides in code what
the agent may do: which hosts a tool may touch (scope), which single calls a
person has to approve (approvals), which prompts may leave the machine (egress),
and what is left behind as evidence (the engagement log and the audit journal).
This directory holds TLA+ specifications of those decisions, TLC
configurations that check them on small instances, and proofs that TLAPS checks
for every instance.

All source paths are relative to the repository's root `src/`;
`shinobi_control/` stands for `libexec/shinobi/shinobi_control/` and
`shinobi_recon/` for `mcp-servers/shinobi-recon/shinobi_recon/`.

## 1. The system

### Components

| Component | State it keeps | Operations | Correct when |
|---|---|---|---|
| Approval store (`shinobi_control/approval.py`, `bin/shinobi-approval`) | one JSON file per approval, one `.claimed` file | create, set_state, consume, list, get | an approval is spent once, as asked, after a person's yes |
| Egress gate (`shinobi_control/egress.py`, `bin/shinobi-egress`) | the engagement log (appended) | authorize, finish | no prompt is cleared that the engagement, the profile and a person have not allowed; refusals spend nothing and leave evidence |
| LLM conversation (`shinobi_control/llm/agent.py`, `llm/transport.py`, `shinobi-llmctl`) | the messages so far | ask: turns of approve, authorize, post, tools | every text on the wire is the text that was approved, and went to a peer vouched for in its own turn |
| LLM wire formats (`llm/wire.py`) | none | build, parse | what is parsed is what was sent |
| MCP client (`llm/mcp.py`) | subprocesses, request ids, a buffer, the tools listed | enter, list, call, exit, gather | an answer belongs to its own request, a tool to one server, and no process is left behind |
| Recon MCP server (`shinobi_recon/`) | the engagement log (appended) | nmap_scan, dns_lookup, whatweb_scan, http_headers | no program is pointed at a host out of scope, every redirect is checked, and an intent record comes first |
| Agent daemon (`daemon.py`, `policy.py`, `protocol.py`, `registry.py`, `dbus_adapter.py`) | connections, handler threads | dispatch | a refusal means nothing ran, an answer means it is in the journal |
| Audit journal (`audit.py`) | one append-only file | write | follows what happened |
| Provider registry (`providerctl.py`) | manifest files, three layers of the default provider | set, clear, resolve the default; list, check, readiness | a choice is never replaced by somebody else's; a change is whole, and in the journal or reported |
| Credentials (`credentials.py`) | keyring or key files | set, get, forget | a key is whole or absent |
| Agent registry and set-up (`agentreg.py`, `agentsetup.py`, `bin/shinobi-agent`) | installed agents, the default one | install, login, setup, launch | vendor code runs only after its intent record and a yes to this question; its outcome is recorded |
| Engagements (`bin/shinobi-engagement`) | directories, the state file of the current one | new, use, archive | names one directory under one root |
| Evidence (`evidencectl.py`) | an index of files | add, tag | no lost entries |
| Updates and snapshots (`bin/shinobi-update`, `bin/shinobi-snapshot`) | a lock, transaction records | update, snapshot | one at a time; a crash is visible |
| Hooks and events (`bin/shinobi-hook`, `events.py`) | none | run | bounded, in order |
| Context daemon (`contextd.py`) | none | query | reads only |
| Configuration commands, desktop, installer, image, packages | files | one-shot commands | not modelled, see section 7 |

### How they interact

Nothing here shares memory except the daemon and its handler threads.
Processes meet in files: approvals, `scope.yaml`, the profile, the
current engagement, key files and logs. Any of them may be changed by an
operator between two reads of a gate.

    shinobi llm ask --> agent.run --> egress.authorize --> approval.consume
                          |   |             |
                          |   |             +--> engagement log, audit
                          |   +--> transport.post --> provider
                          +--> MCP server --> shinobi-approval consume (subprocess)
                                    |
                                    +--> engagement log, nmap, getaddrinfo, HTTP
    shinobi-agentctl / D-Bus --> agentd.dispatch --> policy --> approval.consume
                                    +--> handler thread, audit journal
    shinobi approval approve|deny --> approval.set_state
    shinobi provider default|key|forget --> settings and key files --> audit journal
    shinobi agent install|login|setup --> terminal --> vendor's code --> audit journal

### What is hard

* Approvals are files without a lock: resolvers and consumers interleave at the
  granularity of open, truncate and write, and may die between them.
* The gate decides on five facts that it reads one after the other.
* A conversation's text grows with every turn, and its approvals must not.
* A name may be rebound between its resolution and the connection, a declared peer may be a name itself, and
  redirects move a call to a host nobody checked, some of them inside a program.
* The daemon gives up waiting for a handler that goes on running.
* Logs, approvals and helpers may fail in the middle of a decision.
* An MCP server answers late, chatters, falls silent or dies, and what it wrote
  is still in a pipe or a buffer when the next request begins.
* A person types ahead, and vendor code runs in the middle of a set-up.
* Commands change one setting at once, through files without a lock, and record
  the change after it was made.

`PROJECT.json` lists these hazards line by line, with the properties aimed at each.

## 2. The modules

| Module | Models | Uses |
|---|---|---|
| `Permit` | what the approval store promises: asked, sanctioned, spent | |
| `Approval` | the store as files, claims and processes | `Permit` (implements it) |
| `ApprovalProofs` | theorems about `Approval` | `Approval` |
| `PermitProofs` | what holds of permits whoever uses them, and lemmas that count them | `Permit` |
| `EgressGate` | authorize() and finish(), and the operators around them | `Permit` |
| `Conversation` | `shinobi llm ask` over the gate and the network | `EgressGate` |
| `ReconServer` | the recon MCP server | `Permit` |
| `AgentDaemon` | the control-plane daemon and its threads | `Permit` |
| `McpClient` | the MCP client, its servers' processes and pipes, and the run that uses them | |
| `AgentSetup` | agent set-up: the terminal, the vendor's code, the journal | |
| `SettingStore` | what the provider commands promise of the settings they change | |
| `ProviderSettings` | those commands as processes over files | `SettingStore` (implements it) |
| `EgressProofs` | theorems about `EgressGate`, and about `Conversation` over it | `Conversation` |
| `ReconServerProofs`, `AgentDaemonProofs`, `McpClientProofs`, `AgentSetupProofs`, `ProviderSettingsProofs` | theorems about the module of that name | that module; the server's and the daemon's also `PermitProofs` |
| `MC*` | small instances for TLC | the module of that name |

`Permit` is the joint of the project. Below it, `Approval` models every
system call of the store that another process can see, and is shown to implement
`Permit` (checked by TLC, proved by TLAPS). Above it, the three users of approvals are
written against `Permit`'s state, so that they need not repeat the store's
interleavings: a step that spends a permit has `Permit`'s guard, because that is what consume() promises. That they
implement `PermitSpec` follows from this and is not stated as a result; the results are what they do with the permits,
`CloudIsApproved`, `EverySendWasApproved`, `ScansAreApproved` and `RunsAreApproved`.

### Approval

`file[i]` is what `<i>.json` holds, as the record written last and the number of
bytes there: `Path.write_text` truncates and then writes, so a reader may find
an empty file, and a shorter record written over a longer one leaves a tail, after
which the file no longer parses, unless the tail is one byte, a newline. `claim` is the set of `.claimed` files. `create()` writes a private
file and renames it, and is one step. `set_state()` is `ReadPending`,
`TruncateForVerdict`, `WriteVerdict`; `consume()` is `ReadApproved`, `CheckRequest`,
`ClaimOnce` or `FindClaimed` (O_EXCL), `TruncateForStamp`, `WriteStamp`. Any process may be killed between
two steps, the machine may be rebooted into or out of the live image, and time passes.
A failed check ends a call with no effect. `told` remembers the verdicts that were reported, and `contested`
the approvals that two resolvers had in hand at once.

### EgressGate

`manifest` is what is installed: which providers have a manifest that parses, and its fields; an instance starts
with any member of `Manifests`. `gate[c]` is the state of one authorize() call: `Locate` reads the engagement,
`ReadScope` the manifest, the model and the scope file, `Resolve` the addresses of the provider's host, `VouchFor` those
of each declared peer, in any order, `Confine` compares the two, `Guard` has the
clearance, the profile and the key store, `SpendApproval` consumes, `RecordIntent`
logs. Facts that are read one immediately after the other and cannot both
matter are one step. `Refuse` and `RecordRefusal` are the two trails of a refusal, in
their order. A log or an approval that cannot be written raises an OSError
that nobody catches (`Raise`); the audit's OSError is swallowed (`Journal`). `ChangeSettings`
lets operators and the network change every fact at any moment. A name in `Names` stands for what `resolves` says at the moment it is
asked, whether it is the provider's host or a peer it declares; an address stands for itself. `answers` is history: what the names that a local provider
declares resolved to while a call was vouching for its peers. `Vouched` is made of it: where a request of that call may land. `void` holds
approvals that were denied, cancelled, torn or have expired: what the store does to make
them so is `Approval`'s business.

### Conversation

`talk[c]` is one run of `shinobi llm ask`. An approval may have been prepared before (`Prepare`), and asking for one
may fail (`AskFails`). `Start` chooses the approver as `_cmd_ask()` does.
A turn is `UsePermit` or `AskPerson` and `Poll`, `CallGate` and the gate's own steps,
`GetKey`, `Connect` or `ConnectFails` per candidate address, `Send`, and one of
`GoodAnswer`, `BadAnswer` and `AnswerLost`; `RunTools` begins the next turn with a text
that is longer by the tools' results. The text of a request is the sequence
of tool results in it. `wire` remembers what was written to sockets.
A response is a completion (`GoodAnswer`), or one that ends the run with a result on record (a redirect, a body over the limit, a
`WireError`), or without one: `"not-json"` is the TransportError of `Response.json()`, `"wrong-type"` the AttributeError,
TypeError or ValueError of wire.parse() when a part of the body has the wrong type. An exception that nothing catches ends the process; apart from those that
leave a trace (`"raised"`, `"not-json"`, `"wrong-type"`), `Kill` stands for them. `Advance` is what a run does by itself; `HearPeer` waits for a provider or a tool.

### ReconServer

`call[s]` is the one call a server handles (its tools are not coroutines, so there is
one at a time); several servers may run. `FindEngagement` is the lookup for the
log, `CheckScope` the separate lookup for the scope, `RecordIntent` the intent, `AskForApproval`,
`ConsumeApproval` and `HelperFails` the subprocess `shinobi-approval`, `Run` a program, which touches its target, or nothing, and
also any other hosts if it is one that goes there by itself (`Wanders`: whatweb follows redirects by default and is not told otherwise, and so do scripts of
nmap, which the profiles in `Scripted` run),
`AuthorizeHop`, `HostAnswers`, `HostFails` and `Redirect` the HTTP client,
`RecordRefusal` and `RecordResult` the end. `records` holds the audit records; one that is not `kept` was only printed to
stderr, because no engagement was found for the log. `touched`, `inScope` and `absent`, the calls during which the engagement was for a moment not usable, are history.

### AgentDaemon

`conn[c]` is a request on its connection, `job[c]` its handler in the thread
pool. dispatch() has no await before the handler, so everything up to `Await`
is one step of the event loop: `Reject`, `Describe`, `Deny`, `RequireApproval`,
`SubmitFree`, `SubmitApproved`, `StoreFails`. A file that another process
changes within such a step is taken to change before or after it. `TimeOut` cancels what is still queued
and leaves a thread that runs; `Collect` is a handler that ended in time. `Recorded` writes the
journal and then answers, or, when the journal cannot be written, answers with an
internal error, which the model names "internal" and the code "failed", like a failed call, but with a text of its own. `Drop` is the answer that cannot be encoded: encode() is outside
handle()'s try, so the connection ends with no answer, although the journal may say "completed". The registry is a constant: the three capabilities that are
registered today need no approval, but dispatch() serves those that do, and the
repository's tests register some.

### McpClient

`handle[s]` is the process the client holds, named by the request it was started for; `inbox`, `pipe` and
`buffer` are what stands in its standard input, its standard output and the client's buffer, whose last line may be
half read (`half`). `lastId` and `cache` belong to the object and survive a restart of its server, as in the code: a half
line of a dead process is an "orphan", glued to what the next process writes. `run` is the call of run(): `EnterNext`, `Gather`,
`CallTool` and `Leave`; a caller may also have entered a server itself (`EnterByHand`), which a run uses and does not
stop. `Enter` is Popen and the first request of the handshake; `TakeLine` is _request()'s loop, and
`Continue` what follows a reply. `GiveUp` says when a deadline may end a wait: it is set anew for each line, so only silence
ends one. `Interrupt` is Ctrl-C while the client waits. A server is external: it answers
requests in any order and late, or ignores them, and may write notices, garbage and half lines, or die.

### AgentSetup

`session[s]` is one invocation: the command, its step, where it stands (`at`), how the operator took note of the notice
(`ack`), and its exit. `typed` is the terminal's queue, and each line carries the question it was typed at. `Ask` is the flush and the
question, `Answer` the reading, `RecordStart`, `RunVendor`, `VendorReads`, `VendorEnds`,
`Finish` and `RecordResult` a step with vendor code, `Interrupt` Ctrl-C. A record that cannot be written
before the vendor's code stops the command; one after it sets `unaudited`, which the operator is told. The binary may come and go at
any moment (`ChangeBinary`), and `shinobi default agent` sets the default by hand, without login or record (`DefaultByHand`).

### SettingStore and ProviderSettings

`cmd[c]` is a process that runs one command. `Get` loads the registry, which is all or nothing; `WriteDefault` is a
private temporary file and its rename, `CreateTemp`, `FillTemp`, `RenameTemp` and `Chmod` a key's one temporary file, opened
with O_EXCL; `Unlink` clears the default or forgets a key; `Record` writes the journal after the change. `AskDefault` and
`ReadLayer` look for the default layer by layer, and `LoadManifest` loads the registry once more. Any command may
be killed between two steps (`Leave`); its temporary key file then stays, and is removed by hand (`RemoveStale`) as
set_key()'s message says. `held` is history: what each layer held while a question was being asked.

`SettingStore` has none of the files. A job is asked for, made in one step, entered in the journal, and ends "clean" or
"failed"; only a job that is entered, or had nothing to remove, is clean. `ImplementsStore` maps the default
and each key to a slot, and the stages of a command to the stages of a job. The mapping is where the two
halves of a change meet: the rename is the change, all before it is "asked", `chmod` and the journal come after.

## 3. The runs

| Run | What it shows |
|---|---|
| `approval_race` | Two resolvers, two consumers, one approval, expiry, kills, reboots: single use, spent as asked, no invented consumption, verdicts stand, the permit is implemented, torn stays dead |
| `gate_facts` | One call, both kinds of provider, a local one with a declared name, everything changing: refusals spend nothing, decisions are evidenced, addresses were vouched for in this call |
| `gate_contention` | Two callers, two prompts, one approval: cleared cloud requests have their own approval |
| `conversation_turns` | Two turns, with a cloud or a local provider, under every approver: intent before wire, every send approved, peers, results; and the conversation ends, unless a provider or a tool never stops sending |
| `recon_calls` | Every tool and failure of one server, with programs that stay and programs that wander: scope at every hop, intent before touch, records that tell the truth; every call ends, unless a host never stops sending |
| `recon_approvals` | Two servers, two scans: as many scans as approvals |
| `daemon_calls` | Two requests, two approvals, one thread: replies and journal are true, as many runs as approvals, an answered call does not start, every request is answered, unless the daemon dies or the result cannot be encoded |
| `mcp_calls` | Two servers, four requests: answers belong to their requests, tools to one server, no process outlives its handle, silence is ended |
| `agent_setup` | Every command, typing ahead, binaries that come and go, failures and interrupts, a default set by hand: vendor code is confirmed, outcomes are accounted for |
| `provider_changes` | Two commands over one provider's settings, kills, failing writes, a registry that breaks: the files implement `SettingStore`, keys are whole, a choice is never replaced |

Each property has a mutant, an operator `Mut...` written before the definition
it replaces: the code with one plausible mistake, for which TLC reports
the property violated.

### Where the code and its documentation differ

Two runs each check a sentence of the repository and find a behaviour of the code that contradicts it.

| Run | The sentence | The behaviour |
|---|---|---|
| `conversation_unfinished` | egress.py:809, finish() is called after the request completes | not when the body is not JSON or has a part of the wrong type: the log keeps an intent without a result |
| `recon_profile` | shinobi-recon/README.md:102, bound to the trust profile | the server does not pass the profile to the helper, which then does not compare it |

Sentences that hold of less than they say. The models show these behaviours, and no run is spent on them:

* approval.py:44, a reader never observes a half-written approval: true of create(); set_state()
  and consume() rewrite in place. `approval_race` is about what follows from it.
* egress.py:395, a name that resolved to loopback when the manifest was written and to a public address now is caught here: not
  when the manifest declares the name itself, as providers/ollama.toml:13 and providers/vllm.toml:22 declare `localhost`, because it is resolved anew among the peers.
* shinobi-recon/README.md:63, anything that touches the network on the caller's behalf must re-check scope on every redirect hop:
  server.py:243 starts whatweb with its default, which follows redirects, and checks no scope.
* server.py:192, every call is written to the engagement's log: the engagement is looked up for the log and again for the scope, and if
  it becomes usable in between, a scan runs with its records on stderr only.
* tests/test-egress.sh:645, finish() writes a result for the cleared call: it looks up the engagement of now, so the
  result may be in another log than the intent.
* transport.py:63, refused before any prompt left the process: a redirect is refused after the send.
* agent.py:59, no request was sent: true of the turn that is refused, not of the conversation.
* server.py:278, every call reaches the engagement log: a bad port is refused before the log is found.
* llm/mcp.py:48, a hung server should not hold the loop open forever: CALL_TIMEOUT_S limits the wait for the next line, not the
  call, and a server that sends one a minute is waited for without end. `SilenceIsEnded` promises no more.
* agentsetup.py:19, anything typed before a question was asked is thrown away: true of what was there at the
  flush, which is one statement before the question is written.
* providers/vllm.toml:12, /etc/shinobi/providers.d overrides it by a file with the same id: load_all() (providerctl.py:558)
  refuses the whole registry for a duplicate id, as its own comment says, and every provider is gone until one of the two files is.
* providerctl.py:103, readiness answers what would happen if I asked a question: it looks for a key only under cloud providers, as the gate
  does, and agent.py:260 fetches one for every provider that requires it; a local provider that requires a key and has none is
  reported as usable and fails at the first question.
* credentials.py:264, whether there was one to remove: on the keyring, every failure of keyctl reads as "there was none".
* scope.py:243 and :244, allowed means answered and refused means not reached: a program that timed out or is not
  installed is recorded as allowed, and a redirect is refused after its host has answered.

Some properties name such an exception. `SendsAreAccounted` leaves out the turns that
`conversation_unfinished` exhibits. `IntentBeforeTouch` and `LogIsTrue` promise the log to a call
during which the engagement is usable throughout, and `OnlyScopedHosts` of a program that wanders
only where it was pointed. `PeersAreVetted` and `PromptsStayWithPeers` say of a local provider that an address was declared, or was the answer for a declared name
while this very call vouched for it. `EveryRequestIsAnswered` leaves out a result that cannot be encoded. The
profile-related definitions of `ReconServer` model the missing argument as `AnyProfile`.

### Bounds, and why they are enough

* One or two approvals, two callers: the properties of approvals relate one
  approval and at most two contenders. Two approvals are used where one approval could be
  mistaken for another (`conversation_turns`, `recon_approvals`, `daemon_calls`).
* `MaxClock = 2`, `Ttl = 1`: an approval can be used in time, and expire with time left over.
* `MaxCalls`: one call for each caller or server, and two where a conversation makes a second one. A call leaves nothing
  behind but log records, approvals and history, which are keyed by call or by id; approvals come from `shinobi
  approval request` (`RequestApproval`) as well as from earlier calls, and two callers or servers contend for them.
* `MaxTurns` 2: one turn that grows the text and one after it.
* `MaxRedirects` 2 instead of 5: the limit is reached after a redirect to another host and back.
  `recon_approvals` is about scans, and serves no other tool.
* Two addresses, one public and one not, one host name, and every set of addresses for it; it is at once the provider's host and,
  for a local one, a declared peer, beside an address (`gate_facts`) or alone (`conversation_turns`). `gate_contention` is about approvals: its one provider needs no key, its name has one address or none, and
  a scope file clears or is broken; `gate_facts` has the files that clear and those for local providers only.
* Two scans in `recon_calls`, one of which runs scripts; none does in `recon_approvals`, where scans are interchangeable.
* `PoolSize = 1` with two connections: the pool is exhausted by a handler that was given up on.
* `ToolResults` one value: what matters is that a second text differs from the first.
* `MaxRequests` 4 for both servers together: a handshake with each, or one server that is started, listed and called, or
  started, given up on and started again with a late answer in its pipe. `MaxLines` 2 in pipes and buffers: a late answer before
  the one that is waited for.
* `MaxTyped` 2: a line typed ahead and the line that answers. One session: two of them share only the journal and the default.
* `provider_changes`: one provider, so that every command is about the same files; two secrets, so that one writer's could be
  stored for the other's; two layers, one above and one below; a registry with the provider and one broken by installing
  it twice, as which every other defect reads. `MaxRuns` 1 change per process, and any number of questions.
* Symmetry is used over callers, servers, ids or processes, in runs that check
  invariants and step properties, and never with a liveness property.

CHECK_DEADLOCK is off for `Conversation`, `McpClient` and `AgentSetup`, whose runs end, and which have nothing left to do when all have.

### Fairness

* `FairConvSpec`: weak fairness of `Advance`, a run's own steps: the approver is waited for until its deadline, a connection until
  the socket's timeout, and the operating system schedules the rest. Nothing is assumed of people, names, providers or tools: the
  timeouts of a response and of a tool's answer count from what was read last, so a peer that keeps sending is waited for without end, and `RunsEnd` says so.
* `FairReconSpec`: weak fairness of a server's handling of its call, except while it waits for a host: programs and
  the helper have a timeout for all they do, an HTTP request one for each read.
* `FairSpec` of `McpClient`: weak fairness of the client's reading, which includes its deadline. Nothing is assumed of servers.
* `FairDaemonSpec`: weak fairness of the event loop. Nothing is assumed of handlers: a
  thread may run forever.

Ids are random and never run out, so a liveness run in which an actor draws one has one for each.

## 4. What is proved

Every theorem holds for all values of the constants: any number of approvals, callers, providers, addresses, hosts,
connections, MCP servers, agents or commands, and any bound on turns, calls, requests, redirects and the clock. Finiteness of a set is
assumed nowhere. Every invariant and every step property of section 3 that a run finds true is stated by one of these theorems.

| Module | Theorem | Statement |
|---|---|---|
| `ApprovalProofs` | `TypeCorrect` | `Spec => []TypeOK` |
| | `GrantedOnce` | `Spec => []SingleUse` |
| | `SpentOnlyAsAsked` | `Spec => []SpentAsAsked` |
| | `ConsumedImpliesClaimed` | `Spec => []ConsumedWasClaimed` |
| | `StoreImplementsPermit` | `Spec => ImplementsPermit` |
| | `TornIsFinal` | `Spec => TornStaysDead` |
| | `VerdictStands` | `Spec => []VerdictsStand` |
| `PermitProofs` | `PermitsAreSound` | `PermitSpec => []PermitOK` |
| `EgressProofs` | `GateTypeCorrect` | `GateSpec => []GateTypeOK` |
| | `RefusalsSpendNothing` | `GateSpec => []RefusalSpendsNothing` |
| | `CloudNeedsApproval` | `GateSpec => []CloudIsApproved` |
| | `DecisionsHaveEvidence` | `GateSpec => []DecisionsAreEvidenced` |
| | `ClearedPeersAreVetted` | `GateSpec => []PeersAreVetted` |
| | `ConvTypeCorrect` | `ConvSpec => []ConvTypeOK` |
| | `IntentComesBeforeWire` | `ConvSpec => []IntentBeforeWire` |
| | `EverySendIsApproved` | `ConvSpec => []EverySendWasApproved` |
| | `PromptsGoToPeers` | `ConvSpec => []PromptsStayWithPeers` |
| | `EverySendIsAccounted` | `ConvSpec => []SendsAreAccounted` |
| | `ConvImplementsGate` | `ConvSpec => GateSpec` |
| `ReconServerProofs` | `ReconTypeCorrect` | `ReconSpec => []ReconTypeOK` |
| | `HostsAreInScope` | `ReconSpec => []OnlyScopedHosts` |
| | `IntentComesFirst` | `ReconSpec => []IntentBeforeTouch` |
| | `LogTellsTheTruth` | `ReconSpec => []LogIsTrue` |
| | `EveryScanWasApproved` | `ReconSpec => []ScansAreApproved` |
| `AgentDaemonProofs` | `DaemonTypeCorrect` | `DaemonSpec => []DaemonTypeOK` |
| | `RepliesMatchJournal` | `DaemonSpec => []RepliesAreTrue` |
| | `NoLateStarts` | `DaemonSpec => AnsweredIsNotStarted` |
| | `EveryRunWasApproved` | `DaemonSpec => []RunsAreApproved` |
| `McpClientProofs` | `McpTypeCorrect` | `Spec => []McpTypeOK` |
| | `EveryAnswerIsOwn` | `Spec => []AnswersAreOwn` |
| | `NothingIsLeftBehind` | `Spec => []NothingLeftBehind` |
| | `EveryToolHasOneOwner` | `Spec => []OneOwner` |
| `ProviderSettingsProofs` | `SettingsTypeCorrect` | `Spec => []SettingsTypeOK` |
| | `ChoiceStands` | `Spec => []ChoiceIsNeverReplaced` |
| | `FilesImplementStore` | `Spec => ImplementsStore` |
| `AgentSetupProofs` | `SetupTypeCorrect` | `Spec => []SetupTypeOK` |
| | `NothingRunsUnasked` | `Spec => []VendorCodeIsConfirmed` |
| | `OutcomesAreOnRecord` | `Spec => []OutcomesAreAccounted` |

The fair specifications imply these, so the theorems hold of them too.

### Assumptions

The assumptions are the named ones of the modules, which TLC evaluates on every run. They say that markers are not
values (`NoUse` is no use, `NoId` no approval and no call, `NoEngagement` no engagement, `Unusable`, `NoFile` and
`Part` no secret and no provider, "default" no provider), that bounds are naturals, that the uses of `Permit` are made of
the caller's own requests, that a manifest names known providers and addresses, that a clearance says yes or no to
cloud providers, that `Prompts` is what a conversation of `MaxTurns` turns can have said, and that the first layer is the user's.

### The approval store

None of the safety properties is inductive: nothing in them says what a
process between two of its steps has in hand. `StoreInv` is, and has four parts besides the type:

* `FileInv`: a file that is not empty holds a record made from what was asked; if it reads approved, a
  person approved; if it reads consumed, it is approved and claimed. It speaks of a file's record even while a tail
  makes it unreadable, because a later, longer write can make it readable again.
* `ResolverInv`: the record a resolver is about to write is made from what was asked, and is not consumed.
* `ConsumerInv`: the record a consumer has read is approved, and a person approved it; the live image has
  not changed under it, because a reboot ends it; past its checks, its use is covered by the request.
* `ClaimInv`: an approval is spent exactly if it is claimed, and then on a use its request covers; it is granted at most
  once, and not while its claimant has yet to write; and at most one consumer is past the claim of an approval.

`SingleUse`, `SpentAsAsked` and `ConsumedWasClaimed` follow from it directly. For the refinement, `asked`,
`sanctioned` and `spentOn` are the history variables of `Approval`: `Create` maps to `Ask`,
`WriteVerdict` of "approved" to `Sanction`, `ClaimOnce` to `Spend`, all others to stuttering;
`StoreInv` gives `ClaimOnce` that the approval is sanctioned and not spent before. `TornIsFinal` needs only the
type invariant: every write to a torn file comes from a process already inside, and none is. `VerdictStands`
adds `VerdictInv`: unless two resolvers had an approval in hand at once (`contested`), an approval of which a verdict was told is neither
being resolved nor readable as pending, and a sanctioned one was told approved.

Of a contested approval two verdicts may be reported: both resolvers may read "pending" before either writes. `VerdictsStand`
says that this is the only way, and that a refused approval is then still the only thing in doubt: `SingleUse` and `SpentAsAsked` hold regardless.

### The gate, and the conversation over it

`TypeInv` adds to the type what a call has read: past the engagement it has one, past the manifest its provider has one. Three
invariants stand on it, each inductive with it alone.

* `PermitInv`: an approval is unspent exactly if it has no spender; a spender is a call that has been made; a call that is not past
  its last check, or was refused, has spent nothing; a cloud call past it has spent an approval of its own, sanctioned for its request.
* `EvidenceInv`: no record names a call still to come; a call that has not decided has none; a refused one has a refusal and
  no intent, a cleared one an intent in its own engagement and no result; every entry of the audit has its result in the log.
* `PeersInv`: while a call vouches for its peers, what it has allowed so far was vouched for, and what the declared names resolve to
  is in `answers`; once it has compared, the addresses to try and those a connection may end on were vouched for in this call, and there is one to
  try. `VouchedStays` keeps it while names are rebound: `answers` only grows.

The conversation takes their conjunction, `GateInv`, and shows first (`StepShape`) that every step of a conversation is one of the gate's or
leaves it alone. `ConvImplementsGate` is that fact as a theorem, so what is proved of the gate holds of the loop. What the loop
adds is `TalkInv`, where the gate is while a turn is on its way: idle until it is called, then deciding on this turn's
very request, cleared while the turn connects, sends and receives, finished when tools run; and the socket ended on an allowed address.
`WireInv` then speaks of everything ever sent: it has an intent, a cloud request has an approval it spent, for this text and
provider, its peer was vouched for in its own gate call, and it has a result unless it is the run's present call and that
is under way or was abandoned. `SendIsCleared` establishes it for what is being sent, from `GateInv` and `TalkInv`; `WireStays`
keeps it, because the gate takes back neither records nor spent approvals (`ApprovalsStay`, `RecordsStay`). `OneResult` counts the results.

### The recon server

`ReconInv` says of a call (`CallOf`) what its stage implies: a target that was in scope when it was checked, an intent from the record on, no
result before the end, no contact before the first; and records on file (`OnFile`) unless the engagement was absent at a moment of the call.
It is `FindEngagement` that may lose the log, and it does so only while there is no engagement: past it, a call has its log or is in `absent`. `FreshInv` keeps the ids of log and contacts below the calls served, so a
new call starts with a clean sheet; `RecordsInv` is what the log says of all calls, past ones included.
`ScansAreApproved` counts, and a count is no invariant: a call that has spent its permit has not scanned yet. `Paid` adds the calls about to
scan to those that did, and bounds the sum by the permits spent for that very scan; the sets are finite because each step adds one
element at most, and `SpendAdds` of `PermitProofs` gives the permit that lets a call into the sum.

### The daemon

`CallOf(c)` relates a connection, its handler, its reply and its records: nothing is recorded before there is an answer, the answer is the one
recorded, a refused call has no handler, and a queued handler's caller still waits. The last of these gives `NoLateStarts`: dispatch() cancels what
is queued in the step in which it gives up. `Accounted` compares handlers submitted with permits spent for the same request; a
handler runs at most once, so it bounds what ran.

### The provider commands

`TempInv` says who owns a key's temporary file: at most one command is between its O_EXCL and its rename, and the file is what that command wrote, so
what is renamed into place is a whole key. `ChangeOf` keeps a command to its operation and content, and `AskOf` keeps the history of a question
up with the settings. For the refinement (`JobMoves`, `NoJobMoves`) a command is the job of its stage: the rename, the unlink
and the default's rename are `Make`, the journal's record enters the job, all else prepares, or asks, and stutters.

### Agent set-up

`SetupBase` is the type with what each stage implies: a line waiting while a question is shown was typed at that question, because
`Ask` flushes first. `ConfirmInv` adds that whoever is past a question has a yes to it on the books, and that nothing is on
record of an invocation before it begins. `Accounted` follows each vendor step through the stages: not tried, tried without a result, tried with one;
`DefaultInv` that whoever was told yes to "default" has a completed login on record.

### The MCP client

`TypeInv` is the type, and the stage of the run at which a request may be waited for: `Continue` decides by the request's method what
a reply is for, and only this says that the run is where that reply belongs. Its type of a channel (`ChannelOf`) says whose
requests stand in a server's input, pipe and buffer. Three invariants stand on it, each inductive with it alone.

* `OwnInv` is why an answer is its request's own. The id of the request that is waited for is the server's latest, and nothing in that server's
  input, pipe or buffer carries the id without being, or answering, that very request (`Own`). A new request gets an id above all that
  stand there, because `lastId` survives a restart (`OwnIsSent`); whatever else happens moves, drops or glues lines, and makes up
  no ids (`OwnStays`). Requests that were given up on, and replies of a dead process, thus stay where they are and do no harm.
* `ProcessInv` is how a run unwinds. Processes run only under the handle they were started for, and the servers with a handle are those that a
  caller keeps together with those the run has still to stop: `mine` until it is over, `left` while it leaves.
* `IndexInv` follows gather(): the index has exactly the tools of the servers that are gathered so far, each with one owner, and
  `left` is empty when the conversation may call. `BindIndex` is its step: a clash ends the run, so a tool is bound once. `WaitInv` is what keeps a
  late listing from changing the cache of a server that is bound already.

### Only model-checked

The liveness properties (`RunsEnd`, `CallsEnd`, `EveryRequestIsAnswered`, `SilenceIsEnded`), which the
prover does not support, as it does not support ENABLED. That `MaxRequests` and `MaxLines` bound
the sums over all servers is the guards' doing, and no theorem speaks of it: `McpTypeOK` leaves ids and queues unbounded. No module has recursive operators.

## 5. Abstractions

* Arguments, prompts, names and hosts are members of small sets; digests are taken to be
  free of collisions; ids drawn by `secrets` and `uuid` are never drawn twice.
* A scope file is what it says (`Clearances`, or the set of `scope`d hosts) or `Malformed`; the syntax of targets,
  windows and address blocks is behind it.
* A log append with its fsync is one step. Appends of several processes do not mix.
* What is printed, the wording of errors and the detail field are left out.

## 6. The plan

Done: `Permit`, `Approval`, `EgressGate`, `Conversation`, `ReconServer`, `AgentDaemon`,
`McpClient`, `AgentSetup`, `SettingStore` and `ProviderSettings`, and the theorems of section 4.

Left: nothing that TLC checks as an invariant or a step property is without its theorem. What section 7 lists would be the next to model, beginning with
the engagement directories, whose contents the gates take as given.

## 7. Not modelled

`llm/wire.py` translates messages between two formats and keeps nothing; its errors are the outcomes of
`BadAnswer`. The live image's keyring is whatever keyctl does with the arguments credentials.py gives it, and
keyctl is not in the repository. The update, snapshot, hook, evidence and engagement commands are shell or one-shot scripts
whose state is that of apt, btrfs and directories; what the gates need of them, the engagement in use and its scope file, changes
freely in `EgressGate` and `ReconServer`. Of the MCP client: a write to a server that does not read blocks without a
deadline; Ctrl-C while `__exit__` waits for the process loses its handle; two `shinobi` processes may register one agent
server each, because register_agent_server() looks and then adds. Of the provider commands: after a power failure a rename may be undone, since the
directory is not synced; a manifest is read with the others in one step; an operator who removes a temporary key file while
its writer is alive. Of agent set-up: a kill between two statements leaves whatever stood, and no property speaks of it but the
intent that precedes the vendor's code; a terminal that cannot be flushed, whose error discard_pending() swallows, so that a line
typed ahead does answer the next question.

The installer, the image build, packaging, themes, menus and reports: sequential
shell over external programs. `contextd.py` keeps no state. `mcpctl.py`, `pluginctl.py` and
`webappctl.py` are one-shot commands on files nobody else writes. Inside modelled components: `list`, `show` and
`trail` commands, which only read; permissions and symbolic-link checks on files, which
are folded into "the scope file is malformed", "the key is not stored" and "the log cannot be written".
