----------------------------- MODULE EgressGate -----------------------------
(***************************************************************************)
(* authorize() and finish() of libexec/shinobi/shinobi_control/egress.py:  *)
(* may this prompt go to this provider, in this engagement?                *)
(*                                                                         *)
(* A gate call reads one fact after another -- the active engagement, its  *)
(* scope file, what the provider's name resolves to, the trust profile,    *)
(* the key store -- while operators change every one of them, and spends   *)
(* the approval last.  Approvals are the permits of module Permit.         *)
(***************************************************************************)
EXTENDS Permit, Naturals

CONSTANTS
    Engagements, NoEngagement,
    Providers, Models,
    Prompts,        \* prompt digests
    NotText,        \* the prompt that is not a string
    Names,          \* host names
    Addresses, PublicAddresses,
    Manifests,      \* the manifests installed, as functions from the ids of
                    \* the providers whose manifest parses to their fields
    CloudProfiles,  \* _CLOUD_PROFILES
    Unrestricted,   \* an allowlist the scope file does not have
    Malformed,      \* a scope file the gate refuses to read
    Clearances,     \* the scope files operators write
    NoId,
    Callers,
    MaxCalls        \* bound on the gate calls of one caller

ASSUME SetsAssumption ==
    /\ CloudProfiles \subseteq Profiles
    /\ PublicAddresses \subseteq Addresses
    /\ Names \cap Addresses = {}
    /\ NoEngagement \notin Engagements
    /\ NoId \notin Ids
    /\ NoId \notin Callers \X Nat
    /\ NoUse \notin Uses
    /\ MaxCalls \in Nat

Requests ==
    [provider: Providers, model: Models, prompt: Prompts \cup {NotText}]

ASSUME CallsAreRequests == Calls = Requests

(* providerctl.py: what a manifest may say of its host, in base_url, and   *)
(* of the peers of a local provider, in reachable_on.                      *)
ASSUME ManifestsAssumption ==
    \A m \in Manifests :
        /\ DOMAIN m \subseteq Providers
        /\ \A p \in DOMAIN m :
              /\ m[p].host \in Names \cup Addresses
              /\ m[p].peers \subseteq Names \cup (Addresses \ PublicAddresses)
              /\ m[p].egress = "cloud" => m[p].peers = {}

ASSUME ClearancesAssumption ==
    \A block \in Clearances : block # Malformed => block.cloud \in BOOLEAN

VARIABLES
    void,       \* approvals that were denied, cancelled, torn or have expired
    current,    \* the state file: the engagement in use
    scope,      \* scope[e]: the llm: block of the engagement's scope.yaml
    profile,    \* the trust profile
    manifest,   \* the manifests installed: no run changes them
    keys,       \* the providers an API key is stored for
    resolves,   \* resolves[n]: the addresses that a name resolves to
    answers,    \* history: the addresses that the names a local provider
                \* declares resolved to, while a call vouched for its peers
    gate,       \* gate[c]: the state of the caller's authorize() call
    calls,      \* calls[c]: how many gate calls the caller has made
    trail,      \* the records of all engagement logs, and of stderr
    journal,    \* the records of the control-plane audit
    spender     \* history: spender[i] is the gate call that spent approval i

approvals == <<permitVars, void, spender>>
settings  == <<current, scope, profile, manifest, keys, resolves, answers>>
trails    == <<trail, journal>>
gateVars  == <<approvals, settings, gate, calls, trails>>

Idle == [at |-> "idle"]

-----------------------------------------------------------------------------
(* Facts the gate decides on.                                              *)

(* clearance(): absent means no restriction, empty means nothing.          *)
Lists(allowlist, x) ==
    IF allowlist = Unrestricted THEN TRUE ELSE x \in allowlist

Clears(block, req) ==
    /\ block # Malformed
    /\ Lists(block.providers, req.provider)
    /\ Lists(block.models, req.model)

(* prompt_digest(), get_provider() and effective_model(): a prompt that is *)
(* text, a manifest that parses, and a model of the manifest's catalogue.  *)
WellFormed(req) ==
    /\ req.prompt # NotText
    /\ req.provider \in DOMAIN manifest
    /\ LET catalogue == manifest[req.provider].models
       IN  req.model \in IF catalogue = {} THEN Models ELSE catalogue

IsCloud(p) == manifest[p].egress = "cloud"

(* _resolve(), of a name or of a literal address.                          *)
Resolution(host) == IF host \in Names THEN resolves[host] ELSE {host}

-----------------------------------------------------------------------------
(* The two trails.                                                         *)

CallId(c) == <<c, calls[c]>>

Record(c, engagement, phase, verdict) ==
    [call |-> CallId(c), engagement |-> engagement, req |-> gate[c].req,
     phase |-> phase, verdict |-> verdict]

(* A log or an approval that cannot be written raises an OSError, which    *)
(* nothing here catches.                                                   *)
Raise(c) ==
    /\ gate' = [gate EXCEPT ![c].at = "raised"]
    /\ UNCHANGED <<settings, calls, trails>>

(* _refused(): the engagement's log first -- or stderr, which is always    *)
(* there -- and the control-plane audit next.                              *)
MutRefuse(c, engagement) ==                \* the audit alone
    /\ gate' = [gate EXCEPT ![c].at = "refusing"]
    /\ UNCHANGED <<approvals, settings, calls, trails>>
Refuse(c, engagement) ==
    \/ /\ trail' = trail \cup {Record(c, engagement, "result", "refused")}
       /\ gate' = [gate EXCEPT ![c].at = "refusing"]
       /\ UNCHANGED <<approvals, settings, calls, journal>>
    \/ engagement # NoEngagement /\ Raise(c) /\ UNCHANGED approvals

(* audit.write(), whose OSError is ignored.                                *)
Journal(c, status) ==
    journal' \in {journal, journal \cup {[call |-> CallId(c),
                                         status |-> status]}}

RecordRefusal(c) ==
    /\ gate[c].at = "refusing"
    /\ Journal(c, "refused")
    /\ gate' = [gate EXCEPT ![c].at = "refused"]
    /\ UNCHANGED <<approvals, settings, calls, trail>>

-----------------------------------------------------------------------------
(* authorize(), in the order of its checks.                                *)

(* The call remembers what it has read so far.                             *)
GateCall(req, i) ==
    [at |-> "locate", req |-> req, permit |-> i, engagement |-> NoEngagement,
     cloud |-> FALSE, peers |-> {}, allowed |-> {}, left |-> {}]

Pass(c, call) ==
    /\ gate' = [gate EXCEPT ![c] = call]
    /\ UNCHANGED <<approvals, settings, calls, trails>>

Authorize(c, req, i) ==
    /\ gate[c] = Idle
    /\ calls[c] < MaxCalls
    /\ gate' = [gate EXCEPT ![c] = GateCall(req, i)]
    /\ calls' = [calls EXCEPT ![c] = @ + 1]
    /\ UNCHANGED <<approvals, settings, trails>>

(* _engagement_dir(); without one, the refusal goes to stderr.             *)
Locate(c) ==
    /\ gate[c].at = "locate"
    /\ \/ /\ current # NoEngagement
          /\ Pass(c, [gate[c] EXCEPT !.at = "clear", !.engagement = current])
       \/ /\ current = NoEngagement
          /\ Refuse(c, NoEngagement)

(* The manifest and the model, then load_scope() and clearance().          *)
ReadScope(c) ==
    LET block == scope[gate[c].engagement]
        ok    == WellFormed(gate[c].req) /\ Clears(block, gate[c].req)
    IN
    /\ gate[c].at = "clear"
    /\ \/ /\ ok
          /\ Pass(c, [gate[c] EXCEPT !.at = "resolve", !.cloud = block.cloud])
       \/ ~ok /\ Refuse(c, gate[c].engagement)

(* resolve_peers() resolves the provider's host: the candidates.  A cloud  *)
(* provider may be reached on the public ones of them.                     *)
Resolve(c) ==
    LET p     == gate[c].req.provider
        found == Resolution(manifest[p].host)
    IN
    /\ gate[c].at = "resolve"
    /\ \/ /\ found # {}
          /\ gate' = [gate EXCEPT
                ![c].at = "vouch", ![c].peers = found,
                ![c].allowed = IF IsCloud(p) THEN found \cap PublicAddresses ELSE {},
                ![c].left = manifest[p].peers]
          /\ answers' = answers \cup
                [call: {CallId(c)},
                 address: UNION {resolves[n] : n \in Names \cap manifest[p].peers}]
          /\ UNCHANGED <<approvals, current, scope, profile, manifest, keys,
                         resolves, calls, trails>>
       \/ found = {} /\ Refuse(c, gate[c].engagement)

(* A local one on its declared peers, each of them resolved by itself.     *)
VouchFor(c, host) ==
    /\ gate[c].at = "vouch"
    /\ host \in gate[c].left
    /\ \/ /\ Resolution(host) # {}
          /\ Pass(c, [gate[c] EXCEPT !.allowed = @ \cup Resolution(host),
                                     !.left = @ \ {host}])
       \/ Resolution(host) = {} /\ Refuse(c, gate[c].engagement)

(* Every candidate must be allowed, not merely one of them.                *)
MutConfined(call) == call.peers \cap call.allowed # {}
Confined(call) == call.peers \subseteq call.allowed

Confine(c) ==
    /\ gate[c].at = "vouch"
    /\ gate[c].left = {}
    /\ \/ Confined(gate[c]) /\ Pass(c, [gate[c] EXCEPT !.at = "guard"])
       \/ ~Confined(gate[c]) /\ Refuse(c, gate[c].engagement)

(* A local provider needs no more.  A cloud one needs written clearance, a *)
(* profile, a stored key and the id of an approval.                        *)
CloudAdmits(c) ==
    LET p == gate[c].req.provider IN
    /\ gate[c].cloud
    /\ profile \in CloudProfiles
    /\ manifest[p].key => p \in keys
    /\ gate[c].permit # NoId

Guard(c) ==
    LET cloud == IsCloud(gate[c].req.provider) IN
    /\ gate[c].at = "guard"
    /\ \/ ~cloud /\ Pass(c, [gate[c] EXCEPT !.at = "record"])
       \/ cloud /\ CloudAdmits(c) /\ Pass(c, [gate[c] EXCEPT !.at = "spend"])
       \/ cloud /\ ~CloudAdmits(c) /\ Refuse(c, gate[c].engagement)

(* consume(), bound to the request and to the profile read again.  It may  *)
(* raise before the claim or after it.                                     *)
UseOf(c) == [call |-> gate[c].req, profile |-> profile, live |-> FALSE]

MutSpendable(i, use) ==                    \* any approval of the capability
    i \in sanctioned /\ i \notin void /\ spentOn[i] = NoUse
Spendable(i, use) ==
    /\ i \in sanctioned
    /\ i \notin void
    /\ spentOn[i] = NoUse
    /\ Covers(asked[i], use)

MutSpendApproval(c) ==                     \* spent, and then checked again
    LET i == gate[c].permit IN
    /\ gate[c].at = "spend"
    /\ IF Spendable(i, UseOf(c))
       THEN /\ spentOn' = [spentOn EXCEPT ![i] = UseOf(c)]
            /\ spender' = [spender EXCEPT ![i] = CallId(c)]
            /\ gate' = [gate EXCEPT ![c].at =
                           IF CloudAdmits(c) THEN "record" ELSE "refusing"]
            /\ UNCHANGED <<asked, sanctioned, void, settings, calls, trails>>
       ELSE Refuse(c, gate[c].engagement)

SpendApproval(c) ==
    LET i == gate[c].permit IN
    /\ gate[c].at = "spend"
    /\ \/ /\ Spendable(i, UseOf(c))
          /\ spentOn' = [spentOn EXCEPT ![i] = UseOf(c)]
          /\ spender' = [spender EXCEPT ![i] = CallId(c)]
          /\ gate' = [gate EXCEPT ![c].at = "record"]
          /\ UNCHANGED <<asked, sanctioned, void, settings, calls, trails>>
       \/ /\ Spendable(i, UseOf(c))
          /\ spentOn' = [spentOn EXCEPT ![i] = UseOf(c)]
          /\ spender' = [spender EXCEPT ![i] = CallId(c)]
          /\ Raise(c)
          /\ UNCHANGED <<asked, sanctioned, void>>
       \/ Raise(c) /\ UNCHANGED approvals
       \/ ~Spendable(i, UseOf(c)) /\ Refuse(c, gate[c].engagement)

(* The intent, fsynced before the caller may open a connection.            *)
RecordIntent(c) ==
    /\ gate[c].at = "record"
    /\ \/ /\ trail' = trail \cup
                  {Record(c, gate[c].engagement, "intent", "allowed")}
          /\ gate' = [gate EXCEPT ![c].at = "cleared"]
          /\ UNCHANGED <<approvals, settings, calls, journal>>
       \/ Raise(c) /\ UNCHANGED approvals

(* finish() looks the engagement up again.                                 *)
Finish(c, ok) ==
    /\ gate[c].at = "cleared"
    /\ \/ /\ trail' = trail \cup {Record(c, current, "result",
                                      IF ok THEN "allowed" ELSE "refused")}
          /\ Journal(c, IF ok THEN "allowed" ELSE "error")
          /\ gate' = [gate EXCEPT ![c].at = "finished"]
          /\ UNCHANGED <<approvals, settings, calls>>
       \/ current # NoEngagement /\ Raise(c) /\ UNCHANGED approvals

Decided == {"refused", "cleared", "finished"}

(* The caller is done with the call (`shinobi egress check` leaves as soon *)
(* as it is decided), or is killed in the middle of it.                    *)
Leave(c) ==
    /\ gate[c] # Idle
    /\ gate' = [gate EXCEPT ![c] = Idle]
    /\ UNCHANGED <<approvals, settings, calls, trails>>

GateStep(c) ==
    \/ Locate(c) \/ ReadScope(c) \/ Resolve(c)
    \/ \E host \in Names \cup Addresses : VouchFor(c, host)
    \/ Confine(c) \/ Guard(c) \/ SpendApproval(c) \/ RecordIntent(c) \/ RecordRefusal(c)

-----------------------------------------------------------------------------
(* Operators, and the network, change what the gate reads.                 *)

UseEngagement ==
    /\ current' \in Engagements \cup {NoEngagement}
    /\ UNCHANGED <<scope, profile, keys, resolves, answers>>

WriteScope ==
    /\ \E e \in Engagements, block \in Clearances :
          scope' = [scope EXCEPT ![e] = block]
    /\ UNCHANGED <<current, profile, keys, resolves, answers>>

SetProfile ==
    /\ profile' \in Profiles
    /\ UNCHANGED <<current, scope, keys, resolves, answers>>

SetKeys ==
    /\ \E p \in {q \in DOMAIN manifest : manifest[q].key} :
          keys' \in {keys \cup {p}, keys \ {p}}
    /\ UNCHANGED <<current, scope, profile, resolves, answers>>

VouchesFor(c, n) ==
    gate[c].at = "vouch" /\ n \in manifest[gate[c].req.provider].peers

Rebind ==
    /\ \E n \in Names, actual \in SUBSET Addresses :
          /\ resolves' = [resolves EXCEPT ![n] = actual]
          /\ answers' = answers \cup
                [call: {CallId(c) : c \in {d \in Callers : VouchesFor(d, n)}},
                 address: actual]
    /\ UNCHANGED <<current, scope, profile, keys>>

ChangeSettings ==
    /\ UseEngagement \/ WriteScope \/ SetProfile \/ SetKeys \/ Rebind
    /\ UNCHANGED <<approvals, manifest, gate, calls, trails>>

RequestApproval(i, req) ==
    /\ req.prompt # NotText
    /\ Ask(i, [call |-> req, profile |-> profile, live |-> FALSE])
    /\ UNCHANGED <<void, spender, settings, gate, calls, trails>>

Approve(i) ==
    /\ Sanction(i)
    /\ i \notin void
    /\ UNCHANGED <<void, spender, settings, gate, calls, trails>>

(* Denied, cancelled, torn by a crash, or past its deadline.               *)
Void(i) ==
    /\ asked[i] # NoUse
    /\ void' = void \cup {i}
    /\ UNCHANGED <<permitVars, spender, settings, gate, calls, trails>>

Operators ==
    \/ ChangeSettings
    \/ \E i \in Ids : Approve(i) \/ Void(i)

GateInit ==
    /\ PermitInit
    /\ void = {}
    /\ current \in Engagements \cup {NoEngagement}
    /\ scope \in [Engagements -> Clearances]
    /\ profile \in Profiles
    /\ manifest \in Manifests
    /\ keys = {}
    /\ resolves \in [Names -> SUBSET Addresses]
    /\ answers = {}
    /\ gate = [c \in Callers |-> Idle]
    /\ calls = [c \in Callers |-> 0]
    /\ trail = {}
    /\ journal = {}
    /\ spender = [i \in Ids |-> NoId]

GateNext ==
    \/ \E i \in Ids, req \in Requests : RequestApproval(i, req)
    \/ \E c \in Callers, req \in Requests, i \in Ids \cup {NoId} :
          Authorize(c, req, i)
    \/ \E c \in Callers : \/ GateStep(c)
                          \/ \E ok \in BOOLEAN : Finish(c, ok)
                          \/ Leave(c)
    \/ Operators

GateSpec == GateInit /\ [][GateNext]_gateVars

-----------------------------------------------------------------------------
(* Properties.                                                             *)

GateStages == {"locate", "clear", "resolve", "vouch", "guard", "spend", "record",
               "refusing", "raised"} \cup Decided

GateCalls ==
    [at: GateStages, req: Requests, permit: Ids \cup {NoId},
     engagement: Engagements \cup {NoEngagement}, cloud: BOOLEAN,
     peers: SUBSET Addresses, allowed: SUBSET Addresses,
     left: SUBSET (Names \cup Addresses)]

CallIds == Callers \X (1..MaxCalls)

Entries == [call: CallIds, engagement: Engagements \cup {NoEngagement},
            req: Requests, phase: {"intent", "result"},
            verdict: {"allowed", "refused"}]

GateTypeOK ==
    /\ asked \in [Ids -> Uses \cup {NoUse}]
    /\ sanctioned \subseteq Ids
    /\ spentOn \in [Ids -> Uses \cup {NoUse}]
    /\ void \subseteq Ids
    /\ current \in Engagements \cup {NoEngagement}
    /\ scope \in [Engagements -> Clearances]
    /\ profile \in Profiles
    /\ manifest \in Manifests
    /\ keys \subseteq Providers
    /\ resolves \in [Names -> SUBSET Addresses]
    /\ answers \subseteq [call: CallIds, address: Addresses]
    /\ gate \in [Callers -> GateCalls \cup {Idle}]
    /\ calls \in [Callers -> 0..MaxCalls]
    /\ trail \subseteq Entries
    /\ journal \subseteq
          [call: CallIds, status: {"refused", "allowed", "error"}]
    /\ spender \in [Ids -> CallIds \cup {NoId}]

SpentBy(c) == {i \in Ids : spender[i] = CallId(c)}

RecordsOf(c, phase, verdict) ==
    {e \in trail : /\ e.call = CallId(c)
                   /\ e.phase = phase
                   /\ e.verdict = verdict}

(* "An approval is never spent on a call that was going to be refused": no *)
(* order of the operators' changes makes a refused call keep a permit.     *)
RefusalSpendsNothing ==
    \A c \in Callers : gate[c].at \in {"refusing", "refused"} => SpentBy(c) = {}

(* A call that returned has left its evidence, whichever writes failed: a  *)
(* refusal is in the log, a clearance is an intent in the log of the       *)
(* engagement whose scope was read, no call leaves both, and the audit     *)
(* never tells of an outcome the log does not have.                        *)
DecisionsAreEvidenced ==
    /\ \A c \in Callers :
          /\ gate[c].at = "refused" =>
                /\ RecordsOf(c, "result", "refused") # {}
                /\ RecordsOf(c, "intent", "allowed") = {}
          /\ gate[c].at = "cleared" =>
                /\ \E e \in RecordsOf(c, "intent", "allowed") :
                      e.engagement = gate[c].engagement
                /\ RecordsOf(c, "result", "refused") = {}
    /\ \A j \in journal :
          \E e \in trail : /\ e.call = j.call
                           /\ e.phase = "result"
                           /\ (e.verdict = "allowed") = (j.status = "allowed")

(* A cleared cloud request has spent an approval of its own, which a       *)
(* person gave for this prompt, provider and model.                        *)
CloudIsApproved ==
    \A c \in Callers :
        gate[c].at \in {"record", "cleared", "finished"}
            /\ IsCloud(gate[c].req.provider)
        => \E i \in SpentBy(c) :
              i \in sanctioned /\ asked[i].call = gate[c].req

(* Where a request of this call may land: a cloud provider's on public     *)
(* addresses, a local one's on the addresses its manifest declares, and on *)
(* those that a name it declares had while this very call vouched for it.  *)
Vouched(call, p) ==
    IF IsCloud(p) THEN PublicAddresses
    ELSE (manifest[p].peers \cap Addresses)
         \cup {a \in Addresses : [call |-> call, address |-> a] \in answers}

(* A cleared request has somewhere to go, and only addresses that were     *)
(* vouched for during its own call, however the names are rebound before   *)
(* it, during it or after it.                                              *)
PeersAreVetted ==
    \A c \in Callers : gate[c].at \in Decided \ {"refused"} =>
        /\ gate[c].peers # {}
        /\ gate[c].peers \subseteq Vouched(CallId(c), gate[c].req.provider)
=============================================================================
