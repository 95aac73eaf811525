---------------------------- MODULE EgressProofs ----------------------------
(***************************************************************************)
(* Theorems about the egress gate, for any callers, approvals, engagements,*)
(* scope files, manifests and addresses, and any number of calls; and      *)
(* about the conversation loop on top of it, for any runs, providers and   *)
(* tool results, and any number of turns.                                  *)
(***************************************************************************)
EXTENDS Conversation, FiniteSetTheorems, SequenceTheorems, TLAPS

-----------------------------------------------------------------------------
(* THE GATE.                                                               *)

(* What a call that is not over has read so far, beside its type.          *)
ReadInv ==
    \A c \in Callers : gate[c] # Idle =>
        /\ calls[c] # 0
        /\ gate[c].at = "clear" => gate[c].engagement \in Engagements
        /\ gate[c].at \in {"resolve", "vouch"} =>
              gate[c].req.provider \in DOMAIN manifest

TypeInv == GateTypeOK /\ ReadInv

-----------------------------------------------------------------------------
(* The steps of one call.                                                  *)

(* A call that is at a stage has a record.                                 *)
LEMMA CallHasRecord ==
    ASSUME GateTypeOK, NEW c \in Callers, gate[c] # Idle
    PROVE  gate[c] \in GateCalls
  BY DEF GateTypeOK

LEMMA StageIsNotIdle ==
    ASSUME NEW c \in Callers, gate[c].at # "idle"
    PROVE  gate[c] # Idle
  BY DEF Idle

LEMMA NextStage ==
    ASSUME NEW call \in GateCalls, NEW at \in GateStages
    PROVE  [call EXCEPT !.at = at] \in GateCalls
  BY DEF GateCalls

LEMMA RecordIsEntry ==
    ASSUME TypeInv, NEW c \in Callers, gate[c] # Idle,
           NEW engagement \in Engagements \cup {NoEngagement},
           NEW phase \in {"intent", "result"},
           NEW verdict \in {"allowed", "refused"}
    PROVE  /\ CallId(c) \in CallIds
           /\ Record(c, engagement, phase, verdict) \in Entries
  <1>1. gate[c].req \in Requests
    BY CallHasRecord DEF TypeInv, GateCalls
  <1>2. calls[c] \in 1..MaxCalls
    BY SetsAssumption DEF TypeInv, GateTypeOK, ReadInv
  <1>3. CallId(c) \in CallIds
    BY <1>2 DEF CallId, CallIds
  <1>4. QED
    BY <1>1, <1>3 DEF Record, Entries

-----------------------------------------------------------------------------
(* Type correctness.                                                       *)

LEMMA GateTypeInit == GateInit => TypeInv
  BY SetsAssumption, ManifestsAssumption
  DEF GateInit, PermitInit, TypeInv, GateTypeOK, ReadInv, Uses

(* A call that moves to a stage of which nothing more is known.            *)
LEMMA MoveType ==
    ASSUME TypeInv, NEW c \in Callers, gate[c] # Idle,
           NEW at \in GateStages \ {"clear", "resolve", "vouch"},
           gate' = [gate EXCEPT ![c].at = at],
           UNCHANGED <<settings, calls>>
    PROVE  gate' \in [Callers -> GateCalls \cup {Idle}] /\ ReadInv'
  <1>1. gate'[c] = [gate[c] EXCEPT !.at = at]
    BY DEF TypeInv, GateTypeOK
  <1>2. gate'[c] \in GateCalls
    BY <1>1, CallHasRecord, NextStage DEF TypeInv
  <1>3. gate'[c].at = at
    BY <1>1, CallHasRecord DEF TypeInv, GateCalls
  <1>4. \A d \in Callers \ {c} : gate'[d] = gate[d]
    BY DEF TypeInv, GateTypeOK
  <1>5. gate' \in [Callers -> GateCalls \cup {Idle}]
    BY <1>2, <1>4 DEF TypeInv, GateTypeOK
  <1>6. ReadInv'
    BY <1>3, <1>4 DEF TypeInv, ReadInv, settings
  <1>7. QED
    BY <1>5, <1>6

LEMMA RaiseType ==
    ASSUME TypeInv, NEW c \in Callers, gate[c] # Idle, Raise(c),
           UNCHANGED approvals
    PROVE  TypeInv'
  <1>1. gate' \in [Callers -> GateCalls \cup {Idle}] /\ ReadInv'
    BY MoveType DEF Raise, GateStages
  <1>2. QED
    BY <1>1 DEF Raise, TypeInv, GateTypeOK, settings, approvals, permitVars, trails

LEMMA RefuseType ==
    ASSUME TypeInv, NEW c \in Callers, gate[c] # Idle,
           NEW engagement \in Engagements \cup {NoEngagement},
           Refuse(c, engagement)
    PROVE  TypeInv'
  <1>1. CASE engagement # NoEngagement /\ Raise(c) /\ UNCHANGED approvals
    BY <1>1, RaiseType
  <1>2. CASE /\ trail' = trail \cup {Record(c, engagement, "result", "refused")}
             /\ gate' = [gate EXCEPT ![c].at = "refusing"]
             /\ UNCHANGED <<approvals, settings, calls, journal>>
    <2>1. gate' \in [Callers -> GateCalls \cup {Idle}] /\ ReadInv'
      BY <1>2, MoveType DEF GateStages
    <2>2. trail' \subseteq Entries
      BY <1>2, RecordIsEntry DEF TypeInv, GateTypeOK
    <2>3. QED
      BY <1>2, <2>1, <2>2
      DEF TypeInv, GateTypeOK, settings, approvals, permitVars
  <1>3. QED
    BY <1>1, <1>2 DEF Refuse

(* A call that reads one more fact and goes on.                            *)
LEMMA PassType ==
    ASSUME TypeInv, NEW c \in Callers, gate[c] # Idle,
           NEW call \in GateCalls, Pass(c, call),
           call.at = "clear" => call.engagement \in Engagements,
           call.at \in {"resolve", "vouch"} => call.req.provider \in DOMAIN manifest
    PROVE  TypeInv'
  <1>1. gate'[c] = call /\ \A d \in Callers \ {c} : gate'[d] = gate[d]
    BY DEF Pass, TypeInv, GateTypeOK
  <1>2. gate' \in [Callers -> GateCalls \cup {Idle}]
    BY <1>1 DEF Pass, TypeInv, GateTypeOK
  <1>3. ReadInv'
    BY <1>1 DEF TypeInv, ReadInv, Pass, settings
  <1>4. QED
    BY <1>2, <1>3
    DEF Pass, TypeInv, GateTypeOK, settings, approvals, permitVars, trails

(* What a call finds that resolves its provider's host, and where it goes  *)
(* while it vouches for the peers.                                         *)
LEMMA ResolveShape ==
    ASSUME TypeInv, NEW c \in Callers, Resolve(c)
    PROVE  LET p     == gate[c].req.provider
               found == Resolution(manifest[p].host)
           IN
           /\ gate[c] # Idle /\ gate[c].at = "resolve"
           /\ gate[c].engagement \in Engagements \cup {NoEngagement}
           /\ p \in DOMAIN manifest
           /\ \/ Refuse(c, gate[c].engagement)
              \/ /\ found # {}
                 /\ UNCHANGED <<approvals, current, scope, profile, manifest, keys,
                                resolves, calls, trails>>
                 /\ answers' = answers \cup
                       [call: {CallId(c)},
                        address: UNION {resolves[n] :
                                           n \in Names \cap manifest[p].peers}]
                 /\ \A d \in Callers \ {c} : gate'[d] = gate[d]
                 /\ gate' \in [Callers -> GateCalls \cup {Idle}]
                 /\ gate'[c] \in GateCalls
                 /\ gate'[c].at = "vouch" /\ gate'[c].req = gate[c].req
                 /\ gate'[c].peers = found
                 /\ gate'[c].allowed =
                       IF IsCloud(p) THEN found \cap PublicAddresses ELSE {}
                 /\ gate'[c].left = manifest[p].peers
  <1> DEFINE p     == gate[c].req.provider
             found == Resolution(manifest[p].host)
             ok    == IF IsCloud(p) THEN found \cap PublicAddresses ELSE {}
             call  == [gate[c] EXCEPT !.at = "vouch", !.peers = found,
                                      !.allowed = ok, !.left = manifest[p].peers]
  <1>1. /\ gate[c] # Idle /\ gate[c].at = "resolve" /\ gate[c] \in GateCalls
        /\ p \in DOMAIN manifest
    BY CallHasRecord, StageIsNotIdle DEF Resolve, TypeInv, ReadInv
  <1>2. /\ manifest[p].host \in Names \cup Addresses
        /\ manifest[p].peers \subseteq Names \cup Addresses
    BY <1>1, ManifestsAssumption DEF TypeInv, GateTypeOK
  <1>3. found \subseteq Addresses
    BY <1>2 DEF Resolution, TypeInv, GateTypeOK
  <1>4. ok \subseteq Addresses
    BY <1>3
  <1> HIDE DEF found, ok
  <1>5. /\ call \in GateCalls /\ call.at = "vouch" /\ call.req = gate[c].req
        /\ call.peers = found /\ call.allowed = ok /\ call.left = manifest[p].peers
    BY <1>1, <1>2, <1>3, <1>4 DEF GateCalls, GateStages
  <1>6. CASE ~Refuse(c, gate[c].engagement)
    <2>1. /\ found # {}
          /\ gate' = [gate EXCEPT ![c] = call]
          /\ UNCHANGED <<approvals, current, scope, profile, manifest, keys,
                         resolves, calls, trails>>
          /\ answers' = answers \cup
                [call: {CallId(c)},
                 address: UNION {resolves[n] : n \in Names \cap manifest[p].peers}]
      BY <1>1, <1>6 DEF Resolve, found, ok, TypeInv, GateTypeOK
    <2> HIDE DEF call
    <2>2. /\ gate'[c] = call /\ \A d \in Callers \ {c} : gate'[d] = gate[d]
          /\ gate' \in [Callers -> GateCalls \cup {Idle}]
      BY <1>5, <2>1 DEF TypeInv, GateTypeOK
    <2>3. QED
      BY <1>1, <1>5, <2>1, <2>2 DEF GateCalls, found, ok
  <1>7. QED
    BY <1>1, <1>6 DEF GateCalls

LEMMA ResolveType ==
    ASSUME TypeInv, NEW c \in Callers, Resolve(c)
    PROVE  TypeInv'
  <1> DEFINE p == gate[c].req.provider
  <1>1. CASE Refuse(c, gate[c].engagement)
    BY <1>1, ResolveShape, RefuseType
  <1>2. CASE ~Refuse(c, gate[c].engagement)
    <2>1. /\ gate[c] # Idle /\ gate'[c].at = "vouch" /\ gate'[c].req = gate[c].req
          /\ \A d \in Callers \ {c} : gate'[d] = gate[d]
          /\ gate' \in [Callers -> GateCalls \cup {Idle}]
          /\ p \in DOMAIN manifest
          /\ UNCHANGED <<approvals, current, scope, profile, manifest, keys,
                         resolves, calls, trails>>
      BY <1>2, ResolveShape
    <2>2. answers' \subseteq [call: CallIds, address: Addresses]
      <3>1. CallId(c) \in CallIds
        BY <2>1, RecordIsEntry
      <3>2. \A n \in Names : resolves[n] \subseteq Addresses
        BY DEF TypeInv, GateTypeOK
      <3>3. answers' = answers \cup
              [call: {CallId(c)},
               address: UNION {resolves[n] : n \in Names \cap manifest[p].peers}]
        BY <1>2, ResolveShape
      <3>4. answers \subseteq [call: CallIds, address: Addresses]
        BY DEF TypeInv, GateTypeOK
      <3>5. QED
        BY <3>1, <3>2, <3>3, <3>4
    <2>3. ReadInv'
      BY <2>1 DEF TypeInv, ReadInv
    <2>4. QED
      BY <2>1, <2>2, <2>3 DEF TypeInv, GateTypeOK, approvals, permitVars, trails
  <1>3. QED
    BY <1>1, <1>2

(* The steps that vouch for the peers.                                     *)
Vouch(c) ==
    \/ \E host \in Names \cup Addresses : VouchFor(c, host)
    \/ Confine(c)

LEMMA VouchShape ==
    ASSUME TypeInv, NEW c \in Callers, Vouch(c)
    PROVE  /\ gate[c] # Idle /\ gate[c] \in GateCalls /\ gate[c].at = "vouch"
           /\ gate[c].engagement \in Engagements \cup {NoEngagement}
           /\ \/ Refuse(c, gate[c].engagement)
              \/ \E call \in GateCalls :
                    /\ Pass(c, call)
                    /\ call.req = gate[c].req /\ call.peers = gate[c].peers
                    /\ \/ /\ call.at = "guard"
                          /\ call.allowed = gate[c].allowed
                          /\ Confined(gate[c])
                       \/ /\ call.at = "vouch"
                          /\ \E host \in gate[c].left :
                                /\ call.allowed = gate[c].allowed \cup Resolution(host)
                                /\ call.left = gate[c].left \ {host}
  <1>1. gate[c] # Idle /\ gate[c] \in GateCalls /\ gate[c].at = "vouch"
    BY CallHasRecord, StageIsNotIdle DEF Vouch, VouchFor, Confine, TypeInv
  <1>2. ASSUME NEW host \in Names \cup Addresses, host \in gate[c].left
        PROVE  LET call == [gate[c] EXCEPT !.allowed = @ \cup Resolution(host),
                                           !.left = @ \ {host}]
               IN  /\ call \in GateCalls /\ call.at = "vouch"
                   /\ call.req = gate[c].req /\ call.peers = gate[c].peers
                   /\ call.allowed = gate[c].allowed \cup Resolution(host)
                   /\ call.left = gate[c].left \ {host}
    <2>1. Resolution(host) \subseteq Addresses
      BY DEF Resolution, TypeInv, GateTypeOK
    <2>2. QED
      BY <1>1, <2>1 DEF GateCalls
  <1>3. LET call == [gate[c] EXCEPT !.at = "guard"]
        IN  /\ call \in GateCalls /\ call.at = "guard" /\ call.req = gate[c].req
            /\ call.peers = gate[c].peers /\ call.allowed = gate[c].allowed
    BY <1>1 DEF GateCalls, GateStages
  <1>4. ASSUME NEW host \in Names \cup Addresses, VouchFor(c, host),
               ~Refuse(c, gate[c].engagement)
        PROVE  \E call \in GateCalls :
                  /\ Pass(c, call)
                  /\ call.req = gate[c].req /\ call.peers = gate[c].peers
                  /\ call.at = "vouch"
                  /\ \E h \in gate[c].left :
                        /\ call.allowed = gate[c].allowed \cup Resolution(h)
                        /\ call.left = gate[c].left \ {h}
    <2>1. /\ host \in gate[c].left
          /\ Pass(c, [gate[c] EXCEPT !.allowed = @ \cup Resolution(host),
                                     !.left = @ \ {host}])
      BY <1>4 DEF VouchFor
    <2>2. QED
      BY <1>2, <2>1
  <1>5. CASE Confine(c)
    BY <1>1, <1>3, <1>5 DEF Confine, GateCalls
  <1>6. QED
    BY <1>1, <1>4, <1>5 DEF Vouch, GateCalls

LEMMA VouchType ==
    ASSUME TypeInv, NEW c \in Callers, Vouch(c)
    PROVE  TypeInv'
  <1>1. CASE Refuse(c, gate[c].engagement)
    BY <1>1, VouchShape, RefuseType
  <1>2. CASE ~Refuse(c, gate[c].engagement)
    <2>1. PICK call \in GateCalls : /\ Pass(c, call) /\ call.req = gate[c].req
                                   /\ call.at \in {"guard", "vouch"}
      BY <1>2, VouchShape
    <2>2. /\ gate[c] # Idle
          /\ gate[c].req.provider \in DOMAIN manifest
      BY VouchShape DEF TypeInv, ReadInv
    <2>3. QED
      BY <2>1, <2>2, PassType
  <1>3. QED
    BY <1>1, <1>2

LEMMA SpendType ==
    ASSUME TypeInv, NEW c \in Callers, SpendApproval(c)
    PROVE  TypeInv'
  <1>1. gate[c] # Idle
    BY DEF SpendApproval, Idle
  <1>2. /\ gate[c] \in GateCalls
        /\ gate[c].engagement \in Engagements \cup {NoEngagement}
        /\ gate[c].req \in Calls
    BY <1>1, CallHasRecord, CallsAreRequests DEF TypeInv, GateCalls
  <1>3. UseOf(c) \in Uses /\ CallId(c) \in CallIds
    BY <1>1, <1>2, RecordIsEntry DEF UseOf, Uses, TypeInv, GateTypeOK
  <1>4. CASE /\ spentOn' = [spentOn EXCEPT ![gate[c].permit] = UseOf(c)]
             /\ spender' = [spender EXCEPT ![gate[c].permit] = CallId(c)]
             /\ \/ /\ gate' = [gate EXCEPT ![c].at = "record"]
                   /\ UNCHANGED <<settings, calls, trails>>
                \/ Raise(c)
             /\ UNCHANGED <<asked, sanctioned, void>>
    <2>1. gate' \in [Callers -> GateCalls \cup {Idle}] /\ ReadInv'
      BY <1>1, <1>4, MoveType DEF Raise, GateStages
    <2>2. /\ spentOn' \in [Ids -> Uses \cup {NoUse}]
          /\ spender' \in [Ids -> CallIds \cup {NoId}]
      BY <1>3, <1>4 DEF TypeInv, GateTypeOK
    <2>3. UNCHANGED <<settings, calls, trails>>
      BY <1>4 DEF Raise
    <2>4. QED
      BY <1>4, <2>1, <2>2, <2>3 DEF TypeInv, GateTypeOK, settings, trails
  <1>5. CASE Raise(c) /\ UNCHANGED approvals
    BY <1>1, <1>5, RaiseType
  <1>6. CASE Refuse(c, gate[c].engagement)
    BY <1>1, <1>2, <1>6, RefuseType
  <1>7. QED
    BY <1>4, <1>5, <1>6 DEF SpendApproval

LEMMA GateTypeStep == TypeInv /\ [GateNext]_gateVars => TypeInv'
  <1> SUFFICES ASSUME TypeInv, [GateNext]_gateVars
               PROVE  TypeInv'
    OBVIOUS
  <1> USE DEF TypeInv
  <1>1. ASSUME NEW i \in Ids, NEW req \in Requests, RequestApproval(i, req)
        PROVE  TypeInv'
    <2>1. [call |-> req, profile |-> profile, live |-> FALSE] \in Uses
      BY CallsAreRequests DEF Uses, GateTypeOK
    <2>2. asked' \in [Ids -> Uses \cup {NoUse}]
      BY <1>1, <2>1 DEF RequestApproval, Ask, GateTypeOK
    <2>3. QED
      BY <1>1, <2>2
      DEF RequestApproval, Ask, GateTypeOK, ReadInv, settings, trails
  <1>2. ASSUME NEW c \in Callers, NEW req \in Requests,
               NEW i \in Ids \cup {NoId}, Authorize(c, req, i)
        PROVE  TypeInv'
    <2>1. GateCall(req, i) \in GateCalls /\ GateCall(req, i).at = "locate"
      BY DEF GateCall, GateCalls, GateStages
    <2>2. /\ gate'[c] = GateCall(req, i)
          /\ \A d \in Callers \ {c} : gate'[d] = gate[d]
          /\ gate' \in [Callers -> GateCalls \cup {Idle}]
      BY <1>2, <2>1 DEF Authorize, GateTypeOK
    <2>3. /\ calls' \in [Callers -> 0..MaxCalls]
          /\ calls'[c] # 0
          /\ \A d \in Callers \ {c} : calls'[d] = calls[d]
      BY <1>2, SetsAssumption DEF Authorize, GateTypeOK
    <2>4. ReadInv'
      BY <1>2, <2>1, <2>2, <2>3 DEF Authorize, ReadInv, settings
    <2>5. QED
      BY <1>2, <2>2, <2>3, <2>4
      DEF Authorize, GateTypeOK, approvals, permitVars, settings, trails
  <1>3. ASSUME NEW c \in Callers, Locate(c)
        PROVE  TypeInv'
    <2>1. gate[c] # Idle /\ gate[c] \in GateCalls
      BY <1>3, CallHasRecord DEF Locate, Idle
    <2>2. ASSUME Pass(c, [gate[c] EXCEPT !.at = "clear",
                                         !.engagement = current]),
                 current # NoEngagement
          PROVE  TypeInv'
      <3> DEFINE call == [gate[c] EXCEPT !.at = "clear", !.engagement = current]
      <3>1. call \in GateCalls /\ call.at = "clear" /\ call.engagement \in Engagements
        BY <2>1, <2>2 DEF GateCalls, GateTypeOK, GateStages
      <3>2. QED
        BY <2>1, <2>2, <3>1, PassType
    <2>3. QED
      BY <1>3, <2>1, <2>2, RefuseType DEF Locate
  <1>4. ASSUME NEW c \in Callers, ReadScope(c)
        PROVE  TypeInv'
    <2>1. /\ gate[c] # Idle /\ gate[c] \in GateCalls
          /\ gate[c].engagement \in Engagements
      BY <1>4, CallHasRecord DEF ReadScope, Idle, ReadInv
    <2> DEFINE block == scope[gate[c].engagement]
               call == [gate[c] EXCEPT !.at = "resolve", !.cloud = block.cloud]
    <2>2. ASSUME WellFormed(gate[c].req), Clears(block, gate[c].req),
                 Pass(c, call)
          PROVE  TypeInv'
      <3>1. block.cloud \in BOOLEAN
        BY <2>1, <2>2, ClearancesAssumption DEF Clears, GateTypeOK
      <3>2. call \in GateCalls /\ call.at = "resolve" /\ call.req = gate[c].req
        BY <2>1, <3>1 DEF GateCalls, GateStages
      <3>3. gate[c].req.provider \in DOMAIN manifest
        BY <2>2 DEF WellFormed
      <3>4. QED
        BY <2>1, <2>2, <3>2, <3>3, PassType
    <2>3. QED
      BY <1>4, <2>1, <2>2, RefuseType DEF ReadScope
  <1>5. ASSUME NEW c \in Callers, Resolve(c) \/ Vouch(c)
        PROVE  TypeInv'
    BY <1>5, ResolveType, VouchType
  <1>6. ASSUME NEW c \in Callers, Guard(c)
        PROVE  TypeInv'
    <2>1. /\ gate[c] # Idle /\ gate[c] \in GateCalls
          /\ gate[c].engagement \in Engagements \cup {NoEngagement}
      BY <1>6, CallHasRecord DEF Guard, Idle, GateCalls
    <2>2. ASSUME NEW at \in {"record", "spend"},
                 Pass(c, [gate[c] EXCEPT !.at = at])
          PROVE  TypeInv'
      <3>1. [gate[c] EXCEPT !.at = at] \in GateCalls
            /\ [gate[c] EXCEPT !.at = at].at = at
        BY <2>1 DEF GateCalls, GateStages
      <3>2. QED
        BY <2>1, <2>2, <3>1, PassType
    <2>3. QED
      BY <1>6, <2>1, <2>2, RefuseType DEF Guard
  <1>7. ASSUME NEW c \in Callers, SpendApproval(c)
        PROVE  TypeInv'
    BY <1>7, SpendType
  <1>8. ASSUME NEW c \in Callers, RecordIntent(c)
        PROVE  TypeInv'
    <2>1. /\ gate[c] # Idle
          /\ gate[c].engagement \in Engagements \cup {NoEngagement}
      BY <1>8, CallHasRecord DEF RecordIntent, Idle, GateCalls
    <2>2. CASE Raise(c) /\ UNCHANGED approvals
      BY <2>1, <2>2, RaiseType
    <2>3. CASE ~ Raise(c)
      <3>1. gate' \in [Callers -> GateCalls \cup {Idle}] /\ ReadInv'
        BY <1>8, <2>1, <2>3, MoveType DEF RecordIntent, GateStages, Decided
      <3>2. trail' \subseteq Entries
        BY <1>8, <2>1, <2>3, RecordIsEntry DEF RecordIntent, GateTypeOK
      <3>3. QED
        BY <1>8, <2>3, <3>1, <3>2
        DEF RecordIntent, GateTypeOK, settings, approvals, permitVars
    <2>4. QED
      BY <1>8, <2>2, <2>3 DEF RecordIntent
  <1>9. ASSUME NEW c \in Callers, RecordRefusal(c)
        PROVE  TypeInv'
    <2>1. gate[c] # Idle
      BY <1>9 DEF RecordRefusal, Idle
    <2>2. gate' \in [Callers -> GateCalls \cup {Idle}] /\ ReadInv'
      BY <1>9, <2>1, MoveType DEF RecordRefusal, GateStages, Decided
    <2>3. CallId(c) \in CallIds
      BY <2>1, RecordIsEntry
    <2>4. QED
      BY <1>9, <2>2, <2>3
      DEF RecordRefusal, Journal, GateTypeOK, settings, approvals, permitVars
  <1>10. ASSUME NEW c \in Callers, NEW ok \in BOOLEAN, Finish(c, ok)
         PROVE  TypeInv'
    <2>1. gate[c] # Idle /\ current \in Engagements \cup {NoEngagement}
      BY <1>10 DEF Finish, Idle, GateTypeOK
    <2>2. CASE Raise(c) /\ UNCHANGED approvals
      BY <2>1, <2>2, RaiseType
    <2>3. CASE ~ Raise(c)
      <3>1. gate' \in [Callers -> GateCalls \cup {Idle}] /\ ReadInv'
        BY <1>10, <2>1, <2>3, MoveType DEF Finish, GateStages, Decided
      <3>2. trail' \subseteq Entries /\ CallId(c) \in CallIds
        BY <1>10, <2>1, <2>3, RecordIsEntry DEF Finish, GateTypeOK
      <3>3. QED
        BY <1>10, <2>3, <3>1, <3>2
        DEF Finish, Journal, GateTypeOK, settings, approvals, permitVars
    <2>4. QED
      BY <1>10, <2>2, <2>3 DEF Finish
  <1>11. ASSUME NEW c \in Callers, Leave(c)
         PROVE  TypeInv'
    BY <1>11
    DEF Leave, GateTypeOK, ReadInv, approvals, permitVars, settings, trails
  <1>12. CASE Operators
    <2>1. ASSUME ChangeSettings
          PROVE  TypeInv'
      <3>1. keys' \subseteq Providers
        BY <2>1, ManifestsAssumption
        DEF ChangeSettings, UseEngagement, WriteScope, SetProfile, SetKeys,
            Rebind, GateTypeOK
      <3>2. scope' \in [Engagements -> Clearances]
        BY <2>1
        DEF ChangeSettings, UseEngagement, WriteScope, SetProfile, SetKeys,
            Rebind, GateTypeOK
      <3>3. /\ resolves' \in [Names -> SUBSET Addresses]
            /\ answers' \subseteq [call: CallIds, address: Addresses]
        <4>1. CASE Rebind
          <5>1. \A d \in Callers, n \in Names : VouchesFor(d, n) => CallId(d) \in CallIds
            BY StageIsNotIdle, RecordIsEntry DEF VouchesFor
          <5>2. QED
            BY <4>1, <5>1 DEF Rebind, GateTypeOK
        <4>2. QED
          BY <2>1, <4>1
          DEF ChangeSettings, UseEngagement, WriteScope, SetProfile, SetKeys, GateTypeOK
      <3>4. /\ current' \in Engagements \cup {NoEngagement}
            /\ profile' \in Profiles
            /\ UNCHANGED <<approvals, manifest, gate, calls, trails>>
        BY <2>1
        DEF ChangeSettings, UseEngagement, WriteScope, SetProfile, SetKeys,
            Rebind, GateTypeOK
      <3>5. QED
        BY <3>1, <3>2, <3>3, <3>4
        DEF GateTypeOK, ReadInv, approvals, permitVars, trails
    <2>2. ASSUME NEW i \in Ids, Approve(i) \/ Void(i)
          PROVE  TypeInv'
      BY <2>2
      DEF Approve, Sanction, Void, GateTypeOK, ReadInv, permitVars, settings, trails
    <2>3. QED
      BY <1>12, <2>1, <2>2 DEF Operators
  <1>13. CASE UNCHANGED gateVars
    BY <1>13
    DEF gateVars, GateTypeOK, ReadInv, approvals, permitVars, settings, trails
  <1>14. QED
    BY <1>1, <1>2, <1>3, <1>4, <1>5, <1>6, <1>7, <1>8, <1>9, <1>10, <1>11,
       <1>12, <1>13 DEF GateNext, GateStep, Vouch

LEMMA GateTypeInvariant == GateSpec => []TypeInv
  BY GateTypeInit, GateTypeStep, PTL DEF GateSpec

(* Every variable the gate, its trails and its approvals are made of keeps *)
(* its type, whatever operators change while calls run.                    *)
THEOREM GateTypeCorrect == GateSpec => []GateTypeOK
  <1>1. TypeInv => GateTypeOK
    BY DEF TypeInv
  <1>2. QED
    BY <1>1, GateTypeInvariant, PTL

-----------------------------------------------------------------------------
(* Steps that spend nothing.                                               *)

(* Stages of a call before its approval is spent, and of a refused one.    *)
Unspent == {"locate", "clear", "resolve", "vouch", "guard", "spend", "refusing",
            "refused"}

(* Stages of a call that has all it needs.                                 *)
Granted == {"record", "cleared", "finished"}

LEMMA MovedCall ==
    ASSUME TypeInv, NEW c \in Callers, gate[c] # Idle, NEW at \in GateStages,
           gate' = [gate EXCEPT ![c].at = at]
    PROVE  /\ gate'[c] = [gate[c] EXCEPT !.at = at]
           /\ gate'[c].at = at
           /\ gate'[c].req = gate[c].req
           /\ gate'[c].engagement = gate[c].engagement
           /\ gate'[c].peers = gate[c].peers
           /\ gate'[c].allowed = gate[c].allowed
           /\ \A d \in Callers \ {c} : gate'[d] = gate[d]
  <1>1. gate'[c] = [gate[c] EXCEPT !.at = at]
    BY DEF TypeInv, GateTypeOK
  <1>2. gate[c] \in GateCalls
    BY CallHasRecord DEF TypeInv
  <1>3. QED
    BY <1>1, <1>2 DEF TypeInv, GateTypeOK, GateCalls

LEMMA RefusedCall ==
    ASSUME TypeInv, NEW c \in Callers, gate[c] # Idle, NEW e, Refuse(c, e)
    PROVE  /\ UNCHANGED <<approvals, settings, calls>>
           /\ \A d \in Callers \ {c} : gate'[d] = gate[d]
           /\ gate'[c].req = gate[c].req
           /\ gate'[c].at \in {"refusing", "raised"}
  <1>1. PICK at \in {"refusing", "raised"} : gate' = [gate EXCEPT ![c].at = at]
    BY DEF Refuse, Raise
  <1>2. UNCHANGED <<approvals, settings, calls>>
    BY DEF Refuse, Raise
  <1>3. at \in GateStages
    BY DEF GateStages
  <1>4. QED
    BY <1>1, <1>2, <1>3, MovedCall

LEMMA PassedCall ==
    ASSUME TypeInv, NEW c \in Callers, NEW call, Pass(c, call)
    PROVE  /\ UNCHANGED <<approvals, settings, calls, trails>>
           /\ gate'[c] = call
           /\ \A d \in Callers \ {c} : gate'[d] = gate[d]
  BY DEF Pass, TypeInv, GateTypeOK

(* What reading a fact, refusing, recording and finishing leave alone, and *)
(* from which stage to which they take the call.                           *)
LEMMA QuietStep ==
    ASSUME TypeInv, NEW c \in Callers,
           \/ Locate(c) \/ ReadScope(c) \/ Resolve(c) \/ Vouch(c) \/ Guard(c)
           \/ RecordIntent(c) \/ RecordRefusal(c)
           \/ \E ok \in BOOLEAN : Finish(c, ok)
    PROVE  /\ UNCHANGED <<approvals, calls, manifest>>
           /\ \A d \in Callers \ {c} : gate'[d] = gate[d]
           /\ gate'[c].req = gate[c].req
           /\ \/ gate'[c].at = "raised"
              \/ gate[c].at \in Unspent /\ gate'[c].at \in Unspent
              \/ gate[c].at \in Granted /\ gate'[c].at \in Granted
              \/ /\ gate'[c].at = "record"
                 /\ ~IsCloud(gate[c].req.provider)
  <1>1. gate[c] # Idle
    <2>1. CASE Resolve(c)
      BY <2>1, ResolveShape
    <2>2. CASE Vouch(c)
      BY <2>2, VouchShape
    <2>3. QED
      BY <2>1, <2>2
      DEF Locate, ReadScope, Guard, RecordIntent, RecordRefusal, Finish, Idle
  <1>2. gate[c] \in GateCalls
    BY <1>1, CallHasRecord DEF TypeInv
  <1>3. CASE Locate(c)
    <2> DEFINE call == [gate[c] EXCEPT !.at = "clear", !.engagement = current]
    <2>1. call.at \in Unspent /\ call.req = gate[c].req
      BY <1>2 DEF GateCalls, Unspent
    <2>2. gate[c].at \in Unspent
      BY <1>3 DEF Locate, Unspent
    <2>3. Pass(c, call) \/ Refuse(c, NoEngagement)
      BY <1>3 DEF Locate
    <2> HIDE DEF call
    <2>4. QED
      BY <1>1, <2>1, <2>2, <2>3, PassedCall, RefusedCall DEF settings, Unspent
  <1>4. CASE ReadScope(c)
    <2> DEFINE call == [gate[c] EXCEPT !.at = "resolve",
                                !.cloud = scope[gate[c].engagement].cloud]
    <2>1. call.at \in Unspent /\ call.req = gate[c].req
      BY <1>2 DEF GateCalls, Unspent
    <2>2. gate[c].at \in Unspent
      BY <1>4 DEF ReadScope, Unspent
    <2>3. Pass(c, call) \/ Refuse(c, gate[c].engagement)
      BY <1>4 DEF ReadScope
    <2> HIDE DEF call
    <2>4. QED
      BY <1>1, <2>1, <2>2, <2>3, PassedCall, RefusedCall DEF settings, Unspent
  <1>5. CASE Resolve(c) \/ Vouch(c)
    <2>1. CASE Refuse(c, gate[c].engagement)
      BY <1>1, <1>5, <2>1, ResolveShape, VouchShape, RefusedCall DEF settings, Unspent
    <2>2. CASE Resolve(c) /\ ~Refuse(c, gate[c].engagement)
      BY <2>2, ResolveShape DEF Unspent
    <2>3. CASE Vouch(c) /\ ~Refuse(c, gate[c].engagement)
      <3>1. PICK call \in GateCalls : /\ Pass(c, call) /\ call.req = gate[c].req
                                     /\ call.at \in {"guard", "vouch"}
        BY <2>3, VouchShape
      <3>2. QED
        BY <2>3, <3>1, VouchShape, PassedCall DEF settings, Unspent
    <2>4. QED
      BY <1>5, <2>1, <2>2, <2>3
  <1>6. CASE Guard(c)
    <2>1. ASSUME NEW at \in {"record", "spend"},
                 Pass(c, [gate[c] EXCEPT !.at = at])
          PROVE  /\ UNCHANGED <<approvals, settings, calls>>
                 /\ \A d \in Callers \ {c} : gate'[d] = gate[d]
                 /\ gate'[c].req = gate[c].req
                 /\ gate'[c].at = at
      BY <1>2, <2>1, PassedCall DEF GateCalls
    <2>2. QED
      BY <1>1, <1>6, <2>1, RefusedCall DEF Guard, settings, Unspent
  <1>7. CASE RecordIntent(c)
    BY <1>1, <1>7, MovedCall
    DEF RecordIntent, Raise, Granted, settings, GateStages, Decided
  <1>8. CASE RecordRefusal(c)
    BY <1>1, <1>8, MovedCall
    DEF RecordRefusal, Unspent, settings, GateStages, Decided
  <1>9. CASE \E ok \in BOOLEAN : Finish(c, ok)
    BY <1>1, <1>9, MovedCall
    DEF Finish, Raise, Granted, settings, GateStages, Decided
  <1>10. QED
    BY <1>3, <1>4, <1>5, <1>6, <1>7, <1>8, <1>9

-----------------------------------------------------------------------------
(* Approvals.  An approval that was spent was sanctioned, and tells which  *)
(* call spent it, a call of the past or the present; a call spends none    *)
(* before the last of its checks.                                          *)
PermitOf(c) ==
    /\ gate[c].at \in Unspent => SpentBy(c) = {}
    /\ gate[c].at \in Granted /\ IsCloud(gate[c].req.provider)
        => \E i \in SpentBy(c) :
              i \in sanctioned /\ asked[i].call = gate[c].req

PermitInv ==
    /\ \A i \in sanctioned : asked[i] # NoUse
    /\ \A i \in Ids : spender[i] = NoId <=> spentOn[i] = NoUse
    /\ \A i \in Ids, c \in Callers, n \in 1..MaxCalls :
          spender[i] = <<c, n>> => n <= calls[c]
    /\ \A c \in Callers : PermitOf(c)

LEMMA PermitInvInit == GateInit => PermitInv
  BY SetsAssumption
  DEF GateInit, PermitInit, PermitInv, PermitOf, Unspent, Granted, Idle,
         CallId, SpentBy

(* Whose step it is not, that caller's approvals are as they were.         *)
LEMMA OthersPermit ==
    ASSUME PermitInv, NEW c \in Callers, gate'[c] = gate[c],
           calls'[c] = calls[c], UNCHANGED manifest,
           sanctioned \subseteq sanctioned',
           \A i \in sanctioned : asked'[i] = asked[i],
           \A i \in Ids : spender'[i] = CallId(c) <=> spender[i] = CallId(c)
    PROVE  PermitOf(c)'
  <1>1. PermitOf(c)
    BY DEF PermitInv
  <1>2. CallId(c)' = CallId(c) /\ SpentBy(c)' = SpentBy(c)
    BY DEF CallId, SpentBy
  <1>3. SpentBy(c) \subseteq Ids
    BY DEF SpentBy
  <1>4. IsCloud(gate[c].req.provider)' = IsCloud(gate[c].req.provider)
    BY DEF IsCloud
  <1>5. QED
    BY <1>1, <1>2, <1>3, <1>4 DEF PermitOf

LEMMA PermitInvStep == TypeInv /\ PermitInv /\ [GateNext]_gateVars => PermitInv'
  <1> SUFFICES ASSUME TypeInv, PermitInv, [GateNext]_gateVars
               PROVE  PermitInv'
    OBVIOUS
  <1>1. ASSUME NEW i \in Ids, NEW req \in Requests, RequestApproval(i, req)
        PROVE  PermitInv'
    <2>1. /\ UNCHANGED <<sanctioned, spentOn, spender, calls, gate, manifest>>
          /\ \A j \in sanctioned : asked'[j] = asked[j]
      BY <1>1
      DEF RequestApproval, Ask, PermitInv, TypeInv, GateTypeOK, settings
    <2>2. \A c \in Callers : PermitOf(c)'
      BY <2>1, OthersPermit
    <2>3. QED
      BY <2>1, <2>2 DEF PermitInv
  <1>2. ASSUME NEW c \in Callers, NEW req \in Requests,
               NEW i \in Ids \cup {NoId}, Authorize(c, req, i)
        PROVE  PermitInv'
    <2>1. /\ gate'[c].at = "locate"
          /\ calls'[c] = calls[c] + 1
          /\ calls[c] \in 0..MaxCalls
          /\ \A d \in Callers \ {c} : gate'[d] = gate[d] /\ calls'[d] = calls[d]
          /\ UNCHANGED <<asked, sanctioned, spentOn, spender, manifest>>
      BY <1>2
      DEF Authorize, GateCall, TypeInv, GateTypeOK, approvals, permitVars, settings
    <2>2. \A j \in Ids : spender[j] # <<c, calls[c] + 1>>
      BY <1>2, <2>1, SetsAssumption DEF PermitInv, Authorize
    <2>3. PermitOf(c)'
      BY <2>1, <2>2 DEF PermitOf, Unspent, Granted, SpentBy, CallId
    <2>4. \A d \in Callers \ {c} : PermitOf(d)'
      BY <2>1, OthersPermit
    <2>5. \A j \in Ids, d \in Callers, n \in 1..MaxCalls :
             spender'[j] = <<d, n>> => n <= calls'[d]
      BY <2>1, SetsAssumption DEF PermitInv, TypeInv, GateTypeOK
    <2>6. QED
      BY <2>1, <2>3, <2>4, <2>5 DEF PermitInv
  <1>3. ASSUME NEW c \in Callers,
               \/ Locate(c) \/ ReadScope(c) \/ Resolve(c) \/ Vouch(c) \/ Guard(c)
               \/ RecordIntent(c) \/ RecordRefusal(c)
               \/ \E ok \in BOOLEAN : Finish(c, ok)
        PROVE  PermitInv'
    <2>1. /\ UNCHANGED <<asked, sanctioned, spentOn, spender, calls, manifest>>
          /\ \A d \in Callers \ {c} : gate'[d] = gate[d]
          /\ gate'[c].req = gate[c].req
          /\ \/ gate'[c].at = "raised"
             \/ gate[c].at \in Unspent /\ gate'[c].at \in Unspent
             \/ gate[c].at \in Granted /\ gate'[c].at \in Granted
             \/ gate'[c].at = "record" /\ ~IsCloud(gate[c].req.provider)
      BY <1>3, QuietStep DEF approvals, permitVars
    <2>2. PermitOf(c)'
      BY <2>1
      DEF PermitInv, PermitOf, Unspent, Granted, SpentBy, CallId, IsCloud
    <2>3. \A d \in Callers \ {c} : PermitOf(d)'
      BY <2>1, OthersPermit
    <2>4. QED
      BY <2>1, <2>2, <2>3 DEF PermitInv
  <1>4. ASSUME NEW c \in Callers, SpendApproval(c)
        PROVE  PermitInv'
    <2> DEFINE i == gate[c].permit
    <2>1. /\ gate[c] # Idle
          /\ UNCHANGED <<asked, sanctioned, calls, manifest>>
      BY <1>4 DEF SpendApproval, Refuse, Raise, Idle, approvals, permitVars, settings
    <2>2. CASE (Raise(c) /\ UNCHANGED approvals) \/ Refuse(c, gate[c].engagement)
      <3>0. UNCHANGED <<spentOn, spender>>
        BY <2>1, <2>2, RefusedCall DEF approvals, permitVars
      <3>1. /\ gate'[c].at \in {"refusing", "raised"}
            /\ gate[c].at = "spend"
            /\ \A d \in Callers \ {c} : gate'[d] = gate[d]
        BY <1>4, <2>1, <2>2, MovedCall, RefusedCall
        DEF SpendApproval, Raise, GateStages
      <3>2. PermitOf(c)'
        BY <2>1, <3>0, <3>1
        DEF PermitInv, PermitOf, Unspent, Granted, SpentBy, CallId
      <3>3. \A d \in Callers \ {c} : PermitOf(d)'
        BY <2>1, <3>0, <3>1, OthersPermit
      <3>4. QED
        BY <2>1, <3>0, <3>2, <3>3 DEF PermitInv
    <2>3. CASE /\ Spendable(i, UseOf(c))
               /\ spentOn' = [spentOn EXCEPT ![i] = UseOf(c)]
               /\ spender' = [spender EXCEPT ![i] = CallId(c)]
               /\ \/ gate' = [gate EXCEPT ![c].at = "record"]
                  \/ Raise(c)
      <3>1. /\ gate'[c].at \in {"record", "raised"}
            /\ gate'[c].req = gate[c].req
            /\ \A d \in Callers \ {c} : gate'[d] = gate[d]
        BY <2>1, <2>3, MovedCall DEF Raise, GateStages
      <3>2. /\ i \in sanctioned /\ i \in Ids
            /\ asked[i].call = gate[c].req
        BY <2>3 DEF Spendable, Covers, UseOf, TypeInv, GateTypeOK
      <3>3. /\ spender'[i] = CallId(c)
            /\ \A j \in Ids \ {i} : spender'[j] = spender[j]
        BY <2>3, <3>2 DEF TypeInv, GateTypeOK
      <3>4. PermitOf(c)'
        BY <2>1, <3>1, <3>2, <3>3
        DEF PermitOf, Unspent, Granted, SpentBy, CallId
      <3>5. spender[i] = NoId
        <4>1. spentOn[i] = NoUse
          BY <2>3 DEF Spendable
        <4>2. QED
          BY <3>2, <4>1 DEF PermitInv
      <3>6. \A d \in Callers \ {c} : PermitOf(d)'
        <4>1. \A d \in Callers \ {c} : CallId(d) # CallId(c) /\ CallId(d) # NoId
          BY SetsAssumption DEF CallId, TypeInv, GateTypeOK
        <4>2. QED
          BY <2>1, <3>1, <3>3, <3>5, <4>1, OthersPermit
      <3>7. \A j \in Ids, d \in Callers, n \in 1..MaxCalls :
               spender'[j] = <<d, n>> => n <= calls'[d]
        BY <2>1, <3>3 DEF PermitInv, CallId, TypeInv, GateTypeOK
      <3>8. \A j \in Ids : spender'[j] = NoId <=> spentOn'[j] = NoUse
        <4>1. CallId(c) # NoId /\ UseOf(c) # NoUse
          <5>1. gate[c].req \in Calls
            BY <2>1, CallHasRecord, CallsAreRequests DEF TypeInv, GateCalls
          <5>2. UseOf(c) \in Uses
            BY <5>1 DEF UseOf, Uses, TypeInv, GateTypeOK
          <5>3. QED
            BY <5>2, SetsAssumption DEF CallId, TypeInv, GateTypeOK
        <4>2. QED
          BY <2>3, <3>2, <3>3, <4>1 DEF PermitInv, TypeInv, GateTypeOK
      <3>9. QED
        BY <2>1, <3>4, <3>6, <3>7, <3>8 DEF PermitInv
    <2>4. QED
      BY <1>4, <2>2, <2>3 DEF SpendApproval
  <1>5. ASSUME NEW c \in Callers, Leave(c)
        PROVE  PermitInv'
    <2>1. /\ UNCHANGED <<asked, sanctioned, spentOn, spender, calls, manifest>>
          /\ gate'[c].at = "idle"
          /\ \A d \in Callers \ {c} : gate'[d] = gate[d]
      BY <1>5
      DEF Leave, Idle, approvals, permitVars, settings, TypeInv, GateTypeOK
    <2>2. PermitOf(c)'
      BY <2>1 DEF PermitOf, Unspent, Granted
    <2>3. \A d \in Callers \ {c} : PermitOf(d)'
      BY <2>1, OthersPermit
    <2>4. QED
      BY <2>1, <2>2, <2>3 DEF PermitInv
  <1>6. CASE ChangeSettings \/ UNCHANGED gateVars
    <2>1. UNCHANGED <<asked, sanctioned, spentOn, spender, calls, manifest, gate>>
      BY <1>6 DEF ChangeSettings, gateVars, approvals, permitVars, settings
    <2>2. \A c \in Callers : PermitOf(c)'
      BY <2>1, OthersPermit
    <2>3. QED
      BY <2>1, <2>2 DEF PermitInv
  <1>7. ASSUME NEW i \in Ids, Approve(i) \/ Void(i)
        PROVE  PermitInv'
    <2>1. /\ UNCHANGED <<asked, spentOn, spender, calls, manifest, gate>>
          /\ sanctioned \subseteq sanctioned'
          /\ \A j \in sanctioned' : asked[j] # NoUse
      BY <1>7 DEF Approve, Sanction, Void, permitVars, settings, PermitInv
    <2>2. \A c \in Callers : PermitOf(c)'
      BY <2>1, OthersPermit
    <2>3. QED
      BY <2>1, <2>2 DEF PermitInv
  <1>8. QED
    BY <1>1, <1>2, <1>3, <1>4, <1>5, <1>6, <1>7
    DEF GateNext, GateStep, Operators, Vouch

LEMMA PermitInvariant == GateSpec => [](TypeInv /\ PermitInv)
  <1>1. GateInit => TypeInv /\ PermitInv
    BY GateTypeInit, PermitInvInit
  <1>2. TypeInv /\ PermitInv /\ [GateNext]_gateVars => (TypeInv /\ PermitInv)'
    BY GateTypeStep, PermitInvStep
  <1>3. QED
    BY <1>1, <1>2, PTL DEF GateSpec

(* "An approval is never spent on a call that was going to be refused":    *)
(* authorize() spends last, whatever changes between its checks.           *)
THEOREM RefusalsSpendNothing == GateSpec => []RefusalSpendsNothing
  <1>1. PermitInv => RefusalSpendsNothing
    BY DEF PermitInv, PermitOf, Unspent, RefusalSpendsNothing
  <1>2. QED
    BY <1>1, PermitInvariant, PTL

(* A cloud request is cleared only after its own call spent an approval    *)
(* that a person gave for that prompt, provider and model.                 *)
THEOREM CloudNeedsApproval == GateSpec => []CloudIsApproved
  <1>1. PermitInv => CloudIsApproved
    BY DEF PermitInv, PermitOf, Granted, CloudIsApproved
  <1>2. QED
    BY <1>1, PermitInvariant, PTL

-----------------------------------------------------------------------------
(* Evidence.  No record carries the name of a call that has not been made, *)
(* and what the records say of a call follows its stage.                   *)
Untold == {"locate", "clear", "resolve", "vouch", "guard", "spend", "record"}

EvidenceOf(c) ==
    /\ gate[c].at \in Untold => \A e \in trail : e.call # CallId(c)
    /\ gate[c].at \in {"refusing", "refused"} =>
          /\ \E e \in trail : /\ e.call = CallId(c)
                             /\ e.phase = "result"
                             /\ e.verdict = "refused"
          /\ \A e \in trail : e.call = CallId(c) => e.phase = "result"
    /\ gate[c].at = "cleared" =>
          /\ \E e \in trail : /\ e.call = CallId(c)
                             /\ e.phase = "intent"
                             /\ e.verdict = "allowed"
                             /\ e.engagement = gate[c].engagement
          /\ \A e \in trail : e.call = CallId(c) => e.phase = "intent"

EvidenceInv ==
    /\ \A e \in trail, c \in Callers, n \in 1..MaxCalls :
          e.call = <<c, n>> => n <= calls[c]
    /\ \A c \in Callers : EvidenceOf(c)
    /\ \A j \in journal :
          \E e \in trail : /\ e.call = j.call
                         /\ e.phase = "result"
                         /\ (e.verdict = "allowed") = (j.status = "allowed")

LEMMA EvidenceInvInit == GateInit => EvidenceInv
  BY DEF GateInit, EvidenceInv, EvidenceOf, Untold, Idle

(* One record more about a call that has its number says nothing of        *)
(* another caller's calls, nor of calls to come.                           *)
LEMMA OthersEvidence ==
    ASSUME TypeInv, EvidenceInv, NEW c \in Callers,
           NEW d \in Callers \ {c}, gate'[d] = gate[d], UNCHANGED calls,
           trail \subseteq trail',
           \A e \in trail' \ trail : e.call = CallId(c)
    PROVE  EvidenceOf(d)'
  <1>1. CallId(d) # CallId(c) /\ CallId(d)' = CallId(d)
    BY DEF CallId
  <1>2. \A e \in trail' : e.call = CallId(d) => e \in trail
    BY <1>1
  <1>3. QED
    BY <1>1, <1>2 DEF EvidenceInv, EvidenceOf

LEMMA KnownCalls ==
    ASSUME TypeInv, EvidenceInv, NEW c \in Callers, UNCHANGED calls,
           \A e \in trail' \ trail : e.call = CallId(c)
    PROVE  \A e \in trail', d \in Callers, n \in 1..MaxCalls :
              e.call = <<d, n>> => n <= calls'[d]
  BY DEF EvidenceInv, CallId, TypeInv, GateTypeOK

(* A step that writes nothing, and raises or stays where nothing is told.  *)
LEMMA SilentEvidence ==
    ASSUME TypeInv, EvidenceInv, NEW c \in Callers,
           UNCHANGED <<calls, trails>>,
           \A d \in Callers \ {c} : gate'[d] = gate[d],
           \/ gate'[c].at \in {"raised", "idle"}
           \/ gate[c].at \in Untold /\ gate'[c].at \in Untold
    PROVE  EvidenceInv'
  <1>1. EvidenceOf(c)'
    BY DEF EvidenceInv, EvidenceOf, Untold, CallId, trails
  <1>2. \A d \in Callers \ {c} : EvidenceOf(d)'
    BY OthersEvidence DEF trails
  <1>3. QED
    BY <1>1, <1>2 DEF EvidenceInv, trails

LEMMA RefusalEvidence ==
    ASSUME TypeInv, EvidenceInv, NEW c \in Callers, gate[c].at \in Untold,
           NEW engagement, Refuse(c, engagement)
    PROVE  EvidenceInv'
  <1>0. gate[c] # Idle
    BY DEF Untold, Idle
  <1>1. CASE Raise(c)
    BY <1>0, <1>1, SilentEvidence, MovedCall DEF Raise, GateStages
  <1>2. CASE /\ trail' = trail \cup {Record(c, engagement, "result", "refused")}
             /\ gate' = [gate EXCEPT ![c].at = "refusing"]
             /\ UNCHANGED <<approvals, settings, calls, journal>>
    <2> DEFINE rec == Record(c, engagement, "result", "refused")
    <2>1. /\ rec.call = CallId(c)
          /\ rec.phase = "result"
          /\ rec.verdict = "refused"
      BY DEF Record
    <2>2. /\ gate'[c].at = "refusing"
          /\ \A d \in Callers \ {c} : gate'[d] = gate[d]
      BY <1>0, <1>2, MovedCall DEF GateStages
    <2>3. trail' = trail \cup {rec} /\ CallId(c)' = CallId(c)
      BY <1>2 DEF CallId
    <2> HIDE DEF rec
    <2>4. EvidenceOf(c)'
      BY <2>1, <2>2, <2>3 DEF EvidenceInv, EvidenceOf, Untold
    <2>5. \A d \in Callers \ {c} : EvidenceOf(d)'
      BY <1>2, <2>1, <2>2, <2>3, OthersEvidence
    <2>6. \A e \in trail', d \in Callers, n \in 1..MaxCalls :
             e.call = <<d, n>> => n <= calls'[d]
      BY <1>2, <2>1, <2>3, KnownCalls
    <2>7. QED
      BY <1>2, <2>3, <2>4, <2>5, <2>6 DEF EvidenceInv
  <1>3. QED
    BY <1>1, <1>2 DEF Refuse

LEMMA EvidenceInvStep ==
    TypeInv /\ EvidenceInv /\ [GateNext]_gateVars => EvidenceInv'
  <1> SUFFICES ASSUME TypeInv, EvidenceInv, [GateNext]_gateVars
               PROVE  EvidenceInv'
    OBVIOUS
  <1>1. ASSUME NEW c \in Callers, NEW req \in Requests,
               NEW i \in Ids \cup {NoId}, Authorize(c, req, i)
        PROVE  EvidenceInv'
    <2>1. /\ gate'[c].at = "locate"
          /\ calls'[c] = calls[c] + 1
          /\ calls[c] \in 0..MaxCalls /\ calls[c] + 1 \in 1..MaxCalls
          /\ \A d \in Callers \ {c} : gate'[d] = gate[d] /\ calls'[d] = calls[d]
          /\ UNCHANGED <<trail, journal>>
      BY <1>1, SetsAssumption
      DEF Authorize, GateCall, TypeInv, GateTypeOK, trails
    <2>2. \A e \in trail : e.call # <<c, calls[c] + 1>>
      BY <2>1 DEF EvidenceInv
    <2>3. EvidenceOf(c)'
      BY <2>1, <2>2 DEF EvidenceOf, Untold, CallId
    <2>4. ASSUME NEW d \in Callers \ {c}
          PROVE  EvidenceOf(d)'
      <3>1. CallId(d)' = CallId(d) /\ gate'[d] = gate[d] /\ trail' = trail
        BY <2>1 DEF CallId
      <3>2. EvidenceOf(d)
        BY DEF EvidenceInv
      <3>3. QED
        BY <3>1, <3>2 DEF EvidenceOf
    <2>5. \A e \in trail', d \in Callers, n \in 1..MaxCalls :
             e.call = <<d, n>> => n <= calls'[d]
      BY <2>1, SetsAssumption DEF EvidenceInv, TypeInv, GateTypeOK
    <2>6. QED
      BY <2>1, <2>3, <2>4, <2>5 DEF EvidenceInv
  <1>2. ASSUME NEW c \in Callers, Locate(c)
        PROVE  EvidenceInv'
    <2>1. gate[c] # Idle /\ gate[c].at \in Untold
      BY <1>2 DEF Locate, Idle, Untold
    <2> DEFINE call == [gate[c] EXCEPT !.at = "clear", !.engagement = current]
    <2>2. call.at \in Untold
      BY <2>1, CallHasRecord DEF TypeInv, GateCalls, Untold
    <2>3. QED
      BY <1>2, <2>1, <2>2, PassedCall, SilentEvidence, RefusalEvidence DEF Locate
  <1>3. ASSUME NEW c \in Callers, ReadScope(c)
        PROVE  EvidenceInv'
    <2>1. gate[c] # Idle /\ gate[c].at \in Untold
      BY <1>3 DEF ReadScope, Idle, Untold
    <2> DEFINE call == [gate[c] EXCEPT !.at = "resolve",
                                       !.cloud = scope[gate[c].engagement].cloud]
    <2>2. call.at \in Untold
      BY <2>1, CallHasRecord DEF TypeInv, GateCalls, Untold
    <2>3. QED
      BY <1>3, <2>1, <2>2, PassedCall, SilentEvidence, RefusalEvidence
      DEF ReadScope
  <1>4. ASSUME NEW c \in Callers, Resolve(c) \/ Vouch(c)
        PROVE  EvidenceInv'
    <2>1. gate[c] # Idle /\ gate[c].at \in Untold
      BY <1>4, ResolveShape, VouchShape DEF Untold
    <2>2. CASE Refuse(c, gate[c].engagement)
      BY <2>1, <2>2, RefusalEvidence
    <2>3. CASE ~Refuse(c, gate[c].engagement)
      <3>1. UNCHANGED <<calls, trails>>
        BY <1>4, <2>3, ResolveShape, VouchShape DEF Pass
      <3>2. /\ gate'[c].at \in {"vouch", "guard"}
            /\ \A d \in Callers \ {c} : gate'[d] = gate[d]
        <4>1. CASE Resolve(c)
          BY <2>3, <4>1, ResolveShape
        <4>2. CASE Vouch(c)
          BY <2>3, <4>2, VouchShape, PassedCall
        <4>3. QED
          BY <1>4, <4>1, <4>2
      <3>3. QED
        BY <2>1, <3>1, <3>2, SilentEvidence DEF Untold
    <2>4. QED
      BY <2>2, <2>3
  <1>5. ASSUME NEW c \in Callers, Guard(c)
        PROVE  EvidenceInv'
    <2>1. gate[c] # Idle /\ gate[c].at \in Untold
      BY <1>5 DEF Guard, Idle, Untold
    <2>2. \A at \in {"record", "spend"} :
             [gate[c] EXCEPT !.at = at].at \in Untold
      BY <2>1, CallHasRecord DEF TypeInv, GateCalls, Untold
    <2>3. QED
      BY <1>5, <2>1, <2>2, PassedCall, SilentEvidence, RefusalEvidence DEF Guard
  <1>6. ASSUME NEW c \in Callers, SpendApproval(c)
        PROVE  EvidenceInv'
    <2>1. gate[c] # Idle /\ gate[c].at \in Untold
      BY <1>6 DEF SpendApproval, Idle, Untold
    <2>2. CASE Refuse(c, gate[c].engagement)
      BY <2>1, <2>2, RefusalEvidence
    <2>3. CASE Raise(c)
      BY <2>1, <2>3, MovedCall, SilentEvidence DEF Raise, GateStages
    <2>4. CASE /\ gate' = [gate EXCEPT ![c].at = "record"]
               /\ UNCHANGED <<settings, calls, trails>>
      <3>1. /\ gate'[c].at \in Untold
            /\ \A d \in Callers \ {c} : gate'[d] = gate[d]
        BY <2>1, <2>4, MovedCall DEF GateStages, Untold
      <3>2. QED
        BY <2>1, <2>4, <3>1, SilentEvidence
    <2>5. QED
      BY <1>6, <2>2, <2>3, <2>4 DEF SpendApproval
  <1>7. ASSUME NEW c \in Callers, RecordIntent(c)
        PROVE  EvidenceInv'
    <2>1. gate[c] # Idle /\ gate[c].at \in Untold
      BY <1>7 DEF RecordIntent, Idle, Untold
    <2>2. CASE Raise(c)
      BY <2>1, <2>2, MovedCall, SilentEvidence DEF Raise, GateStages
    <2>3. CASE ~ Raise(c)
      <3> DEFINE rec == Record(c, gate[c].engagement, "intent", "allowed")
      <3>1. /\ rec.call = CallId(c)
            /\ rec.phase = "intent"
            /\ rec.verdict = "allowed"
            /\ rec.engagement = gate[c].engagement
        BY DEF Record
      <3>2. /\ trail' = trail \cup {rec}
            /\ CallId(c)' = CallId(c)
            /\ UNCHANGED <<calls, journal>>
            /\ gate' = [gate EXCEPT ![c].at = "cleared"]
        BY <1>7, <2>3 DEF RecordIntent, CallId
      <3> HIDE DEF rec
      <3>3. /\ gate'[c].at = "cleared"
            /\ gate'[c].engagement = gate[c].engagement
            /\ \A d \in Callers \ {c} : gate'[d] = gate[d]
        BY <2>1, <3>2, MovedCall DEF GateStages, Decided
      <3>4. EvidenceOf(c)'
        BY <2>1, <3>1, <3>2, <3>3 DEF EvidenceInv, EvidenceOf, Untold
      <3>5. \A d \in Callers \ {c} : EvidenceOf(d)'
        BY <3>1, <3>2, <3>3, OthersEvidence
      <3>6. \A e \in trail', d \in Callers, n \in 1..MaxCalls :
               e.call = <<d, n>> => n <= calls'[d]
        BY <3>1, <3>2, KnownCalls
      <3>7. QED
        BY <3>2, <3>4, <3>5, <3>6 DEF EvidenceInv
    <2>4. QED
      BY <2>2, <2>3
  <1>8. ASSUME NEW c \in Callers, RecordRefusal(c)
        PROVE  EvidenceInv'
    <2>1. gate[c] # Idle /\ gate[c].at = "refusing"
      BY <1>8 DEF RecordRefusal, Idle
    <2>2. /\ gate'[c].at = "refused"
          /\ \A d \in Callers \ {c} : gate'[d] = gate[d]
          /\ UNCHANGED <<calls, trail>>
      BY <1>8, <2>1, MovedCall DEF RecordRefusal, GateStages, Decided
    <2>3. EvidenceOf(c)'
      BY <2>1, <2>2 DEF EvidenceInv, EvidenceOf, Untold, CallId
    <2>4. \A d \in Callers \ {c} : EvidenceOf(d)'
      BY <2>2, OthersEvidence
    <2>5. \A j \in journal' \ journal : /\ j.call = CallId(c)
                                       /\ j.status = "refused"
      BY <1>8 DEF RecordRefusal, Journal
    <2>6. \E e \in trail : /\ e.call = CallId(c)
                         /\ e.phase = "result"
                         /\ e.verdict = "refused"
      BY <2>1 DEF EvidenceInv, EvidenceOf
    <2>7. QED
      BY <2>2, <2>3, <2>4, <2>5, <2>6 DEF EvidenceInv
  <1>9. ASSUME NEW c \in Callers, NEW ok \in BOOLEAN, Finish(c, ok)
        PROVE  EvidenceInv'
    <2>1. gate[c] # Idle
      BY <1>9 DEF Finish, Idle
    <2>2. CASE Raise(c)
      BY <2>1, <2>2, MovedCall, SilentEvidence DEF Raise, GateStages
    <2>3. CASE ~ Raise(c)
      <3> DEFINE verdict == IF ok THEN "allowed" ELSE "refused"
                 rec == Record(c, current, "result", verdict)
      <3>1. /\ rec.call = CallId(c)
            /\ rec.phase = "result"
            /\ (rec.verdict = "allowed") = ok
        BY DEF Record
      <3>2. /\ trail' = trail \cup {rec}
            /\ UNCHANGED calls
            /\ gate' = [gate EXCEPT ![c].at = "finished"]
        BY <1>9, <2>3 DEF Finish
      <3>3. \A j \in journal' \ journal :
               j.call = CallId(c) /\ (j.status = "allowed") = ok
        BY <1>9, <2>3 DEF Finish, Journal
      <3> HIDE DEF rec
      <3>4. /\ gate'[c].at = "finished"
            /\ \A d \in Callers \ {c} : gate'[d] = gate[d]
        BY <2>1, <3>2, MovedCall DEF GateStages, Decided
      <3>5. EvidenceOf(c)'
        BY <3>4 DEF EvidenceOf, Untold
      <3>6. \A d \in Callers \ {c} : EvidenceOf(d)'
        BY <3>1, <3>2, <3>4, OthersEvidence
      <3>7. \A e \in trail', d \in Callers, n \in 1..MaxCalls :
               e.call = <<d, n>> => n <= calls'[d]
        BY <3>1, <3>2, KnownCalls
      <3>8. \A j \in journal' :
               \E e \in trail' : /\ e.call = j.call
                               /\ e.phase = "result"
                               /\ (e.verdict = "allowed") = (j.status = "allowed")
        BY <3>1, <3>2, <3>3 DEF EvidenceInv
      <3>9. QED
        BY <3>5, <3>6, <3>7, <3>8 DEF EvidenceInv
    <2>4. QED
      BY <2>2, <2>3
  <1>10. ASSUME NEW c \in Callers, Leave(c)
         PROVE  EvidenceInv'
    <2>1. /\ gate'[c].at = "idle"
          /\ \A d \in Callers \ {c} : gate'[d] = gate[d]
          /\ UNCHANGED <<calls, trails>>
      BY <1>10 DEF Leave, Idle, TypeInv, GateTypeOK
    <2>2. QED
      BY <2>1, SilentEvidence
  <1>11. CASE \/ \E i \in Ids, req \in Requests : RequestApproval(i, req)
              \/ Operators
              \/ UNCHANGED gateVars
    <2>1. UNCHANGED <<gate, calls, trail, journal>>
      BY <1>11
      DEF RequestApproval, Operators, ChangeSettings, Approve, Void, gateVars, trails
    <2>2. QED
      BY <2>1 DEF EvidenceInv, EvidenceOf, CallId
  <1>12. QED
    BY <1>1, <1>2, <1>3, <1>4, <1>5, <1>6, <1>7, <1>8, <1>9, <1>10, <1>11
    DEF GateNext, GateStep, Vouch

(* A decision that was returned is in the log: a refusal as a refusal, a   *)
(* clearance as an intent of the engagement whose scope was read, and the  *)
(* audit tells of no outcome that the log does not have.                   *)
THEOREM DecisionsHaveEvidence == GateSpec => []DecisionsAreEvidenced
  <1>1. GateInit => TypeInv /\ EvidenceInv
    BY GateTypeInit, EvidenceInvInit
  <1>2. TypeInv /\ EvidenceInv /\ [GateNext]_gateVars => (TypeInv /\ EvidenceInv)'
    BY GateTypeStep, EvidenceInvStep
  <1>3. EvidenceInv => DecisionsAreEvidenced
    BY DEF EvidenceInv, EvidenceOf, DecisionsAreEvidenced, RecordsOf
  <1>4. QED
    BY <1>1, <1>2, <1>3, PTL DEF GateSpec

-----------------------------------------------------------------------------
(* Peers.  While a call vouches for them, its peers and the addresses it   *)
(* allows come from different resolutions of the same names; every one     *)
(* they have had meanwhile is among the answers of this call.              *)
Checked == {"guard", "spend"} \cup Granted

PeersOf(c) ==
    LET call == gate[c]
        p    == call.req.provider
    IN
    /\ call.at = "vouch" =>
          /\ call.peers # {}
          /\ call.left \subseteq manifest[p].peers
          /\ IsCloud(p) => call.left = {}
          /\ call.allowed \subseteq Vouched(CallId(c), p)
          /\ \A n \in Names \cap manifest[p].peers : \A a \in resolves[n] :
                [call |-> CallId(c), address |-> a] \in answers
    /\ call.at \in Checked =>
          /\ call.peers # {}
          /\ call.peers \subseteq Vouched(CallId(c), p)
          /\ call.allowed \subseteq Vouched(CallId(c), p)

PeersInv == \A c \in Callers : PeersOf(c)

LEMMA PeersInvInit == GateInit => PeersInv
  BY DEF GateInit, PeersInv, PeersOf, Checked, Granted, Idle

(* What was vouched for stays so.                                          *)
LEMMA VouchedStays ==
    ASSUME UNCHANGED manifest, answers \subseteq answers', NEW id, NEW p
    PROVE  Vouched(id, p) \subseteq Vouched(id, p)'
  BY DEF Vouched, IsCloud

(* A call that keeps what it knows, while the names stay as they are.      *)
LEMMA SamePeers ==
    ASSUME PeersInv, NEW c \in Callers, UNCHANGED <<manifest, resolves, answers>>,
           calls'[c] = calls[c], gate'[c] = gate[c]
    PROVE  PeersOf(c)'
  BY DEF PeersInv, PeersOf, Vouched, IsCloud, CallId

LEMMA RebindPeers ==
    ASSUME TypeInv, PeersInv, Rebind, UNCHANGED <<manifest, gate, calls>>
    PROVE  PeersInv'
  <1> SUFFICES ASSUME NEW c \in Callers PROVE PeersOf(c)'
    BY DEF PeersInv
  <1> DEFINE p == gate[c].req.provider
  <1>1. PICK n \in Names, actual \in SUBSET Addresses :
           /\ resolves' = [resolves EXCEPT ![n] = actual]
           /\ answers' = answers \cup
                [call: {CallId(d) : d \in {e \in Callers : VouchesFor(e, n)}},
                 address: actual]
    BY DEF Rebind
  <1>2. answers \subseteq answers' /\ CallId(c)' = CallId(c)
    BY <1>1 DEF CallId
  <1>3. Vouched(CallId(c), p) \subseteq Vouched(CallId(c), p)'
    BY <1>2, VouchedStays
  <1>4. ASSUME gate[c].at = "vouch", NEW m \in Names \cap manifest[p].peers,
               NEW a \in resolves'[m]
        PROVE  [call |-> CallId(c), address |-> a] \in answers'
    <2>1. CASE m = n
      <3>1. a \in actual
        BY <1>1, <1>4, <2>1 DEF TypeInv, GateTypeOK
      <3>2. VouchesFor(c, n)
        BY <1>4, <2>1 DEF VouchesFor
      <3>3. QED
        BY <1>1, <3>1, <3>2
    <2>2. CASE m # n
      <3>1. a \in resolves[m]
        BY <1>1, <1>4, <2>2 DEF TypeInv, GateTypeOK
      <3>2. [call |-> CallId(c), address |-> a] \in answers
        BY <1>4, <3>1 DEF PeersInv, PeersOf
      <3>3. QED
        BY <1>2, <3>2
    <2>3. QED
      BY <2>1, <2>2
  <1>5. PeersOf(c)
    BY DEF PeersInv
  <1>6. QED
    BY <1>2, <1>3, <1>4, <1>5 DEF PeersOf, IsCloud

LEMMA ResolvePeers ==
    ASSUME TypeInv, PeersInv, NEW c \in Callers, Resolve(c),
           ~Refuse(c, gate[c].engagement)
    PROVE  PeersInv'
  <1> DEFINE p == gate[c].req.provider
  <1>1. /\ gate[c].at = "resolve" /\ p \in DOMAIN manifest
        /\ gate'[c].peers # {}
        /\ UNCHANGED <<manifest, resolves, calls>>
        /\ answers' = answers \cup
              [call: {CallId(c)},
               address: UNION {resolves[n] : n \in Names \cap manifest[p].peers}]
        /\ \A d \in Callers \ {c} : gate'[d] = gate[d]
        /\ gate'[c].at = "vouch" /\ gate'[c].req = gate[c].req
        /\ gate'[c].allowed \subseteq IF IsCloud(p) THEN PublicAddresses ELSE {}
        /\ gate'[c].left = manifest[p].peers
    BY ResolveShape
  <1>2. answers \subseteq answers' /\ \A d \in Callers : CallId(d)' = CallId(d)
    BY <1>1 DEF CallId
  <1>3. PeersOf(c)'
    <2>1. IsCloud(p) => manifest[p].peers = {}
      BY <1>1, ManifestsAssumption DEF IsCloud, TypeInv, GateTypeOK
    <2>2. \A n \in Names \cap manifest[p].peers : \A a \in resolves[n] :
             [call |-> CallId(c), address |-> a] \in answers'
      BY <1>1
    <2>3. gate'[c].allowed \subseteq Vouched(CallId(c), p)'
      BY <1>1 DEF Vouched, IsCloud
    <2>4. QED
      BY <1>1, <1>2, <2>1, <2>2, <2>3 DEF PeersOf, IsCloud, Checked, Granted
  <1>4. ASSUME NEW d \in Callers \ {c}
        PROVE  PeersOf(d)'
    <2>1. Vouched(CallId(d), gate[d].req.provider)
             \subseteq Vouched(CallId(d), gate[d].req.provider)'
      BY <1>1, <1>2, VouchedStays
    <2>2. PeersOf(d)
      BY DEF PeersInv
    <2>3. gate'[d] = gate[d] /\ CallId(d)' = CallId(d) /\ answers \subseteq answers'
      BY <1>1, <1>2
    <2>4. UNCHANGED <<manifest, resolves>>
      BY <1>1
    <2>5. QED
      BY <2>1, <2>2, <2>3, <2>4 DEF PeersOf, IsCloud
  <1>5. QED
    BY <1>3, <1>4 DEF PeersInv

LEMMA VouchPeers ==
    ASSUME TypeInv, PeersInv, NEW c \in Callers, Vouch(c),
           ~Refuse(c, gate[c].engagement)
    PROVE  PeersInv'
  <1> DEFINE p == gate[c].req.provider
  <1>1. PICK call \in GateCalls :
           /\ Pass(c, call)
           /\ call.req = gate[c].req /\ call.peers = gate[c].peers
           /\ \/ /\ call.at = "guard"
                 /\ call.allowed = gate[c].allowed
                 /\ Confined(gate[c])
              \/ /\ call.at = "vouch"
                 /\ \E host \in gate[c].left :
                       /\ call.allowed = gate[c].allowed \cup Resolution(host)
                       /\ call.left = gate[c].left \ {host}
    BY VouchShape
  <1>2. /\ gate[c].at = "vouch" /\ gate[c] \in GateCalls
        /\ UNCHANGED <<manifest, resolves, answers, calls>>
        /\ gate'[c] = call /\ \A d \in Callers \ {c} : gate'[d] = gate[d]
    BY <1>1, VouchShape, PassedCall DEF settings
  <1>3. PeersOf(c)
    BY DEF PeersInv
  <1>4. ASSUME NEW host \in gate[c].left
        PROVE  Resolution(host) \subseteq Vouched(CallId(c), p)
    <2>1. ~IsCloud(p) /\ host \in manifest[p].peers
      BY <1>2, <1>3 DEF PeersOf
    <2>2. host \in Names \cup Addresses
      BY <1>2 DEF GateCalls
    <2>3. CASE host \in Names
      <3>1. \A a \in resolves[host] : [call |-> CallId(c), address |-> a] \in answers
        BY <1>2, <1>3, <2>1, <2>3 DEF PeersOf
      <3>2. resolves[host] \subseteq Addresses
        BY <2>3 DEF TypeInv, GateTypeOK
      <3>3. QED
        BY <2>1, <2>3, <3>1, <3>2 DEF Resolution, Vouched
    <2>4. CASE host \notin Names
      BY <2>1, <2>2, <2>4 DEF Resolution, Vouched
    <2>5. QED
      BY <2>3, <2>4
  <1>5. /\ Vouched(CallId(c), p)' = Vouched(CallId(c), p)
        /\ CallId(c)' = CallId(c)
    BY <1>1, <1>2 DEF Vouched, IsCloud, CallId
  <1>6. PeersOf(c)'
    <2>1. CASE call.at = "guard"
      <3>1. gate[c].peers \subseteq gate[c].allowed
        BY <1>1, <2>1 DEF Confined
      <3>2. QED
        BY <1>1, <1>2, <1>3, <1>5, <2>1, <3>1 DEF PeersOf
    <2>2. CASE call.at = "vouch"
      BY <1>1, <1>2, <1>3, <1>4, <1>5, <2>2 DEF PeersOf, IsCloud, Checked, Granted
    <2>3. QED
      BY <1>1, <2>1, <2>2
  <1>7. QED
    BY <1>2, <1>6, SamePeers DEF PeersInv

LEMMA PeersInvStep == TypeInv /\ PeersInv /\ [GateNext]_gateVars => PeersInv'
  <1> SUFFICES ASSUME TypeInv, PeersInv, [GateNext]_gateVars
               PROVE  PeersInv'
    OBVIOUS
  <1>1. ASSUME NEW c \in Callers, UNCHANGED settings,
               \A d \in Callers \ {c} : gate'[d] = gate[d] /\ calls'[d] = calls[d],
               gate'[c].at \notin {"vouch"} \cup Checked
        PROVE  PeersInv'
    <2>1. PeersOf(c)'
      BY <1>1 DEF PeersOf
    <2>2. QED
      BY <1>1, <2>1, SamePeers DEF PeersInv, settings
  <1>2. ASSUME NEW c \in Callers, UNCHANGED <<settings, calls>>, gate[c] # Idle,
               gate[c].at \in Checked,
               NEW at \in GateStages \ {"vouch"}, gate' = [gate EXCEPT ![c].at = at]
        PROVE  PeersInv'
    <2>1. /\ gate'[c].at = at /\ gate'[c].req = gate[c].req
          /\ gate'[c].peers = gate[c].peers /\ gate'[c].allowed = gate[c].allowed
          /\ \A d \in Callers \ {c} : gate'[d] = gate[d]
      BY <1>2, MovedCall
    <2>2. CallId(c)' = CallId(c) /\ UNCHANGED <<manifest, answers>>
      BY <1>2 DEF CallId, settings
    <2>3. PeersOf(c)'
      BY <1>2, <2>1, <2>2 DEF PeersInv, PeersOf, Vouched, IsCloud
    <2>4. QED
      BY <1>2, <2>1, <2>3, SamePeers DEF PeersInv, settings
  <1>3. ASSUME NEW c \in Callers, NEW e, Refuse(c, e), gate[c] # Idle
        PROVE  PeersInv'
    BY <1>1, <1>3, RefusedCall DEF Checked, Granted
  <1>4. ASSUME NEW c \in Callers, Locate(c) \/ ReadScope(c)
        PROVE  PeersInv'
    <2>1. gate[c] # Idle /\ gate[c] \in GateCalls
      BY <1>4, CallHasRecord DEF Locate, ReadScope, Idle, TypeInv
    <2>2. /\ [gate[c] EXCEPT !.at = "clear", !.engagement = current].at
               \notin {"vouch"} \cup Checked
          /\ [gate[c] EXCEPT !.at = "resolve",
                   !.cloud = scope[gate[c].engagement].cloud].at
               \notin {"vouch"} \cup Checked
      BY <2>1 DEF GateCalls, Checked, Granted
    <2>3. QED
      BY <1>1, <1>3, <1>4, <2>1, <2>2, PassedCall DEF Locate, ReadScope
  <1>5. ASSUME NEW c \in Callers, Resolve(c) \/ Vouch(c)
        PROVE  PeersInv'
    <2>1. gate[c] # Idle
      BY <1>5, ResolveShape, VouchShape
    <2>2. QED
      BY <1>3, <1>5, <2>1, ResolvePeers, VouchPeers
  <1>6. ASSUME NEW c \in Callers, Guard(c) \/ SpendApproval(c)
        PROVE  PeersInv'
    <2>1. gate[c] # Idle /\ gate[c].at \in Checked
      BY <1>6 DEF Guard, SpendApproval, Idle, Checked
    <2>2. CASE Refuse(c, gate[c].engagement)
      BY <1>3, <2>1, <2>2
    <2>3. CASE Raise(c)
      BY <1>2, <2>1, <2>3 DEF Raise, GateStages
    <2>4. ASSUME NEW at \in {"record", "spend"},
                 Pass(c, [gate[c] EXCEPT !.at = at])
          PROVE  PeersInv'
      <3>1. gate' = [gate EXCEPT ![c].at = at] /\ UNCHANGED <<settings, calls>>
        BY <2>4 DEF Pass
      <3>2. QED
        BY <1>2, <2>1, <3>1 DEF GateStages
    <2>5. CASE /\ gate' = [gate EXCEPT ![c].at = "record"]
               /\ UNCHANGED <<settings, calls>>
      BY <1>2, <2>1, <2>5 DEF GateStages
    <2>6. QED
      BY <1>6, <2>2, <2>3, <2>4, <2>5 DEF Guard, SpendApproval
  <1>7. ASSUME NEW c \in Callers,
               RecordIntent(c) \/ \E ok \in BOOLEAN : Finish(c, ok)
        PROVE  PeersInv'
    <2>1. gate[c] # Idle /\ gate[c].at \in Checked
      BY <1>7 DEF RecordIntent, Finish, Idle, Checked, Granted
    <2>2. \E at \in GateStages \ {"vouch"} : /\ gate' = [gate EXCEPT ![c].at = at]
                                            /\ UNCHANGED <<settings, calls>>
      BY <1>7 DEF RecordIntent, Finish, Raise, GateStages, Decided
    <2>3. QED
      BY <1>2, <2>1, <2>2
  <1>8. ASSUME NEW c \in Callers, RecordRefusal(c)
        PROVE  PeersInv'
    <2>1. gate[c] # Idle /\ UNCHANGED <<settings, calls>>
      BY <1>8 DEF RecordRefusal, Idle
    <2>2. gate'[c].at = "refused" /\ \A d \in Callers \ {c} : gate'[d] = gate[d]
      BY <1>8, <2>1, MovedCall DEF RecordRefusal, GateStages, Decided
    <2>3. QED
      BY <1>1, <2>1, <2>2 DEF Checked, Granted
  <1>9. ASSUME NEW c \in Callers,
               \/ Leave(c)
               \/ \E req \in Requests, i \in Ids \cup {NoId} :
                     Authorize(c, req, i)
        PROVE  PeersInv'
    <2>1. /\ UNCHANGED settings
          /\ gate'[c].at \in {"idle", "locate"}
          /\ \A d \in Callers \ {c} : gate'[d] = gate[d] /\ calls'[d] = calls[d]
      BY <1>9 DEF Leave, Authorize, GateCall, Idle, TypeInv, GateTypeOK
    <2>2. QED
      BY <1>1, <2>1 DEF Checked, Granted
  <1>10. CASE \/ \E i \in Ids, req \in Requests : RequestApproval(i, req)
              \/ \E i \in Ids : Approve(i) \/ Void(i)
              \/ ChangeSettings /\ ~Rebind
              \/ UNCHANGED gateVars
    <2>1. UNCHANGED <<gate, calls, manifest, resolves, answers>>
      BY <1>10
      DEF RequestApproval, ChangeSettings, UseEngagement, WriteScope, SetProfile,
          SetKeys, Approve, Void, gateVars, settings
    <2>2. QED
      BY <2>1, SamePeers DEF PeersInv
  <1>11. CASE ChangeSettings /\ Rebind
    BY <1>11, RebindPeers DEF ChangeSettings
  <1>12. QED
    BY <1>4, <1>5, <1>6, <1>7, <1>8, <1>9, <1>10, <1>11
    DEF GateNext, GateStep, Operators, Vouch

(* A cleared request has somewhere to go, and goes only to public          *)
(* addresses of a cloud provider, or to addresses that a local one         *)
(* declares or that a name it declares had while this call vouched for it, *)
(* however names are rebound between its resolutions or after them.        *)
THEOREM ClearedPeersAreVetted == GateSpec => []PeersAreVetted
  <1>1. ASSUME TypeInv, PeersInv
        PROVE  PeersAreVetted
    BY <1>1
    DEF PeersInv, PeersOf, Checked, PeersAreVetted, Granted, Decided
  <1>2. QED
    BY <1>1, PeersInvInit, PeersInvStep, GateTypeInvariant, PTL DEF GateSpec

-----------------------------------------------------------------------------
(* THE CONVERSATION.  What the gate guarantees it guarantees here too:     *)
(* every step of a conversation is a step of the gate, or none of its      *)
(* business.                                                               *)

GateInv == TypeInv /\ PermitInv /\ EvidenceInv /\ PeersInv

LEMMA GateInvInit == GateInit => GateInv
  BY GateTypeInit, PermitInvInit, EvidenceInvInit, PeersInvInit DEF GateInv

LEMMA GateInvStep == GateInv /\ [GateNext]_gateVars => GateInv'
  BY GateTypeStep, PermitInvStep, EvidenceInvStep, PeersInvStep DEF GateInv

-----------------------------------------------------------------------------
(* The conversation: its types, and where the gate is meanwhile.           *)

TalkStages == Ended \cup {"ask", "await", "authorize", "gate", "connect", "send",
                          "receive", "tools"}

Talks == [at: TalkStages, turn: 1..MaxTurns, provider: Providers, model: Models,
          messages: Prompts, approver: Approvers, permit: Ids \cup {NoId},
          left: SUBSET Addresses, peer: SUBSET Addresses]

(* Where the gate is while a turn is on its way.                           *)
TalkOf(c) ==
    LET t == talk[c] IN
    /\ t.at \in {"not-started", "ask", "await", "authorize"} => gate[c] = Idle
    /\ t.at # "not-started" =>
        /\ t.messages \in [1..(t.turn - 1) -> ToolResults]
        /\ t.at = "gate" => /\ gate[c] # Idle /\ gate[c].at # "finished"
                            /\ gate[c].req = RequestOf(c)
        /\ t.at \in {"connect", "send", "receive"} =>
              gate[c].at = "cleared" /\ gate[c].req = RequestOf(c)
        /\ t.at = "tools" => gate[c].at = "finished"
        /\ t.at = "send" => t.peer \subseteq gate[c].allowed

TalkInv ==
    /\ talk \in [Callers -> {NotStarted} \cup Talks]
    /\ \A c \in Callers : TalkOf(c)

-----------------------------------------------------------------------------
(* What the gate never takes back.                                         *)

(* An approval that was given stays as it was asked for, and one that was  *)
(* spent stays with the call that spent it.                                *)
LEMMA ApprovalsStay ==
    ASSUME GateInv, [GateNext]_gateVars
    PROVE  /\ sanctioned \subseteq sanctioned'
           /\ \A i \in sanctioned : asked'[i] = asked[i]
           /\ \A i \in Ids : spender[i] # NoId => spender'[i] = spender[i]
           /\ manifest' = manifest /\ answers \subseteq answers'
  <1>0. TypeInv /\ PermitInv
    BY DEF GateInv
  <1>1. ASSUME NEW i \in Ids, NEW req, RequestApproval(i, req)
        PROVE  /\ sanctioned' = sanctioned /\ spender' = spender /\ manifest' = manifest
               /\ \A j \in sanctioned : asked'[j] = asked[j]
    BY <1>0, <1>1
    DEF RequestApproval, Ask, PermitInv, TypeInv, GateTypeOK, settings
  <1>2. ASSUME NEW c \in Callers, SpendApproval(c)
        PROVE  /\ asked' = asked /\ sanctioned' = sanctioned /\ manifest' = manifest
               /\ \A i \in Ids : spender[i] # NoId => spender'[i] = spender[i]
    <2>1. UNCHANGED <<asked, sanctioned, manifest>>
      BY <1>2 DEF SpendApproval, Refuse, Raise, approvals, permitVars, settings
    <2>2. \/ spender' = spender
          \/ /\ spentOn[gate[c].permit] = NoUse
             /\ spender' = [spender EXCEPT ![gate[c].permit] = CallId(c)]
      BY <1>2 DEF SpendApproval, Spendable, Refuse, Raise, approvals
    <2>3. ASSUME NEW i \in Ids, spender[i] # NoId
          PROVE  spender'[i] = spender[i]
      <3>1. spentOn[i] # NoUse
        BY <1>0, <2>3 DEF PermitInv
      <3>2. QED
        BY <1>0, <2>2, <3>1 DEF TypeInv, GateTypeOK
    <2>4. QED
      BY <2>1, <2>3
  <1>3. ASSUME NEW c \in Callers,
               \/ Locate(c) \/ ReadScope(c) \/ Resolve(c) \/ Vouch(c) \/ Guard(c)
               \/ RecordIntent(c) \/ RecordRefusal(c)
               \/ \E ok \in BOOLEAN : Finish(c, ok)
        PROVE  UNCHANGED <<asked, sanctioned, spender, manifest>>
    BY <1>0, <1>3, QuietStep DEF approvals, permitVars
  <1>4. ASSUME NEW c \in Callers,
               \/ \E req \in Requests, i \in Ids \cup {NoId} : Authorize(c, req, i)
               \/ Leave(c)
        PROVE  UNCHANGED <<asked, sanctioned, spender, manifest>>
    BY <1>4 DEF Authorize, Leave, approvals, permitVars, settings
  <1>5. ASSUME Operators \/ UNCHANGED gateVars
        PROVE  /\ asked' = asked /\ spender' = spender /\ manifest' = manifest
               /\ sanctioned \subseteq sanctioned'
    BY <1>5
    DEF Operators, ChangeSettings, Approve, Sanction, Void, gateVars, approvals,
        permitVars, settings
  <1>6. answers \subseteq answers'
    <2>1. ASSUME NEW c \in Callers, Resolve(c)
          PROVE  answers \subseteq answers'
      BY <1>0, <2>1, ResolveShape DEF Refuse, Raise, settings
    <2>2. ASSUME NEW c \in Callers, Vouch(c)
          PROVE  answers' = answers
      BY <1>0, <2>2, VouchShape DEF Refuse, Raise, Pass, settings
    <2>3. ASSUME NEW c \in Callers,
                 \/ Locate(c) \/ ReadScope(c) \/ Guard(c) \/ SpendApproval(c)
                 \/ RecordIntent(c) \/ RecordRefusal(c) \/ Leave(c)
                 \/ \E ok \in BOOLEAN : Finish(c, ok)
                 \/ \E req \in Requests, i \in Ids \cup {NoId} : Authorize(c, req, i)
          PROVE  answers' = answers
      BY <2>3
      DEF Locate, ReadScope, Guard, SpendApproval, RecordIntent, RecordRefusal, Leave,
          Finish, Authorize, Refuse, Raise, Pass, settings
    <2>4. CASE ChangeSettings
      BY <2>4
      DEF ChangeSettings, UseEngagement, WriteScope, SetProfile, SetKeys, Rebind
    <2>5. CASE \/ \E i \in Ids, req \in Requests : RequestApproval(i, req)
               \/ \E i \in Ids : Approve(i) \/ Void(i)
               \/ UNCHANGED gateVars
      BY <2>5 DEF RequestApproval, Approve, Void, gateVars, settings
    <2>6. QED
      BY <2>1, <2>2, <2>3, <2>4, <2>5 DEF GateNext, GateStep, Operators, Vouch
  <1>7. QED
    BY <1>1, <1>2, <1>3, <1>4, <1>5, <1>6 DEF GateNext, GateStep, Vouch

(* Records stay; a new one is about the call its writer is making, which   *)
(* has no result yet.                                                      *)
AddsRecord(c) ==
    \/ trail' = trail
    \/ \E e \in Entries :
          /\ trail' = trail \cup {e} /\ e.call = CallId(c)
          /\ e.phase = "result" => RecordsFor(CallId(c), "result") = {}

LEMMA RefusalAdds ==
    ASSUME GateInv, NEW c \in Callers, gate[c].at \in Untold,
           NEW engagement \in Engagements \cup {NoEngagement},
           Refuse(c, engagement)
    PROVE  AddsRecord(c)
  <1> DEFINE e == Record(c, engagement, "result", "refused")
  <1>0. TypeInv /\ gate[c] # Idle
    BY DEF GateInv, Untold, Idle
  <1>1. e \in Entries /\ e.call = CallId(c)
    BY <1>0, RecordIsEntry DEF Record
  <1>2. RecordsFor(CallId(c), "result") = {}
    BY DEF GateInv, EvidenceInv, EvidenceOf, RecordsFor
  <1>3. trail' = trail \/ trail' = trail \cup {e}
    BY DEF Refuse, Raise, trails
  <1> HIDE DEF e
  <1>4. QED
    BY <1>1, <1>2, <1>3 DEF AddsRecord

LEMMA TrailMoves ==
    ASSUME GateInv, [GateNext]_gateVars
    PROVE  \/ trail' = trail
           \/ /\ calls' = calls
              /\ \E c \in Callers : gate[c] # Idle /\ AddsRecord(c)
  <1>0. TypeInv /\ EvidenceInv
    BY DEF GateInv
  <1>1. ASSUME NEW c \in Callers, NEW stage, gate[c].at = stage, stage # "idle"
        PROVE  /\ gate[c] # Idle
               /\ gate[c].engagement \in Engagements \cup {NoEngagement}
    BY <1>0, <1>1, CallHasRecord, StageIsNotIdle DEF TypeInv, GateCalls
  <1>2. ASSUME NEW c \in Callers,
               \/ Locate(c) \/ ReadScope(c) \/ Resolve(c) \/ Vouch(c) \/ Guard(c)
               \/ SpendApproval(c)
        PROVE  calls' = calls /\ gate[c] # Idle /\ AddsRecord(c)
    <2>1. /\ gate[c].at \in Untold \ {"record"} /\ calls' = calls
          /\ \/ trail' = trail
             \/ Refuse(c, NoEngagement)
             \/ Refuse(c, gate[c].engagement)
      BY <1>2
      DEF Locate, ReadScope, Resolve, Vouch, VouchFor, Confine, Guard, SpendApproval,
          Refuse, Raise, Pass, trails, Untold
    <2>2. gate[c] # Idle /\ gate[c].engagement \in Engagements \cup {NoEngagement}
      BY <1>1, <2>1 DEF Untold
    <2>3. QED
      BY <2>1, <2>2, RefusalAdds DEF AddsRecord
  <1>3. ASSUME NEW c \in Callers, RecordIntent(c)
        PROVE  calls' = calls /\ gate[c] # Idle /\ AddsRecord(c)
    <2> DEFINE e == Record(c, gate[c].engagement, "intent", "allowed")
    <2>1. /\ gate[c].at = "record" /\ calls' = calls
          /\ trail' = trail \/ trail' = trail \cup {e}
      BY <1>3 DEF RecordIntent, Raise, trails
    <2>2. gate[c] # Idle /\ gate[c].engagement \in Engagements \cup {NoEngagement}
      BY <1>1, <2>1
    <2>3. e \in Entries /\ e.call = CallId(c) /\ e.phase = "intent"
      BY <1>0, <2>2, RecordIsEntry DEF Record
    <2> HIDE DEF e
    <2>4. QED
      BY <2>1, <2>2, <2>3 DEF AddsRecord
  <1>4. ASSUME NEW c \in Callers, NEW ok \in BOOLEAN, Finish(c, ok)
        PROVE  calls' = calls /\ gate[c] # Idle /\ AddsRecord(c)
    <2> DEFINE verdict == IF ok THEN "allowed" ELSE "refused"
               e == Record(c, current, "result", verdict)
    <2>1. /\ gate[c].at = "cleared" /\ calls' = calls
          /\ trail' = trail \/ trail' = trail \cup {e}
      BY <1>4 DEF Finish, Raise, trails
    <2>2. gate[c] # Idle
      BY <1>1, <2>1
    <2>3. current \in Engagements \cup {NoEngagement} /\ verdict \in {"allowed", "refused"}
      BY <1>0 DEF TypeInv, GateTypeOK
    <2> HIDE DEF verdict
    <2>4. e \in Entries /\ e.call = CallId(c)
      BY <1>0, <2>2, <2>3, RecordIsEntry DEF Record
    <2>5. RecordsFor(CallId(c), "result") = {}
      BY <1>0, <2>1 DEF EvidenceInv, EvidenceOf, RecordsFor
    <2> HIDE DEF e
    <2>6. QED
      BY <2>1, <2>2, <2>4, <2>5 DEF AddsRecord
  <1>5. ASSUME \/ \E i \in Ids, req \in Requests : RequestApproval(i, req)
               \/ \E c \in Callers, req \in Requests, i \in Ids \cup {NoId} :
                     Authorize(c, req, i)
               \/ \E c \in Callers : RecordRefusal(c) \/ Leave(c)
               \/ Operators
               \/ UNCHANGED gateVars
        PROVE  trail' = trail
    BY <1>5
    DEF RequestApproval, Authorize, RecordRefusal, Leave, Operators, ChangeSettings,
        Approve, Void, gateVars, trails
  <1>6. QED
    BY <1>2, <1>3, <1>4, <1>5 DEF GateNext, GateStep, Vouch

LEMMA RecordsStay ==
    ASSUME GateInv, [GateNext]_gateVars
    PROVE  trail \subseteq trail'
  BY TrailMoves DEF AddsRecord

(* A call has one result at most.                                          *)
OneResult ==
    \A e, f \in trail :
        e.phase = "result" /\ f.phase = "result" /\ e.call = f.call => e = f

LEMMA OneResultStep == GateInv /\ OneResult /\ [GateNext]_gateVars => OneResult'
  <1> SUFFICES ASSUME GateInv, OneResult, [GateNext]_gateVars
               PROVE  OneResult'
    OBVIOUS
  <1>1. CASE trail' = trail
    BY <1>1 DEF OneResult
  <1>2. ASSUME NEW c \in Callers, NEW e \in Entries,
               trail' = trail \cup {e}, e.call = CallId(c),
               e.phase = "result" => RecordsFor(CallId(c), "result") = {}
        PROVE  OneResult'
    BY <1>2 DEF OneResult, RecordsFor
  <1>3. QED
    BY <1>1, <1>2, TrailMoves DEF AddsRecord

-----------------------------------------------------------------------------
(* The steps of the gate that a turn takes.                                *)

LEMMA DecideShape ==
    ASSUME GateInv, NEW c \in Callers, GateStep(c)
    PROVE  /\ UNCHANGED calls
           /\ gate[c].at \notin {"cleared", "finished"}
           /\ gate'[c] # Idle /\ gate'[c].at # "finished"
           /\ gate'[c].req = gate[c].req
           /\ \A d \in Callers \ {c} : gate'[d] = gate[d]
  <1>0. TypeInv
    BY DEF GateInv
  <1>1. gate[c].at \in Untold \cup {"refusing"}
    BY DEF GateStep, Locate, ReadScope, Resolve, VouchFor, Confine, Guard,
           SpendApproval, RecordIntent, RecordRefusal, Untold
  <1>2. gate[c] # Idle
    BY <1>1, StageIsNotIdle DEF Untold
  <1>3. CASE SpendApproval(c)
    <2>1. CASE Refuse(c, gate[c].engagement)
      <3>1. /\ UNCHANGED calls
            /\ \A d \in Callers \ {c} : gate'[d] = gate[d]
            /\ gate'[c].req = gate[c].req
            /\ gate'[c].at \in {"refusing", "raised"}
        BY <1>0, <1>2, <2>1, RefusedCall
      <3>2. QED
        BY <1>1, <3>1 DEF Idle, Untold
    <2>2. CASE ~Refuse(c, gate[c].engagement)
      <3>1. PICK at \in {"record", "raised"} : gate' = [gate EXCEPT ![c].at = at]
        BY <1>3, <2>2 DEF SpendApproval, Raise
      <3>2. calls' = calls
        BY <1>3, <2>2 DEF SpendApproval, Raise
      <3>3. at \in GateStages
        BY <3>1 DEF GateStages
      <3>4. QED
        BY <1>0, <1>1, <1>2, <3>1, <3>2, <3>3, MovedCall DEF Idle, Untold
    <2>3. QED
      BY <2>1, <2>2
  <1>4. CASE ~SpendApproval(c)
    <2>1. /\ UNCHANGED calls
          /\ \A d \in Callers \ {c} : gate'[d] = gate[d]
          /\ gate'[c].req = gate[c].req
      BY <1>0, <1>4, QuietStep DEF GateStep, Vouch
    <2>2. gate'[c].at \notin {"idle", "finished"}
      <3>0. gate[c] \in GateCalls
        BY <1>0, <1>2, CallHasRecord DEF TypeInv
      <3>1. ASSUME NEW e, Refuse(c, e)
            PROVE  gate'[c].at \notin {"idle", "finished"}
        BY <1>0, <1>2, <3>1, RefusedCall
      <3>2. ASSUME NEW call, Pass(c, call), call.at \notin {"idle", "finished"}
            PROVE  gate'[c].at \notin {"idle", "finished"}
        BY <1>0, <3>2, PassedCall
      <3>3. ASSUME NEW at \in GateStages, at # "finished",
                   gate' = [gate EXCEPT ![c].at = at]
            PROVE  gate'[c].at \notin {"idle", "finished"}
        BY <1>0, <1>2, <3>3, MovedCall DEF GateStages, Decided
      <3>4. CASE Locate(c)
        <4>1. [gate[c] EXCEPT !.at = "clear", !.engagement = current].at = "clear"
          BY <3>0 DEF GateCalls
        <4>2. QED
          BY <3>1, <3>2, <3>4, <4>1 DEF Locate
      <3>5. CASE ReadScope(c)
        <4>1. [gate[c] EXCEPT !.at = "resolve",
                   !.cloud = scope[gate[c].engagement].cloud].at = "resolve"
          BY <3>0 DEF GateCalls
        <4>2. QED
          BY <3>1, <3>2, <3>5, <4>1 DEF ReadScope
      <3>6. CASE Resolve(c) \/ Vouch(c)
        <4>1. CASE Refuse(c, gate[c].engagement)
          BY <3>1, <4>1
        <4>2. CASE Resolve(c) /\ ~Refuse(c, gate[c].engagement)
          BY <1>0, <4>2, ResolveShape
        <4>3. CASE Vouch(c) /\ ~Refuse(c, gate[c].engagement)
          BY <1>0, <3>2, <4>3, VouchShape
        <4>4. QED
          BY <3>6, <4>1, <4>2, <4>3
      <3>7. CASE Guard(c)
        <4>1. \A at \in {"record", "spend"} : [gate[c] EXCEPT !.at = at].at = at
          BY <3>0 DEF GateCalls
        <4>2. QED
          BY <3>1, <3>2, <3>7, <4>1 DEF Guard
      <3>8. CASE RecordIntent(c) \/ RecordRefusal(c)
        <4>1. PICK at \in {"cleared", "raised", "refused"} :
                 gate' = [gate EXCEPT ![c].at = at]
          BY <3>8 DEF RecordIntent, RecordRefusal, Raise
        <4>2. at \in GateStages
          BY DEF GateStages, Decided
        <4>3. QED
          BY <3>3, <4>1, <4>2
      <3>9. QED
        BY <1>4, <3>4, <3>5, <3>6, <3>7, <3>8 DEF GateStep, Vouch
    <2>3. QED
      BY <1>1, <2>1, <2>2 DEF Idle, Untold
  <1>5. QED
    BY <1>3, <1>4

LEMMA FinishShape ==
    ASSUME GateInv, NEW c \in Callers, NEW ok \in BOOLEAN, Finish(c, ok)
    PROVE  /\ UNCHANGED calls /\ gate[c].at = "cleared"
           /\ \A d \in Callers \ {c} : gate'[d] = gate[d]
           /\ \/ gate'[c].at = "raised"
              \/ /\ gate'[c].at = "finished"
                 /\ \E e \in trail' : e.call = CallId(c) /\ e.phase = "result"
  <1>0. TypeInv /\ gate[c].at = "cleared" /\ gate[c] # Idle
    BY DEF GateInv, Finish, Idle
  <1>1. CASE Raise(c)
    BY <1>0, <1>1, MovedCall DEF Raise, GateStages
  <1>2. CASE ~Raise(c)
    <2> DEFINE e == Record(c, current, "result", IF ok THEN "allowed" ELSE "refused")
    <2>1. e.call = CallId(c) /\ e.phase = "result"
      BY DEF Record
    <2>2. trail' = trail \cup {e} /\ calls' = calls
          /\ gate' = [gate EXCEPT ![c].at = "finished"]
      BY <1>2 DEF Finish
    <2> HIDE DEF e
    <2>3. QED
      BY <1>0, <2>1, <2>2, MovedCall DEF GateStages, Decided
  <1>3. QED
    BY <1>1, <1>2

(* A turn's call to the gate is one of the calls the gate takes.           *)
LEMMA AuthorizeShape ==
    ASSUME GateInv, NEW c \in Callers, NEW req, NEW i, Authorize(c, req, i)
    PROVE  /\ gate[c] = Idle
           /\ calls'[c] = calls[c] + 1 /\ calls[c] \in Nat
           /\ gate'[c].at = "locate" /\ gate'[c].req = req /\ gate'[c] # Idle
           /\ \A d \in Callers \ {c} : gate'[d] = gate[d] /\ calls'[d] = calls[d]
           /\ UNCHANGED <<trail, manifest>>
  <1>1. gate \in [Callers -> GateCalls \cup {Idle}] /\ calls \in [Callers -> 0..MaxCalls]
    BY DEF GateInv, TypeInv, GateTypeOK
  <1>2. QED
    BY <1>1 DEF Authorize, GateCall, Idle, trails, settings

-----------------------------------------------------------------------------
(* The turns.                                                              *)

TalkType == [Callers -> {NotStarted} \cup Talks]

SameRequest(c) ==
    /\ talk'[c].provider = talk[c].provider /\ talk'[c].model = talk[c].model
    /\ talk'[c].messages = talk[c].messages /\ talk'[c].turn = talk[c].turn

OthersTalk(c) == \A d \in Callers \ {c} : talk'[d] = talk[d]

LEMMA TalkRecord ==
    ASSUME TalkInv, NEW c \in Callers, talk[c].at # "not-started"
    PROVE  talk[c] \in Talks
  <1>1. NotStarted.at = "not-started"
    BY DEF NotStarted
  <1>2. QED
    BY <1>1 DEF TalkInv

LEMMA SetTalk ==
    ASSUME TalkInv, NEW c \in Callers, NEW rec \in Talks,
           talk' = [talk EXCEPT ![c] = rec]
    PROVE  talk' \in TalkType /\ talk'[c] = rec /\ OthersTalk(c)
  BY DEF TalkInv, TalkType, OthersTalk

LEMMA GotoTalk ==
    ASSUME TalkInv, NEW c \in Callers, talk[c].at # "not-started",
           NEW step \in TalkStages, Goto(c, step)
    PROVE  /\ talk' \in TalkType /\ talk'[c].at = step /\ SameRequest(c)
           /\ talk'[c].peer = talk[c].peer /\ OthersTalk(c)
  <1> DEFINE rec == [talk[c] EXCEPT !.at = step]
  <1>1. talk[c] \in Talks
    BY TalkRecord
  <1>2. /\ rec \in Talks /\ rec.at = step /\ rec.peer = talk[c].peer
        /\ rec.provider = talk[c].provider /\ rec.model = talk[c].model
        /\ rec.messages = talk[c].messages /\ rec.turn = talk[c].turn
    BY <1>1 DEF Talks
  <1>3. talk' = [talk EXCEPT ![c] = rec]
    BY DEF Goto
  <1> HIDE DEF rec
  <1>4. QED
    BY <1>2, <1>3, SetTalk DEF SameRequest

LEMMA RequestIsTyped ==
    ASSUME TalkInv, NEW c \in Callers, talk[c].at # "not-started"
    PROVE  RequestOf(c) \in Requests /\ talk[c].permit \in Ids \cup {NoId}
  <1>1. talk[c] \in Talks
    BY TalkRecord
  <1>2. QED
    BY <1>1 DEF Talks, RequestOf, Digest, Requests

(* The stages of a turn that something was sent in and that has no result. *)
Open == {"connect", "send", "receive"} \cup Abandoned

(* What was sent in a turn is left open only by the ways of abandoning it. *)
Settled(c) ==
    \/ talk[c].at \notin Open
    \/ talk'[c].at \in Open /\ calls'[c] = calls[c]
    \/ \E e \in trail' : e.call = CallId(c) /\ e.phase = "result"

TurnShape(c) ==
    /\ [GateNext]_gateVars
    /\ talk' \in TalkType
    /\ OthersTalk(c)
    /\ \A d \in Callers \ {c} : gate'[d] = gate[d] /\ calls'[d] = calls[d]
    /\ calls'[c] \in {calls[c], calls[c] + 1}
    /\ TalkOf(c)'
    /\ Settled(c)
    /\ wire' = wire \/ Send(c)

LEMMA StartShape ==
    ASSUME TalkInv, NEW c \in Callers, NEW p \in Providers, NEW m \in Models,
           NEW approver \in Approvers, NEW i \in Ids \cup {NoId},
           Start(c, p, m, approver, i)
    PROVE  TurnShape(c)
  <1> DEFINE rec == [at |-> "ask", turn |-> 1, provider |-> p, model |-> m,
                     messages |-> <<>>, approver |-> approver, permit |-> i,
                     left |-> {}, peer |-> {}]
  <1>1. <<>> \in [1..0 -> ToolResults]
    OBVIOUS
  <1>2. 1 \in 1..MaxTurns /\ 0 \in 0..(MaxTurns - 1)
    BY TurnsAssumption
  <1>3. <<>> \in Prompts
    BY <1>1, <1>2, PromptsAreConversations
  <1>4. rec \in Talks
    BY <1>2, <1>3 DEF Talks, TalkStages
  <1>5. rec.at = "ask" /\ rec.messages \in [1..(rec.turn - 1) -> ToolResults]
    BY <1>1
  <1>6. /\ talk[c] = NotStarted /\ talk' = [talk EXCEPT ![c] = rec]
        /\ UNCHANGED <<gateVars, wire>>
    BY DEF Start
  <1> HIDE DEF rec
  <1>7. talk' \in TalkType /\ talk'[c] = rec /\ OthersTalk(c)
    BY <1>4, <1>6, SetTalk
  <1>8. talk[c].at = "not-started"
    <2>1. NotStarted.at = "not-started"
      BY DEF NotStarted
    <2>2. QED
      BY <1>6, <2>1
  <1>9. gate' = gate /\ calls' = calls
    BY <1>6 DEF gateVars
  <1>10. gate[c] = Idle
    BY <1>8 DEF TalkInv, TalkOf
  <1>11. TalkOf(c)'
    BY <1>1, <1>5, <1>7, <1>9, <1>10 DEF TalkOf
  <1>12. QED
    BY <1>6, <1>7, <1>8, <1>9, <1>11 DEF TurnShape, Settled, Open, Abandoned

(* A message more, and it is the conversation of the next turn.            *)
LEMMA NextPrompt ==
    ASSUME NEW n \in 1..(MaxTurns - 1), NEW messages \in [1..(n - 1) -> ToolResults],
           NEW result \in ToolResults
    PROVE  /\ Append(messages, result) \in [1..n -> ToolResults]
           /\ Append(messages, result) \in Prompts
  <1>1. n \in Nat /\ n - 1 \in Nat /\ n \in 0..(MaxTurns - 1)
    BY TurnsAssumption
  <1>2. messages \in Seq(ToolResults) /\ Len(messages) = n - 1
    BY <1>1
  <1>3. /\ Append(messages, result) \in Seq(ToolResults)
        /\ Len(Append(messages, result)) = n
    BY <1>1, <1>2
  <1>4. Append(messages, result) \in [1..n -> ToolResults]
    BY <1>3, LenProperties
  <1>5. QED
    BY <1>1, <1>4, PromptsAreConversations

(* A step to another stage that leaves the gate alone.                     *)
LEMMA QuietTurn ==
    ASSUME TalkInv, NEW c \in Callers, talk[c].at # "not-started",
           NEW step \in TalkStages, talk' \in TalkType, OthersTalk(c),
           talk'[c].at = step, SameRequest(c),
           UNCHANGED gateVars, wire' = wire \/ Send(c),
           \/ step \in Ended
           \/ step \in {"await", "authorize"} /\ talk[c].at \in {"ask", "await"}
           \/ /\ step \in {"connect", "receive"}
              /\ gate[c].at = "cleared" /\ gate[c].req = RequestOf(c)
           \/ /\ step = "send" /\ talk'[c].peer \subseteq gate[c].allowed
              /\ gate[c].at = "cleared" /\ gate[c].req = RequestOf(c),
           talk[c].at \in Open => step \in Open
    PROVE  TurnShape(c)
  <1>1. gate' = gate /\ calls' = calls
    BY DEF gateVars
  <1>2. talk[c].messages \in [1..(talk[c].turn - 1) -> ToolResults]
    BY DEF TalkInv, TalkOf
  <1>3. /\ talk[c].at \in {"ask", "await", "authorize"} => gate[c] = Idle
        /\ RequestOf(c)' = RequestOf(c)
    BY DEF TalkInv, TalkOf, SameRequest, RequestOf, Digest
  <1>4. TalkOf(c)'
    BY <1>1, <1>2, <1>3 DEF TalkOf, SameRequest, Ended
  <1>5. QED
    BY <1>1, <1>4 DEF TurnShape, Settled

LEMMA EndTurn ==
    ASSUME TalkInv, NEW c \in Callers, talk[c].at # "not-started",
           NEW step \in Ended, Goto(c, step), UNCHANGED <<gateVars, wire>>,
           talk[c].at \in Open => step \in Open
    PROVE  TurnShape(c)
  <1>1. step \in TalkStages
    BY DEF TalkStages
  <1>2. QED
    BY <1>1, GotoTalk, QuietTurn

LEMMA ConcludeTurn ==
    ASSUME GateInv, TalkInv, NEW c \in Callers, talk[c].at # "not-started",
           NEW ok \in BOOLEAN, NEW step \in Ended \cup {"tools"},
           Conclude(c, ok, step)
    PROVE  TurnShape(c)
  <1> DEFINE to == IF gate'[c].at = "raised" THEN "raised" ELSE step
  <1>1. to \in TalkStages /\ (to \in Ended \/ (to = "tools" /\ gate'[c].at # "raised"))
    BY DEF TalkStages, Ended
  <1>2. Finish(c, ok) /\ Goto(c, to) /\ wire' = wire
    BY DEF Conclude
  <1>3. gate'[c].at = "raised" => to = "raised"
    OBVIOUS
  <1> HIDE DEF to
  <1>4. /\ talk' \in TalkType /\ talk'[c].at = to /\ SameRequest(c) /\ OthersTalk(c)
    BY <1>1, <1>2, GotoTalk
  <1>5. /\ calls' = calls
        /\ \A d \in Callers \ {c} : gate'[d] = gate[d]
        /\ \/ gate'[c].at = "raised"
           \/ /\ gate'[c].at = "finished"
              /\ \E e \in trail' : e.call = CallId(c) /\ e.phase = "result"
    BY <1>2, FinishShape
  <1>6. talk[c].messages \in [1..(talk[c].turn - 1) -> ToolResults]
    BY DEF TalkInv, TalkOf
  <1>7. TalkOf(c)'
    BY <1>1, <1>4, <1>5, <1>6 DEF TalkOf, SameRequest, Ended
  <1>8. Settled(c)
    BY <1>3, <1>4, <1>5 DEF Settled, Open, Abandoned
  <1>9. GateNext
    BY <1>2 DEF GateNext
  <1>10. QED
    BY <1>2, <1>4, <1>5, <1>7, <1>8, <1>9 DEF TurnShape

LEMMA ToolsShape ==
    ASSUME GateInv, TalkInv, NEW c \in Callers, NEW result \in ToolResults,
           RunTools(c, result)
    PROVE  TurnShape(c)
  <1>1. /\ talk[c].at = "tools" /\ talk[c] \in Talks
        /\ talk[c].messages \in [1..(talk[c].turn - 1) -> ToolResults]
    BY TalkRecord DEF RunTools, TalkInv, TalkOf
  <1>2. /\ Leave(c) /\ wire' = wire
        /\ calls' = calls /\ gate'[c] = Idle
        /\ \A d \in Callers \ {c} : gate'[d] = gate[d]
    BY DEF RunTools, Leave, GateInv, TypeInv, GateTypeOK
  <1>3. GateNext
    BY <1>2 DEF GateNext
  <1>4. talk[c].at \notin Open
    BY <1>1 DEF Open, Abandoned, Ended
  <1>5. CASE TurnsLeft(c)
    <2> DEFINE n == talk[c].turn
               more == Append(talk[c].messages, result)
               rec == [talk[c] EXCEPT !.at = "ask", !.turn = n + 1, !.messages = more]
    <2>1. n \in 1..(MaxTurns - 1) /\ n + 1 \in 1..MaxTurns /\ (n + 1) - 1 = n
      BY <1>1, <1>5, TurnsAssumption DEF TurnsLeft, Talks
    <2>2. more \in [1..n -> ToolResults] /\ more \in Prompts
      BY <1>1, <2>1, NextPrompt
    <2>3. talk' = [talk EXCEPT ![c] = rec]
      <3>1. talk' = [talk EXCEPT ![c] = IF TurnsLeft(c) THEN rec
                                        ELSE [talk[c] EXCEPT !.at = "loop-refused"]]
        BY DEF RunTools
      <3> HIDE DEF rec
      <3>2. QED
        BY <1>5, <3>1
    <2>4. /\ rec \in Talks /\ rec.at = "ask" /\ rec.turn = n + 1
          /\ rec.messages = more
      BY <1>1, <2>1, <2>2 DEF Talks, TalkStages
    <2> HIDE DEF rec
    <2>5. talk' \in TalkType /\ talk'[c] = rec /\ OthersTalk(c)
      BY <2>3, <2>4, SetTalk
    <2>6. TalkOf(c)'
      BY <1>2, <2>1, <2>2, <2>4, <2>5 DEF TalkOf
    <2>7. QED
      BY <1>2, <1>3, <1>4, <2>5, <2>6 DEF TurnShape, Settled
  <1>6. CASE ~TurnsLeft(c)
    <2>1. Goto(c, "loop-refused")
      BY <1>6 DEF RunTools, Goto
    <2>2. /\ talk' \in TalkType /\ talk'[c].at = "loop-refused"
          /\ SameRequest(c) /\ OthersTalk(c)
      BY <1>1, <2>1, GotoTalk DEF TalkStages, Ended
    <2>3. TalkOf(c)'
      BY <1>1, <2>2 DEF TalkOf, SameRequest
    <2>4. QED
      BY <1>2, <1>3, <1>4, <2>2, <2>3 DEF TurnShape, Settled
  <1>7. QED
    BY <1>5, <1>6

(* Every step of a run is a turn's: the gate moves as the gate does, and   *)
(* the turn knows where it stands.                                         *)
LEMMA ProceedShape ==
    ASSUME GateInv, TalkInv, NEW c \in Callers, Proceed(c) \/ Kill(c)
    PROVE  TurnShape(c)
  <1>0. talk[c].at # "not-started" /\ talk[c] \in Talks
    <2>1. talk[c].at # "not-started"
      BY DEF Proceed, Advance, HearPeer, Kill, UsePermit, AskPerson, AskFails, Poll, ApprovalTimeout,
             CallGate, Decide, GateRefuses, GetKey, ConnectFails, Connect,
             NoCandidate, Send, AnswerLost, BadAnswer, GoodAnswer,
             ToolServerFails, RunTools
    <2>2. QED
      BY <2>1, TalkRecord
  <1>1. ASSUME NEW step \in TalkStages, Goto(c, step), UNCHANGED <<gateVars, wire>>,
               \/ step \in {"await", "authorize"} /\ talk[c].at \in {"ask", "await"}
               \/ /\ step = "connect" /\ talk[c].at = "receive"
        PROVE  TurnShape(c)
    <2>1. talk[c].at = "receive" => gate[c].at = "cleared" /\ gate[c].req = RequestOf(c)
      BY DEF TalkInv, TalkOf
    <2>2. talk[c].at \in Open => step \in Open
      BY <1>1 DEF Open, Abandoned
    <2>3. QED
      BY <1>0, <1>1, <2>1, <2>2, GotoTalk, QuietTurn
  <1>2. CASE UsePermit(c)
    <2>1. talk[c].at = "ask"
      BY <1>2 DEF UsePermit
    <2>2. CASE Goto(c, "authorize")
      BY <1>1, <1>2, <2>1, <2>2 DEF UsePermit, TalkStages
    <2>3. CASE Goto(c, "loop-refused")
      BY <1>0, <1>2, <2>1, <2>3, EndTurn DEF UsePermit, Ended, Open, Abandoned
    <2>4. QED
      BY <1>2, <2>2, <2>3 DEF UsePermit
  <1>3. ASSUME NEW i \in Ids, AskPerson(c, i)
        PROVE  TurnShape(c)
    <2> DEFINE step == IF talk[c].approver = "wait" THEN "await" ELSE "loop-refused"
               mid == [talk[c] EXCEPT !.at = step]
               rec == [mid EXCEPT !.permit = i]
    <2>1. /\ talk[c].at = "ask" /\ RequestApproval(i, RequestOf(c)) /\ wire' = wire
          /\ talk' = [talk EXCEPT ![c].at = step, ![c].permit = i]
      BY <1>3 DEF AskPerson
    <2>2. step \in {"await", "loop-refused"}
      OBVIOUS
    <2> HIDE DEF step
    <2>3. step \in TalkStages /\ step \notin {"not-started", "tools", "connect", "send", "receive"}
      BY <2>2 DEF TalkStages, Ended
    <2>4. talk' = [talk EXCEPT ![c] = rec]
      BY <1>0, <2>1 DEF TalkInv, Talks
    <2>5. mid \in Talks /\ mid.at = step
          /\ mid.messages = talk[c].messages /\ mid.turn = talk[c].turn
      BY <1>0, <2>3 DEF Talks
    <2> HIDE DEF mid
    <2>6. rec \in Talks /\ rec.at = step
          /\ rec.messages = talk[c].messages /\ rec.turn = talk[c].turn
      BY <2>5 DEF Talks
    <2> HIDE DEF rec
    <2>7. talk' \in TalkType /\ talk'[c] = rec /\ OthersTalk(c)
      BY <2>4, <2>6, SetTalk
    <2>8. gate' = gate /\ calls' = calls
      BY <2>1 DEF RequestApproval
    <2>9. /\ talk[c].messages \in [1..(talk[c].turn - 1) -> ToolResults]
          /\ gate[c] = Idle
      BY <2>1 DEF TalkInv, TalkOf
    <2>10. TalkOf(c)'
      BY <2>2, <2>6, <2>7, <2>8, <2>9 DEF TalkOf
    <2>11. GateNext
      BY <1>0, <2>1, RequestIsTyped DEF GateNext
    <2>12. talk[c].at \notin Open
      BY <2>1 DEF Open, Abandoned
    <2>13. QED
      BY <2>1, <2>7, <2>8, <2>10, <2>11, <2>12 DEF TurnShape, Settled
  <1>4. CASE Poll(c) \/ ApprovalTimeout(c) \/ AskFails(c)
    <2>1. /\ talk[c].at \in {"ask", "await"} /\ UNCHANGED <<gateVars, wire>>
          /\ \/ Goto(c, "authorize")
             \/ Goto(c, "loop-refused")
             \/ Goto(c, "raised")
      BY <1>4 DEF Poll, ApprovalTimeout, AskFails
    <2>2. talk[c].at \notin Open
      BY <2>1 DEF Open, Abandoned
    <2>3. QED
      BY <1>0, <1>1, <2>1, <2>2, EndTurn DEF TalkStages, Ended
  <1>5. CASE CallGate(c)
    <2>1. /\ talk[c].at = "authorize" /\ Goto(c, "gate") /\ wire' = wire
          /\ Authorize(c, RequestOf(c), talk[c].permit)
      BY <1>5 DEF CallGate
    <2>2. /\ talk' \in TalkType /\ talk'[c].at = "gate" /\ SameRequest(c)
          /\ OthersTalk(c)
      BY <1>0, <2>1, GotoTalk DEF TalkStages
    <2>3. /\ gate'[c].at = "locate" /\ gate'[c].req = RequestOf(c) /\ gate'[c] # Idle
          /\ calls'[c] = calls[c] + 1
          /\ \A d \in Callers \ {c} : gate'[d] = gate[d] /\ calls'[d] = calls[d]
      BY <2>1, AuthorizeShape
    <2>4. RequestOf(c)' = RequestOf(c)
      BY <2>2 DEF RequestOf, Digest, SameRequest
    <2>5. talk[c].messages \in [1..(talk[c].turn - 1) -> ToolResults]
      BY <1>0 DEF TalkInv, TalkOf
    <2>6. TalkOf(c)'
      BY <2>2, <2>3, <2>4, <2>5 DEF TalkOf, SameRequest
    <2>7. GateNext
      BY <1>0, <2>1, RequestIsTyped DEF GateNext
    <2>8. talk[c].at \notin Open
      BY <2>1 DEF Open, Abandoned
    <2>9. QED
      BY <2>1, <2>2, <2>3, <2>6, <2>7, <2>8 DEF TurnShape, Settled
  <1>6. CASE Decide(c)
    <2>1. talk[c].at = "gate" /\ GateStep(c) /\ talk' = talk /\ wire' = wire
      BY <1>6 DEF Decide, convVars
    <2>2. /\ calls' = calls /\ gate'[c] # Idle /\ gate'[c].at # "finished"
          /\ gate'[c].req = gate[c].req
          /\ \A d \in Callers \ {c} : gate'[d] = gate[d]
      BY <2>1, DecideShape
    <2>3. TalkOf(c)'
      BY <1>0, <2>1, <2>2 DEF TalkInv, TalkOf, RequestOf
    <2>4. GateNext
      BY <2>1 DEF GateNext
    <2>5. talk[c].at \notin Open
      BY <2>1 DEF Open, Abandoned
    <2>6. QED
      BY <2>1, <2>2, <2>3, <2>4, <2>5 DEF TurnShape, Settled, OthersTalk, TalkInv, TalkType
  <1>7. CASE GateRefuses(c) \/ ToolServerFails(c)
    <2>1. /\ talk[c].at \in {"gate", "tools"} /\ UNCHANGED <<gateVars, wire>>
          /\ \E step \in {"egress-refused", "raised", "mcp-error"} : Goto(c, step)
      BY <1>7 DEF GateRefuses, ToolServerFails
    <2>2. talk[c].at \notin Open
      BY <2>1 DEF Open, Abandoned
    <2>3. QED
      BY <1>0, <2>1, <2>2, EndTurn DEF Ended
  <1>8. CASE GetKey(c)
    <2>1. /\ talk[c].at = "gate" /\ gate[c].at = "cleared"
          /\ gate[c] # Idle /\ gate[c].req = RequestOf(c)
      BY <1>0, <1>8 DEF GetKey, Cleared, TalkInv, TalkOf
    <2>2. CASE Conclude(c, FALSE, "loop-refused")
      BY <1>0, <2>2, ConcludeTurn DEF Ended
    <2>3. CASE /\ talk' = [talk EXCEPT ![c].at = "connect", ![c].left = gate[c].peers]
               /\ UNCHANGED <<gateVars, wire>>
      <3> DEFINE mid == [talk[c] EXCEPT !.at = "connect"]
                 rec == [mid EXCEPT !.left = gate[c].peers]
      <3>1. gate[c].peers \subseteq Addresses
        BY <2>1, CallHasRecord DEF GateInv, TypeInv, GateCalls
      <3>2. talk' = [talk EXCEPT ![c] = rec]
        BY <1>0, <2>3 DEF TalkInv, Talks
      <3>3. /\ mid \in Talks /\ mid.at = "connect" /\ mid.messages = talk[c].messages
            /\ mid.turn = talk[c].turn /\ mid.provider = talk[c].provider
            /\ mid.model = talk[c].model
        BY <1>0 DEF Talks, TalkStages
      <3> HIDE DEF mid
      <3>4. /\ rec \in Talks /\ rec.at = "connect" /\ rec.messages = talk[c].messages
            /\ rec.turn = talk[c].turn /\ rec.provider = talk[c].provider
            /\ rec.model = talk[c].model
        BY <3>1, <3>3 DEF Talks
      <3> HIDE DEF rec
      <3>5. talk' \in TalkType /\ talk'[c].at = "connect" /\ OthersTalk(c) /\ SameRequest(c)
        BY <3>2, <3>4, SetTalk DEF SameRequest
      <3>6. talk[c].at \notin Open
        BY <2>1 DEF Open, Abandoned
      <3>7. QED
        BY <1>0, <2>1, <2>3, <3>5, <3>6, QuietTurn DEF TalkStages
    <2>4. QED
      BY <1>8, <2>2, <2>3 DEF GetKey
  <1>9. ASSUME NEW a \in Addresses, ConnectFails(c, a)
        PROVE  TurnShape(c)
    <2> DEFINE rec == [talk[c] EXCEPT !.left = Others(c, a)]
    <2>1. /\ talk[c].at = "connect" /\ gate[c].at = "cleared"
          /\ gate[c].req = RequestOf(c)
      BY <1>0, <1>9 DEF ConnectFails, TalkInv, TalkOf
    <2>2. talk' = [talk EXCEPT ![c] = rec] /\ UNCHANGED <<gateVars, wire>>
      BY <1>9 DEF ConnectFails
    <2>3. /\ rec \in Talks /\ rec.at = "connect" /\ rec.messages = talk[c].messages
          /\ rec.turn = talk[c].turn /\ rec.provider = talk[c].provider
          /\ rec.model = talk[c].model
      BY <1>0, <2>1 DEF Talks, Others
    <2> HIDE DEF rec
    <2>4. talk' \in TalkType /\ talk'[c].at = "connect" /\ OthersTalk(c) /\ SameRequest(c)
      BY <2>2, <2>3, SetTalk DEF SameRequest
    <2>5. QED
      BY <1>0, <2>1, <2>2, <2>4, QuietTurn DEF TalkStages, Open
  <1>10. ASSUME NEW a \in Addresses, NEW q \in Addresses, Connect(c, a, q)
         PROVE  TurnShape(c)
    <2>1. /\ talk[c].at = "connect" /\ gate[c].at = "cleared"
          /\ gate[c].req = RequestOf(c)
      BY <1>0, <1>10 DEF Connect, TalkInv, TalkOf
    <2>2. CASE Conclude(c, FALSE, "transport-refused")
      BY <1>0, <2>2, ConcludeTurn DEF Ended
    <2>3. CASE /\ PeerPermitted(c, q)
               /\ talk' = [talk EXCEPT ![c].at = "send", ![c].peer = {q},
                                       ![c].left = Others(c, a)]
               /\ UNCHANGED <<gateVars, wire>>
      <3> DEFINE low == [talk[c] EXCEPT !.at = "send"]
                 mid == [low EXCEPT !.peer = {q}]
                 rec == [mid EXCEPT !.left = Others(c, a)]
      <3>1. Others(c, a) \subseteq Addresses
        BY <1>0 DEF Others, Talks
      <3>2. talk' = [talk EXCEPT ![c] = rec]
        BY <1>0, <2>3 DEF TalkInv, Talks
      <3>3. /\ low \in Talks /\ low.at = "send" /\ low.messages = talk[c].messages
            /\ low.turn = talk[c].turn /\ low.provider = talk[c].provider
            /\ low.model = talk[c].model
        BY <1>0 DEF Talks, TalkStages
      <3> HIDE DEF low
      <3>4. /\ mid \in Talks /\ mid.at = "send" /\ mid.messages = talk[c].messages
            /\ mid.turn = talk[c].turn /\ mid.provider = talk[c].provider
            /\ mid.model = talk[c].model /\ mid.peer = {q}
        BY <3>3 DEF Talks
      <3> HIDE DEF mid
      <3>5. /\ rec \in Talks /\ rec.at = "send" /\ rec.messages = talk[c].messages
            /\ rec.turn = talk[c].turn /\ rec.provider = talk[c].provider
            /\ rec.model = talk[c].model /\ rec.peer = {q}
        BY <3>1, <3>4 DEF Talks
      <3> HIDE DEF rec
      <3>6. /\ talk' \in TalkType /\ talk'[c].at = "send" /\ OthersTalk(c)
            /\ SameRequest(c) /\ talk'[c].peer = {q}
        BY <3>2, <3>5, SetTalk DEF SameRequest
      <3>7. talk'[c].peer \subseteq gate[c].allowed
        BY <2>3, <3>6 DEF PeerPermitted
      <3>8. QED
        BY <1>0, <2>1, <2>3, <3>6, <3>7, QuietTurn DEF TalkStages, Open
    <2>4. QED
      BY <1>10, <2>2, <2>3 DEF Connect
  <1>11. CASE NoCandidate(c)
    BY <1>0, <1>11, ConcludeTurn DEF NoCandidate, Ended
  <1>12. CASE Send(c)
    <2>1. /\ talk[c].at = "send" /\ gate[c].at = "cleared"
          /\ gate[c].req = RequestOf(c)
      BY <1>0, <1>12 DEF Send, TalkInv, TalkOf
    <2>2. /\ talk' \in TalkType /\ talk'[c].at = "receive" /\ SameRequest(c)
          /\ OthersTalk(c)
      BY <1>0, <1>12, GotoTalk DEF Send, TalkStages
    <2>3. UNCHANGED gateVars
      BY <1>12 DEF Send
    <2>4. QED
      BY <1>0, <1>12, <2>1, <2>2, <2>3, QuietTurn DEF TalkStages, Open
  <1>13. CASE AnswerLost(c)
    BY <1>1, <1>13 DEF AnswerLost, TalkStages
  <1>14. ASSUME NEW kind \in Ended, BadAnswer(c, kind)
         PROVE  TurnShape(c)
    <2>1. CASE kind \in Unrecorded /\ Goto(c, kind) /\ UNCHANGED <<gateVars, wire>>
      BY <1>0, <2>1, EndTurn DEF Unrecorded, Open, Abandoned
    <2>2. CASE Conclude(c, FALSE, kind)
      BY <1>0, <2>2, ConcludeTurn
    <2>3. QED
      BY <1>14, <2>1, <2>2 DEF BadAnswer
  <1>15. ASSUME NEW step, GoodAnswer(c, step)
         PROVE  TurnShape(c)
    <2>1. step \in Ended \cup {"tools"} /\ Conclude(c, TRUE, step)
      BY <1>15 DEF GoodAnswer, Ended
    <2>2. QED
      BY <1>0, <2>1, ConcludeTurn
  <1>16. CASE Kill(c)
    BY <1>0, <1>16, EndTurn DEF Kill, Ended, Open, Abandoned
  <1>17. QED
    BY <1>2, <1>3, <1>4, <1>5, <1>6, <1>7, <1>8, <1>9, <1>10, <1>11, <1>12, <1>13,
       <1>14, <1>15, <1>16, ToolsShape DEF Proceed, Advance, HearPeer

(* Every step is one turn's, or an operator's, whom no turn is waiting for *)
(* to go on.                                                               *)
LEMMA StepShape ==
    ASSUME GateInv, TalkInv, [ConvNext]_allVars
    PROVE  \/ \E c \in Callers : TurnShape(c)
           \/ /\ [GateNext]_gateVars
              /\ UNCHANGED <<gate, calls, talk, wire>>
  <1>1. CASE \E c \in Callers, p \in Providers, m \in Models, k \in Approvers,
                i \in Ids \cup {NoId} : Start(c, p, m, k, i)
    BY <1>1, StartShape
  <1>2. CASE \E c \in Callers : Proceed(c) \/ Kill(c)
    BY <1>2, ProceedShape
  <1>3. CASE Operators /\ UNCHANGED convVars
    BY <1>3 DEF Operators, ChangeSettings, Approve, Void, convVars, GateNext
  <1>4. CASE Prepare
    BY <1>4 DEF Prepare, RequestApproval, convVars, GateNext
  <1>5. CASE UNCHANGED allVars
    BY <1>5 DEF allVars, convVars, gateVars
  <1>6. QED
    BY <1>1, <1>2, <1>3, <1>4, <1>5 DEF ConvNext

LEMMA ConvStepsGate ==
    ASSUME GateInv, TalkInv, [ConvNext]_allVars
    PROVE  [GateNext]_gateVars
  BY StepShape DEF TurnShape

LEMMA TalkInvStep == GateInv /\ TalkInv /\ [ConvNext]_allVars => TalkInv'
  <1> SUFFICES ASSUME GateInv, TalkInv, [ConvNext]_allVars
               PROVE  TalkInv'
    OBVIOUS
  <1>1. ASSUME NEW c \in Callers, TurnShape(c)
        PROVE  TalkInv'
    <2>1. ASSUME NEW d \in Callers, d # c
          PROVE  TalkOf(d)'
      BY <1>1, <2>1 DEF TurnShape, OthersTalk, TalkInv, TalkOf, RequestOf, Digest
    <2>2. QED
      BY <1>1, <2>1 DEF TurnShape, TalkInv, TalkType
  <1>2. CASE UNCHANGED <<gate, calls, talk, wire>>
    BY <1>2 DEF TalkInv, TalkOf, RequestOf, Digest
  <1>3. QED
    BY <1>1, <1>2, StepShape

-----------------------------------------------------------------------------
(* The requests on the wire.                                               *)

(* What the histories say of one of them.                                  *)
WireOf(s) ==
    /\ s.call[2] <= calls[s.call[1]]
    /\ RecordsFor(s.call, "intent") # {}
    /\ IsCloud(s.provider) =>
        \E i \in sanctioned :
            /\ spender[i] = s.call
            /\ asked[i].call.prompt = s.messages
            /\ asked[i].call.provider = s.provider
    /\ s.peer \subseteq Vouched(s.call, s.provider)
    /\ \/ RecordsFor(s.call, "result") # {}
       \/ s.call = CallId(s.call[1]) /\ talk[s.call[1]].at \in Open

Writes == [call: CallIds, provider: Providers, messages: Prompts,
           peer: SUBSET Addresses]

WireInv ==
    /\ wire \subseteq Writes
    /\ \A s \in wire : WireOf(s)

ConvInv == GateInv /\ TalkInv /\ OneResult /\ WireInv

LEMMA ConvInvInit == ConvInit => ConvInv
  <1> SUFFICES ASSUME ConvInit PROVE ConvInv
    OBVIOUS
  <1>1. GateInv
    BY GateInvInit DEF ConvInit
  <1>2. trail = {} /\ wire = {} /\ talk = [c \in Callers |-> NotStarted]
        /\ gate = [c \in Callers |-> Idle]
    BY DEF ConvInit, GateInit
  <1>3. NotStarted.at = "not-started"
    BY DEF NotStarted
  <1> USE <1>2
  <1>4. TalkInv
    BY <1>2, <1>3 DEF TalkInv, TalkOf
  <1>5. QED
    BY <1>1, <1>2, <1>4 DEF ConvInv, OneResult, WireInv

(* What was true of a request stays true, as long as the run that wrote it *)
(* settles what it leaves open.                                            *)
LEMMA WireStays ==
    ASSUME GateInv, [GateNext]_gateVars, NEW s \in Writes, WireOf(s),
           LET c == s.call[1] IN
              /\ calls'[c] \in {calls[c], calls[c] + 1}
              /\ Settled(c) \/ UNCHANGED <<calls, talk>>
    PROVE  WireOf(s)'
  <1> DEFINE c == s.call[1]
  <1>0. /\ c \in Callers /\ s.call[2] \in Nat /\ s.provider \in Providers
        /\ calls[c] \in Nat /\ s.call = <<s.call[1], s.call[2]>>
    BY SetsAssumption DEF Writes, CallIds, GateInv, TypeInv, GateTypeOK
  <1>1. /\ sanctioned \subseteq sanctioned'
        /\ \A i \in sanctioned : asked'[i] = asked[i]
        /\ \A i \in Ids : spender[i] # NoId => spender'[i] = spender[i]
        /\ manifest' = manifest /\ sanctioned \subseteq Ids
        /\ answers \subseteq answers'
    BY ApprovalsStay DEF GateInv, TypeInv, GateTypeOK
  <1>2. s.call # NoId
    BY SetsAssumption DEF Writes, CallIds
  <1>3. s.call[2] <= calls'[c]
    BY <1>0 DEF WireOf
  <1>4. RecordsFor(s.call, "intent")' # {}
    BY RecordsStay DEF WireOf, RecordsFor
  <1>5. IsCloud(s.provider)' =>
           \E i \in sanctioned' :
              /\ spender'[i] = s.call
              /\ asked'[i].call.prompt = s.messages
              /\ asked'[i].call.provider = s.provider
    BY <1>1, <1>2 DEF WireOf, IsCloud
  <1>6. s.peer \subseteq Vouched(s.call, s.provider)'
    BY <1>1, VouchedStays DEF WireOf
  <1>7. \/ RecordsFor(s.call, "result")' # {}
        \/ s.call = CallId(c)' /\ talk'[c].at \in Open
    <2>1. CASE RecordsFor(s.call, "result") # {}
      BY <2>1, RecordsStay DEF RecordsFor
    <2>2. CASE s.call = CallId(c) /\ talk[c].at \in Open
      BY <2>2 DEF Settled, RecordsFor, CallId
    <2>3. QED
      BY <2>1, <2>2 DEF WireOf
  <1>8. QED
    BY <1>3, <1>4, <1>5, <1>6, <1>7 DEF WireOf

(* A request that is sent now is the one the gate has cleared.             *)
LEMMA SendIsCleared ==
    ASSUME GateInv, TalkInv, NEW c \in Callers, Send(c), TurnShape(c),
           NEW s, s = [call |-> CallId(c), provider |-> talk[c].provider,
                       messages |-> talk[c].messages, peer |-> talk[c].peer]
    PROVE  s \in Writes /\ WireOf(s)'
  <1>1. /\ talk[c].at = "send" /\ talk[c] \in Talks
        /\ gate[c].at = "cleared" /\ gate[c].req = RequestOf(c) /\ gate[c] # Idle
        /\ talk[c].peer \subseteq gate[c].allowed
    <2>1. talk[c].at = "send" /\ talk[c].at # "not-started"
      BY DEF Send
    <2>2. /\ gate[c].at = "cleared" /\ gate[c].req = RequestOf(c)
          /\ talk[c].peer \subseteq gate[c].allowed
      BY <2>1 DEF TalkInv, TalkOf
    <2>3. QED
      BY <2>1, <2>2, TalkRecord, StageIsNotIdle
  <1>2. /\ s.call = CallId(c) /\ s.provider = talk[c].provider
        /\ s.messages = talk[c].messages /\ s.peer = talk[c].peer
        /\ s.call[1] = c /\ s.call[2] = calls[c]
    BY DEF CallId
  <1>3. CallId(c) \in CallIds
    BY <1>1, RecordIsEntry DEF GateInv
  <1>4. s \in Writes
    BY <1>1, <1>3 DEF Writes, Talks
  <1>5. /\ gate[c].req.provider = s.provider /\ gate[c].req.prompt = s.messages
    BY <1>1, <1>2 DEF RequestOf, Digest
  <1>6. UNCHANGED gateVars /\ talk'[c].at = "receive"
    BY <1>1 DEF Send, Goto, TalkInv, Talks
  <1>7. /\ calls' = calls /\ trail' = trail /\ manifest' = manifest
        /\ answers' = answers /\ sanctioned' = sanctioned
        /\ spender' = spender /\ asked' = asked
    BY <1>6 DEF gateVars, approvals, permitVars, settings, trails
  <1>8. RecordsFor(s.call, "intent") # {}
    BY <1>1, <1>2 DEF GateInv, EvidenceInv, EvidenceOf, RecordsFor
  <1>9. IsCloud(s.provider) =>
           \E i \in sanctioned :
              /\ spender[i] = s.call
              /\ asked[i].call.prompt = s.messages
              /\ asked[i].call.provider = s.provider
    BY <1>1, <1>2, <1>5 DEF GateInv, PermitInv, PermitOf, Granted, SpentBy
  <1>10. s.peer \subseteq Vouched(s.call, s.provider)
    BY <1>1, <1>2, <1>5 DEF GateInv, PeersInv, PeersOf, Checked, Granted
  <1>11. calls[c] \in Nat
    BY SetsAssumption DEF GateInv, TypeInv, GateTypeOK
  <1>12. WireOf(s)'
    BY <1>2, <1>6, <1>7, <1>8, <1>9, <1>10, <1>11
    DEF WireOf, RecordsFor, Vouched, IsCloud, CallId, Open
  <1>13. QED
    BY <1>4, <1>12

LEMMA WireInvStep ==
    GateInv /\ TalkInv /\ WireInv /\ [ConvNext]_allVars => WireInv'
  <1> SUFFICES ASSUME GateInv, TalkInv, WireInv, [ConvNext]_allVars
               PROVE  WireInv'
    OBVIOUS
  <1>1. [GateNext]_gateVars
    BY ConvStepsGate
  <1>2. ASSUME NEW s \in wire
        PROVE  s \in Writes /\ WireOf(s) /\ s.call[1] \in Callers
    BY DEF WireInv, Writes, CallIds
  <1>3. calls \in [Callers -> Nat]
    BY SetsAssumption DEF GateInv, TypeInv, GateTypeOK
  <1>4. ASSUME NEW s \in wire
        PROVE  s \in Writes /\ WireOf(s)'
    <2>1. ASSUME NEW c \in Callers, TurnShape(c)
          PROVE  /\ calls'[s.call[1]] \in {calls[s.call[1]], calls[s.call[1]] + 1}
                 /\ Settled(s.call[1])
      <3>1. CASE s.call[1] = c
        BY <2>1, <3>1 DEF TurnShape
      <3>2. CASE s.call[1] # c
        BY <1>2, <2>1, <3>2 DEF TurnShape, OthersTalk, Settled
      <3>3. QED
        BY <3>1, <3>2
    <2>2. CASE \E c \in Callers : TurnShape(c)
      BY <1>1, <1>2, <2>1, <2>2, WireStays
    <2>3. CASE UNCHANGED <<gate, calls, talk, wire>>
      BY <1>1, <1>2, <2>3, WireStays
    <2>4. QED
      BY <1>2, <2>2, <2>3, StepShape
  <1>5. ASSUME NEW c \in Callers, TurnShape(c), NEW s \in wire' \ wire
        PROVE  s \in Writes /\ WireOf(s)'
    <2>1. /\ Send(c)
          /\ s = [call |-> CallId(c), provider |-> talk[c].provider,
                  messages |-> talk[c].messages, peer |-> talk[c].peer]
      BY <1>5 DEF TurnShape, Send
    <2>2. QED
      BY <1>5, <2>1, SendIsCleared
  <1>6. ASSUME NEW s \in wire' \ wire
        PROVE  s \in Writes /\ WireOf(s)'
    BY <1>5, <1>6, StepShape
  <1>7. QED
    BY <1>4, <1>6 DEF WireInv

LEMMA ConvInvariant == ConvSpec => []ConvInv
  <1>1. ConvInv /\ [ConvNext]_allVars => ConvInv'
    <2> SUFFICES ASSUME ConvInv, [ConvNext]_allVars PROVE ConvInv'
      OBVIOUS
    <2>1. GateInv /\ TalkInv /\ OneResult /\ WireInv
      BY DEF ConvInv
    <2>2. [GateNext]_gateVars
      BY <2>1, ConvStepsGate
    <2>3. QED
      BY <2>1, <2>2, GateInvStep, TalkInvStep, OneResultStep, WireInvStep DEF ConvInv
  <1>2. QED
    BY <1>1, ConvInvInit, PTL DEF ConvSpec

-----------------------------------------------------------------------------
(* What a run of `shinobi llm ask` guarantees.                             *)

(* The loop's own state, the gate's and the requests it has sent keep      *)
(* their types: no turn has more messages than max_turns allows.           *)
THEOREM ConvTypeCorrect == ConvSpec => []ConvTypeOK
  <1>1. ConvInv => ConvTypeOK
    BY DEF ConvInv, GateInv, TypeInv, TalkInv, WireInv, Writes, Talks, TalkStages,
           ConvTypeOK
  <1>2. QED
    BY <1>1, ConvInvariant, PTL

(* post() writes to the socket only what the gate has recorded the intent  *)
(* of, whatever kills the client and whenever.                             *)
THEOREM IntentComesBeforeWire == ConvSpec => []IntentBeforeWire
  <1>1. ConvInv => IntentBeforeWire
    BY DEF ConvInv, WireInv, WireOf, IntentBeforeWire
  <1>2. QED
    BY <1>1, ConvInvariant, PTL

(* "Every turn is separately approved": the text on the wire to a cloud    *)
(* provider is the text that a person approved, by an approval of its own. *)
THEOREM EverySendIsApproved == ConvSpec => []EverySendWasApproved
  <1>1. ConvInv => EverySendWasApproved
    BY DEF ConvInv, WireInv, WireOf, EverySendWasApproved
  <1>2. QED
    BY <1>1, ConvInvariant, PTL

(* The socket a prompt is written to ends on an address that was vouched   *)
(* for in the gate call of its own turn, however names are rebound during  *)
(* that call and after it.                                                 *)
THEOREM PromptsGoToPeers == ConvSpec => []PromptsStayWithPeers
  <1>1. ConvInv => PromptsStayWithPeers
    BY DEF ConvInv, WireInv, WireOf, PromptsStayWithPeers
  <1>2. QED
    BY <1>1, ConvInvariant, PTL

(* A request that was sent has one result at most, and has it when its     *)
(* turn is over, unless the turn was abandoned.                            *)
THEOREM EverySendIsAccounted == ConvSpec => []SendsAreAccounted
  <1>1. ASSUME ConvInv, NEW s \in wire
        PROVE  LET results == Cardinality(RecordsFor(s.call, "result")) IN
               /\ results <= 1
               /\ TurnIsOver(s.call[1], s) => results = 1
    <2> DEFINE Results == RecordsFor(s.call, "result")
    <2>1. WireOf(s) /\ s.call[1] \in Callers
      BY <1>1 DEF ConvInv, WireInv, Writes, CallIds
    <2>2. \A e, f \in Results : e = f
      BY <1>1 DEF ConvInv, OneResult, RecordsFor
    <2>3. CASE Results = {}
      <3>1. s.call = CallId(s.call[1]) /\ talk[s.call[1]].at \in Open
        BY <2>1, <2>3 DEF WireOf
      <3>2. ~TurnIsOver(s.call[1], s)
        BY <3>1 DEF TurnIsOver, Open, Abandoned, Ended
      <3>3. Cardinality(Results) = 0
        BY <2>3, FS_EmptySet
      <3>4. QED
        BY <3>2, <3>3
    <2>4. CASE Results # {}
      <3>1. PICK e : Results = {e}
        BY <2>2, <2>4
      <3>2. Cardinality(Results) = 1
        BY <3>1, FS_Singleton
      <3>3. QED
        BY <3>2
    <2>5. QED
      BY <2>3, <2>4
  <1>2. ConvInv => SendsAreAccounted
    BY <1>1 DEF SendsAreAccounted
  <1>3. QED
    BY <1>2, ConvInvariant, PTL

-----------------------------------------------------------------------------
(* agent.py calls the gate as `shinobi egress check` does, and goes round  *)
(* it nowhere: every run is a behaviour of the gate, so that what is true  *)
(* of the gate is true here.                                               *)
THEOREM ConvImplementsGate == ConvSpec => GateSpec
  <1>1. ConvInit => GateInit
    BY DEF ConvInit
  <1>2. ConvInv /\ [ConvNext]_allVars => [GateNext]_gateVars
    BY ConvStepsGate DEF ConvInv
  <1>3. QED
    BY <1>1, <1>2, ConvInvariant, PTL DEF ConvSpec, GateSpec
=============================================================================
