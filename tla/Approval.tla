------------------------------ MODULE Approval ------------------------------
(***************************************************************************)
(* The approval store of libexec/shinobi/shinobi_control/approval.py: one  *)
(* JSON file per approval, rewritten in place when it is resolved and when *)
(* it is consumed, and one ".claimed" file, created with O_EXCL, which is  *)
(* what makes an approval single-use.  There is no lock and no daemon:     *)
(* every command is a process of its own that reads the file, decides, and *)
(* writes, so the steps below interleave, and any of them may be the last  *)
(* one its process takes.                                                  *)
(***************************************************************************)
EXTENDS Naturals

CONSTANTS
    Ids,            \* approval ids (secrets.token_hex: never drawn twice)
    Calls,          \* a capability with its exact, canonicalised arguments
    Profiles,       \* trust profiles
    AnyProfile,     \* consume(profile=None): the profile is not compared
    NoUse,          \* no use: not asked for, or not spent
    Resolvers,      \* processes running `shinobi approval approve|deny`
    Consumers,      \* processes (or threads) calling consume()
    Ttl,            \* ttl_seconds, in ticks of the clock
    MaxClock        \* bound on the clock

Uses == [call: Calls, profile: Profiles \cup {AnyProfile}, live: BOOLEAN]

ASSUME UseAssumption == AnyProfile \notin Profiles /\ NoUse \notin Uses
ASSUME TimeAssumption == Ttl \in Nat /\ MaxClock \in Nat

VARIABLES
    file,       \* file[i]: the bytes of <i>.json
    claim,      \* the approvals whose <i>.claimed exists
    clock,      \* the wall clock
    live,       \* is_live_mode(): booted from the live image
    resolver,   \* resolver[r]: the local state of a set_state() call
    consumer,   \* consumer[c]: the local state of a consume() call
    asked,      \* history: the use each approval was created for
    sanctioned, \* history: approvals an "approved" was written for
    told,       \* history: the verdicts set_state() reported as done
    contested,  \* history: approvals two resolvers had in hand at once
    spentOn,    \* history: the use whose caller created <i>.claimed
    granted     \* history: how often consume() returned normally

store    == <<file, claim>>
world    == <<clock, live>>
history  == <<asked, sanctioned, told, contested, spentOn, granted>>
vars     == <<store, world, resolver, consumer, history>>

-----------------------------------------------------------------------------
(* Records and the bytes of their files.                                   *)

Verdicts == {"approved", "denied", "cancelled"}
States   == {"pending"} \cup Verdicts

Records == [use: Uses, expires: 0..(MaxClock + Ttl),
            state: States, consumed: BOOLEAN]

NoRecord == [state |-> "none"]

(* The length of a serialised record, up to the part every record has: the *)
(* length of the word for the state, and of a "consumed_at" line.          *)
Size(rec) ==
    [pending |-> 7, denied |-> 6, approved |-> 8, cancelled |-> 9][rec.state]
        + (IF rec.consumed THEN 50 ELSE 0)

(* A file is what was written last, and how many bytes there are: a writer *)
(* whose text is shorter than what another has written since it truncated  *)
(* the file leaves that one's tail behind its own text.                    *)
Absent        == [rec |-> NoRecord, size |-> 0]
Whole(rec)    == [rec |-> rec, size |-> Size(rec)]
Truncated     == [rec |-> NoRecord, size |-> 0]
Overlay(f, rec) ==
    [rec |-> rec, size |-> IF f.size > Size(rec) THEN f.size ELSE Size(rec)]

(* json.loads() succeeds: every text ends in a brace and a newline, so the  *)
(* one byte that the tail of a text longer by one leaves behind is space to *)
(* the parser, and a longer tail is not.                                    *)
Parses(f) == f.size # 0 /\ f.size \in {Size(f.rec), Size(f.rec) + 1}

Idle == [at |-> "idle"]

Init ==
    /\ file = [i \in Ids |-> Absent]
    /\ claim = {}
    /\ clock = 0
    /\ live \in BOOLEAN
    /\ resolver = [r \in Resolvers |-> Idle]
    /\ consumer = [c \in Consumers |-> Idle]
    /\ asked = [i \in Ids |-> NoUse]
    /\ sanctioned = {}
    /\ told = [i \in Ids |-> {}]
    /\ contested = {}
    /\ spentOn = [i \in Ids |-> NoUse]
    /\ granted = [i \in Ids |-> 0]

-----------------------------------------------------------------------------
(* create(): a private temporary file, fsync and rename.  The rename is    *)
(* the one step another process can see.                                   *)

MutFresh(i) == i \notin claim              \* ids drawn again
Fresh(i) == asked[i] = NoUse

MutDeadline == clock + Ttl + Ttl           \* the lifetime added twice
Deadline == clock + Ttl

Create(i, call, profile) ==
    LET use == [call |-> call, profile |-> profile, live |-> live] IN
    /\ Fresh(i)
    /\ file' = [file EXCEPT ![i] =
                  Whole([use |-> use, expires |-> Deadline,
                         state |-> "pending", consumed |-> FALSE])]
    /\ asked' = [asked EXCEPT ![i] = use]
    /\ UNCHANGED <<claim, world, resolver, consumer,
                   sanctioned, told, contested, spentOn, granted>>

(* set_state(): read, require "pending", truncate, write.  A file that     *)
(* does not parse, or is not pending, ends the command with an error and   *)
(* no effect.  Neither the deadline nor the claim is looked at.            *)

MutIsPending(f) == Parses(f)               \* an answered one is answered again
IsPending(f) == Parses(f) /\ f.rec.state = "pending"

MutResolved(rec, verdict) ==               \* stamped when it is approved
    [rec EXCEPT !.state = verdict, !.consumed = verdict = "approved"]
Resolved(rec, verdict) == [rec EXCEPT !.state = verdict]

Resolving(i) == \E r \in Resolvers : resolver[r] # Idle /\ resolver[r].id = i

ReadPending(r, i, verdict) ==
    /\ resolver[r] = Idle
    /\ IsPending(file[i])
    /\ contested' = IF Resolving(i) THEN contested \cup {i} ELSE contested
    /\ resolver' = [resolver EXCEPT ![r] =
                      [at |-> "truncate", id |-> i,
                       rec |-> Resolved(file[i].rec, verdict)]]
    /\ UNCHANGED <<store, world, consumer,
                   asked, sanctioned, told, spentOn, granted>>

TruncateForVerdict(r) ==
    /\ resolver[r].at = "truncate"
    /\ file' = [file EXCEPT ![resolver[r].id] = Truncated]
    /\ resolver' = [resolver EXCEPT ![r].at = "write"]
    /\ UNCHANGED <<claim, world, consumer, history>>

WriteVerdict(r) ==
    LET i   == resolver[r].id
        rec == resolver[r].rec
    IN
    /\ resolver[r].at = "write"
    /\ file' = [file EXCEPT ![i] = Overlay(@, rec)]
    /\ sanctioned' = IF rec.state = "approved" THEN sanctioned \cup {i}
                                               ELSE sanctioned
    /\ told' = [told EXCEPT ![i] = @ \cup {rec.state}]
    /\ resolver' = [resolver EXCEPT ![r] = Idle]
    /\ UNCHANGED <<claim, world, consumer, asked, contested, spentOn, granted>>

-----------------------------------------------------------------------------
(* consume(): every check is made on the record read first; the claim file *)
(* is the only thing two callers contend for.  A failed check raises and   *)
(* changes nothing, so it is not a step.                                   *)

MutIsApproved(f) == Parses(f) /\ f.rec.state # "denied"
IsApproved(f) == Parses(f) /\ f.rec.state = "approved"

ReadApproved(c, i, call, profile) ==
    /\ consumer[c] = Idle
    /\ IsApproved(file[i])
    /\ consumer' = [consumer EXCEPT ![c] =
                      [at |-> "check", id |-> i, rec |-> file[i].rec,
                       use |-> [call |-> call, profile |-> profile,
                                live |-> live]]]
    /\ UNCHANGED <<store, world, resolver, history>>

Covers(request, use) ==
    /\ use.call = request.call
    /\ use.profile \in {AnyProfile, request.profile}
    /\ use.live = request.live

MutAdmits(rec, use) == clock < rec.expires /\ use.call = rec.use.call
Admits(rec, use) == clock < rec.expires /\ Covers(rec.use, use)

CheckRequest(c) ==
    /\ consumer[c].at = "check"
    /\ consumer' = [consumer EXCEPT ![c] =
                      IF Admits(@.rec, @.use) THEN [@ EXCEPT !.at = "claim"]
                                              ELSE Idle]
    /\ UNCHANGED <<store, world, resolver, history>>

MutClaimIsFree(i) == TRUE                  \* created without O_EXCL
ClaimIsFree(i) == i \notin claim

ClaimOnce(c) ==
    LET i == consumer[c].id IN
    /\ consumer[c].at = "claim"
    /\ ClaimIsFree(i)
    /\ claim' = claim \cup {i}
    /\ spentOn' = [spentOn EXCEPT ![i] = consumer[c].use]
    /\ consumer' = [consumer EXCEPT ![c].at = "truncate"]
    /\ UNCHANGED <<file, world, resolver, asked, sanctioned, told, contested,
                   granted>>

FindClaimed(c) ==
    /\ consumer[c].at = "claim"
    /\ ~ClaimIsFree(consumer[c].id)
    /\ consumer' = [consumer EXCEPT ![c] = Idle]
    /\ UNCHANGED <<store, world, resolver, history>>

TruncateForStamp(c) ==
    /\ consumer[c].at = "truncate"
    /\ file' = [file EXCEPT ![consumer[c].id] = Truncated]
    /\ consumer' = [consumer EXCEPT ![c].at = "write"]
    /\ UNCHANGED <<claim, world, resolver, history>>

WriteStamp(c) ==
    LET i == consumer[c].id IN
    /\ consumer[c].at = "write"
    /\ file' = [file EXCEPT ![i] =
                  Overlay(@, [consumer[c].rec EXCEPT !.consumed = TRUE])]
    /\ granted' = [granted EXCEPT ![i] = @ + 1]
    /\ consumer' = [consumer EXCEPT ![c] = Idle]
    /\ UNCHANGED <<claim, world, resolver, asked, sanctioned, told, contested,
                   spentOn>>

-----------------------------------------------------------------------------
(* The world: time passes, a process is killed between any two steps, and  *)
(* the machine is restarted, perhaps from the other medium.                *)
Tick ==
    /\ clock < MaxClock
    /\ clock' = clock + 1
    /\ UNCHANGED <<store, live, resolver, consumer, history>>

KillResolver(r) ==
    /\ resolver[r] # Idle
    /\ resolver' = [resolver EXCEPT ![r] = Idle]
    /\ UNCHANGED <<store, world, consumer, history>>

KillConsumer(c) ==
    /\ consumer[c] # Idle
    /\ consumer' = [consumer EXCEPT ![c] = Idle]
    /\ UNCHANGED <<store, world, resolver, history>>

Reboot ==
    /\ live' \in BOOLEAN
    /\ resolver' = [r \in Resolvers |-> Idle]
    /\ consumer' = [c \in Consumers |-> Idle]
    /\ UNCHANGED <<store, clock, history>>

Next ==
    \/ \E i \in Ids, call \in Calls, p \in Profiles : Create(i, call, p)
    \/ \E r \in Resolvers, i \in Ids, v \in Verdicts : ReadPending(r, i, v)
    \/ \E r \in Resolvers : \/ TruncateForVerdict(r)
                            \/ WriteVerdict(r)
                            \/ KillResolver(r)
    \/ \E c \in Consumers, i \in Ids, call \in Calls,
          p \in Profiles \cup {AnyProfile} : ReadApproved(c, i, call, p)
    \/ \E c \in Consumers : \/ CheckRequest(c)
                            \/ ClaimOnce(c)
                            \/ FindClaimed(c)
                            \/ TruncateForStamp(c)
                            \/ WriteStamp(c)
                            \/ KillConsumer(c)
    \/ Tick
    \/ Reboot

Spec == Init /\ [][Next]_vars

-----------------------------------------------------------------------------
(* Properties.                                                             *)

FileStates ==
    {Absent, Truncated} \cup [rec: Records, size: Nat \ {0}]

ResolverStates ==
    {Idle} \cup [at: {"truncate", "write"}, id: Ids, rec: Records]

ConsumerStates ==
    {Idle} \cup [at: {"check", "claim", "truncate", "write"},
                 id: Ids, rec: Records, use: Uses]

TypeOK ==
    /\ file \in [Ids -> FileStates]
    /\ claim \subseteq Ids
    /\ clock \in 0..MaxClock
    /\ live \in BOOLEAN
    /\ resolver \in [Resolvers -> ResolverStates]
    /\ consumer \in [Consumers -> ConsumerStates]
    /\ asked \in [Ids -> Uses \cup {NoUse}]
    /\ sanctioned \subseteq Ids
    /\ told \in [Ids -> SUBSET States]
    /\ contested \subseteq Ids
    /\ spentOn \in [Ids -> Uses \cup {NoUse}]
    /\ granted \in [Ids -> Nat]

(* "An approval is good for exactly one call": however its file is torn or *)
(* rewritten, consume() returns normally at most once, and never without   *)
(* the claim.                                                              *)
SingleUse ==
    \A i \in Ids : granted[i] <= 1 /\ (granted[i] = 1 => i \in claim)

(* An approval is only ever claimed for the capability, arguments, profile *)
(* and live/installed mode it was created for, and only after an           *)
(* "approved" was written by a person.                                     *)
SpentAsAsked ==
    \A i \in Ids : spentOn[i] # NoUse =>
        i \in sanctioned /\ Covers(asked[i], spentOn[i])

(* The record that `shinobi approval list` shows as consumed was claimed:  *)
(* no overlay of two writers, and no stale write, invents a consumption.   *)
ConsumedWasClaimed ==
    \A i \in Ids : Parses(file[i]) =>
        (file[i].rec.consumed => file[i].rec.state = "approved" /\ i \in claim)

(* The detailed store implements the permit.                               *)
P == INSTANCE Permit WITH
        Ids <- Ids, Calls <- Calls, Profiles <- Profiles,
        AnyProfile <- AnyProfile, NoUse <- NoUse,
        asked <- asked, sanctioned <- sanctioned, spentOn <- spentOn
ImplementsPermit == P!PermitSpec

(* No process is anywhere inside set_state() or consume() for i, at a      *)
(* point from which it still writes.                                       *)
Untouched(i) ==
    /\ \A r \in Resolvers : resolver[r] # Idle => resolver[r].id # i
    /\ \A c \in Consumers : consumer[c] # Idle => consumer[c].id # i

Dead(i) == asked[i] # NoUse /\ ~Parses(file[i]) /\ Untouched(i)

(* A crash in the middle of a rewrite fails closed: an approval left torn  *)
(* with nobody writing it stays so, and is neither resolved nor spent.     *)
TornStaysDead ==
    [][\A i \in Ids : Dead(i) =>
          Dead(i)' /\ spentOn'[i] = spentOn[i] /\ told'[i] = told[i]]_vars

(* A verdict reported to a person stands, unless two people had the        *)
(* approval in hand at once: set_state() never reports a second, different *)
(* one, and an approval reported as denied or cancelled is never spent,    *)
(* whatever consumers were doing with it and whichever process died.       *)
VerdictsStand ==
    \A i \in Ids \ contested :
        /\ \A v, w \in told[i] : v = w
        /\ told[i] \cap {"denied", "cancelled"} # {} => spentOn[i] = NoUse
=============================================================================
