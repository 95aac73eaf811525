------------------------------- MODULE Permit -------------------------------
(***************************************************************************)
(* What the approval store of Shinobi promises, whatever its processes do: *)
(* an approval is asked for one exact use, a person may sanction it, and   *)
(* after that it may be spent at most once, and on that use only.  Module  *)
(* Approval, the store as files and processes, is shown to implement this  *)
(* specification; the components that need an approval rely on it.         *)
(***************************************************************************)
CONSTANTS
    Ids,        \* approval ids
    Calls,      \* a capability with its exact arguments
    Profiles,   \* trust profiles
    AnyProfile, \* a use that does not say which profile it is made under
    NoUse       \* nothing: not asked for, or not spent

(* A use is a call, the profile it is made under, and whether the machine  *)
(* runs from the live image.                                               *)
Uses == [call: Calls, profile: Profiles \cup {AnyProfile}, live: BOOLEAN]

Covers(request, use) ==
    /\ use.call = request.call
    /\ use.profile \in {AnyProfile, request.profile}
    /\ use.live = request.live

VARIABLES
    asked,      \* asked[i]: the use approval i was requested for
    sanctioned, \* the approvals a person has approved
    spentOn     \* spentOn[i]: the use approval i has been spent on

permitVars == <<asked, sanctioned, spentOn>>

PermitInit ==
    /\ asked = [i \in Ids |-> NoUse]
    /\ sanctioned = {}
    /\ spentOn = [i \in Ids |-> NoUse]

Ask(i, use) ==
    /\ asked[i] = NoUse
    /\ asked' = [asked EXCEPT ![i] = use]
    /\ UNCHANGED <<sanctioned, spentOn>>

Sanction(i) ==
    /\ asked[i] # NoUse
    /\ sanctioned' = sanctioned \cup {i}
    /\ UNCHANGED <<asked, spentOn>>

Spend(i, use) ==
    /\ i \in sanctioned
    /\ spentOn[i] = NoUse
    /\ Covers(asked[i], use)
    /\ spentOn' = [spentOn EXCEPT ![i] = use]
    /\ UNCHANGED <<asked, sanctioned>>

PermitNext ==
    \E i \in Ids :
        \/ \E use \in Uses : Ask(i, use)
        \/ Sanction(i)
        \/ \E use \in Uses : Spend(i, use)

PermitSpec == PermitInit /\ [][PermitNext]_permitVars
=============================================================================
