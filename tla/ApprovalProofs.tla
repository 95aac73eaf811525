--------------------------- MODULE ApprovalProofs ---------------------------
(***************************************************************************)
(* Theorems about the approval store, for any sets of approvals, calls,    *)
(* profiles, resolvers and consumers, any lifetime and any clock bound.    *)
(***************************************************************************)
EXTENDS Approval, TLAPS

(* The strengthening of the safety properties.  What a record says of its  *)
(* approval is the same wherever a copy of it is: in the file, or in the   *)
(* hands of a process that read the file some time ago.                    *)
Asked(i, rec) == rec.use = asked[i] /\ asked[i] # NoUse

FileInv ==
    \A i \in Ids : file[i].size # 0 =>
        /\ Asked(i, file[i].rec)
        /\ file[i].rec.state = "approved" => i \in sanctioned
        /\ file[i].rec.consumed => i \in claim /\ file[i].rec.state = "approved"

ResolverInv ==
    \A r \in Resolvers : resolver[r] # Idle =>
        /\ Asked(resolver[r].id, resolver[r].rec)
        /\ ~resolver[r].rec.consumed

ConsumerInv ==
    \A c \in Consumers : consumer[c] # Idle =>
        /\ Asked(consumer[c].id, consumer[c].rec)
        /\ consumer[c].rec.state = "approved"
        /\ consumer[c].id \in sanctioned
        /\ consumer[c].use.live = live
        /\ consumer[c].at # "check" => Covers(asked[consumer[c].id],
                                              consumer[c].use)

Claiming(c, i) ==
    /\ consumer[c] # Idle
    /\ consumer[c].at \in {"truncate", "write"}
    /\ consumer[c].id = i

ClaimInv ==
    \A i \in Ids :
        /\ spentOn[i] # NoUse <=> i \in claim
        /\ spentOn[i] # NoUse => /\ i \in sanctioned
                                 /\ asked[i] # NoUse
                                 /\ Covers(asked[i], spentOn[i])
        /\ granted[i] <= 1
        /\ granted[i] = 1 => i \in claim
        /\ \A c \in Consumers : Claiming(c, i) => i \in claim /\ granted[i] = 0
        /\ \A c, d \in Consumers :
                Claiming(c, i) /\ Claiming(d, i) => c = d

StoreInv == TypeOK /\ FileInv /\ ResolverInv /\ ConsumerInv /\ ClaimInv

-----------------------------------------------------------------------------
(* Facts about files.                                                      *)

LEMMA SizeIsPositive ==
    ASSUME NEW rec \in Records
    PROVE  Size(rec) \in Nat \ {0}
  BY DEF Size, Records, States, Verdicts

LEMMA WholeIsFileState ==
    ASSUME NEW rec \in Records
    PROVE  Whole(rec) \in FileStates
  BY SizeIsPositive DEF Whole, FileStates

LEMMA OverlayIsFileState ==
    ASSUME NEW rec \in Records, NEW f \in FileStates
    PROVE  Overlay(f, rec) \in FileStates
  <1>1. f.size \in Nat
    BY DEF FileStates, Absent, Truncated
  <1>2. QED
    BY <1>1, SizeIsPositive DEF Overlay, FileStates

LEMMA NonEmptyHoldsRecord ==
    ASSUME NEW f \in FileStates, f.size # 0
    PROVE  f.rec \in Records
  BY DEF FileStates, Absent, Truncated

-----------------------------------------------------------------------------
(* Type correctness: inductive on its own.                                 *)

LEMMA TypeInit == Init => TypeOK
  BY TimeAssumption DEF Init, TypeOK, FileStates, ResolverStates, ConsumerStates

LEMMA TypeStep == TypeOK /\ [Next]_vars => TypeOK'
  <1> SUFFICES ASSUME TypeOK, [Next]_vars
               PROVE  TypeOK'
    OBVIOUS
  <1> USE DEF store, world, history
  <1>1. ASSUME NEW i \in Ids, NEW call \in Calls, NEW p \in Profiles,
               Create(i, call, p)
        PROVE  TypeOK'
    <2> DEFINE use == [call |-> call, profile |-> p, live |-> live]
               rec == [use |-> use, expires |-> clock + Ttl,
                       state |-> "pending", consumed |-> FALSE]
    <2>1. use \in Uses
      BY DEF TypeOK, Uses
    <2>2. clock + Ttl \in 0..(MaxClock + Ttl)
      BY TimeAssumption DEF TypeOK
    <2>3. rec \in Records
      BY <2>1, <2>2 DEF Records, States
    <2>4. file' = [file EXCEPT ![i] = Whole(rec)]
          /\ asked' = [asked EXCEPT ![i] = use]
      BY <1>1 DEF Create, Fresh, Deadline
    <2> HIDE DEF use, rec
    <2>5. file' \in [Ids -> FileStates] /\ asked' \in [Ids -> Uses \cup {NoUse}]
      BY <2>1, <2>3, <2>4, WholeIsFileState DEF TypeOK
    <2>6. QED
      BY <1>1, <2>5 DEF TypeOK, Create
  <1>2. ASSUME NEW r \in Resolvers, NEW i \in Ids, NEW v \in Verdicts,
               ReadPending(r, i, v)
        PROVE  TypeOK'
    <2>1. file[i].rec \in Records
      BY <1>2, NonEmptyHoldsRecord DEF ReadPending, IsPending, Resolved, Parses, TypeOK
    <2>2. Resolved(file[i].rec, v) \in Records
      BY <2>1 DEF Resolved, Records, States
    <2>3. resolver' \in [Resolvers -> ResolverStates]
      BY <1>2, <2>2 DEF ReadPending, IsPending, Resolved, TypeOK, ResolverStates
    <2>4. QED
      BY <1>2, <2>3 DEF ReadPending, IsPending, Resolved, TypeOK
  <1>3. ASSUME NEW r \in Resolvers, TruncateForVerdict(r)
        PROVE  TypeOK'
    BY <1>3 DEF TruncateForVerdict, TypeOK, ResolverStates, FileStates, Idle
  <1>4. ASSUME NEW r \in Resolvers, WriteVerdict(r)
        PROVE  TypeOK'
    <2>1. /\ resolver[r].id \in Ids
          /\ resolver[r].rec \in Records
          /\ resolver[r].rec.state \in States
      BY <1>4 DEF WriteVerdict, TypeOK, ResolverStates, Idle, Records
    <2>2. file' \in [Ids -> FileStates]
      BY <1>4, <2>1, OverlayIsFileState DEF WriteVerdict, TypeOK
    <2>3. QED
      BY <1>4, <2>1, <2>2 DEF WriteVerdict, TypeOK, ResolverStates
  <1>5. ASSUME NEW r \in Resolvers, KillResolver(r)
        PROVE  TypeOK'
    BY <1>5 DEF KillResolver, TypeOK, ResolverStates
  <1>6. ASSUME NEW c \in Consumers, NEW i \in Ids, NEW call \in Calls,
               NEW p \in Profiles \cup {AnyProfile},
               ReadApproved(c, i, call, p)
        PROVE  TypeOK'
    <2>1. file[i].rec \in Records
      BY <1>6, NonEmptyHoldsRecord DEF ReadApproved, IsApproved, Parses, TypeOK
    <2>2. [call |-> call, profile |-> p, live |-> live] \in Uses
      BY DEF TypeOK, Uses
    <2>3. consumer' \in [Consumers -> ConsumerStates]
      BY <1>6, <2>1, <2>2 DEF ReadApproved, IsApproved, TypeOK, ConsumerStates
    <2>4. QED
      BY <1>6, <2>3 DEF ReadApproved, IsApproved, TypeOK
  <1>7. ASSUME NEW c \in Consumers,
               \/ CheckRequest(c)
               \/ FindClaimed(c)
               \/ KillConsumer(c)
        PROVE  TypeOK'
    <2>1. consumer' \in [Consumers -> ConsumerStates]
      BY <1>7 DEF CheckRequest, Admits, FindClaimed, KillConsumer, TypeOK,
                  ConsumerStates, Idle
    <2>2. QED
      BY <1>7, <2>1 DEF CheckRequest, Admits, FindClaimed, KillConsumer, TypeOK
  <1>8. ASSUME NEW c \in Consumers, ClaimOnce(c)
        PROVE  TypeOK'
    <2>1. consumer[c].id \in Ids /\ consumer[c].use \in Uses
      BY <1>8 DEF ClaimOnce, ClaimIsFree, TypeOK, ConsumerStates, Idle
    <2>2. consumer' \in [Consumers -> ConsumerStates]
      BY <1>8 DEF ClaimOnce, ClaimIsFree, TypeOK, ConsumerStates, Idle
    <2>3. QED
      BY <1>8, <2>1, <2>2 DEF ClaimOnce, ClaimIsFree, TypeOK
  <1>9. ASSUME NEW c \in Consumers, TruncateForStamp(c)
        PROVE  TypeOK'
    <2>1. file' \in [Ids -> FileStates]
      BY <1>9 DEF TruncateForStamp, TypeOK, FileStates
    <2>2. consumer' \in [Consumers -> ConsumerStates]
      BY <1>9 DEF TruncateForStamp, TypeOK, ConsumerStates, Idle
    <2>3. QED
      BY <1>9, <2>1, <2>2 DEF TruncateForStamp, TypeOK
  <1>10. ASSUME NEW c \in Consumers, WriteStamp(c)
         PROVE  TypeOK'
    <2>1. consumer[c].id \in Ids /\ consumer[c].rec \in Records
      BY <1>10 DEF WriteStamp, TypeOK, ConsumerStates, Idle
    <2>2. [consumer[c].rec EXCEPT !.consumed = TRUE] \in Records
      BY <2>1 DEF Records
    <2>3. file' \in [Ids -> FileStates]
      BY <1>10, <2>1, <2>2, OverlayIsFileState DEF WriteStamp, TypeOK
    <2>4. consumer' \in [Consumers -> ConsumerStates]
      BY <1>10 DEF WriteStamp, TypeOK, ConsumerStates
    <2>5. QED
      BY <1>10, <2>1, <2>3, <2>4 DEF WriteStamp, TypeOK
  <1>11. CASE Tick
    BY <1>11, TimeAssumption DEF Tick, TypeOK
  <1>12. CASE Reboot
    BY <1>12 DEF Reboot, TypeOK, ResolverStates, ConsumerStates
  <1>13. CASE UNCHANGED vars
    BY <1>13 DEF vars, TypeOK
  <1>14. QED
    BY <1>1, <1>2, <1>3, <1>4, <1>5, <1>6, <1>7, <1>8, <1>9, <1>10,
       <1>11, <1>12, <1>13 DEF Next

(* Every variable of the store and of its processes keeps its type.        *)
THEOREM TypeCorrect == Spec => []TypeOK
  BY TypeInit, TypeStep, PTL DEF Spec

-----------------------------------------------------------------------------
(* The inductive invariant.                                                *)

LEMMA StoreInvInit == Init => StoreInv
  BY TypeInit DEF Init, StoreInv, FileInv, ResolverInv, ConsumerInv, ClaimInv,
                  Claiming, Absent

(* What a process may find in a file that parses.                          *)
LEMMA ParsedRecord ==
    ASSUME TypeOK, FileInv, NEW i \in Ids, Parses(file[i])
    PROVE  /\ file[i].rec \in Records
           /\ Asked(i, file[i].rec)
           /\ file[i].rec.state = "approved" => i \in sanctioned
           /\ file[i].rec.consumed =>
                    i \in claim /\ file[i].rec.state = "approved"
  BY NonEmptyHoldsRecord DEF Parses, TypeOK, FileInv

LEMMA StoreInvStep == StoreInv /\ [Next]_vars => StoreInv'
  <1> SUFFICES ASSUME StoreInv, [Next]_vars
               PROVE  StoreInv'
    OBVIOUS
  <1>t. TypeOK'
    BY TypeStep DEF StoreInv
  <1> USE DEF store, world, history, StoreInv
  <1>1. ASSUME NEW i \in Ids, NEW call \in Calls, NEW p \in Profiles,
               Create(i, call, p)
        PROVE  StoreInv'
    <2> DEFINE use == [call |-> call, profile |-> p, live |-> live]
               rec == [use |-> use, expires |-> clock + Ttl,
                       state |-> "pending", consumed |-> FALSE]
    <2>1. use # NoUse
      BY UseAssumption DEF TypeOK, Uses
    <2>2. /\ file' = [file EXCEPT ![i] = Whole(rec)]
          /\ asked' = [asked EXCEPT ![i] = use]
          /\ asked[i] = NoUse
          /\ UNCHANGED <<claim, live, resolver, consumer, sanctioned,
                         spentOn, granted>>
      BY <1>1 DEF Create, Fresh, Deadline
    <2>3. /\ rec.use = use
          /\ rec.state # "approved"
          /\ ~rec.consumed
      OBVIOUS
    <2> HIDE DEF use, rec
    <2>4. FileInv'
      BY <2>1, <2>2, <2>3 DEF FileInv, Asked, TypeOK, Whole
    <2>5. ResolverInv'
      BY <2>2 DEF ResolverInv, Asked, TypeOK, ResolverStates
    <2>6. ConsumerInv'
      BY <2>2 DEF ConsumerInv, Asked, TypeOK, ConsumerStates
    <2>7. i \notin claim
      BY <2>2 DEF ClaimInv
    <2>8. ClaimInv'
      BY <2>2, <2>7 DEF ClaimInv, Claiming, TypeOK
    <2>9. QED
      BY <1>t, <2>4, <2>5, <2>6, <2>8
  <1>2. ASSUME NEW r \in Resolvers, NEW i \in Ids, NEW v \in Verdicts,
               ReadPending(r, i, v)
        PROVE  StoreInv'
    <2>1. ResolverInv'
      BY <1>2, ParsedRecord
      DEF ReadPending, IsPending, Resolved, ResolverInv, Asked, TypeOK, Records, Verdicts
    <2>2. FileInv' /\ ConsumerInv' /\ ClaimInv'
      BY <1>2 DEF ReadPending, IsPending, Resolved, FileInv, ConsumerInv, ClaimInv, Claiming, Asked
    <2>3. QED
      BY <1>t, <2>1, <2>2
  <1>3. ASSUME NEW r \in Resolvers, TruncateForVerdict(r)
        PROVE  StoreInv'
    <2>1. FileInv'
      BY <1>3 DEF TruncateForVerdict, FileInv, Asked, TypeOK, Truncated
    <2>2. ResolverInv'
      BY <1>3 DEF TruncateForVerdict, ResolverInv, Asked, TypeOK,
                  ResolverStates, Idle
    <2>3. ConsumerInv' /\ ClaimInv'
      BY <1>3 DEF TruncateForVerdict, ConsumerInv, ClaimInv, Claiming, Asked
    <2>4. QED
      BY <1>t, <2>1, <2>2, <2>3
  <1>4. ASSUME NEW r \in Resolvers, WriteVerdict(r)
        PROVE  StoreInv'
    <2>1. /\ resolver[r].id \in Ids
          /\ Asked(resolver[r].id, resolver[r].rec)
          /\ ~resolver[r].rec.consumed
      BY <1>4 DEF WriteVerdict, ResolverInv, TypeOK, ResolverStates, Idle
    <2>2. FileInv'
      BY <1>4, <2>1 DEF WriteVerdict, FileInv, Asked, TypeOK, Overlay
    <2>3. ResolverInv'
      BY <1>4 DEF WriteVerdict, ResolverInv, Asked, TypeOK
    <2>4. ConsumerInv' /\ ClaimInv'
      BY <1>4 DEF WriteVerdict, ConsumerInv, ClaimInv, Claiming, Asked
    <2>5. QED
      BY <1>t, <2>2, <2>3, <2>4
  <1>5. ASSUME NEW r \in Resolvers, KillResolver(r)
        PROVE  StoreInv'
    BY <1>5, <1>t DEF KillResolver, FileInv, ResolverInv, ConsumerInv,
                      ClaimInv, Claiming, Asked, TypeOK
  <1>6. ASSUME NEW c \in Consumers, NEW i \in Ids, NEW call \in Calls,
               NEW p \in Profiles \cup {AnyProfile},
               ReadApproved(c, i, call, p)
        PROVE  StoreInv'
    <2>1. ConsumerInv'
      BY <1>6, ParsedRecord DEF ReadApproved, IsApproved, ConsumerInv, Asked, TypeOK
    <2>2. ClaimInv'
      BY <1>6 DEF ReadApproved, IsApproved, ClaimInv, Claiming, TypeOK
    <2>3. FileInv' /\ ResolverInv'
      BY <1>6 DEF ReadApproved, IsApproved, FileInv, ResolverInv, Asked
    <2>4. QED
      BY <1>t, <2>1, <2>2, <2>3
  <1>7. ASSUME NEW c \in Consumers,
               \/ CheckRequest(c)
               \/ FindClaimed(c)
               \/ KillConsumer(c)
        PROVE  StoreInv'
    <2>1. ConsumerInv'
      BY <1>7 DEF CheckRequest, Admits, FindClaimed, KillConsumer, ConsumerInv, Asked,
                  TypeOK, ConsumerStates, Idle
    <2>2. ClaimInv'
      BY <1>7 DEF CheckRequest, Admits, FindClaimed, KillConsumer, ClaimInv, Claiming,
                  TypeOK, ConsumerStates, Idle
    <2>3. FileInv' /\ ResolverInv'
      BY <1>7 DEF CheckRequest, Admits, FindClaimed, KillConsumer, FileInv,
                  ResolverInv, Asked
    <2>4. QED
      BY <1>t, <2>1, <2>2, <2>3
  <1>8. ASSUME NEW c \in Consumers, ClaimOnce(c)
        PROVE  StoreInv'
    <2> DEFINE i == consumer[c].id
               use == consumer[c].use
    <2>1. /\ i \in Ids
          /\ i \in sanctioned
          /\ asked[i] # NoUse
          /\ Covers(asked[i], use)
          /\ use # NoUse
      BY <1>8, UseAssumption DEF ClaimOnce, ClaimIsFree, ConsumerInv, Asked, TypeOK,
                                 ConsumerStates, Idle
    <2>2. granted[i] = 0 /\ \A d \in Consumers : ~Claiming(d, i)
      <3>1. granted[i] \in Nat
        BY <2>1 DEF TypeOK
      <3>2. QED
        BY <1>8, <2>1, <3>1 DEF ClaimOnce, ClaimIsFree, ClaimInv
    <2>3. ClaimInv'
      BY <1>8, <2>1, <2>2 DEF ClaimOnce, ClaimIsFree, ClaimInv, Claiming, TypeOK,
                              ConsumerStates, Idle
    <2>4. ConsumerInv'
      BY <1>8 DEF ClaimOnce, ClaimIsFree, ConsumerInv, Asked, TypeOK, ConsumerStates, Idle
    <2>5. FileInv' /\ ResolverInv'
      BY <1>8 DEF ClaimOnce, ClaimIsFree, FileInv, ResolverInv, Asked
    <2>6. QED
      BY <1>t, <2>3, <2>4, <2>5
  <1>9. ASSUME NEW c \in Consumers, TruncateForStamp(c)
        PROVE  StoreInv'
    <2>1. FileInv'
      BY <1>9 DEF TruncateForStamp, FileInv, Asked, TypeOK, Truncated
    <2>2. ConsumerInv'
      BY <1>9 DEF TruncateForStamp, ConsumerInv, Asked, TypeOK,
                  ConsumerStates, Idle
    <2>3. ClaimInv'
      BY <1>9 DEF TruncateForStamp, ClaimInv, Claiming, TypeOK,
                  ConsumerStates, Idle
    <2>4. ResolverInv'
      BY <1>9 DEF TruncateForStamp, ResolverInv, Asked
    <2>5. QED
      BY <1>t, <2>1, <2>2, <2>3, <2>4
  <1>10. ASSUME NEW c \in Consumers, WriteStamp(c)
         PROVE  StoreInv'
    <2> DEFINE i == consumer[c].id
    <2>1. /\ i \in Ids
          /\ i \in claim
          /\ granted[i] = 0
          /\ consumer[c] # Idle
          /\ Asked(i, consumer[c].rec)
          /\ consumer[c].rec.state = "approved"
          /\ i \in sanctioned
          /\ consumer[c].rec \in Records
      BY <1>10 DEF WriteStamp, ConsumerInv, ClaimInv, Claiming, TypeOK,
                   ConsumerStates, Idle
    <2>2. /\ Asked(i, [consumer[c].rec EXCEPT !.consumed = TRUE])
          /\ [consumer[c].rec EXCEPT !.consumed = TRUE].state = "approved"
      BY <2>1 DEF Asked, Records
    <2>3. FileInv'
      BY <1>10, <2>1, <2>2 DEF WriteStamp, FileInv, Asked, TypeOK, Overlay
    <2>4. ConsumerInv'
      BY <1>10 DEF WriteStamp, ConsumerInv, Asked, TypeOK
    <2>5. ClaimInv'
      BY <1>10, <2>1 DEF WriteStamp, ClaimInv, Claiming, TypeOK
    <2>6. ResolverInv'
      BY <1>10 DEF WriteStamp, ResolverInv, Asked
    <2>7. QED
      BY <1>t, <2>3, <2>4, <2>5, <2>6
  <1>11. CASE Tick
    BY <1>11, <1>t DEF Tick, FileInv, ResolverInv, ConsumerInv, ClaimInv,
                       Claiming, Asked
  <1>12. CASE Reboot
    BY <1>12, <1>t DEF Reboot, FileInv, ResolverInv, ConsumerInv, ClaimInv,
                       Claiming, Asked
  <1>13. CASE UNCHANGED vars
    BY <1>13, <1>t DEF vars, FileInv, ResolverInv, ConsumerInv, ClaimInv,
                       Claiming, Asked
  <1>14. QED
    BY <1>1, <1>2, <1>3, <1>4, <1>5, <1>6, <1>7, <1>8, <1>9, <1>10,
       <1>11, <1>12, <1>13 DEF Next

LEMMA StoreInvariant == Spec => []StoreInv
  BY StoreInvInit, StoreInvStep, PTL DEF Spec

-----------------------------------------------------------------------------
(* What the store guarantees.                                              *)

(* consume() returns normally at most once for an approval, and never      *)
(* without having created its claim file.                                  *)
THEOREM GrantedOnce == Spec => []SingleUse
  <1>1. StoreInv => SingleUse
    BY DEF StoreInv, ClaimInv, SingleUse
  <1>2. QED
    BY <1>1, StoreInvariant, PTL

(* An approval is spent only on the use it was asked for, and only after a *)
(* person approved it.                                                     *)
THEOREM SpentOnlyAsAsked == Spec => []SpentAsAsked
  <1>1. StoreInv => SpentAsAsked
    BY DEF StoreInv, ClaimInv, SpentAsAsked
  <1>2. QED
    BY <1>1, StoreInvariant, PTL

(* A record that reads as consumed was claimed.                            *)
THEOREM ConsumedImpliesClaimed == Spec => []ConsumedWasClaimed
  <1>1. StoreInv => ConsumedWasClaimed
    BY ParsedRecord DEF StoreInv, ConsumedWasClaimed
  <1>2. QED
    BY <1>1, StoreInvariant, PTL

-----------------------------------------------------------------------------
(* The store implements the permit: creating is asking, writing "approved" *)
(* is sanctioning, creating the claim file is spending, and every other    *)
(* step, crashes and restarts included, leaves the permit alone.           *)
THEOREM StoreImplementsPermit == Spec => ImplementsPermit
  <1> USE DEF store, world, history
  <1>1. Init => P!PermitInit
    BY DEF Init, P!PermitInit
  <1>2. StoreInv /\ [Next]_vars => [P!PermitNext]_(P!permitVars)
    <2> SUFFICES ASSUME StoreInv, [Next]_vars
                 PROVE  [P!PermitNext]_(P!permitVars)
      OBVIOUS
    <2> USE DEF P!permitVars
    <2>1. ASSUME NEW i \in Ids, NEW call \in Calls, NEW p \in Profiles,
                 Create(i, call, p)
          PROVE  P!PermitNext
      <3>1. [call |-> call, profile |-> p, live |-> live] \in P!Uses
        BY DEF StoreInv, TypeOK, P!Uses
      <3>2. P!Ask(i, [call |-> call, profile |-> p, live |-> live])
        BY <2>1 DEF Create, Fresh, Deadline, P!Ask
      <3>3. QED
        BY <3>1, <3>2 DEF P!PermitNext
    <2>2. ASSUME NEW r \in Resolvers, WriteVerdict(r)
          PROVE  P!PermitNext \/ UNCHANGED P!permitVars
      <3>1. resolver[r].id \in Ids /\ asked[resolver[r].id] # NoUse
        BY <2>2 DEF WriteVerdict, StoreInv, ResolverInv, Asked, TypeOK,
                    ResolverStates, Idle
      <3>2. CASE resolver[r].rec.state = "approved"
        BY <2>2, <3>1, <3>2 DEF WriteVerdict, P!Sanction, P!PermitNext
      <3>3. CASE resolver[r].rec.state # "approved"
        BY <2>2, <3>3 DEF WriteVerdict
      <3>4. QED
        BY <3>2, <3>3
    <2>3. ASSUME NEW c \in Consumers, ClaimOnce(c)
          PROVE  P!PermitNext
      <3> DEFINE i == consumer[c].id
                 use == consumer[c].use
      <3>1. /\ i \in Ids
            /\ use \in P!Uses
            /\ i \in sanctioned
            /\ P!Covers(asked[i], use)
        BY <2>3 DEF ClaimOnce, ClaimIsFree, StoreInv, ConsumerInv, TypeOK, ConsumerStates,
                    Idle, Covers, P!Covers, Uses, P!Uses
      <3>2. spentOn[i] = NoUse
        BY <2>3, <3>1 DEF ClaimOnce, ClaimIsFree, StoreInv, ClaimInv
      <3>3. P!Spend(i, use)
        BY <2>3, <3>1, <3>2 DEF ClaimOnce, ClaimIsFree, P!Spend
      <3>4. QED
        BY <3>1, <3>3 DEF P!PermitNext
    <2>4. ASSUME NEW r \in Resolvers,
                 \/ \E i \in Ids, v \in Verdicts : ReadPending(r, i, v)
                 \/ TruncateForVerdict(r)
                 \/ KillResolver(r)
          PROVE  UNCHANGED P!permitVars
      BY <2>4 DEF ReadPending, IsPending, Resolved, TruncateForVerdict, KillResolver
    <2>5. ASSUME NEW c \in Consumers,
                 \/ \E i \in Ids, call \in Calls,
                       p \in Profiles \cup {AnyProfile} :
                       ReadApproved(c, i, call, p)
                 \/ CheckRequest(c)
                 \/ FindClaimed(c)
                 \/ TruncateForStamp(c)
                 \/ WriteStamp(c)
                 \/ KillConsumer(c)
          PROVE  UNCHANGED P!permitVars
      BY <2>5 DEF ReadApproved, IsApproved, CheckRequest, FindClaimed, TruncateForStamp,
                  WriteStamp, KillConsumer
    <2>6. CASE Tick \/ Reboot \/ UNCHANGED vars
      BY <2>6 DEF Tick, Reboot, vars
    <2>7. QED
      BY <2>1, <2>2, <2>3, <2>4, <2>5, <2>6 DEF Next
  <1>3. QED
    BY <1>1, <1>2, StoreInvariant, PTL DEF Spec, ImplementsPermit, P!PermitSpec

-----------------------------------------------------------------------------
(* A torn approval that nobody is writing stays torn, unresolved, unspent. *)
THEOREM TornIsFinal == Spec => TornStaysDead
  <1> USE DEF store, world, history
  <1>1. TypeOK /\ [Next]_vars
          => [\A i \in Ids : Dead(i) =>
                Dead(i)' /\ spentOn'[i] = spentOn[i] /\ told'[i] = told[i]]_vars
    <2> SUFFICES ASSUME TypeOK, Next, NEW i \in Ids, Dead(i)
                 PROVE  Dead(i)' /\ spentOn'[i] = spentOn[i] /\ told'[i] = told[i]
      OBVIOUS
    <2> USE DEF Dead, Untouched, TypeOK
    <2>1. ASSUME NEW j \in Ids, NEW call \in Calls, NEW p \in Profiles,
                 Create(j, call, p)
          PROVE  Dead(i)' /\ spentOn'[i] = spentOn[i] /\ told'[i] = told[i]
      BY <2>1 DEF Create, Fresh, Deadline, Parses
    <2>2. ASSUME NEW r \in Resolvers,
                 \/ \E j \in Ids, v \in Verdicts : ReadPending(r, j, v)
                 \/ TruncateForVerdict(r)
                 \/ WriteVerdict(r)
                 \/ KillResolver(r)
          PROVE  Dead(i)' /\ spentOn'[i] = spentOn[i] /\ told'[i] = told[i]
      BY <2>2 DEF ReadPending, IsPending, Resolved, TruncateForVerdict, WriteVerdict, KillResolver,
                  Parses, Idle, ResolverStates
    <2>3. ASSUME NEW c \in Consumers,
                 \/ \E j \in Ids, call \in Calls,
                       p \in Profiles \cup {AnyProfile} :
                       ReadApproved(c, j, call, p)
                 \/ CheckRequest(c)
                 \/ ClaimOnce(c)
                 \/ FindClaimed(c)
                 \/ KillConsumer(c)
          PROVE  Dead(i)' /\ spentOn'[i] = spentOn[i] /\ told'[i] = told[i]
      BY <2>3 DEF ReadApproved, IsApproved, CheckRequest, ClaimOnce, FindClaimed,
                  KillConsumer, Parses, Idle, ConsumerStates
    <2>4. ASSUME NEW c \in Consumers, TruncateForStamp(c) \/ WriteStamp(c)
          PROVE  Dead(i)' /\ spentOn'[i] = spentOn[i] /\ told'[i] = told[i]
      BY <2>4 DEF TruncateForStamp, WriteStamp, Parses, Idle, ConsumerStates
    <2>5. CASE Tick \/ Reboot
      BY <2>5 DEF Tick, Reboot, Parses
    <2>6. QED
      BY <2>1, <2>2, <2>3, <2>4, <2>5 DEF Next
  <1>2. QED
    BY <1>1, TypeCorrect, PTL DEF Spec, TornStaysDead

-----------------------------------------------------------------------------
(* Verdicts, of approvals no two processes had in hand at once.            *)

VerdictInv ==
    /\ \A r \in Resolvers : resolver[r] # Idle =>
            resolver[r].rec.state \in Verdicts
    /\ \A i \in Ids \ contested :
            /\ \A r, s \in Resolvers :
                    /\ resolver[r] # Idle /\ resolver[r].id = i
                    /\ resolver[s] # Idle /\ resolver[s].id = i
                    => r = s
            /\ told[i] # {} =>
                  /\ ~Resolving(i)
                  /\ asked[i] # NoUse
                  /\ file[i].size # 0 => file[i].rec.state # "pending"
            /\ i \in sanctioned => "approved" \in told[i]
            /\ \A v, w \in told[i] : v = w

(* The verdict a person was told is the only one, and an approval that was *)
(* refused is never spent, unless two people resolved it at once.          *)
THEOREM VerdictStands == Spec => []VerdictsStand
  <1> USE DEF store, world, history
  <1>1. Init => VerdictInv
    BY DEF Init, VerdictInv
  <1>2. StoreInv /\ VerdictInv /\ [Next]_vars => VerdictInv'
    <2> SUFFICES ASSUME StoreInv, VerdictInv, [Next]_vars
                 PROVE  VerdictInv'
      OBVIOUS
    <2> USE DEF VerdictInv, Resolving, StoreInv, TypeOK
    <2>1. ASSUME NEW i \in Ids, NEW call \in Calls, NEW p \in Profiles,
                 Create(i, call, p)
          PROVE  VerdictInv'
      <3>1. i \notin contested => told[i] = {}
        BY <2>1 DEF Create, Fresh, Deadline
      <3>2. QED
        BY <2>1, <3>1 DEF Create, Fresh, Deadline
    <2>2. ASSUME NEW r \in Resolvers, NEW i \in Ids, NEW v \in Verdicts,
                 ReadPending(r, i, v)
          PROVE  VerdictInv'
      <3> DEFINE rec == Resolved(file[i].rec, v)
      <3>1. rec.state = v
        BY <2>2, ParsedRecord DEF ReadPending, IsPending, Resolved, Records
      <3>2. /\ resolver' = [resolver EXCEPT ![r] =
                              [at |-> "truncate", id |-> i, rec |-> rec]]
            /\ resolver[r] = Idle
            /\ contested \subseteq contested'
            /\ i \notin contested' => ~Resolving(i)
            /\ file[i].size # 0
            /\ file[i].rec.state = "pending"
            /\ UNCHANGED <<file, asked, sanctioned, told, spentOn>>
        BY <2>2 DEF ReadPending, IsPending, Parses
      <3> HIDE DEF rec
      <3>3. \A s \in Resolvers : resolver'[s] # Idle =>
                resolver'[s].rec.state \in Verdicts
        BY <3>1, <3>2 DEF ResolverStates
      <3>4. ASSUME NEW j \in Ids \ contested'
            PROVE  /\ \A q, s \in Resolvers :
                        /\ resolver'[q] # Idle /\ resolver'[q].id = j
                        /\ resolver'[s] # Idle /\ resolver'[s].id = j
                        => q = s
                   /\ told[j] # {} => ~Resolving(j)'
        <4>1. CASE j = i
          BY <3>2, <4>1 DEF ResolverStates
        <4>2. CASE j # i
          BY <3>2, <4>2 DEF ResolverStates
        <4>3. QED
          BY <4>1, <4>2
      <3>5. QED
        BY <3>2, <3>3, <3>4
    <2>3. ASSUME NEW r \in Resolvers, TruncateForVerdict(r)
          PROVE  VerdictInv'
      BY <2>3 DEF TruncateForVerdict, Truncated, ResolverStates, Idle
    <2>4. ASSUME NEW r \in Resolvers, WriteVerdict(r)
          PROVE  VerdictInv'
      <3> DEFINE i == resolver[r].id
                 v == resolver[r].rec.state
      <3>1. /\ i \in Ids
            /\ v \in Verdicts
            /\ asked[i] # NoUse
            /\ resolver[r] # Idle
        BY <2>4 DEF WriteVerdict, ResolverInv, Asked, ResolverStates, Idle
      <3>2. i \notin contested => told[i] = {}
        BY <3>1
      <3>3. /\ told' = [told EXCEPT ![i] = @ \cup {v}]
            /\ sanctioned' = IF v = "approved" THEN sanctioned \cup {i}
                                               ELSE sanctioned
            /\ resolver' = [resolver EXCEPT ![r] = Idle]
            /\ file' = [file EXCEPT ![i] = Overlay(@, resolver[r].rec)]
            /\ asked' = asked
            /\ contested' = contested
        BY <2>4 DEF WriteVerdict
      <3>4. Overlay(file[i], resolver[r].rec).rec.state # "pending"
        BY <3>1 DEF Overlay, Verdicts
      <3>5. i \notin contested => \A s \in Resolvers :
                resolver'[s] # Idle => resolver'[s].id # i
        BY <3>1, <3>3
      <3> HIDE DEF i, v
      <3>6. ASSUME NEW j \in Ids \ contested'
            PROVE  /\ told'[j] # {} =>
                         /\ ~Resolving(j)'
                         /\ asked[j] # NoUse
                         /\ file'[j].size # 0 => file'[j].rec.state # "pending"
                   /\ j \in sanctioned' => "approved" \in told'[j]
                   /\ \A u, w \in told'[j] : u = w
        <4>1. CASE j = i
          BY <3>1, <3>2, <3>3, <3>4, <3>5, <4>1
        <4>2. CASE j # i
          BY <3>1, <3>3, <4>2
        <4>3. QED
          BY <4>1, <4>2
      <3>7. \A s \in Resolvers : resolver'[s] # Idle => resolver'[s] = resolver[s]
        BY <3>3
      <3>8. \A s \in Resolvers : resolver'[s] # Idle =>
                resolver'[s].rec.state \in Verdicts
        BY <3>7
      <3>9. \A j \in Ids \ contested' : \A q, s \in Resolvers :
                /\ resolver'[q] # Idle /\ resolver'[q].id = j
                /\ resolver'[s] # Idle /\ resolver'[s].id = j
                => q = s
        BY <3>3, <3>7
      <3>10. QED
        BY <3>3, <3>6, <3>8, <3>9
    <2>5. ASSUME NEW r \in Resolvers, KillResolver(r)
          PROVE  VerdictInv'
      BY <2>5 DEF KillResolver
    <2>6. ASSUME NEW c \in Consumers,
                 \/ \E i \in Ids, call \in Calls,
                       p \in Profiles \cup {AnyProfile} :
                       ReadApproved(c, i, call, p)
                 \/ CheckRequest(c)
                 \/ ClaimOnce(c)
                 \/ FindClaimed(c)
                 \/ KillConsumer(c)
          PROVE  VerdictInv'
      BY <2>6 DEF ReadApproved, IsApproved, CheckRequest, ClaimOnce, FindClaimed,
                  KillConsumer
    <2>7. ASSUME NEW c \in Consumers, TruncateForStamp(c)
          PROVE  VerdictInv'
      BY <2>7 DEF TruncateForStamp, Truncated
    <2>8. ASSUME NEW c \in Consumers, WriteStamp(c)
          PROVE  VerdictInv'
      <3>1. consumer[c].rec \in Records /\ consumer[c].rec.state = "approved"
        BY <2>8 DEF WriteStamp, ConsumerInv, ConsumerStates, Idle
      <3>2. [consumer[c].rec EXCEPT !.consumed = TRUE].state = "approved"
        BY <3>1 DEF Records
      <3>3. QED
        BY <2>8, <3>2 DEF WriteStamp, Overlay
    <2>9. CASE Tick \/ Reboot \/ UNCHANGED vars
      BY <2>9 DEF Tick, Reboot, vars
    <2>10. QED
      BY <2>1, <2>2, <2>3, <2>4, <2>5, <2>6, <2>7, <2>8, <2>9 DEF Next
  <1>3. StoreInv /\ VerdictInv => VerdictsStand
    <2> SUFFICES ASSUME StoreInv, VerdictInv, NEW i \in Ids \ contested,
                        told[i] \cap {"denied", "cancelled"} # {}
                 PROVE  spentOn[i] = NoUse
      BY DEF VerdictInv, VerdictsStand
    <2>1. i \notin sanctioned
      BY DEF VerdictInv
    <2>2. QED
      BY <2>1 DEF StoreInv, ClaimInv
  <1>4. QED
    BY <1>1, <1>2, <1>3, StoreInvariant, PTL DEF Spec
=============================================================================
