----------------------------- MODULE PermitProofs -----------------------------
(***************************************************************************)
(* What holds of permits whoever asks for, sanctions and spends them, and  *)
(* how many have been spent for one call.  The proofs about the components *)
(* that use permits rest on these facts.                                   *)
(***************************************************************************)
EXTENDS Permit, FiniteSetTheorems, TLAPS

PermitOK ==
    /\ asked \in [Ids -> Uses \cup {NoUse}]
    /\ sanctioned \subseteq {i \in Ids : asked[i] # NoUse}
    /\ spentOn \in [Ids -> Uses \cup {NoUse}]
    /\ \A i \in Ids : spentOn[i] # NoUse =>
          i \in sanctioned /\ Covers(asked[i], spentOn[i])

LEMMA PermitOKInit == PermitInit => PermitOK
  BY DEF PermitInit, PermitOK

LEMMA PermitOKStep ==
    ASSUME NoUse \notin Uses, PermitOK, [PermitNext]_permitVars
    PROVE  PermitOK'
  <1>1. ASSUME NEW i \in Ids, NEW use \in Uses, Ask(i, use)
        PROVE  PermitOK'
    <2>1. i \notin sanctioned
      BY <1>1 DEF Ask, PermitOK
    <2>2. /\ asked'[i] = use /\ use # NoUse
          /\ \A j \in Ids \ {i} : asked'[j] = asked[j]
      BY <1>1 DEF Ask, PermitOK
    <2>3. QED
      BY <1>1, <2>1, <2>2 DEF Ask, PermitOK
  <1>2. ASSUME NEW i \in Ids, Sanction(i)
        PROVE  PermitOK'
    BY <1>2 DEF Sanction, PermitOK
  <1>3. ASSUME NEW i \in Ids, NEW use \in Uses, Spend(i, use)
        PROVE  PermitOK'
    <2>1. spentOn'[i] = use /\ \A j \in Ids \ {i} : spentOn'[j] = spentOn[j]
      BY <1>3 DEF Spend, PermitOK
    <2>2. QED
      BY <1>3, <2>1 DEF Spend, PermitOK
  <1>4. CASE UNCHANGED permitVars
    BY <1>4 DEF permitVars, PermitOK
  <1>5. QED
    BY <1>1, <1>2, <1>3, <1>4 DEF PermitNext

(* In every behaviour of the permits, a permit that is spent was asked for *)
(* and sanctioned, and was spent on a use that it covers.                  *)
THEOREM PermitsAreSound ==
    ASSUME NoUse \notin Uses
    PROVE  PermitSpec => []PermitOK
  <1>1. PermitOK /\ [PermitNext]_permitVars => PermitOK'
    BY PermitOKStep
  <1>2. QED
    BY <1>1, PermitOKInit, PTL DEF PermitSpec

-----------------------------------------------------------------------------
(* The permits that were given, and spent, for one exact call.             *)

SpentFor(r) == {i \in sanctioned : asked[i].call = r /\ spentOn[i] # NoUse}

LEMMA NothingSpent ==
    ASSUME PermitInit, NEW r
    PROVE  SpentFor(r) = {}
  BY DEF PermitInit, SpentFor

(* Asking and sanctioning leave them alone, spending adds one.             *)
LEMMA SpentForMoves ==
    ASSUME NoUse \notin Uses, PermitOK, NEW r,
           \/ UNCHANGED permitVars
           \/ \E i \in Ids, use \in Uses : Ask(i, use)
           \/ \E i \in Ids : Sanction(i)
    PROVE  SpentFor(r)' = SpentFor(r)
  <1>1. ASSUME NEW i \in Ids, NEW use \in Uses, Ask(i, use)
        PROVE  SpentFor(r)' = SpentFor(r)
    <2>1. i \notin sanctioned
      BY <1>1 DEF Ask, PermitOK
    <2>2. \A j \in sanctioned : asked'[j] = asked[j]
      BY <1>1, <2>1 DEF Ask, PermitOK
    <2>3. QED
      BY <1>1, <2>2 DEF Ask, SpentFor
  <1>2. ASSUME NEW i \in Ids, Sanction(i)
        PROVE  SpentFor(r)' = SpentFor(r)
    BY <1>2 DEF Sanction, PermitOK, SpentFor
  <1>3. CASE UNCHANGED permitVars
    BY <1>3 DEF permitVars, SpentFor
  <1>4. QED
    BY <1>1, <1>2, <1>3

LEMMA SpendAdds ==
    ASSUME NoUse \notin Uses, PermitOK, NEW i \in Ids, NEW use \in Uses,
           Spend(i, use), NEW r
    PROVE  /\ use.call = r => /\ SpentFor(r)' = SpentFor(r) \cup {i}
                              /\ i \notin SpentFor(r)
           /\ use.call # r => SpentFor(r)' = SpentFor(r)
  <1>1. /\ spentOn'[i] # NoUse
        /\ \A j \in sanctioned \ {i} : spentOn'[j] = spentOn[j]
    BY DEF Spend, PermitOK
  <1>2. /\ i \in sanctioned /\ spentOn[i] = NoUse
        /\ asked[i].call = use.call
        /\ UNCHANGED <<asked, sanctioned>>
    BY DEF Spend, Covers
  <1>3. QED
    BY <1>1, <1>2 DEF SpentFor

(* However many permits there are, a finite number has been spent for one  *)
(* call, and the number never decreases.                                   *)
LEMMA SpentForGrows ==
    ASSUME NoUse \notin Uses, PermitOK, [PermitNext]_permitVars, NEW r,
           IsFiniteSet(SpentFor(r))
    PROVE  /\ IsFiniteSet(SpentFor(r)')
           /\ Cardinality(SpentFor(r)) \in Nat
           /\ Cardinality(SpentFor(r)') \in Nat
           /\ Cardinality(SpentFor(r)) <= Cardinality(SpentFor(r)')
  <1>1. Cardinality(SpentFor(r)) \in Nat
    BY FS_CardinalityType
  <1>2. \/ SpentFor(r)' = SpentFor(r)
        \/ \E i \in Ids : SpentFor(r)' = SpentFor(r) \cup {i}
    BY SpentForMoves, SpendAdds DEF PermitNext
  <1>3. ASSUME NEW i \in Ids, SpentFor(r)' = SpentFor(r) \cup {i}
        PROVE  /\ IsFiniteSet(SpentFor(r)')
               /\ Cardinality(SpentFor(r)') \in Nat
               /\ Cardinality(SpentFor(r)) <= Cardinality(SpentFor(r)')
    <2>1. /\ IsFiniteSet(SpentFor(r)')
          /\ \/ Cardinality(SpentFor(r)') = Cardinality(SpentFor(r))
             \/ Cardinality(SpentFor(r)') = Cardinality(SpentFor(r)) + 1
      BY <1>3, FS_AddElement
    <2>2. QED
      BY <1>1, <2>1
  <1>4. QED
    BY <1>1, <1>2, <1>3
=============================================================================
