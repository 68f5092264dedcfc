----------------------- MODULE PositionRegistry_proofs -----------------------
(***************************************************************************)
(* The registry tracks exactly the open positions and a fresh quote is a   *)
(* value of this slot unless other accounts were quoted, for every set of  *)
(* keys, values and slots.                                                 *)
(***************************************************************************)
EXTENDS PositionRegistry, Data_proofs

\* No stamp is in the future, so a new slot makes every quote stale.
StampsNotAhead == \A k \in DOMAIN registry : registry[k].slot <= slot

\* Positions are tracked one by one, so their values have a sum.
TrackedFinite == IsFiniteSet(DOMAIN registry)

\* What a position is worth now is among the values it had in this slot.
WorthIsSeen == \A k \in DOMAIN worth : worth[k] \in seen[k]

RegistryInv ==
  /\ PositionTypeOK
  /\ TracksOpenPositions
  /\ FreshMeansThisSlot
  /\ StampsNotAhead
  /\ WorthIsSeen
  /\ TrackedFinite

LEMMA RegistryInit == PositionInit => RegistryInv
BY FS_EmptySet DEF PositionInit, RegistryInv, PositionTypeOK, TracksOpenPositions,
                   FreshMeansThisSlot, StampsNotAhead, WorthIsSeen, TrackedFinite

\* One position more, one less, or as many.
LEMMA TrackedFiniteStep ==
  ASSUME TrackedFinite, [PositionNext]_positionVars
  PROVE  TrackedFinite'
<1>1. ASSUME NEW k \in Positions, InitializePosition(k)
      PROVE  TrackedFinite'
  <2>1. DOMAIN registry' = DOMAIN registry \cup {k}
    BY <1>1 DEF InitializePosition, Put
  <2> QED
    BY <2>1, FS_AddElement DEF TrackedFinite
<1>2. ASSUME NEW k \in Positions, ClosePosition(k)
      PROVE  TrackedFinite'
  <2>1. DOMAIN registry' = DOMAIN registry \ {k}
    BY <1>2 DEF ClosePosition, Restrict
  <2> QED
    BY <2>1, FS_RemoveElement DEF TrackedFinite
<1>3. ASSUME NEW k \in Positions, NEW v, GetPositionValue(k, v)
      PROVE  TrackedFinite'
  BY <1>3 DEF GetPositionValue, TrackedFinite
<1>4. CASE UNCHANGED registry
  BY <1>4 DEF TrackedFinite
<1> QED
  BY <1>1, <1>2, <1>3, <1>4 DEF PositionNext, ChangeWorth, AdvanceSlot, positionVars

\* Whatever accounts are quoted, the value is a natural number.
LEMMA QuotesAreNat ==
  ASSUME PositionTypeOK
  PROVE  QuotableValues \subseteq Nat
BY QuotesAssumption DEF PositionTypeOK, QuotableValues, Range

\* Each operation preserves the invariant.
LEMMA RegistryStep ==
  ASSUME RegistryInv, [PositionNext]_positionVars
  PROVE  RegistryInv'
<1> USE DEF RegistryInv, PositionTypeOK, TracksOpenPositions, FreshMeansThisSlot,
            StampsNotAhead, WorthIsSeen, Quote
<1>0. TrackedFinite'
  BY TrackedFiniteStep
<1>1. ASSUME NEW k \in Positions, InitializePosition(k)
      PROVE  RegistryInv'
  BY <1>0, <1>1 DEF InitializePosition, Put
<1>2. ASSUME NEW k \in Positions, ClosePosition(k)
      PROVE  RegistryInv'
  BY <1>0, <1>2 DEF ClosePosition, Restrict
<1>3. ASSUME NEW k \in Positions, NEW v \in QuotableValues, GetPositionValue(k, v)
      PROVE  RegistryInv'
  <2>1. v \in Nat
    BY QuotesAreNat
  <2> QED
    BY <1>0, <1>3, <2>1 DEF GetPositionValue, Misread
<1>4. ASSUME NEW k \in Positions, NEW w \in Worths, ChangeWorth(k, w)
      PROVE  RegistryInv'
  BY <1>0, <1>4, WorthAssumption DEF ChangeWorth
<1>5. CASE AdvanceSlot
  BY <1>0, <1>5 DEF AdvanceSlot
<1>6. CASE UNCHANGED positionVars
  BY <1>0, <1>6 DEF positionVars
<1> QED
  BY <1>1, <1>2, <1>3, <1>4, <1>5, <1>6 DEF PositionNext

\* The total that enters the price is a natural number.
LEMMA PositionsValueIsNat ==
  ASSUME RegistryInv
  PROVE  TotalPositionsValue \in Nat
<1>1. QuotedValues \in [DOMAIN registry -> Nat]
  BY DEF RegistryInv, PositionTypeOK, Quote, QuotedValues
<1> QED
  BY <1>1, SumIsNat DEF RegistryInv, TrackedFinite, TotalPositionsValue

\* A value stamped with the current slot is one its position had in this slot,
\* unless the last quote of the position was given other accounts
\* (validate_position_values_freshness).
THEOREM RegistryFreshness == PositionSpec => []FreshMeansThisSlot
<1>1. PositionSpec => []RegistryInv
  BY RegistryInit, RegistryStep, PTL DEF PositionSpec
<1> QED
  BY <1>1, PTL DEF RegistryInv
=============================================================================
