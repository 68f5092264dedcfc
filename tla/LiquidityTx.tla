---------------------------- MODULE LiquidityTx ----------------------------
(***************************************************************************)
(* The transactions that move liquidity: which bin arrays they create and  *)
(* name, and whether they pass the pool's bitmap extension.  A transaction *)
(* is built for a range of bins and the arrays that exist when it is.      *)
(***************************************************************************)
EXTENDS Distribution, PositionValue

\* createBinArraysIfNeeded, getOrCreateBinArraysInstructions.
Missing(indices, existing) == indices \ existing

\* Two different arrays for the ends of a range.
EndArrays(lower, upper) ==
  LET first == BinIdToBinArrayIndex(lower)
  IN {first, Max({first + 1, BinIdToBinArrayIndex(upper)})}

Coverage(lower, upper) == BinIdToBinArrayIndex(lower) .. BinIdToBinArrayIndex(upper)

AnyOverflow(indices) == \E i \in indices : IsOverflowDefaultBinArrayBitmap(i)

\* Mutation: only the lowest bin decides on the extension.
MutUseExtension(lower, upper) == AnyOverflow({BinIdToBinArrayIndex(lower)})

UseExtension(lower, upper) ==
  AnyOverflow({BinIdToBinArrayIndex(lower), BinIdToBinArrayIndex(upper)})

Deposit(named, existing, extension, bins) ==
  [named |-> named, creates |-> Missing(named, existing), extension |-> extension, bins |-> bins]

WeightsOf(c) ==
  ToWeightDistribution(c.amountX, c.amountY,
                       CalculateSpotDistribution(c.activeId, c.lower, c.upper))

OneSided(c) == c.amountX = 0 \/ c.amountY = 0

-----------------------------------------------------------------------------
\* The Maiker client: from the bins that have a weight.
CreateAddLiquidityInstruction(c) ==
  LET weights == WeightsOf(c)
      named == EndArrays(Min(DOMAIN weights), Max(DOMAIN weights))
  IN IF weights = <<>> THEN Throws
     ELSE Deposit(named, c.existing, AnyOverflow(named), DOMAIN weights)

\* A new position of the range, in the Maiker client and in the DLMM library;
\* the latter passes no extension with a deposit of one token.
InitializePositionAndAddLiquidity(c, extension) ==
  LET weights == WeightsOf(c)
  IN IF c.upper >= c.lower + MAX_BIN_PER_POSITION \/ weights = <<>> THEN Throws
     ELSE Deposit(EndArrays(c.lower, c.upper), c.existing, extension, DOMAIN weights)

InitializePositionByMaiker(c) ==
  InitializePositionAndAddLiquidity(c, UseExtension(c.lower, c.upper))

InitializePositionByLibrary(c) ==
  InitializePositionAndAddLiquidity(c, UseExtension(c.lower, c.upper) /\ ~OneSided(c))

\* To a position that exists: its bounds decide on the arrays.
AddLiquidityByWeight(c) ==
  LET p == c.position
      weights == WeightsOf(c)
  IN IF c.lower < p.lower \/ c.upper > p.upper \/ weights = <<>> THEN Throws
     ELSE Deposit(EndArrays(p.lower, p.upper), c.existing,
                  UseExtension(c.lower, c.upper) /\ ~OneSided(c), DOMAIN weights)

\* The program spreads the amounts, over any bin of the range.
AddLiquidityByStrategy(c) ==
  Deposit(Coverage(c.lower, c.upper), c.existing, UseExtension(c.lower, c.upper),
          c.lower .. c.upper)

\* A new position of the range first, and then the same.
InitializePositionByStrategy(c) == AddLiquidityByStrategy(c)

-----------------------------------------------------------------------------
\* Mutation: the range is taken as it was asked for.
MutRemoveLiquidity(position, from, to) ==
  LET liquid == {b \in BinsOf(position) : position.shares[b] # 0}
  IN IF liquid = {} THEN Throws ELSE [from |-> from, to |-> to, named |-> Coverage(from, to)]

\* removeLiquidity: the range is cut to the bins with liquidity, "to avoid to
\* attempt to load uninitialized bin array on the program".
RemoveLiquidity(position, from, to) ==
  LET liquid == {b \in BinsOf(position) : position.shares[b] # 0}
      first == Max({from, Min(liquid)})
      last == Min({to, Max(liquid)})
  IN IF liquid = {} THEN Throws
     ELSE [from |-> first, to |-> last, named |-> Coverage(first, last)]
=============================================================================
