-------------------------- MODULE WalletReadsProofs --------------------------
(***************************************************************************)
(* Proofs about MCWalletReads: a behaviour of the two reads side by side   *)
(* is one of CoinWalk and one of ArrivalsWalk, for any constants, so what  *)
(* is proved of each alone holds of both together.                         *)
(***************************************************************************)
EXTENDS MCWalletReads, CoinWalkProofs

Walk == INSTANCE ArrivalsWalkProofs

-----------------------------------------------------------------------------
(* Each read alone                                                         *)

LEMMA ReadsCoins == ReadsSpec => Spec
<1>1. ReadsInit => Init
  BY DEF ReadsInit, RestingCoins, Init
<1>2. [ReadsNext]_reads_vars => [Next]_vars
  BY DEF ReadsNext, ReadCoins, ReadArrivals, reads_vars
<1> QED
  BY <1>1, <1>2, PTL DEF ReadsSpec, Spec

LEMMA ReadsTheLedger == ReadsSpec => Walk!Spec
<1>1. ReadsInit => Walk!Init
  BY DEF ReadsInit, RestingArrivals, Arrivals!Init, Walk!Init
<1>2. Arrivals!Next => Walk!Next
  <2>1. ASSUME NEW rows, NEW size
        PROVE  Arrivals!Page(rows, size) = Walk!Page(rows, size)
    BY DEF Arrivals!Page, Walk!Page, Arrivals!Cardinality, Walk!Cardinality
  <2>2. Arrivals!wallet_arrivals => Walk!wallet_arrivals
    BY <2>1 DEF Arrivals!wallet_arrivals, Walk!wallet_arrivals, Arrivals!After, Walk!After
  <2>3. Arrivals!ReadLatest => Walk!ReadLatest
    BY DEF Arrivals!ReadLatest, Walk!ReadLatest, Arrivals!Cursor, Walk!Cursor
  <2>4. Arrivals!Arrive \/ Arrivals!Lose => Walk!Arrive \/ Walk!Lose
    BY DEF Arrivals!Arrive, Walk!Arrive, Arrivals!Lose, Walk!Lose
  <2>5. Arrivals!Take \/ Arrivals!BeginNow => Walk!Take \/ Walk!BeginNow
    BY DEF Arrivals!Take, Walk!Take, Arrivals!BeginNow, Walk!BeginNow
  <2> QED
    BY <2>2, <2>3, <2>4, <2>5 DEF Arrivals!Next, Walk!Next
<1>3. [ReadsNext]_reads_vars => [Walk!Next]_Walk!vars
  BY <1>2 DEF ReadsNext, ReadCoins, ReadArrivals, reads_vars, arrivals_vars, Walk!vars
<1> QED
  BY <1>1, <1>3, PTL DEF ReadsSpec, Walk!Spec

-----------------------------------------------------------------------------
(* The theorems                                                            *)

\* Beside a walk over the coins, too, no arrival that a client's position has
\* gone past was kept from it (WalletArrivalsResult).
THEOREM NothingSteppedOver == ReadsSpec => []NoneSteppedOver
<1>1. Walk!ConstantsAssumption
  BY ArrivalsAssumption DEF Arrivals!ConstantsAssumption, Walk!ConstantsAssumption
<1>2. Walk!Spec => []Walk!NoneSteppedOver
  BY <1>1, Walk!NothingSteppedOver
<1>3. Walk!NoneSteppedOver => NoneSteppedOver
  BY DEF NoneSteppedOver, Walk!NoneSteppedOver, Arrivals!NoneSteppedOver
<1> QED
  BY <1>2, <1>3, ReadsTheLedger, PTL

\* Nor does any page announce an arrival twice (wallet_arrivals).
THEOREM AnnouncedOnce == ReadsSpec => []ToldOnce
<1>1. Walk!ConstantsAssumption
  BY ArrivalsAssumption DEF Arrivals!ConstantsAssumption, Walk!ConstantsAssumption
<1>2. Walk!Spec => []Walk!ToldOnce
  BY <1>1, Walk!AnnouncedOnce
<1>3. Walk!ToldOnce => ToldOnce
  BY DEF ToldOnce, Walk!ToldOnce, Arrivals!ToldOnce
<1> QED
  BY <1>2, <1>3, ReadsTheLedger, PTL

\* The walk over the coins stays complete while the ledger is read beside it
\* (WalletCoinsResult).
THEOREM ReadsAreComplete == ReadsSpec => []NothingMissed
BY ReadsCoins, WalkIsComplete, PTL

\* No page of that walk repeats a coin of an earlier one (wallet_coins).
THEOREM ReadsCountOnce == ReadsSpec => []NoCoinTwice
BY ReadsCoins, WalkCountsOnce, PTL

\* No page of it sends the walk back or keeps it where it was
\* (WalletCoinsResult.cursor).
THEOREM ReadsAdvance == ReadsSpec => CursorAdvances
BY ReadsCoins, WalkAdvances

\* What the walk keeps stays well typed beside the reads of the ledger
\* (WalletCoinsResult).
THEOREM ReadsAreTyped == ReadsSpec => []TypeOK
BY ReadsCoins, TypeCorrect, PTL
=============================================================================
