---------------------------- MODULE CoinWalkProofs ----------------------------
(***************************************************************************)
(* Proofs about CoinWalk, for any finite set of coin ids, any page sizes   *)
(* and any cap.                                                            *)
(*                                                                         *)
(* The first part is about one page: it is an initial segment of the rows  *)
(* that remain, it is all of them when it claims to be complete, and it is *)
(* never empty while rows remain.  The second part carries that along the  *)
(* walk: everything that stayed up to the cursor has been read, nothing    *)
(* beyond the cursor has, and the answer on its way continues from there.  *)
(***************************************************************************)
EXTENDS CoinWalk, FiniteSetTheorems, WellFoundedInduction, TLAPS

Below(rows, x) == {y \in rows : y < x}

-----------------------------------------------------------------------------
(* One page                                                                *)

\* What is below an id grows with the id.
LEMMA BelowGrows ==
  ASSUME NEW rows \in SUBSET Nat, NEW x \in rows, NEW y \in rows, y <= x
  PROVE  Below(rows, y) \subseteq Below(rows, x)
<1> SUFFICES ASSUME NEW z \in rows, z < y PROVE z < x
  BY DEF Below
<1>1. x \in Nat /\ y \in Nat /\ z \in Nat
  OBVIOUS
<1> QED
  BY <1>1

\* A finite nonempty set of ids has a least one: the sets of what is below an
\* id are ordered by inclusion, and a least such set is empty.
LEMMA LeastId ==
  ASSUME NEW rows \in SUBSET Nat, IsFiniteSet(rows), rows # {}
  PROVE  \E x \in rows : Below(rows, x) = {}
<1> DEFINE Segments == {Below(rows, x) : x \in rows}
<1> DEFINE R == StrictSubsetOrdering(rows)
<1>1. Segments \subseteq FiniteSubsetsOf(rows)
  <2>1. \A x \in rows : Below(rows, x) \in SUBSET rows /\ IsFiniteSet(Below(rows, x))
    <3>1. \A x \in rows : Below(rows, x) \in SUBSET rows
      BY DEF Below
    <3> QED
      BY <3>1, FS_Subset
  <2> QED
    BY <2>1 DEF FiniteSubsetsOf
<1>2. Segments # {}
  OBVIOUS
<1>3. IsWellFoundedOn(R, FiniteSubsetsOf(rows))
  BY FS_StrictSubsetOrderingWellFounded
<1>4. PICK least \in Segments : \A s \in Segments : ~ (<<s, least>> \in R)
  <2> HIDE DEF Segments, R
  <2> QED
    BY <1>1, <1>2, <1>3, WFMin
<1>5. PICK x \in rows : least = Below(rows, x)
  OBVIOUS
<1>6. ASSUME NEW z \in Below(rows, x) PROVE FALSE
  <2>1. z \in rows /\ z \in Nat /\ x \in Nat /\ z < x
    BY <1>6 DEF Below
  <2>2. Below(rows, z) \subseteq Below(rows, x) /\ z \notin Below(rows, z)
    <3>1. z <= x /\ ~ (z < z)
      BY <2>1
    <3> QED
      BY <2>1, <3>1, BelowGrows DEF Below
  <2>3. <<Below(rows, z), Below(rows, x)>> \in R
    <3>1. Below(rows, z) \in SUBSET rows /\ Below(rows, x) \in SUBSET rows
      BY DEF Below
    <3>2. Below(rows, z) # Below(rows, x)
      BY <1>6, <2>2
    <3> QED
      BY <2>2, <3>1, <3>2 DEF StrictSubsetOrdering
  <2> QED
    BY <1>4, <1>5, <2>1, <2>3
<1> QED
  BY <1>6

\* A page holds rows, and every row before one it holds (take).
LEMMA PageIsInitialSegment ==
  ASSUME NEW rows \in SUBSET Nat, IsFiniteSet(rows), NEW limit \in Nat,
         NEW x \in Page(rows, limit), NEW y \in rows, y <= x
  PROVE  y \in Page(rows, limit)
<1>1. x \in rows /\ Cardinality(Below(rows, x)) < limit
  BY DEF Page, Below
<1>2. Below(rows, y) \in SUBSET Below(rows, x) /\ Below(rows, x) \in SUBSET rows
  BY <1>1, BelowGrows DEF Below
<1>3. IsFiniteSet(Below(rows, x))
  BY <1>2, FS_Subset
<1>4. Cardinality(Below(rows, y)) <= Cardinality(Below(rows, x)) /\ IsFiniteSet(Below(rows, y))
  BY <1>2, <1>3, FS_Subset
<1>5. Cardinality(Below(rows, y)) < limit
  BY <1>1, <1>3, <1>4, FS_CardinalityType
<1> QED
  BY <1>5 DEF Page, Below

\* A page that claims to be complete holds every row that remains.
LEMMA CompletePageIsWhole ==
  ASSUME NEW rows \in SUBSET Nat, IsFiniteSet(rows), NEW limit \in Nat,
         Complete(rows, limit)
  PROVE  Page(rows, limit) = rows
<1>1. ASSUME NEW x \in rows PROVE Cardinality(Below(rows, x)) < limit
  <2>1. Below(rows, x) \in SUBSET rows /\ x \notin Below(rows, x)
    BY DEF Below
  <2>2. /\ Cardinality(Below(rows, x)) <= Cardinality(rows)
        /\ Cardinality(Below(rows, x)) # Cardinality(rows)
        /\ IsFiniteSet(Below(rows, x))
    BY <1>1, <2>1, FS_Subset
  <2>3. Cardinality(Below(rows, x)) \in Nat /\ Cardinality(rows) \in Nat
    BY <2>2, FS_CardinalityType
  <2> QED
    BY <2>2, <2>3 DEF Complete
<1> QED
  BY <1>1 DEF Page, Below

\* A page of a legal size makes progress: it is empty only if no row remains.
LEMMA PageMakesProgress ==
  ASSUME NEW rows \in SUBSET Nat, IsFiniteSet(rows), NEW limit \in Nat,
         is_legal_page(limit), ~ Complete(rows, limit)
  PROVE  Page(rows, limit) # {}
<1>1. limit >= 1
  BY ConstantsAssumption DEF is_legal_page
<1>2. rows # {}
  BY <1>1, FS_EmptySet DEF Complete
<1>3. PICK x \in rows : Below(rows, x) = {}
  BY <1>2, LeastId
<1>4. Cardinality({y \in rows : y < x}) = 0
  BY <1>3, FS_EmptySet DEF Below
<1> QED
  BY <1>1, <1>4 DEF Page

\* What the node answers with, whatever page size it was asked for: everything
\* that remains up to the cursor, all of it if complete, progress if not.
LEMMA AnsweredPage ==
  ASSUME TypeOK, NEW limit \in Limit, wallet_coins(limit)
  PROVE  \E resp \in Response :
           /\ reply' = {resp}
           /\ resp.complete \in {"complete", "truncated"}
           /\ \A x \in resp.coins : after < x /\ x <= resp.cursor
           /\ \A x \in coins : after < x /\ (resp.complete = "complete" \/ x <= resp.cursor)
                                  => x \in resp.coins
           /\ resp.complete = "truncated" => resp.cursor \in resp.coins
<1> DEFINE rows == Remaining(after)
<1> DEFINE page == Page(rows, limit)
<1>1. limit \in Nat /\ is_legal_page(limit)
  BY ConstantsAssumption DEF wallet_coins
<1>2. rows \in SUBSET Nat /\ rows \subseteq CoinId /\ IsFiniteSet(rows)
  <2>1. rows \in SUBSET CoinId
    BY DEF TypeOK, Remaining
  <2> QED
    BY <2>1, ConstantsAssumption, FS_Subset
<1>3. PICK cursor \in CoinId \cup {NoCursor} :
        /\ IsCursor(page, cursor)
        /\ reply' = {[coins |-> page,
                      complete |-> IF Complete(rows, limit) THEN "complete" ELSE "truncated",
                      cursor |-> cursor]}
  BY DEF wallet_coins
<1>4. page \subseteq rows
  BY DEF Page
<1>5. Complete(rows, limit) => page = rows
  <2> HIDE DEF rows
  <2> QED
    BY <1>1, <1>2, CompletePageIsWhole
<1>6. ~ Complete(rows, limit) => page # {}
  <2> HIDE DEF rows
  <2> QED
    BY <1>1, <1>2, PageMakesProgress
<1>7. \A x \in page : x <= cursor
  BY <1>3 DEF IsCursor
<1>8. \A y \in rows : page # {} /\ y <= cursor => y \in page
  <2>1. page # {} => cursor \in page
    BY <1>3 DEF IsCursor
  <2> HIDE DEF rows
  <2> QED
    BY <1>1, <1>2, <2>1, PageIsInitialSegment
<1>9. \A x \in rows : after < x
  BY <1>2 DEF Remaining, TypeOK
<1>10. \A x \in coins : after < x => x \in rows
  BY DEF Remaining, TypeOK
<1> DEFINE resp == [coins |-> page,
                    complete |-> IF Complete(rows, limit) THEN "complete" ELSE "truncated",
                    cursor |-> cursor]
<1>11. resp \in Response /\ resp.complete \in {"complete", "truncated"}
  BY <1>2, <1>4 DEF Response, Completeness
<1>12. resp.complete = "truncated" => resp.cursor \in resp.coins
  BY <1>3, <1>6 DEF IsCursor
<1>13. \A x \in resp.coins : after < x /\ x <= resp.cursor
  BY <1>4, <1>7, <1>9
<1>14. \A x \in coins : after < x /\ (resp.complete = "complete" \/ x <= resp.cursor)
                          => x \in resp.coins
  <2> SUFFICES ASSUME NEW x \in rows, resp.complete = "complete" \/ x <= resp.cursor
               PROVE  x \in page
    BY <1>10
  <2>1. CASE Complete(rows, limit)
    BY <1>5, <2>1
  <2>2. CASE ~ Complete(rows, limit)
    BY <1>6, <1>8, <2>2
  <2> QED
    BY <2>1, <2>2
<1> QED
  <2> HIDE DEF rows, page
  <2> QED
    BY <1>3, <1>11, <1>12, <1>13, <1>14

-----------------------------------------------------------------------------
(* The walk                                                                *)

\* Everything that stayed up to the cursor was read, and nothing beyond it.
ReadUpToCursor ==
  walk = "walking" =>
    /\ \A x \in stayed : x <= after => x \in seen
    /\ \A x \in seen : x <= after

\* The answer on its way goes on from the cursor.
Continues(resp) ==
  /\ resp.complete = "undisclosed" => stayed \subseteq resp.coins
  /\ resp.complete # "undisclosed" =>
       /\ \A x \in resp.coins : after < x /\ x <= resp.cursor
       /\ \A x \in stayed : after < x /\ (resp.complete = "complete" \/ x <= resp.cursor)
                               => x \in resp.coins

Idle == walk = "idle" => seen = {} /\ after = NoCursor

\* Only a walk under way has an answer on its way.
OnlyWalksAreAnswered == walk # "walking" => reply = {}

IInv ==
  /\ TypeOK
  /\ ReadUpToCursor
  /\ \A resp \in reply : Continues(resp)
  /\ Idle
  /\ OnlyWalksAreAnswered
  /\ NothingMissed

LEMMA InitEstablishes == Init => IInv
BY DEF Init, IInv, TypeOK, ReadUpToCursor, Continues, Idle, OnlyWalksAreAnswered,
       NothingMissed

LEMMA FirstPageKeeps == ASSUME IInv, first_page PROVE IInv'
<1>1. /\ walk = "idle" /\ walk' = "walking" /\ stayed' = coins
      /\ UNCHANGED <<coins, paged, reply, after, seen>>
  BY DEF first_page
<1>2. TypeOK'
  BY <1>1 DEF IInv, TypeOK
<1>3. ReadUpToCursor'
  <2>1. \A x \in coins : ~ (x <= NoCursor)
    BY ConstantsAssumption DEF IInv, TypeOK, NoCursor
  <2> QED
    BY <1>1, <2>1 DEF IInv, Idle, ReadUpToCursor
<1>4. reply' = {}
  BY <1>1 DEF IInv, OnlyWalksAreAnswered
<1> QED
  BY <1>1, <1>2, <1>3, <1>4 DEF IInv, Idle, OnlyWalksAreAnswered, NothingMissed

LEMMA AnswerKeeps == ASSUME IInv, Answer PROVE IInv'
<1>1. walk = "walking" /\ UNCHANGED <<coins, paged, walk, after, seen, stayed>>
  BY DEF Answer
<1>2. stayed \subseteq coins
  BY DEF IInv, TypeOK
<1>3. PICK resp \in Response :
        /\ reply' = {resp}
        /\ resp.complete = "truncated" => resp.cursor \in resp.coins
        /\ Continues(resp)
  <2>1. CASE \E limit \in Limit : wallet_coins(limit)
    BY <1>2, <2>1, AnsweredPage DEF IInv, Continues
  <2>2. CASE wallet_coins_unpaged
    <3> DEFINE resp == [coins |-> coins, complete |-> "undisclosed", cursor |-> NoCursor]
    <3>1. resp \in Response /\ reply' = {resp}
      BY <2>2 DEF wallet_coins_unpaged, Response, Completeness, IInv, TypeOK
    <3>2. Continues(resp)
      BY <1>2 DEF Continues
    <3> QED
      BY <3>1, <3>2
  <2> QED
    BY <2>1, <2>2 DEF Answer
<1>4. TypeOK'
  BY <1>1, <1>3 DEF IInv, TypeOK
<1>5. \A r \in reply' : Continues(r)'
  BY <1>1, <1>3 DEF Continues
<1> QED
  BY <1>1, <1>4, <1>5 DEF IInv, ReadUpToCursor, Idle, OnlyWalksAreAnswered, NothingMissed

LEMMA TakeKeeps == ASSUME IInv, NEW resp \in reply, Take(resp) PROVE IInv'
<1>1. /\ seen' = seen \cup resp.coins /\ after' = resp.cursor /\ reply' = {}
      /\ walk' = IF Ends(resp) THEN "done" ELSE "walking"
      /\ UNCHANGED <<coins, paged, stayed>>
  BY DEF Take
<1>2. walk = "walking" /\ Continues(resp) /\ resp \in Response
  BY DEF IInv, OnlyWalksAreAnswered, TypeOK
<1>3. resp.coins \subseteq CoinId /\ resp.cursor \in CoinId \cup {NoCursor}
      /\ resp.complete \in Completeness
  BY <1>2 DEF Response
<1>4. TypeOK'
  BY <1>1, <1>3 DEF IInv, TypeOK
<1>5. stayed \subseteq Nat /\ seen \subseteq Nat /\ resp.coins \subseteq Nat
      /\ after \in Nat /\ resp.cursor \in Nat
  <2>1. stayed \subseteq CoinId /\ seen \subseteq CoinId /\ after \in CoinId \cup {NoCursor}
    BY DEF IInv, TypeOK
  <2>2. CoinId \subseteq Nat /\ NoCursor \in Nat
    BY ConstantsAssumption DEF NoCursor
  <2> QED
    BY <1>3, <2>1, <2>2
<1>6. ReadUpToCursor'
  <2> SUFFICES ASSUME resp.complete = "truncated"
               PROVE  /\ \A x \in stayed : x <= resp.cursor => x \in seen \cup resp.coins
                      /\ \A x \in seen \cup resp.coins : x <= resp.cursor
    BY <1>1 DEF ReadUpToCursor, Ends
  <2>1. resp.cursor \in resp.coins
    BY DEF IInv, TypeOK
  <2>2. after < resp.cursor
    BY <1>2, <2>1 DEF Continues
  <2>3. ASSUME NEW x \in stayed, x <= resp.cursor PROVE x \in seen \cup resp.coins
    BY <1>2, <1>5, <2>3 DEF IInv, ReadUpToCursor, Continues
  <2>4. ASSUME NEW x \in seen \cup resp.coins PROVE x <= resp.cursor
    BY <1>2, <1>5, <2>2 DEF IInv, ReadUpToCursor, Continues
  <2> QED
    BY <2>3, <2>4
<1>7. NothingMissed'
  <2> SUFFICES ASSUME resp.complete # "truncated" PROVE stayed \subseteq seen \cup resp.coins
    BY <1>1 DEF NothingMissed, Ends
  <2>1. CASE resp.complete = "undisclosed"
    BY <1>2, <2>1 DEF Continues
  <2>2. CASE resp.complete = "complete"
    BY <1>2, <1>5, <2>2 DEF IInv, ReadUpToCursor, Continues
  <2> QED
    BY <1>3, <2>1, <2>2 DEF Completeness
<1> QED
  BY <1>1, <1>4, <1>6, <1>7 DEF IInv, Idle, OnlyWalksAreAnswered

\* Coins come and go, a message is lost, the node is replaced: what stayed only
\* shrinks, and nothing the client knows changes.
LEMMA SurroundingsKeep ==
  ASSUME IInv, stayed' \subseteq stayed, stayed' \subseteq coins', coins' \subseteq CoinId,
         reply' \subseteq reply, paged' \in BOOLEAN, UNCHANGED <<walk, after, seen>>
  PROVE  IInv'
<1>1. TypeOK'
  BY DEF IInv, TypeOK
<1>2. \A resp \in reply' : Continues(resp)'
  BY DEF IInv, Continues
<1> QED
  BY <1>1, <1>2 DEF IInv, ReadUpToCursor, Idle, OnlyWalksAreAnswered, NothingMissed

LEMMA StepKeeps == IInv /\ [Next]_vars => IInv'
<1> SUFFICES ASSUME IInv, [Next]_vars PROVE IInv'
  OBVIOUS
<1> USE DEF IInv, TypeOK
<1>1. CASE first_page
  BY <1>1, FirstPageKeeps
<1>2. CASE Answer
  BY <1>2, AnswerKeeps
<1>3. CASE TakeReply
  BY <1>3, TakeKeeps DEF TakeReply
<1>4. CASE Lose
  BY <1>4, SurroundingsKeep DEF Lose
<1>5. CASE CoinSpent
  BY <1>5, SurroundingsKeep DEF CoinSpent
<1>6. CASE CoinArrives
  BY <1>6, SurroundingsKeep DEF CoinArrives
<1>7. CASE Upgrade
  BY <1>7, SurroundingsKeep DEF Upgrade
<1>8. CASE UNCHANGED vars
  BY <1>8, SurroundingsKeep DEF vars
<1> QED
  BY <1>1, <1>2, <1>3, <1>4, <1>5, <1>6, <1>7, <1>8 DEF Next

LEMMA Invariant == Spec => []IInv
BY InitEstablishes, StepKeeps, PTL DEF Spec

-----------------------------------------------------------------------------
(* The theorems                                                            *)

\* Answers and cursors stay well typed: a truncated page always carries the
\* position to resume from (a legal page is empty only when no row remains).
THEOREM TypeCorrect == Spec => []TypeOK
<1>1. IInv => TypeOK
  BY DEF IInv
<1> QED
  BY <1>1, Invariant, PTL

\* A finished walk has seen every coin that was there throughout (wallet_coins,
\* WalletCoinsResult::complete).
THEOREM WalkIsComplete == Spec => []NothingMissed
<1>1. IInv => NothingMissed
  BY DEF IInv
<1> QED
  BY <1>1, Invariant, PTL

\* No page hands out a coin the walk has read (wallet_coins' skip_while).
THEOREM WalkCountsOnce == Spec => []NoCoinTwice
<1>1. IInv => NoCoinTwice
  <2> SUFFICES ASSUME IInv, walk = "walking", NEW resp \in reply,
                      resp.complete # "undisclosed", NEW x \in resp.coins, x \in seen
               PROVE  FALSE
    BY DEF NoCoinTwice
  <2>1. after < x /\ x <= after
    BY DEF IInv, Continues, ReadUpToCursor
  <2>2. after \in Nat /\ x \in Nat
    BY ConstantsAssumption DEF IInv, TypeOK, NoCursor
  <2> QED
    BY <2>1, <2>2
<1> QED
  BY <1>1, Invariant, PTL

\* A walk that is resumed is resumed further on (is_legal_page refuses zero).
THEOREM WalkAdvances == Spec => CursorAdvances
<1> DEFINE Advances == walk' = "walking" /\ walk = "walking" /\ after' # after => after' > after
<1>1. IInv /\ [Next]_vars => [Advances]_vars
  <2> SUFFICES ASSUME IInv, Next, walk' = "walking", after' # after PROVE after' > after
    BY DEF vars
  <2>1. PICK resp \in reply : Take(resp)
    BY DEF Next, first_page, Answer, TakeReply, Lose, CoinSpent, CoinArrives, Upgrade
  <2>2. after' = resp.cursor /\ resp.complete = "truncated"
    BY <2>1 DEF Take, Ends
  <2>3. resp.cursor \in resp.coins /\ Continues(resp)
    BY <2>2 DEF IInv, TypeOK
  <2>4. after < resp.cursor
    BY <2>2, <2>3 DEF Continues
  <2>5. after \in Nat /\ resp.cursor \in Nat
    BY <2>2, ConstantsAssumption DEF IInv, TypeOK, Response, NoCursor
  <2> QED
    BY <2>2, <2>4, <2>5
<1>2. Spec => [][Advances]_vars
  <2> HIDE DEF Advances
  <2> QED
    BY <1>1, Invariant, PTL DEF Spec
<1> QED
  BY <1>2 DEF CursorAdvances
=============================================================================
