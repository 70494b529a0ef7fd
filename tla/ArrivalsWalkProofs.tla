------------------------- MODULE ArrivalsWalkProofs -------------------------
(***************************************************************************)
(* Proofs about ArrivalsWalk, for any page sizes and any length of the     *)
(* ledger.                                                                 *)
(*                                                                         *)
(* A page, and an answer made of it, holds everything from the client's    *)
(* position up to its last row, however the ledger has grown since it was  *)
(* read.  Therefore a client that resumes from that row leaves nothing     *)
(* behind, and nothing it was told of lies ahead of it.                    *)
(***************************************************************************)
EXTENDS ArrivalsWalk, FiniteSetTheorems, WellFoundedInduction, TLAPS

TypeOK ==
  /\ ledger \in Nat /\ position \in Nat /\ begin \in Nat
  /\ drafts \in SUBSET SUBSET Nat
  /\ answers \in SUBSET [arrivals : SUBSET Nat, cursor : Nat, latest : Nat]
  /\ told \in SUBSET Nat

\* Rows that follow the client's position without a gap.
Follows(rows) ==
  \A s \in rows :
    /\ position < s /\ s <= ledger
    /\ \A t \in Nat : position < t /\ t <= s => t \in rows

\* What a client may resume from once it has the rows.
Resumes(rows, cursor) ==
  /\ position <= cursor
  /\ \A s \in rows : s <= cursor
  /\ \A t \in Nat : position < t /\ t <= cursor => t \in rows

IInv ==
  /\ TypeOK
  /\ drafts = {} \/ answers = {}
  /\ \A rows \in drafts : Follows(rows)
  /\ \A resp \in answers : Follows(resp.arrivals) /\ Resumes(resp.arrivals, resp.cursor)
  /\ \A s \in told : s <= position
  /\ fresh => told = {}
  /\ NoneSteppedOver

-----------------------------------------------------------------------------
(* One page                                                                *)

\* A set of positions within the ledger has a last one: counted from the end of
\* the ledger, it is the smallest.
LEMMA LastRow ==
  ASSUME NEW n \in Nat, NEW rows \in SUBSET Nat, rows # {}, \A s \in rows : s <= n
  PROVE  \E s \in rows : \A t \in rows : t <= s
<1> DEFINE Behind == {n - s : s \in rows}
<1>1. Behind \in SUBSET Nat /\ Behind # {}
  <2>1. \A s \in rows : s \in Nat /\ n - s \in Nat
    OBVIOUS
  <2>2. Behind \subseteq Nat
    BY <2>1
  <2>3. \E s \in rows : n - s \in Behind
    OBVIOUS
  <2> QED
    BY <2>2, <2>3
<1> DEFINE R == OpToRel(<, Nat)
<1>2. PICK least \in Behind : \A k \in Behind : least <= k
  <2>1. \E least \in Behind : \A k \in Behind : ~ (<<k, least>> \in R)
    <3> HIDE DEF Behind, R
    <3>1. IsWellFoundedOn(R, Nat)
      BY NatLessThanWellFounded DEF R
    <3> QED
      BY <1>1, <3>1, WFMin
  <2>2. \A k \in Nat, l \in Nat : k < l => <<k, l>> \in R
    BY DEF OpToRel
  <2>3. \A k \in Nat, l \in Nat : ~ (k < l) => l <= k
    OBVIOUS
  <2> HIDE DEF Behind, R
  <2> QED
    BY <1>1, <2>1, <2>2, <2>3
<1>3. PICK s \in rows : least = n - s
  OBVIOUS
<1>4. ASSUME NEW t \in rows PROVE t <= s
  <2>1. n - t \in Behind
    OBVIOUS
  <2>2. n - s <= n - t
    BY <1>2, <1>3, <2>1
  <2>3. s \in Nat /\ t \in Nat
    OBVIOUS
  <2> QED
    BY <2>2, <2>3
<1> QED
  BY <1>4

\* The page read after the position follows it without a gap.
LEMMA PageFollows ==
  ASSUME ledger \in Nat, position \in Nat, NEW size \in Nat
  PROVE  Page(After(position), size) \in SUBSET Nat /\ Follows(Page(After(position), size))
<1> DEFINE rows == After(position)
<1> DEFINE Earlier(s) == {r \in rows : r < s}
<1>1. rows \in SUBSET Nat /\ \A s \in rows : position < s /\ s <= ledger
  BY DEF After
<1>2. IsFiniteSet(rows)
  <2>1. IsFiniteSet(1..ledger) /\ rows \in SUBSET (1..ledger)
    BY FS_Interval DEF After
  <2> QED
    BY <2>1, FS_Subset
<1>3. ASSUME NEW s \in Page(rows, size), NEW t \in Nat, position < t, t <= s
      PROVE  t \in Page(rows, size)
  <2>1. s \in rows /\ Cardinality(Earlier(s)) < size
    BY DEF Page
  <2>2. t \in rows
    BY <1>1, <1>3, <2>1 DEF After
  <2>3. Earlier(t) \in SUBSET Earlier(s) /\ IsFiniteSet(Earlier(s))
    <3>1. Earlier(s) \in SUBSET rows
      OBVIOUS
    <3>2. \A r \in rows : r \in Nat
      BY <1>1
    <3>3. s \in Nat
      BY <1>1, <2>1
    <3>4. Earlier(t) \in SUBSET Earlier(s)
      BY <1>3, <3>2, <3>3
    <3> QED
      BY <1>2, <3>1, <3>4, FS_Subset
  <2>4. /\ Cardinality(Earlier(t)) <= Cardinality(Earlier(s))
        /\ Cardinality(Earlier(t)) \in Nat /\ Cardinality(Earlier(s)) \in Nat
    <3> HIDE DEF Earlier
    <3> QED
      BY <2>3, FS_Subset, FS_CardinalityType
  <2>5. Cardinality(Earlier(t)) < size
    BY <2>1, <2>4
  <2> QED
    BY <2>2, <2>5 DEF Page
<1>4. Page(rows, size) \subseteq rows
  BY DEF Page
<1>5. \A s \in Page(rows, size) : s \in Nat /\ position < s /\ s <= ledger
  BY <1>1, <1>4
<1> QED
  BY <1>3, <1>5 DEF Follows

\* The cursor answered with a page is one to resume from.
LEMMA CursorResumes ==
  ASSUME TypeOK, NEW rows \in SUBSET Nat, Follows(rows)
  PROVE  Cursor(rows) \in Nat /\ Resumes(rows, Cursor(rows))
<1>1. CASE rows = {}
  BY <1>1 DEF Cursor, Resumes, TypeOK
<1>2. CASE rows # {}
  <2>1. \E s \in rows : \A t \in rows : t <= s
    BY <1>2, LastRow DEF Follows, TypeOK
  <2>2. PICK s \in rows : s = Cursor(rows) /\ \A t \in rows : t <= s
    BY <1>2, <2>1 DEF Cursor
  <2>3. s \in Nat /\ position \in Nat /\ position < s
    BY DEF TypeOK, Follows
  <2> QED
    BY <2>2, <2>3 DEF Resumes, Follows
<1> QED
  BY <1>1, <1>2

-----------------------------------------------------------------------------
(* The steps                                                               *)

LEMMA ArriveKeeps == IInv /\ Arrive => IInv'
<1> SUFFICES ASSUME IInv, Arrive PROVE IInv'
  OBVIOUS
<1>1. /\ ledger' = ledger + 1 /\ ledger \in Nat
      /\ UNCHANGED <<drafts, answers, position, fresh, begin, told>>
  BY DEF Arrive, IInv, TypeOK
<1>2. ASSUME NEW rows \in SUBSET Nat, Follows(rows) PROVE Follows(rows)'
  BY <1>1, <1>2 DEF Follows
<1>3. \A rows \in drafts' : Follows(rows)'
  BY <1>1, <1>2 DEF IInv, TypeOK
<1>4. \A resp \in answers' : Follows(resp.arrivals)' /\ Resumes(resp.arrivals, resp.cursor)'
  <2>1. \A resp \in answers : resp.arrivals \in SUBSET Nat
    BY DEF IInv, TypeOK
  <2> QED
    BY <1>1, <1>2, <2>1 DEF IInv, Resumes
<1> QED
  BY <1>1, <1>3, <1>4 DEF IInv, TypeOK, NoneSteppedOver

LEMMA ReadKeeps == ConstantsAssumption /\ IInv /\ wallet_arrivals => IInv'
<1> SUFFICES ASSUME ConstantsAssumption, IInv, wallet_arrivals PROVE IInv'
  OBVIOUS
<1>1. PICK size \in PageSize : drafts' = {Page(After(position), size)}
  BY DEF wallet_arrivals
<1>2. answers = {} /\ UNCHANGED <<ledger, answers, position, fresh, begin, told>>
  BY DEF wallet_arrivals
<1>3. PICK rows \in SUBSET Nat : drafts' = {rows} /\ Follows(rows)
  <2>1. size \in Nat
    BY DEF ConstantsAssumption
  <2> QED
    BY <1>1, <2>1, PageFollows DEF IInv, TypeOK
<1>4. Follows(rows)'
  BY <1>2, <1>3 DEF Follows
<1> QED
  BY <1>2, <1>3, <1>4 DEF IInv, TypeOK, NoneSteppedOver

LEMMA LatestKeeps == IInv /\ ReadLatest => IInv'
<1> SUFFICES ASSUME IInv, ReadLatest PROVE IInv'
  OBVIOUS
<1>1. PICK rows \in drafts :
        answers' = {[arrivals |-> rows, cursor |-> Cursor(rows), latest |-> ledger]}
  BY DEF ReadLatest
<1>2. drafts' = {} /\ UNCHANGED <<ledger, position, fresh, begin, told>>
  BY DEF ReadLatest
<1>3. rows \in SUBSET Nat /\ Follows(rows)
  BY DEF IInv, TypeOK
<1>4. PICK cursor \in Nat :
        /\ answers' = {[arrivals |-> rows, cursor |-> cursor, latest |-> ledger]}
        /\ Resumes(rows, cursor)
  BY <1>1, <1>3, CursorResumes DEF IInv
<1>5. \A resp \in answers' : resp.arrivals = rows /\ resp.cursor = cursor
  BY <1>4
<1>6. TypeOK'
  BY <1>2, <1>3, <1>4 DEF IInv, TypeOK
<1>7. Follows(rows)' /\ Resumes(rows, cursor)'
  BY <1>2, <1>3, <1>4 DEF Follows, Resumes
<1> QED
  BY <1>2, <1>5, <1>6, <1>7 DEF IInv, NoneSteppedOver

LEMMA LoseKeeps == IInv /\ Lose => IInv'
BY DEF IInv, TypeOK, Lose, NoneSteppedOver

LEMMA TakeKeeps == IInv /\ Take => IInv'
<1> SUFFICES ASSUME IInv, Take PROVE IInv'
  OBVIOUS
<1>1. PICK resp \in answers :
        /\ told' = told \cup resp.arrivals
        /\ position' = resp.cursor
        /\ fresh' = FALSE
        /\ answers' = {}
        /\ UNCHANGED <<ledger, drafts, begin>>
  BY DEF Take
<1>2. /\ resp.arrivals \in SUBSET Nat /\ resp.cursor \in Nat
      /\ position \in Nat /\ begin \in Nat /\ told \in SUBSET Nat
      /\ Resumes(resp.arrivals, resp.cursor)
      /\ drafts = {}
  BY DEF IInv, TypeOK
<1>3. TypeOK'
  BY <1>1, <1>2 DEF IInv, TypeOK
<1>4. \A s \in told' : s <= position'
  <2>1. position <= resp.cursor /\ \A s \in resp.arrivals : s <= resp.cursor
    BY <1>2 DEF Resumes
  <2>2. \A s \in told : s <= resp.cursor
    BY <1>2, <2>1 DEF IInv
  <2> QED
    BY <1>1, <2>1, <2>2
<1>5. NoneSteppedOver'
  <2> SUFFICES ASSUME NEW s \in 1..resp.cursor, s > begin PROVE s \in told \cup resp.arrivals
    BY <1>1 DEF NoneSteppedOver
  <2>1. s \in Nat
    BY <1>2
  <2>2. CASE s <= position
    BY <1>2, <2>1, <2>2 DEF IInv, NoneSteppedOver
  <2>3. CASE position < s
    BY <1>2, <2>1, <2>3 DEF Resumes
  <2> QED
    BY <1>2, <2>1, <2>2, <2>3
<1> QED
  BY <1>1, <1>2, <1>3, <1>4, <1>5 DEF IInv

LEMMA BeginKeeps == IInv /\ BeginNow => IInv'
<1> SUFFICES ASSUME IInv, BeginNow PROVE IInv'
  OBVIOUS
<1>1. PICK resp \in answers :
        /\ position' = resp.latest /\ begin' = resp.latest
        /\ fresh' = FALSE
        /\ answers' = {}
        /\ UNCHANGED <<ledger, drafts, told>>
  BY DEF BeginNow
<1>2. told = {} /\ resp.latest \in Nat /\ drafts = {}
  BY DEF BeginNow, IInv, TypeOK
<1>3. TypeOK'
  BY <1>1, <1>2 DEF IInv, TypeOK
<1>4. NoneSteppedOver'
  BY <1>1, <1>2 DEF NoneSteppedOver
<1> QED
  BY <1>1, <1>2, <1>3, <1>4 DEF IInv

LEMMA Invariant == ASSUME ConstantsAssumption PROVE Spec => []IInv
<1>1. Init => IInv
  BY DEF ConstantsAssumption, Init, IInv, TypeOK, NoneSteppedOver
<1>2. IInv /\ [Next]_vars => IInv'
  <2> SUFFICES ASSUME IInv, [Next]_vars PROVE IInv'
    OBVIOUS
  <2>1. CASE UNCHANGED vars
    BY <2>1 DEF vars, IInv, TypeOK, Follows, Resumes, NoneSteppedOver
  <2> QED
    BY <2>1, ArriveKeeps, ReadKeeps, LatestKeeps, LoseKeeps, TakeKeeps, BeginKeeps DEF Next
<1> QED
  BY <1>1, <1>2, PTL DEF Spec

-----------------------------------------------------------------------------
(* The theorems                                                            *)

\* No arrival the client's position has gone past was kept from it, whatever
\* arrived between the page and the head of the ledger (WalletArrivalsResult).
THEOREM NothingSteppedOver == ASSUME ConstantsAssumption PROVE Spec => []NoneSteppedOver
<1>1. IInv => NoneSteppedOver
  BY DEF IInv
<1> QED
  BY <1>1, Invariant, PTL

\* No page announces an arrival twice, however often answers were lost and asked
\* for again (wallet_arrivals).
THEOREM AnnouncedOnce == ASSUME ConstantsAssumption PROVE Spec => []ToldOnce
<1>1. IInv => ToldOnce
  <2> SUFFICES ASSUME IInv, NEW resp \in answers, NEW s \in resp.arrivals, s \in told
               PROVE  FALSE
    BY DEF ToldOnce
  <2>1. position < s /\ s <= position
    BY DEF IInv, Follows
  <2>2. s \in Nat /\ position \in Nat
    BY DEF IInv, TypeOK
  <2> QED
    BY <2>1, <2>2
<1> QED
  BY <1>1, Invariant, PTL
=============================================================================
