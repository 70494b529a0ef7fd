--------------------------- MODULE SpendWalkProofs ---------------------------
(***************************************************************************)
(* Proofs about SpendWalk, for any finite set of spends, any instants,     *)
(* edges and page sizes.                                                   *)
(*                                                                         *)
(* The rows are totally ordered, newest first, and no row ever moves in    *)
(* that order.  What a walk was handed lies before its cursor or in the    *)
(* window it has finished; conversely, unless it was told of unreadable    *)
(* entries, everything steady that lies there was handed to it.            *)
(***************************************************************************)
EXTENDS SpendWalk, FiniteSetTheorems, WellFoundedInduction, TLAPS

Recorded == DOMAIN record
Seen == Recorded \cup unreadable

\* i is the row c or before it, as far as both are still readable.
UpTo(i, c) == i \in Recorded /\ c \in Recorded => i = c \/ Before(i, c)

\* i belongs to the window already read.
Later(i) ==
  asked.until_ms # Never /\ (i \in Recorded => record[i].initiated_ms >= asked.until_ms)

Typed ==
  /\ record \in [Recorded -> AutomatedSpend] /\ Recorded \subseteq SpendId
  /\ moved \subseteq Seen
  /\ unreadable \subseteq SpendId \ Recorded
  /\ asked \in [since_ms : Edge \cup {Never}, until_ms : Edge \cup {Never},
                status : Status \cup {Any}]
  /\ asked.since_ms = Never \/ asked.until_ms = Never
  /\ page \in SUBSET [spends : SUBSET SpendId, cursor : SpendId \cup {NoCursor},
                      complete : BOOLEAN, unreadable_lines : Nat]
  /\ walk \in {"idle", "walking", "done"}
  /\ page # {} => walk = "walking"
  /\ after_id \in SpendId \cup {NoCursor}
  /\ handed \in SUBSET SpendId
  /\ lost_lines \in BOOLEAN
  /\ steady \in SUBSET Recorded

\* The chain moves money for signed bundles only, and a confirmation was seen
\* on chain.
ChainIsSigned ==
  \A i \in Recorded :
    /\ i \in moved => Signed(record[i].status)
    /\ record[i].status.state = "confirmed" => i \in moved

\* Where the rows handed over lie.
HandedLiesBehind ==
  /\ handed \subseteq Seen /\ after_id \in Seen \cup {NoCursor}
  /\ walk = "idle" => handed = {} /\ after_id = NoCursor
  /\ after_id \in Recorded => InWindow(after_id)
  /\ walk = "walking" => \A h \in handed :
       /\ Later(h) \/ (after_id # NoCursor /\ UpTo(h, after_id))
       /\ asked.since_ms # Never /\ h \in Recorded => record[h].initiated_ms >= asked.since_ms

\* Where the rows of the page on its way lie.
PageLiesAhead ==
  \A resp \in page :
    /\ resp.spends \subseteq Seen
    /\ resp.spends \cap handed = {}
    /\ \A i \in resp.spends \cap Recorded : InWindow(i)
    /\ ~ resp.complete =>
         /\ resp.cursor \in resp.spends
         /\ \A i \in handed \cup resp.spends : Later(i) \/ UpTo(i, resp.cursor)

\* What the walk has gone past.
Passed(i) ==
  Later(i) \/ (after_id \in Recorded /\ (i = after_id \/ Before(i, after_id)))

\* Unless it was told of losses, the walk was handed what it has gone past.
PassedIsHanded ==
  asked.status = Any /\ ~ lost_lines =>
    /\ walk = "walking" => \A i \in steady : Passed(i) => i \in handed
    /\ walk = "done" => steady \subseteq handed

\* The page on its way closes the gap up to its cursor or, if complete, up to
\* the end of the window.
PageClosesGap ==
  asked.status = Any /\ ~ lost_lines =>
    \A resp \in page : resp.unreadable_lines = 0 =>
      \A i \in steady :
        /\ InWindow(i)
        /\ resp.complete \/ (resp.cursor \in Recorded /\ (i = resp.cursor \/ Before(i, resp.cursor)))
        => i \in handed \cup resp.spends

IInv ==
  /\ Typed /\ ChainIsSigned
  /\ HandedLiesBehind /\ PageLiesAhead
  /\ PassedIsHanded /\ PageClosesGap

-----------------------------------------------------------------------------
(* The order                                                               *)

LEMMA RowTypes ==
  ASSUME Typed, NEW i \in Recorded
  PROVE  i \in Nat /\ i # 0 /\ i \in SpendId /\ record[i].initiated_ms \in Nat
BY ConstantsAssumption DEF Typed, AutomatedSpend

LEMMA BeforeIsOrder ==
  ASSUME Typed
  PROVE  /\ \A i \in Recorded : ~ Before(i, i)
         /\ \A i, j \in Recorded : i = j \/ Before(i, j) \/ Before(j, i)
         /\ \A i, j \in Recorded : ~ (Before(i, j) /\ Before(j, i))
         /\ \A i, j, k \in Recorded : Before(i, j) /\ Before(j, k) => Before(i, k)
BY RowTypes DEF Before

LEMMA BeforeIsLater ==
  ASSUME Typed, NEW i \in Recorded, NEW j \in Recorded, i = j \/ Before(i, j)
  PROVE  record[i].initiated_ms >= record[j].initiated_ms
BY RowTypes DEF Before

Ahead(rows, i) == {j \in rows : Before(j, i)}

\* Among finitely many rows one is first.
LEMMA FirstRow ==
  ASSUME Typed, NEW rows \in SUBSET Recorded, IsFiniteSet(rows), rows # {}
  PROVE  \E i \in rows : Ahead(rows, i) = {}
<1> DEFINE Segments == {Ahead(rows, i) : i \in rows}
<1> DEFINE R == StrictSubsetOrdering(rows)
<1>1. Segments \subseteq FiniteSubsetsOf(rows) /\ Segments # {}
  <2>1. \A i \in rows : Ahead(rows, i) \in SUBSET rows
    BY DEF Ahead
  <2>2. \A i \in rows : IsFiniteSet(Ahead(rows, i))
    BY <2>1, FS_Subset
  <2> QED
    BY <2>1, <2>2 DEF FiniteSubsetsOf
<1>2. IsWellFoundedOn(R, FiniteSubsetsOf(rows))
  BY FS_StrictSubsetOrderingWellFounded
<1>3. PICK least \in Segments : \A s \in Segments : ~ (<<s, least>> \in R)
  <2> HIDE DEF Segments, R
  <2> QED
    BY <1>1, <1>2, WFMin
<1>4. PICK i \in rows : least = Ahead(rows, i)
  OBVIOUS
<1>5. ASSUME NEW j \in Ahead(rows, i) PROVE FALSE
  <2>1. j \in rows /\ Before(j, i)
    BY DEF Ahead
  <2>2. Ahead(rows, j) \subseteq Ahead(rows, i) /\ j \notin Ahead(rows, j)
    BY <2>1, BeforeIsOrder DEF Ahead
  <2>3. Ahead(rows, j) \in SUBSET rows /\ Ahead(rows, i) \in SUBSET rows
    BY DEF Ahead
  <2>4. Ahead(rows, j) # Ahead(rows, i)
    BY <1>5, <2>2
  <2>5. <<Ahead(rows, j), Ahead(rows, i)>> \in R
    BY <2>2, <2>3, <2>4 DEF StrictSubsetOrdering
  <2> QED
    BY <1>3, <1>4, <2>1, <2>5
<1> QED
  BY <1>5

-----------------------------------------------------------------------------
(* One page                                                                *)

LEMMA RowsFinite ==
  ASSUME Typed, NEW rows \in SUBSET Recorded
  PROVE  /\ IsFiniteSet(rows) /\ Cardinality(rows) \in Nat
         /\ \A i : IsFiniteSet(Ahead(rows, i)) /\ Cardinality(Ahead(rows, i)) \in Nat
<1>1. rows \in SUBSET SpendId /\ IsFiniteSet(SpendId)
  BY ConstantsAssumption DEF Typed
<1>2. IsFiniteSet(rows)
  BY <1>1, FS_Subset
<1>3. \A i : Ahead(rows, i) \in SUBSET rows
  BY DEF Ahead
<1>4. \A i : IsFiniteSet(Ahead(rows, i))
  BY <1>2, <1>3, FS_Subset
<1> QED
  BY <1>2, <1>4, FS_CardinalityType

\* A page is an initial segment of its rows.
LEMMA PageIsInitial ==
  ASSUME Typed, NEW rows \in SUBSET Recorded, NEW limit \in Nat,
         NEW i \in First(rows, limit), NEW j \in rows, Before(j, i)
  PROVE  j \in First(rows, limit)
<1>1. i \in rows /\ Cardinality(Ahead(rows, i)) < limit
  BY DEF First, Ahead
<1>2. Ahead(rows, j) \in SUBSET Ahead(rows, i)
  BY <1>1, BeforeIsOrder DEF Ahead
<1>3. Cardinality(Ahead(rows, j)) <= Cardinality(Ahead(rows, i))
  BY <1>2, RowsFinite, FS_Subset
<1>4. Cardinality(Ahead(rows, j)) < limit
  BY <1>1, <1>3, RowsFinite
<1> QED
  BY <1>4 DEF First, Ahead

\* A page that withholds nothing is all of its rows.
LEMMA CompletePageIsWhole ==
  ASSUME Typed, NEW rows \in SUBSET Recorded, NEW limit \in Nat, Cardinality(rows) <= limit
  PROVE  First(rows, limit) = rows
<1>1. ASSUME NEW i \in rows PROVE Cardinality(Ahead(rows, i)) < limit
  <2>1. Ahead(rows, i) \in SUBSET rows /\ i \notin Ahead(rows, i)
    BY BeforeIsOrder DEF Ahead
  <2>2. /\ Cardinality(Ahead(rows, i)) <= Cardinality(rows)
        /\ Cardinality(Ahead(rows, i)) # Cardinality(rows)
    BY <1>1, <2>1, RowsFinite, FS_Subset
  <2> QED
    BY <2>2, RowsFinite
<1> QED
  BY <1>1 DEF First, Ahead

\* A page of a legal size that withholds rows ends in one it can be resumed from.
LEMMA TruncatedPageHasCursor ==
  ASSUME Typed, NEW rows \in SUBSET Recorded, NEW limit \in Nat, limit >= 1,
         Cardinality(rows) > limit, NEW cursor, IsCursor(First(rows, limit), cursor)
  PROVE  /\ cursor \in First(rows, limit)
         /\ \A i \in First(rows, limit) : i = cursor \/ Before(i, cursor)
<1>1. rows # {}
  <2>1. Cardinality({}) = 0
    BY FS_EmptySet
  <2> QED
    BY <2>1
<1>2. PICK i \in rows : Ahead(rows, i) = {}
  BY <1>1, RowsFinite, FirstRow
<1>3. i \in First(rows, limit)
  <2>1. Cardinality(Ahead(rows, i)) = 0
    BY <1>2, FS_EmptySet
  <2> QED
    BY <2>1 DEF First, Ahead
<1>4. cursor \in First(rows, limit) /\ \A j \in First(rows, limit) : ~ Before(cursor, j)
  BY <1>3 DEF IsCursor
<1>5. First(rows, limit) \subseteq Recorded
  BY DEF First
<1> QED
  BY <1>4, <1>5, BeforeIsOrder

-----------------------------------------------------------------------------
(* The node's steps: rows keep their instants, and what is recorded or       *)
(* unreadable stays one of the two                                           *)

LEMMA NodeStep ==
  ASSUME IInv, Typed', Seen \subseteq Seen', steady' \subseteq steady,
         \A i \in Seen : i \in Recorded' =>
           i \in Recorded /\ record'[i].initiated_ms = record[i].initiated_ms,
         UNCHANGED <<page, asked, walk, after_id, handed, lost_lines>>
  PROVE  HandedLiesBehind' /\ PageLiesAhead' /\ PassedIsHanded' /\ PageClosesGap'
<1>1. \A i \in Seen, j \in Seen : i \in Recorded' /\ j \in Recorded' =>
        Before(i, j)' = Before(i, j)
  BY DEF Before
<1>2. \A i \in Seen : i \in Recorded' => InWindow(i)' = InWindow(i)
  BY DEF InWindow
<1>3. \A i \in Seen, c \in Seen : UpTo(i, c) => UpTo(i, c)'
  BY <1>1 DEF UpTo
<1>4. \A i \in Seen : Later(i) => Later(i)'
  BY DEF Later
<1>5. \A i \in steady' : i \in Seen /\ i \in Recorded /\ i \in Recorded'
  BY DEF IInv, Typed, Seen
<1>6. \A i \in steady' : Later(i)' => Later(i)
  BY <1>5 DEF Later
<1>7. after_id # NoCursor => after_id \in Seen
  BY DEF IInv, HandedLiesBehind
<1>8. NoCursor \notin Recorded /\ NoCursor \notin Recorded'
  BY ConstantsAssumption DEF IInv, Typed, NoCursor
<1>9. \A i \in steady' : Passed(i)' => Passed(i)
  <2> SUFFICES ASSUME NEW i \in steady', Passed(i)' PROVE Passed(i)
    OBVIOUS
  <2>1. CASE Later(i)'
    BY <1>6, <2>1 DEF Passed
  <2>2. CASE after_id \in Recorded' /\ (i = after_id \/ Before(i, after_id)')
    BY <1>1, <1>5, <1>7, <1>8, <2>2 DEF Passed
  <2> QED
    BY <2>1, <2>2 DEF Passed
<1>10. HandedLiesBehind'
  <2>1. handed' \subseteq Seen' /\ after_id' \in (Seen \cup {NoCursor})'
    BY DEF IInv, HandedLiesBehind, Seen
  <2>2. (after_id \in Recorded)' => InWindow(after_id)'
    <3> SUFFICES ASSUME after_id \in Recorded' PROVE InWindow(after_id)'
      OBVIOUS
    <3>1. after_id \in Seen /\ after_id \in Recorded /\ InWindow(after_id)
      BY <1>7, <1>8 DEF IInv, HandedLiesBehind
    <3>2. record'[after_id].initiated_ms = record[after_id].initiated_ms
      BY <3>1
    <3> QED
      BY <3>1, <3>2 DEF InWindow
  <2>3. ASSUME walk = "walking", NEW h \in handed
        PROVE  /\ Later(h)' \/ (after_id # NoCursor /\ UpTo(h, after_id)')
               /\ asked.since_ms # Never /\ h \in Recorded' =>
                    record'[h].initiated_ms >= asked.since_ms
    <3>1. h \in Seen /\ (Later(h) \/ (after_id # NoCursor /\ UpTo(h, after_id)))
      BY <2>3 DEF IInv, HandedLiesBehind
    <3>2. Later(h)' \/ (after_id # NoCursor /\ UpTo(h, after_id)')
      BY <1>3, <1>4, <1>7, <3>1
    <3>3. asked.since_ms # Never /\ h \in Recorded' =>
            record'[h].initiated_ms >= asked.since_ms
      BY <2>3, <3>1 DEF IInv, HandedLiesBehind
    <3> QED
      BY <3>2, <3>3
  <2>4. walk = "idle" => handed = {} /\ after_id = NoCursor
    BY DEF IInv, HandedLiesBehind
  <2>5. ASSUME walk' = "walking", NEW h \in handed'
        PROVE  /\ Later(h)' \/ (after_id' # NoCursor /\ UpTo(h, after_id)')
               /\ asked'.since_ms # Never /\ h \in Recorded' =>
                    record'[h].initiated_ms >= asked'.since_ms
    BY <2>3, <2>5
  <2> QED
    BY <2>1, <2>2, <2>4, <2>5 DEF HandedLiesBehind
<1>11. PageLiesAhead'
  <2> SUFFICES ASSUME NEW resp \in page
               PROVE  /\ resp.spends \subseteq Seen'
                      /\ resp.spends \cap handed = {}
                      /\ \A i \in resp.spends \cap Recorded' : InWindow(i)'
                      /\ ~ resp.complete =>
                           /\ resp.cursor \in resp.spends
                           /\ \A i \in handed \cup resp.spends :
                                Later(i)' \/ UpTo(i, resp.cursor)'
    BY DEF PageLiesAhead
  <2>1. resp.spends \subseteq Seen /\ handed \subseteq Seen
    BY DEF IInv, PageLiesAhead, HandedLiesBehind
  <2>2. \A i \in resp.spends \cap Recorded' : InWindow(i)'
    BY <1>2, <2>1 DEF IInv, PageLiesAhead
  <2>3. ASSUME ~ resp.complete, NEW i \in handed \cup resp.spends
        PROVE  resp.cursor \in resp.spends /\ (Later(i)' \/ UpTo(i, resp.cursor)')
    <3>1. resp.cursor \in resp.spends /\ (Later(i) \/ UpTo(i, resp.cursor))
      BY <2>3 DEF IInv, PageLiesAhead
    <3> QED
      BY <1>3, <1>4, <2>1, <3>1
  <2>4. resp.spends \cap handed = {} /\ (~ resp.complete => resp.cursor \in resp.spends)
    BY DEF IInv, PageLiesAhead
  <2> QED
    BY <2>1, <2>2, <2>3, <2>4
<1>12. PassedIsHanded'
  <2> SUFFICES ASSUME asked.status = Any, ~ lost_lines
               PROVE  /\ walk = "walking" => \A i \in steady' : Passed(i)' => i \in handed
                      /\ walk = "done" => steady' \subseteq handed
    BY DEF PassedIsHanded
  <2> QED
    BY <1>9 DEF IInv, PassedIsHanded
<1>13. PageClosesGap'
  <2> SUFFICES ASSUME asked.status = Any, ~ lost_lines,
                      NEW resp \in page, resp.unreadable_lines = 0,
                      NEW i \in steady', InWindow(i)',
                      resp.complete \/ (resp.cursor \in Recorded'
                                          /\ (i = resp.cursor \/ Before(i, resp.cursor)'))
               PROVE  i \in handed \cup resp.spends
    BY DEF PageClosesGap
  <2>1. InWindow(i)
    BY <1>2, <1>5
  <2>2. ~ resp.complete => resp.cursor \in Seen
    BY DEF IInv, PageLiesAhead
  <2>3. resp.complete \/ (resp.cursor \in Recorded /\ (i = resp.cursor \/ Before(i, resp.cursor)))
    BY <1>1, <1>5, <2>2
  <2> QED
    BY <2>1, <2>3 DEF IInv, PageClosesGap
<1> QED
  BY <1>10, <1>11, <1>12, <1>13

\* What is learnt of a signed spend leaves it signed.
LEMMA LearnsWell ==
  ASSUME NEW old \in SpendOutcome, NEW new \in Learns(old)
  PROVE  new \in SpendOutcome /\ (Signed(old) => Signed(new))
<1>1. CASE old.state = "pending"
  BY <1>1 DEF Learns, SpendOutcome, SpendFailureStage, Signed
<1>2. CASE old.state = "submitted"
  BY <1>2 DEF Learns, SpendOutcome, SpendFailureStage, Signed
<1> QED
  BY <1>1, <1>2 DEF Learns

LEMMA InitiateKeeps == IInv /\ Initiate => IInv'
<1> SUFFICES ASSUME IInv, Initiate PROVE IInv'
  OBVIOUS
<1>1. PICK i \in SpendId \ (DOMAIN record \cup unreadable), t \in Instant :
        record' = [j \in DOMAIN record \cup {i} |->
                     IF j = i THEN [initiated_ms |-> t, status |-> [state |-> "pending"]]
                     ELSE record[j]]
  BY DEF Initiate
<1>2. UNCHANGED <<moved, unreadable, page, asked, walk, after_id, handed, lost_lines, steady>>
  BY DEF Initiate, client_vars
<1>3. /\ Recorded' = Recorded \cup {i} /\ i \notin Seen
      /\ \A j \in Recorded : record'[j] = record[j]
      /\ record'[i] = [initiated_ms |-> t, status |-> [state |-> "pending"]]
  BY <1>1 DEF Recorded, Seen
<1>4. [state |-> "pending"] \in SpendOutcome
  BY DEF SpendOutcome
<1>5. record' \in [Recorded' -> AutomatedSpend]
  <2>1. record'[i] \in AutomatedSpend
    BY <1>3, <1>4 DEF AutomatedSpend
  <2>2. \A j \in Recorded : record'[j] \in AutomatedSpend
    BY <1>3 DEF IInv, Typed
  <2>3. record' = [j \in Recorded' |-> record'[j]]
    BY <1>1 DEF Recorded
  <2> QED
    BY <1>3, <2>1, <2>2, <2>3
<1>6. Typed'
  BY <1>2, <1>3, <1>5 DEF IInv, Typed, Seen
<1>7. ChainIsSigned'
  <2>1. i \notin moved
    BY <1>3 DEF IInv, Typed
  <2>2. record'[i].status.state = "pending"
    BY <1>3
  <2> QED
    BY <1>2, <1>3, <2>1, <2>2 DEF IInv, ChainIsSigned
<1>8. Seen \subseteq Seen' /\ \A j \in Seen : j \in Recorded' =>
        j \in Recorded /\ record'[j].initiated_ms = record[j].initiated_ms
  BY <1>2, <1>3 DEF Seen
<1> QED
  BY <1>2, <1>6, <1>7, <1>8, NodeStep DEF IInv

LEMMA ReviseKeeps == IInv /\ Revise => IInv'
<1> SUFFICES ASSUME IInv, Revise PROVE IInv'
  OBVIOUS
<1>0. PICK i \in DOMAIN record : \E outcome \in Learns(record[i].status) :
        /\ outcome.state = "confirmed" => i \in moved
        /\ record' = [record EXCEPT ![i].status = outcome]
  BY DEF Revise
<1>1. PICK outcome \in Learns(record[i].status) :
        /\ outcome.state = "confirmed" => i \in moved
        /\ record' = [record EXCEPT ![i].status = outcome]
  BY <1>0
<1>2. /\ UNCHANGED <<moved, unreadable, page, asked, walk, after_id, handed, lost_lines>>
      /\ steady' \subseteq steady
  BY DEF Revise
<1>3. record \in [Recorded -> AutomatedSpend] /\ i \in Recorded
  BY DEF IInv, Typed, Recorded
<1>4. outcome \in SpendOutcome /\ (Signed(record[i].status) => Signed(outcome))
  BY <1>3, LearnsWell DEF AutomatedSpend
<1>5. /\ Recorded' = Recorded
      /\ record' \in [Recorded' -> AutomatedSpend]
      /\ \A j \in Recorded : record'[j].initiated_ms = record[j].initiated_ms
      /\ record'[i].status = outcome
      /\ \A j \in Recorded : j # i => record'[j] = record[j]
  BY <1>1, <1>3, <1>4 DEF Recorded, AutomatedSpend
<1>6. Typed'
  BY <1>2, <1>5 DEF IInv, Typed, Seen
<1>7. ChainIsSigned'
  BY <1>1, <1>2, <1>4, <1>5 DEF IInv, ChainIsSigned
<1>8. Seen \subseteq Seen' /\ \A j \in Seen : j \in Recorded' =>
        j \in Recorded /\ record'[j].initiated_ms = record[j].initiated_ms
  BY <1>2, <1>5 DEF Seen
<1> QED
  BY <1>2, <1>6, <1>7, <1>8, NodeStep DEF IInv

LEMMA CorruptKeeps == IInv /\ Corrupt => IInv'
<1> SUFFICES ASSUME IInv, Corrupt PROVE IInv'
  OBVIOUS
<1>1. PICK i \in DOMAIN record :
        /\ record' = [j \in DOMAIN record \ {i} |-> record[j]]
        /\ unreadable' = unreadable \cup {i}
        /\ steady' = steady \ {i}
  BY DEF Corrupt
<1>2. UNCHANGED <<moved, page, asked, walk, after_id, handed, lost_lines>>
  BY DEF Corrupt
<1>3. /\ i \in Recorded /\ Recorded' = Recorded \ {i}
      /\ \A j \in Recorded' : record'[j] = record[j]
  BY <1>1 DEF Recorded
<1>4. record' \in [Recorded' -> AutomatedSpend]
  BY <1>1, <1>3 DEF IInv, Typed, Recorded
<1>5. Typed'
  BY <1>1, <1>2, <1>3, <1>4 DEF IInv, Typed, Seen
<1>6. ChainIsSigned'
  BY <1>2, <1>3 DEF IInv, ChainIsSigned
<1>7. Seen \subseteq Seen' /\ \A j \in Seen : j \in Recorded' =>
        j \in Recorded /\ record'[j].initiated_ms = record[j].initiated_ms
  BY <1>1, <1>3 DEF Seen
<1> QED
  BY <1>1, <1>2, <1>5, <1>6, <1>7, NodeStep DEF IInv

LEMMA LandsKeeps == IInv /\ Lands => IInv'
<1> SUFFICES ASSUME IInv, Lands PROVE IInv'
  OBVIOUS
<1>1. PICK i \in DOMAIN record \ moved : Signed(record[i].status) /\ moved' = moved \cup {i}
  BY DEF Lands
<1>2. UNCHANGED <<record, unreadable, page, asked, walk, after_id, handed, lost_lines, steady>>
  BY DEF Lands, client_vars
<1>3. Recorded' = Recorded /\ Seen' = Seen /\ i \in Seen
  BY <1>2 DEF Recorded, Seen
<1>4. Typed'
  BY <1>1, <1>2, <1>3 DEF IInv, Typed
<1>5. ChainIsSigned'
  BY <1>1, <1>2, <1>3 DEF IInv, ChainIsSigned
<1>6. \A j \in Seen : j \in Recorded' =>
        j \in Recorded /\ record'[j].initiated_ms = record[j].initiated_ms
  BY <1>2, <1>3
<1> QED
  BY <1>2, <1>3, <1>4, <1>5, <1>6, NodeStep DEF IInv

-----------------------------------------------------------------------------
(* The walk's steps                                                        *)

LEMMA NoCursorIsNoRow == Typed => NoCursor \notin Recorded
BY ConstantsAssumption DEF Typed, NoCursor

LEMMA StartKeeps == IInv /\ Start => IInv'
<1> SUFFICES ASSUME IInv, Start PROVE IInv'
  OBVIOUS
<1>1. PICK edge \in Edge \cup {Never}, token \in Status \cup {Any} :
        /\ asked' = [since_ms |-> edge, until_ms |-> Never, status |-> token]
        /\ steady' \subseteq DOMAIN record
  BY DEF Start
<1>2. /\ walk = "idle" /\ walk' = "walking"
      /\ UNCHANGED <<record, moved, unreadable, page, after_id, handed, lost_lines>>
  BY DEF Start, node_vars
<1>3. page = {} /\ handed = {} /\ after_id = NoCursor
  BY <1>2 DEF IInv, Typed, HandedLiesBehind
<1>4. Recorded' = Recorded /\ Seen' = Seen
  BY <1>2 DEF Recorded, Seen
<1>5. Typed'
  BY <1>1, <1>2, <1>3, <1>4 DEF IInv, Typed, Recorded
<1>6. after_id' = NoCursor /\ NoCursor \notin Recorded'
  BY <1>2, <1>3, <1>4, NoCursorIsNoRow DEF IInv
<1>7. ChainIsSigned'
  BY <1>2, <1>4 DEF IInv, ChainIsSigned
<1>8. HandedLiesBehind'
  BY <1>2, <1>3, <1>4, <1>6 DEF HandedLiesBehind
<1>9. PageLiesAhead' /\ PageClosesGap'
  BY <1>2, <1>3 DEF PageLiesAhead, PageClosesGap
<1>10. PassedIsHanded'
  BY <1>1, <1>2, <1>6 DEF PassedIsHanded, Passed, Later
<1> QED
  BY <1>5, <1>7, <1>8, <1>9, <1>10 DEF IInv

LEMMA LoseKeeps == IInv /\ Lose => IInv'
<1> SUFFICES ASSUME IInv, Lose PROVE IInv'
  OBVIOUS
<1>1. page' = {} /\ UNCHANGED <<record, moved, unreadable, asked, walk, after_id,
                                handed, lost_lines, steady>>
  BY DEF Lose, node_vars, client_vars
<1>2. Recorded' = Recorded /\ Seen' = Seen
  BY <1>1 DEF Recorded, Seen
<1>3. Typed' /\ ChainIsSigned'
  BY <1>1, <1>2 DEF IInv, Typed, ChainIsSigned
<1>4. HandedLiesBehind' /\ PassedIsHanded'
  BY <1>1, <1>2 DEF IInv, HandedLiesBehind, PassedIsHanded, Passed, UpTo, Later, Before, InWindow
<1>5. PageLiesAhead' /\ PageClosesGap'
  BY <1>1 DEF PageLiesAhead, PageClosesGap
<1> QED
  BY <1>3, <1>4, <1>5 DEF IInv

\* The rows a page is cut from: recorded, in the window, after the cursor.
LEMMA RowsRemain ==
  ASSUME IInv, walk = "walking"
  PROVE  /\ Remaining \in SUBSET Recorded
         /\ \A i \in Remaining : InWindow(i) /\ i \notin handed
         /\ \A i \in Remaining, h \in handed : Later(h) \/ UpTo(h, i)
<1>1. Remaining \in SUBSET Recorded /\ \A i \in Remaining : InWindow(i)
  BY DEF Remaining, Matching, Recorded
<1>2. ASSUME NEW i \in Remaining, NEW h \in handed PROVE i # h /\ (Later(h) \/ UpTo(h, i))
  <2>1. Later(h) \/ (after_id # NoCursor /\ UpTo(h, after_id))
    BY DEF IInv, HandedLiesBehind
  <2>2. CASE Later(h)
    <3>1. h \in Recorded => record[h].initiated_ms >= asked.until_ms /\ asked.until_ms # Never
      BY <2>2 DEF Later
    <3>2. record[i].initiated_ms < asked.until_ms \/ asked.until_ms = Never
      BY <1>1 DEF InWindow
    <3>3. asked.until_ms # Never => asked.until_ms \in Nat
      BY ConstantsAssumption DEF IInv, Typed
    <3>4. record[i].initiated_ms \in Nat
      BY <1>1, RowTypes DEF IInv
    <3>5. i # h
      BY <1>1, <3>1, <3>2, <3>3, <3>4
    <3> QED
      BY <2>2, <3>5
  <2>3. CASE after_id # NoCursor /\ UpTo(h, after_id)
    <3>1. after_id \in Recorded /\ Before(after_id, i) /\ i \in Recorded
      BY <1>1, <2>3 DEF Remaining, Matching, Recorded
    <3>2. h \in Recorded => h = after_id \/ Before(h, after_id)
      BY <2>3, <3>1 DEF UpTo
    <3> QED
      BY <3>1, <3>2, BeforeIsOrder DEF IInv, UpTo
  <2> QED
    BY <2>1, <2>2, <2>3
<1> QED
  BY <1>1, <1>2

\* While nothing is unreadable, what the walk has not gone past remains.
LEMMA RestRemains ==
  ASSUME IInv, walk = "walking", asked.status = Any, unreadable = {},
         NEW i \in Recorded, InWindow(i), ~ Passed(i)
  PROVE  i \in Remaining
<1>1. i \in Matching
  BY DEF Matching, Recorded
<1>2. CASE after_id = NoCursor
  BY <1>1, <1>2 DEF Remaining
<1>3. CASE after_id # NoCursor
  <2>1. after_id \in Recorded /\ InWindow(after_id)
    BY <1>3 DEF IInv, HandedLiesBehind, Seen
  <2>2. after_id \in Matching
    BY <2>1 DEF Matching, Recorded
  <2>3. ~ (i = after_id \/ Before(i, after_id))
    BY <2>1 DEF Passed
  <2>4. Before(after_id, i)
    BY <2>1, <2>3, BeforeIsOrder DEF IInv
  <2> QED
    BY <1>1, <1>3, <2>2, <2>4 DEF Remaining
<1> QED
  BY <1>2, <1>3

LEMMA AnswerKeeps == IInv /\ Answer => IInv'
<1> SUFFICES ASSUME IInv, Answer PROVE IInv'
  OBVIOUS
<1>1. PICK limit \in Limit : audit_page(limit)
  BY DEF Answer
<1>2. /\ walk = "walking" /\ page = {}
      /\ UNCHANGED <<record, moved, unreadable, asked, walk, after_id, handed, lost_lines, steady>>
  BY DEF Answer, node_vars, client_vars
<1> DEFINE spends == First(Remaining, limit)
<1> DEFINE complete == Cardinality(Remaining) <= limit
<1>3. PICK cursor \in SpendId \cup {NoCursor} :
        /\ IsCursor(spends, cursor)
        /\ page' = {[spends |-> spends, cursor |-> cursor, complete |-> complete,
                     unreadable_lines |-> unreadable_lines]}
  BY <1>1 DEF audit_page
<1>4. limit \in Nat /\ limit >= 1
  BY <1>1, ConstantsAssumption DEF audit_page, validated
<1>5. Remaining \in SUBSET Recorded /\ spends \subseteq Remaining /\ Typed
  BY <1>2, RowsRemain DEF First, IInv
<1>6. complete => spends = Remaining
  BY <1>4, <1>5, CompletePageIsWhole
<1>7. ~ complete => cursor \in spends /\ \A i \in spends : i = cursor \/ Before(i, cursor)
  <2>1. Cardinality(Remaining) \in Nat
    BY <1>5, RowsFinite
  <2> QED
    BY <1>3, <1>4, <1>5, <2>1, TruncatedPageHasCursor
<1>8. unreadable_lines \in Nat /\ (unreadable_lines = 0 => unreadable = {})
  <2>1. unreadable \in SUBSET SpendId
    BY DEF IInv, Typed
  <2>2. IsFiniteSet(unreadable)
    BY <2>1, ConstantsAssumption, FS_Subset
  <2> QED
    BY <2>2, FS_CardinalityType, FS_EmptySet DEF unreadable_lines
<1>9. \A i \in spends, j \in Remaining : Before(j, i) => j \in spends
  BY <1>4, <1>5, PageIsInitial
<1>10. PICK rows \in {spends}, whole \in {complete}, lines \in {unreadable_lines} :
         page' = {[spends |-> rows, cursor |-> cursor, complete |-> whole,
                   unreadable_lines |-> lines]}
  <2> HIDE DEF spends, complete
  <2> QED
    BY <1>3
<1>11. PICK resp :
         /\ page' = {resp} /\ whole \in BOOLEAN
         /\ resp = [spends |-> rows, cursor |-> cursor, complete |-> whole,
                    unreadable_lines |-> lines]
         /\ resp.spends = rows /\ resp.cursor = cursor /\ resp.complete = whole
         /\ resp.unreadable_lines = lines
  <2> DEFINE answer == [spends |-> rows, cursor |-> cursor, complete |-> whole,
                        unreadable_lines |-> lines]
  <2>1. page' = {answer}
    BY <1>10
  <2>2. whole \in BOOLEAN
    OBVIOUS
  <2>3. /\ answer.spends = rows /\ answer.cursor = cursor /\ answer.complete = whole
        /\ answer.unreadable_lines = lines
    OBVIOUS
  <2> QED
    BY <2>1, <2>2, <2>3
<1> HIDE DEF spends, complete
<1>12. Recorded' = Recorded /\ Seen' = Seen
  BY <1>2 DEF Recorded, Seen
<1>13. Typed'
  <2>1. rows \in SUBSET SpendId /\ lines \in Nat
    BY <1>5, <1>8, <1>10 DEF Typed
  <2>2. resp \in [spends : SUBSET SpendId, cursor : SpendId \cup {NoCursor},
                  complete : BOOLEAN, unreadable_lines : Nat]
    BY <1>11, <2>1
  <2> QED
    BY <1>2, <1>11, <1>12, <2>2 DEF IInv, Typed
<1>14. ChainIsSigned' /\ HandedLiesBehind' /\ PassedIsHanded'
  BY <1>2, <1>12 DEF IInv, ChainIsSigned, HandedLiesBehind, PassedIsHanded, Passed, UpTo,
                     Later, Before, InWindow
<1>15. PageLiesAhead'
  <2>1. rows \subseteq Seen /\ rows \cap handed = {} /\ \A i \in rows : InWindow(i)
    BY <1>2, <1>5, <1>10, RowsRemain DEF Seen
  <2>2. ASSUME ~ whole, NEW i \in handed \cup rows
        PROVE  cursor \in rows /\ (Later(i) \/ UpTo(i, cursor))
    <3>1. cursor \in rows /\ cursor \in Remaining
      BY <1>5, <1>7, <1>10, <2>2
    <3>2. CASE i \in handed
      BY <1>2, <3>1, <3>2, RowsRemain
    <3>3. CASE i \in rows
      BY <1>7, <1>10, <2>2, <3>3 DEF UpTo
    <3> QED
      BY <3>1, <3>2, <3>3
  <2>3. ~ whole => cursor \in rows
    BY <1>7, <1>10
  <2> QED
    BY <1>2, <1>11, <1>12, <2>1, <2>2, <2>3
    DEF PageLiesAhead, Later, UpTo, Before, InWindow
<1>16. PageClosesGap'
  <2>1. ASSUME asked.status = Any, ~ lost_lines, lines = 0, NEW i \in steady, InWindow(i),
               whole \/ (cursor \in Recorded /\ (i = cursor \/ Before(i, cursor)))
        PROVE  i \in handed \cup rows
    <3>1. i \in Recorded /\ unreadable = {}
      BY <1>8, <1>10, <2>1 DEF IInv, Typed
    <3>2. CASE Passed(i)
      BY <1>2, <2>1, <3>2 DEF IInv, PassedIsHanded
    <3>3. CASE ~ Passed(i)
      <4>1. i \in Remaining
        BY <1>2, <2>1, <3>1, <3>3, RestRemains
      <4>2. CASE whole
        BY <1>6, <1>10, <4>1, <4>2
      <4>3. CASE ~ whole
        BY <1>7, <1>9, <1>10, <2>1, <4>1, <4>3
      <4> QED
        BY <4>2, <4>3
    <3> QED
      BY <3>2, <3>3
  <2> QED
    BY <1>2, <1>11, <1>12, <2>1 DEF PageClosesGap, InWindow, Before
<1> QED
  BY <1>13, <1>14, <1>15, <1>16 DEF IInv

\* A row outside the window is in the one already read or before this one.
LEMMA OutsideWindow ==
  ASSUME Typed, NEW i \in Recorded, ~ InWindow(i)
  PROVE  \/ Later(i)
         \/ asked.since_ms # Never /\ record[i].initiated_ms < asked.since_ms
<1>1. record[i].initiated_ms \in Nat
  BY RowTypes
<1>2. /\ asked.since_ms # Never => asked.since_ms \in Nat
      /\ asked.until_ms # Never => asked.until_ms \in Nat
  BY ConstantsAssumption DEF Typed
<1> QED
  BY <1>1, <1>2 DEF InWindow, Later

\* Of a page that is read: what a resumed walk, or a finished window, rests on.
LEMMA TakeKeeps == IInv /\ Take => IInv'
<1> SUFFICES ASSUME IInv, Take PROVE IInv'
  OBVIOUS
<1>1. PICK resp \in page :
        /\ page' = {}
        /\ handed' = handed \cup resp.spends
        /\ lost_lines' = (lost_lines \/ resp.unreadable_lines > 0)
        /\ asked' = NextWindow(resp)
        /\ after_id' = IF resp.complete THEN NoCursor ELSE resp.cursor
        /\ walk' = IF resp.complete /\ asked.since_ms = Never THEN "done" ELSE "walking"
  BY DEF Take
<1>2. UNCHANGED <<record, moved, unreadable, steady>>
  BY DEF Take, node_vars
<1>3. Recorded' = Recorded /\ Seen' = Seen
  BY <1>2 DEF Recorded, Seen
<1>4. /\ Typed /\ walk = "walking"
      /\ resp.spends \in SUBSET SpendId /\ resp.cursor \in SpendId \cup {NoCursor}
      /\ resp.complete \in BOOLEAN /\ resp.unreadable_lines \in Nat
  BY DEF IInv, Typed
<1>5. /\ resp.spends \subseteq Seen
      /\ \A i \in resp.spends \cap Recorded : InWindow(i)
      /\ ~ resp.complete => resp.cursor \in resp.spends /\ resp.cursor \in Seen
  BY DEF IInv, PageLiesAhead
<1>6. /\ asked.since_ms = Never \/ asked.until_ms = Never
      /\ asked.since_ms \in Edge \cup {Never} /\ asked.until_ms \in Edge \cup {Never}
      /\ asked.status \in Status \cup {Any}
      /\ asked = [since_ms |-> asked.since_ms, until_ms |-> asked.until_ms,
                  status |-> asked.status]
  BY <1>4 DEF Typed
<1>7. \A h \in handed \cup resp.spends :
        asked.since_ms # Never /\ h \in Recorded => record[h].initiated_ms >= asked.since_ms
  BY <1>4, <1>5 DEF IInv, HandedLiesBehind, InWindow
<1>8. NoCursor \notin Recorded
  BY <1>4, NoCursorIsNoRow
<1>9. ASSUME asked.status = Any, ~ lost_lines'
      PROVE  /\ \A i \in steady : Passed(i) => i \in handed
             /\ \A i \in steady :
                  /\ InWindow(i)
                  /\ resp.complete \/ (resp.cursor \in Recorded
                                         /\ (i = resp.cursor \/ Before(i, resp.cursor)))
                  => i \in handed \cup resp.spends
  <2>1. ~ (lost_lines \/ resp.unreadable_lines > 0)
    BY <1>1, <1>9, Zenon
  <2>2. ~ lost_lines /\ ~ (resp.unreadable_lines > 0)
    BY <2>1, Zenon
  <2>3. ~ lost_lines /\ resp.unreadable_lines = 0
    <3>1. resp.unreadable_lines = 0
      BY <1>4, <2>2
    <3> QED
      BY <2>2, <3>1, Zenon
  <2> QED
    BY <1>4, <1>9, <2>3 DEF IInv, PassedIsHanded, PageClosesGap
<1>10. steady \subseteq Recorded
  BY <1>4 DEF Typed
<1>11. PageLiesAhead' /\ PageClosesGap' /\ ChainIsSigned'
  BY <1>1, <1>2, <1>3 DEF IInv, PageLiesAhead, PageClosesGap, ChainIsSigned
<1>12. ASSUME asked' \in [since_ms : Edge \cup {Never}, until_ms : Edge \cup {Never},
                          status : Status \cup {Any}],
              asked'.since_ms = Never \/ asked'.until_ms = Never
       PROVE  Typed'
  <2>1. handed' \in SUBSET SpendId /\ after_id' \in SpendId \cup {NoCursor}
    BY <1>1, <1>4 DEF Typed
  <2>2. lost_lines' \in BOOLEAN /\ walk' \in {"idle", "walking", "done"}
    BY <1>1
  <2> QED
    BY <1>1, <1>2, <1>3, <1>4, <1>12, <2>1, <2>2 DEF Typed
<1>13. CASE ~ resp.complete
  <2>1. asked' = asked /\ after_id' = resp.cursor /\ walk' = "walking"
    BY <1>1, <1>13 DEF NextWindow
  <2>2. Typed'
    BY <1>4, <1>12, <2>1 DEF Typed
  <2>3. resp.cursor # NoCursor
    BY <1>4, <1>5, <1>13, ConstantsAssumption DEF NoCursor
  <2>4. HandedLiesBehind'
    <3>1. handed' \subseteq Seen'
      BY <1>1, <1>3, <1>5 DEF IInv, HandedLiesBehind
    <3>2. resp.cursor \in Recorded => InWindow(resp.cursor)
      BY <1>5, <1>13
    <3>3. \A h \in handed' : Later(h) \/ UpTo(h, resp.cursor)
      BY <1>1, <1>13 DEF IInv, PageLiesAhead
    <3> QED
      BY <1>1, <1>2, <1>3, <1>5, <1>7, <1>13, <2>1, <2>3, <3>1, <3>2, <3>3
      DEF HandedLiesBehind, InWindow, Later, UpTo, Before
  <2>5. PassedIsHanded'
    <3> SUFFICES ASSUME asked.status = Any, ~ lost_lines', NEW i \in steady,
                        Later(i) \/ (resp.cursor \in Recorded
                                       /\ (i = resp.cursor \/ Before(i, resp.cursor)))
                 PROVE  i \in handed'
      BY <1>2, <1>3, <2>1 DEF PassedIsHanded, Passed, Later, Before
    <3>1. CASE Later(i)
      BY <1>1, <1>9, <3>1 DEF Passed
    <3>2. CASE InWindow(i) /\ ~ Later(i)
      BY <1>1, <1>9, <3>2
    <3>3. CASE ~ InWindow(i) /\ ~ Later(i)
      <4>1. asked.since_ms # Never /\ record[i].initiated_ms < asked.since_ms
        BY <1>4, <1>10, <3>3, OutsideWindow
      <4>2. resp.cursor \in Recorded /\ record[i].initiated_ms >= record[resp.cursor].initiated_ms
        BY <1>4, <1>10, <3>3, BeforeIsLater
      <4>3. record[resp.cursor].initiated_ms >= asked.since_ms
        BY <1>5, <1>7, <1>13, <4>1, <4>2
      <4>4. /\ record[i].initiated_ms \in Nat /\ record[resp.cursor].initiated_ms \in Nat
            /\ asked.since_ms \in Nat
        BY <1>4, <1>6, <1>10, <4>1, <4>2, RowTypes, ConstantsAssumption
      <4> QED
        BY <4>1, <4>2, <4>3, <4>4
    <3> QED
      BY <3>1, <3>2, <3>3
  <2> QED
    BY <1>11, <2>2, <2>4, <2>5 DEF IInv
<1>14. CASE resp.complete /\ asked.since_ms # Never
  <2>1. /\ asked' = [asked EXCEPT !.since_ms = Never, !.until_ms = asked.since_ms]
        /\ after_id' = NoCursor /\ walk' = "walking"
    BY <1>1, <1>14 DEF NextWindow
  <2>2. /\ asked' = [since_ms |-> Never, until_ms |-> asked.since_ms, status |-> asked.status]
        /\ asked'.since_ms = Never /\ asked'.until_ms = asked.since_ms
        /\ asked'.status = asked.status
    BY <1>6, <2>1
  <2>3. Typed'
    <3>1. asked' \in [since_ms : Edge \cup {Never}, until_ms : Edge \cup {Never},
                      status : Status \cup {Any}]
      BY <1>6, <2>2
    <3> QED
      BY <1>12, <2>2, <3>1
  <2>4. HandedLiesBehind'
    <3>1. handed' \subseteq Seen' /\ after_id' \notin Recorded'
      BY <1>1, <1>3, <1>5, <1>8, <2>1 DEF IInv, HandedLiesBehind
    <3>2. \A h \in handed' : Later(h)'
      BY <1>1, <1>2, <1>3, <1>7, <1>14, <2>2 DEF Later
    <3> QED
      BY <2>1, <2>2, <3>1, <3>2 DEF HandedLiesBehind
  <2>5. PassedIsHanded'
    <3> SUFFICES ASSUME asked.status = Any, ~ lost_lines', NEW i \in steady,
                        record[i].initiated_ms >= asked.since_ms
                 PROVE  i \in handed'
      BY <1>2, <1>3, <1>8, <1>10, <2>1, <2>2 DEF PassedIsHanded, Passed, Later
    <3>1. InWindow(i)
      BY <1>6, <1>14 DEF InWindow
    <3> QED
      BY <1>1, <1>9, <1>14, <3>1
  <2> QED
    BY <1>11, <2>3, <2>4, <2>5 DEF IInv
<1>15. CASE resp.complete /\ asked.since_ms = Never
  <2>1. asked' = asked /\ after_id' = NoCursor /\ walk' = "done"
    BY <1>1, <1>15 DEF NextWindow
  <2>2. Typed'
    BY <1>4, <1>12, <2>1 DEF Typed
  <2>3. HandedLiesBehind'
    <3>1. handed' \subseteq Seen' /\ after_id' \notin Recorded'
      BY <1>1, <1>3, <1>5, <1>8, <2>1 DEF IInv, HandedLiesBehind
    <3> QED
      BY <2>1, <3>1 DEF HandedLiesBehind
  <2>4. PassedIsHanded'
    <3> SUFFICES ASSUME asked.status = Any, ~ lost_lines', NEW i \in steady
                 PROVE  i \in handed'
      BY <1>2, <2>1 DEF PassedIsHanded
    <3>1. CASE InWindow(i)
      BY <1>1, <1>9, <1>15, <3>1
    <3>2. CASE ~ InWindow(i)
      <4>1. Later(i)
        BY <1>4, <1>10, <1>15, <3>2, OutsideWindow
      <4> QED
        BY <1>1, <1>9, <4>1 DEF Passed
    <3> QED
      BY <3>1, <3>2
  <2> QED
    BY <1>11, <2>2, <2>3, <2>4 DEF IInv
<1> QED
  BY <1>4, <1>13, <1>14, <1>15

LEMMA InitIsFine == Init => IInv
<1> SUFFICES ASSUME Init PROVE IInv
  OBVIOUS
<1>1. PICK ids \in SUBSET SpendId :
        record \in [ids -> [initiated_ms : Instant, status : [state : {"submitted"}]]]
  BY DEF Init
<1>2. /\ moved = {} /\ unreadable = {} /\ page = {} /\ walk = "idle" /\ after_id = NoCursor
      /\ handed = {} /\ lost_lines = FALSE /\ steady = {}
      /\ asked = [since_ms |-> Never, until_ms |-> Never, status |-> Any]
  BY DEF Init
<1>3. [state : {"submitted"}] \subseteq SpendOutcome
  BY DEF SpendOutcome
<1>4. Recorded = ids /\ record \in [Recorded -> AutomatedSpend]
  BY <1>1, <1>3 DEF Recorded, AutomatedSpend
<1>5. Typed
  BY <1>2, <1>4 DEF Typed
<1>6. ChainIsSigned
  <2>1. \A i \in Recorded : record[i].status.state = "submitted"
    BY <1>1, <1>4
  <2> QED
    BY <1>2, <2>1 DEF ChainIsSigned
<1>7. NoCursor \notin Recorded
  BY <1>5, NoCursorIsNoRow
<1> QED
  BY <1>2, <1>5, <1>6, <1>7
  DEF IInv, HandedLiesBehind, PageLiesAhead, PassedIsHanded, PageClosesGap

LEMMA Invariant == Spec => []IInv
<1>1. IInv /\ [Next]_vars => IInv'
  <2> SUFFICES ASSUME IInv, [Next]_vars PROVE IInv'
    OBVIOUS
  <2>1. CASE UNCHANGED vars
    <3>1. UNCHANGED <<record, moved, unreadable, page, asked, walk, after_id, handed,
                      lost_lines, steady>>
      BY <2>1 DEF vars, node_vars, client_vars
    <3>2. Typed' /\ ChainIsSigned'
      BY <3>1 DEF IInv, Typed, ChainIsSigned, Recorded, Seen
    <3> QED
      BY <3>1, <3>2, NodeStep DEF IInv, Recorded, Seen
  <2> QED
    BY <2>1, InitiateKeeps, ReviseKeeps, CorruptKeeps, LandsKeeps, AnswerKeeps, LoseKeeps,
       StartKeeps, TakeKeeps DEF Next
<1> QED
  BY <1>1, InitIsFine, PTL DEF Spec

-----------------------------------------------------------------------------
(* The theorems                                                            *)

\* The record and the walk stay well typed, and a truncated page always carries
\* the row to resume from (SpendsListResult.cursor).
THEOREM TypeCorrect == Spec => []TypeOK
<1>1. IInv => TypeOK
  <2> SUFFICES ASSUME IInv PROVE TypeOK
    OBVIOUS
  <2>1. \A resp \in page : ~ resp.complete => resp.cursor \in resp.spends
    BY DEF IInv, PageLiesAhead
  <2>2. \A i \in DOMAIN record : record[i] \in AutomatedSpend
    BY DEF IInv, Typed, Recorded
  <2>3. moved \in SUBSET SpendId /\ unreadable \in SUBSET (SpendId \ DOMAIN record)
    BY DEF IInv, Typed, Seen, Recorded
  <2>4. /\ DOMAIN record \subseteq SpendId /\ steady \in SUBSET DOMAIN record
        /\ walk \in {"idle", "walking", "done"}
        /\ after_id \in SpendId \cup {NoCursor} /\ handed \in SUBSET SpendId
    BY DEF IInv, Typed, Recorded
  <2> QED
    BY <2>1, <2>2, <2>3, <2>4 DEF TypeOK
<1> QED
  BY <1>1, Invariant, PTL

\* A finished walk was handed every steady spend, or was told that entries could
\* not be read (audit_page, unreadable_lines).
THEOREM AuditIsComplete == Spec => []NothingMissedUntold
<1>1. IInv => NothingMissedUntold
  BY DEF IInv, PassedIsHanded, NothingMissedUntold
<1> QED
  BY <1>1, Invariant, PTL

\* No page repeats a spend, over ties, window edges and rows made meanwhile
\* (audit_page).
THEOREM AuditCountsOnce == Spec => []NoSpendTwice
<1>1. IInv => NoSpendTwice
  BY DEF IInv, PageLiesAhead, NoSpendTwice
<1> QED
  BY <1>1, Invariant, PTL

\* A failure whose outcome is not called unknown moved nothing, whatever the
\* network does later (SpendFailureStage::money_may_have_moved).
THEOREM RowsTellTheTruth == Spec => []SettledRowsAreTrue
<1>1. IInv => SettledRowsAreTrue
  BY DEF IInv, Typed, ChainIsSigned, SettledRowsAreTrue, AutomatedSpend, SpendOutcome,
         SpendFailureStage, Signed, outcome_is_unknown, money_may_have_moved, Recorded
<1> QED
  BY <1>1, Invariant, PTL
=============================================================================
