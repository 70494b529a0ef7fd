------------------------------ MODULE SpendWalk ------------------------------
(***************************************************************************)
(* A client reads the audit record of automated spends                     *)
(* (control.spends.list) page by page, newest first, while the node makes  *)
(* more spends and learns how earlier ones ended.  The pages are those of  *)
(* the repository's reference reader (audit_page in src/src/kats.rs); what *)
(* a row says of the money is what SpendOutcome and SpendFailureStage say  *)
(* of it (src/src/results.rs).                                             *)
(*                                                                         *)
(* Ids compare like the strings they stand for; zero stands for no cursor. *)
(* A client may cut the time line in two windows and read one after the    *)
(* other.                                                                  *)
(***************************************************************************)
EXTENDS Integers, FiniteSets

CONSTANTS
  SpendId,                \* the audit ids
  Instant,                \* the milliseconds spends are initiated in
  Edge,                   \* the instants clients cut the time line at
  Status,                 \* the outcome tokens clients filter on
  Limit,                  \* the page sizes clients ask for
  SPENDS_LIST_MAX_LIMIT,  \* the largest page served
  MaxRevisions,           \* bound: revisions written in one behaviour
  MaxUnreadable           \* bound: spends whose entries get corrupted

ASSUME ConstantsAssumption ==
  /\ SpendId \subseteq Nat \ {0} /\ IsFiniteSet(SpendId)
  /\ Instant \subseteq Nat /\ Edge \subseteq Nat
  /\ SPENDS_LIST_MAX_LIMIT \in Nat

VARIABLES
  record,      \* id -> the highest revision of the spend the node holds
  moved,       \* chain: the spends whose money has left the wallet
  unreadable,  \* the spends whose entries the node cannot parse
  revisions,   \* revisions written so far
  asked,       \* the filters of the walk
  page,        \* the response on its way to the client, if any
  walk,        \* "idle", "walking" or "done"
  after_id,    \* the id the client resumes from
  handed,      \* the rows it was handed, over all windows
  lost_lines,  \* whether a page told it of unreadable entries
  steady       \* history: the spends that matched throughout the walk

node_vars == <<record, moved, unreadable, revisions>>
client_vars == <<asked, walk, after_id, handed, lost_lines, steady>>
vars == <<node_vars, page, client_vars>>

NoCursor == 0
Any == "any"
Never == -1

-----------------------------------------------------------------------------
(* Rows                                                                    *)

SpendFailureStage == {"signing", "broadcast", "confirmation"}

SpendOutcome ==
  [state : {"pending", "submitted", "confirmed", "unresolved"}]
    \cup [state : {"failed"}, stage : SpendFailureStage]

AutomatedSpend == [initiated_ms : Instant, status : SpendOutcome]

\* Mutated form: a bundle the mempool turned away is taken for gone.
money_may_have_moved_broadcast(stage) == stage = "confirmation"

\* Only a spend that was never signed cannot have reached the network.
money_may_have_moved(stage) == stage # "signing"

outcome_is_unknown(outcome) ==
  \/ outcome.state = "unresolved"
  \/ outcome.state = "failed" /\ money_may_have_moved(outcome.stage)

\* What the node next learns of a spend, written as a revision.
Learns(outcome) ==
  CASE outcome.state = "pending" ->
         [state : {"submitted", "unresolved"}]
           \cup [state : {"failed"}, stage : {"signing", "broadcast"}]
    [] outcome.state = "submitted" ->
         [state : {"confirmed", "unresolved"}]
           \cup [state : {"failed"}, stage : {"confirmation"}]
    [] OTHER -> {}

\* Whether a signed bundle exists, so that the network may include it.
Signed(outcome) ==
  outcome.state # "pending" /\ ~(outcome.state = "failed" /\ outcome.stage = "signing")

\* Newest first, ties by ascending id.
Before(i, j) ==
  \/ record[i].initiated_ms > record[j].initiated_ms
  \/ record[i].initiated_ms = record[j].initiated_ms /\ i < j

-----------------------------------------------------------------------------
(* One page                                                                *)

\* Mutated form: the upper bound of a window is part of it.
InWindow_closed(i) ==
  /\ asked.since_ms # Never => record[i].initiated_ms >= asked.since_ms
  /\ asked.until_ms # Never => record[i].initiated_ms <= asked.until_ms

\* Half open: since_ms is part of the window, until_ms is not.
InWindow(i) ==
  /\ asked.since_ms # Never => record[i].initiated_ms >= asked.since_ms
  /\ asked.until_ms # Never => record[i].initiated_ms < asked.until_ms

Matching ==
  {i \in DOMAIN record :
     InWindow(i) /\ asked.status \in {Any, record[i].status.state}}

\* Mutated form: the walk resumes at an instant and not at a row.
Remaining_by_time ==
  IF after_id \in DOMAIN record
  THEN {i \in Matching : record[i].initiated_ms < record[after_id].initiated_ms}
  ELSE IF after_id = NoCursor THEN Matching ELSE {}

\* The rows after the cursor's own; none if the cursor matches no more.
Remaining ==
  IF after_id = NoCursor THEN Matching
  ELSE {i \in Matching : after_id \in Matching /\ Before(after_id, i)}

\* Mutated form: any page size up to the cap.
validated_zero(limit) == limit <= SPENDS_LIST_MAX_LIMIT

validated(limit) == limit \in 1..SPENDS_LIST_MAX_LIMIT

First(rows, limit) == {i \in rows : Cardinality({j \in rows : Before(j, i)}) < limit}

\* The last row handed over, or nothing to resume from.
IsCursor(rows, cursor) ==
  IF rows = {} THEN cursor = NoCursor
  ELSE cursor \in rows /\ \A i \in rows : ~Before(cursor, i)

\* Mutated form: corruption is kept to the node's log.
unreadable_lines_hidden == 0

unreadable_lines == Cardinality(unreadable)

audit_page(limit) ==
  LET rows == Remaining IN
  /\ validated(limit)
  /\ \E cursor \in SpendId \cup {NoCursor} :
       /\ IsCursor(First(rows, limit), cursor)
       /\ page' = {[spends |-> First(rows, limit), cursor |-> cursor,
                    complete |-> Cardinality(rows) <= limit,
                    unreadable_lines |-> unreadable_lines]}

-----------------------------------------------------------------------------
Init ==
  /\ \E ids \in SUBSET SpendId :
       record \in [ids -> [initiated_ms : Instant, status : [state : {"submitted"}]]]
  /\ moved = {}
  /\ unreadable = {}
  /\ revisions = 0
  /\ asked = [since_ms |-> Never, until_ms |-> Never, status |-> Any]
  /\ page = {}
  /\ walk = "idle"
  /\ after_id = NoCursor
  /\ handed = {}
  /\ lost_lines = FALSE
  /\ steady = {}

(* The node                                                                *)

\* A row written before the producer may sign.
Initiate ==
  \E i \in SpendId \ (DOMAIN record \cup unreadable), t \in Instant :
    /\ record' = [j \in DOMAIN record \cup {i} |->
                    IF j = i THEN [initiated_ms |-> t, status |-> [state |-> "pending"]]
                    ELSE record[j]]
    /\ UNCHANGED <<moved, unreadable, revisions, page, client_vars>>

Revise ==
  /\ revisions < MaxRevisions
  /\ \E i \in DOMAIN record : \E outcome \in Learns(record[i].status) :
       /\ outcome.state = "confirmed" => i \in moved
       /\ record' = [record EXCEPT ![i].status = outcome]
  /\ revisions' = revisions + 1
  /\ steady' = {i \in steady : asked.status \in {Any, record'[i].status.state}}
  /\ UNCHANGED <<moved, unreadable, page, asked, walk, after_id, handed, lost_lines>>

Corrupt ==
  /\ Cardinality(unreadable) < MaxUnreadable
  /\ \E i \in DOMAIN record :
       /\ record' = [j \in DOMAIN record \ {i} |-> record[j]]
       /\ unreadable' = unreadable \cup {i}
       /\ steady' = steady \ {i}
  /\ UNCHANGED <<moved, revisions, page, asked, walk, after_id, handed, lost_lines>>

\* The network includes a bundle, whatever this node saw of it.
Lands ==
  /\ \E i \in DOMAIN record \ moved :
       /\ Signed(record[i].status)
       /\ moved' = moved \cup {i}
  /\ UNCHANGED <<record, unreadable, revisions, page, client_vars>>

Answer ==
  /\ walk = "walking"
  /\ page = {}
  /\ \E limit \in Limit : audit_page(limit)
  /\ UNCHANGED <<node_vars, client_vars>>

(* The client                                                              *)

\* The whole time line, or the part from an edge on first.
Start ==
  /\ walk = "idle"
  /\ walk' = "walking"
  /\ \E edge \in Edge \cup {Never}, token \in Status \cup {Any} :
       /\ asked' = [since_ms |-> edge, until_ms |-> Never, status |-> token]
       /\ steady' = {i \in DOMAIN record : token \in {Any, record[i].status.state}}
  /\ UNCHANGED <<node_vars, page, after_id, handed, lost_lines>>

\* A window read to its end gives way to the one before it.
NextWindow(resp) ==
  IF resp.complete /\ asked.since_ms # Never
  THEN [asked EXCEPT !.since_ms = Never, !.until_ms = asked.since_ms]
  ELSE asked

Take ==
  \E resp \in page :
    /\ page' = {}
    /\ handed' = handed \cup resp.spends
    /\ lost_lines' = (lost_lines \/ resp.unreadable_lines > 0)
    /\ asked' = NextWindow(resp)
    /\ after_id' = IF resp.complete THEN NoCursor ELSE resp.cursor
    /\ walk' = IF resp.complete /\ asked.since_ms = Never THEN "done" ELSE "walking"
    /\ UNCHANGED <<node_vars, steady>>

Lose ==
  /\ page # {}
  /\ page' = {}
  /\ UNCHANGED <<node_vars, client_vars>>

Next ==
  \/ Initiate \/ Revise \/ Corrupt \/ Lands
  \/ Answer \/ Lose
  \/ Start \/ Take

Spec == Init /\ [][Next]_vars

\* The node answers, and answers arrive if they are sent often enough.
FairSpec == Spec /\ WF_vars(Start) /\ WF_vars(Answer) /\ SF_vars(Take)

-----------------------------------------------------------------------------
(* Properties                                                              *)

TypeOK ==
  /\ DOMAIN record \subseteq SpendId
  /\ \A i \in DOMAIN record : record[i] \in AutomatedSpend
  /\ moved \in SUBSET SpendId
  /\ unreadable \in SUBSET (SpendId \ DOMAIN record)
  /\ \A resp \in page : ~resp.complete => resp.cursor \in resp.spends
  /\ walk \in {"idle", "walking", "done"}
  /\ after_id \in SpendId \cup {NoCursor}
  /\ handed \in SUBSET SpendId
  /\ steady \in SUBSET DOMAIN record

\* A finished walk was handed every spend that was in the record and matched
\* from its start to its end, ties and window edges included, or was told that
\* entries could not be read: no spend vanishes from an audit untold.  A walk
\* filtered by outcome is the exception: a row whose outcome changes leaves the
\* filter, the cursor that names it names no position, and the walk ends early.
NothingMissedUntold ==
  walk = "done" /\ asked.status = Any => steady \subseteq handed \/ lost_lines

\* No row of a page was handed over before, by an earlier page or by the
\* neighbouring window: spends added up over windows are counted once.
NoSpendTwice == \A resp \in page : walk = "walking" => resp.spends \cap handed = {}

\* What a row states as settled stays true of the money, even if a bundle this
\* node saw rejected reaches the chain by another route: a failure that is not
\* of unknown outcome moved nothing, a confirmation moved it.
SettledRowsAreTrue ==
  \A i \in DOMAIN record :
    LET outcome == record[i].status IN
    /\ outcome.state = "failed" /\ ~outcome_is_unknown(outcome) => i \notin moved
    /\ outcome.state = "confirmed" => i \in moved

\* Every walk ends, however many spends the node goes on to make.
WalkEnds == walk = "walking" ~> walk = "done"
=============================================================================
