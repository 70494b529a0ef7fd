------------------------------- MODULE CoinWalk -------------------------------
(***************************************************************************)
(* A client walks control.wallet.coins (or .coinsByParent) page by page    *)
(* while the coin set changes under it: coins are spent and arrive between *)
(* two pages.  The pages are those of the repository's reference node      *)
(* (MockNode in src/src/kats.rs); the walk is the one its tests and docs   *)
(* describe: resume from the cursor until a page says it is complete.      *)
(*                                                                         *)
(* Coin ids compare like numbers; zero stands for no cursor.  A node from  *)
(* before the read was paged ignores the cursor and the limit and says     *)
(* nothing of completeness.                                                *)
(***************************************************************************)
EXTENDS Integers, FiniteSets

CONSTANTS
  CoinId,           \* the ids coins can have
  Limit,            \* the page sizes clients ask for
  COINS_MAX_LIMIT   \* the largest page accepted

ASSUME ConstantsAssumption ==
  /\ CoinId \subseteq Nat \ {0}
  /\ IsFiniteSet(CoinId)
  /\ Limit \subseteq Nat
  /\ COINS_MAX_LIMIT \in Nat

VARIABLES
  coins,    \* the coins the node knows of
  paged,    \* FALSE: a node that predates paging
  reply,    \* the response on its way to the client, if any
  walk,     \* "idle", "walking" or "done"
  after,    \* the cursor the client resumes from
  seen,     \* the coins of the pages it has read
  stayed    \* history: the coins present throughout the walk

vars == <<coins, paged, reply, walk, after, seen, stayed>>

NoCursor == 0
Completeness == {"complete", "truncated", "undisclosed"}
Response == [coins : SUBSET CoinId, complete : Completeness, cursor : CoinId \cup {NoCursor}]

-----------------------------------------------------------------------------
(* One page                                                                *)

\* Mutated form: the lower bound of the page size is forgotten.
is_legal_page_zero(limit) == limit <= COINS_MAX_LIMIT

is_legal_page(limit) == limit \in 1..COINS_MAX_LIMIT

\* Mutated form: the row the cursor names is served again.
Remaining_inclusive(cursor) == {x \in coins : x >= cursor}

\* skip_while: the rows strictly after the cursor.
Remaining(cursor) == {x \in coins : x > cursor}

\* take: the first rows, in ascending order.
Page(rows, limit) == {x \in rows : Cardinality({y \in rows : y < x}) < limit}

\* Mutated form: a page that filled is the last one if it is exactly full.
Complete_by_length(rows, limit) ==
  Cardinality(Page(rows, limit)) = limit \/ Cardinality(rows) < limit

\* Derived from a row fetched beyond the page.
Complete(rows, limit) == Cardinality(rows) <= limit

IsCursor(page, cursor) ==
  IF page = {} THEN cursor = NoCursor
  ELSE cursor \in page /\ \A x \in page : x <= cursor

-----------------------------------------------------------------------------
Init ==
  /\ coins \in SUBSET CoinId
  /\ paged \in BOOLEAN
  /\ reply = {}
  /\ walk = "idle"
  /\ after = NoCursor
  /\ seen = {}
  /\ stayed = {}

(* The node                                                                *)

wallet_coins(limit) ==
  LET rows == Remaining(after)
      page == Page(rows, limit)
  IN
  /\ paged
  /\ is_legal_page(limit)
  /\ \E cursor \in CoinId \cup {NoCursor} :
       /\ IsCursor(page, cursor)
       /\ reply' = {[coins |-> page,
                     complete |-> IF Complete(rows, limit) THEN "complete" ELSE "truncated",
                     cursor |-> cursor]}

\* Served whole by a node from before 0.25.
wallet_coins_unpaged ==
  /\ ~paged
  /\ reply' = {[coins |-> coins, complete |-> "undisclosed", cursor |-> NoCursor]}

\* An illegal page size is refused and the client is where it was.
Answer ==
  /\ walk = "walking"
  /\ reply = {}
  /\ \/ \E limit \in Limit : wallet_coins(limit)
     \/ wallet_coins_unpaged
  /\ UNCHANGED <<coins, paged, walk, after, seen, stayed>>

\* The node is replaced by one that pages, or by one that does not.
Upgrade ==
  /\ paged' = ~paged
  /\ UNCHANGED <<coins, reply, walk, after, seen, stayed>>

CoinSpent ==
  /\ \E x \in coins : coins' = coins \ {x}
  /\ stayed' = stayed \cap coins'
  /\ UNCHANGED <<paged, reply, walk, after, seen>>

CoinArrives ==
  /\ \E x \in CoinId \ coins : coins' = coins \cup {x}
  /\ UNCHANGED <<paged, reply, walk, after, seen, stayed>>

(* The client                                                              *)

first_page ==
  /\ walk = "idle"
  /\ walk' = "walking"
  /\ stayed' = coins
  /\ UNCHANGED <<coins, paged, reply, after, seen>>

\* Mutated form: only a page that says it is complete ends the walk.
Ends_stated(resp) == resp.complete = "complete"

\* Only a page that says it was truncated is resumed from.
Ends(resp) == resp.complete # "truncated"

Take(resp) ==
  /\ seen' = seen \cup resp.coins
  /\ after' = resp.cursor
  /\ walk' = IF Ends(resp) THEN "done" ELSE "walking"
  /\ reply' = {}
  /\ UNCHANGED <<coins, paged, stayed>>

TakeReply == \E resp \in reply : Take(resp)

Lose ==
  /\ reply # {}
  /\ reply' = {}
  /\ UNCHANGED <<coins, paged, walk, after, seen, stayed>>

Next ==
  \/ first_page \/ Answer \/ TakeReply \/ Lose
  \/ CoinSpent \/ CoinArrives \/ Upgrade

Spec == Init /\ [][Next]_vars

\* The node answers and the client reads; the transport delivers again and
\* again, not always.  Coins may come and go forever.
FairSpec == Spec /\ WF_vars(first_page) /\ WF_vars(Answer) /\ SF_vars(TakeReply)

-----------------------------------------------------------------------------
(* Properties                                                              *)

TypeOK ==
  /\ coins \in SUBSET CoinId
  /\ paged \in BOOLEAN
  /\ reply \in SUBSET Response
  /\ \A resp \in reply : resp.complete = "truncated" => resp.cursor \in resp.coins
  /\ walk \in {"idle", "walking", "done"}
  /\ after \in CoinId \cup {NoCursor}
  /\ seen \in SUBSET CoinId
  /\ stayed \in SUBSET coins

\* A finished walk saw every coin that was there from its start to its end,
\* whatever was spent or arrived between its pages and whatever page sizes it
\* asked for: no coin is withheld from a spend or a balance.
NothingMissed == walk = "done" => stayed \subseteq seen

\* No page of a walk hands out a coin again: a client that adds up what it reads
\* counts no coin double.  A node that predates paging hands out everything.
NoCoinTwice ==
  walk = "walking" => \A resp \in reply :
    resp.complete # "undisclosed" => resp.coins \cap seen = {}

\* A walk is always resumed further on: no page sends it back or keeps it where
\* it was.
CursorAdvances == [][walk' = "walking" /\ walk = "walking" /\ after' # after => after' > after]_vars

\* Every walk ends, even while coins come and go without end.
WalkEnds == walk = "walking" ~> walk = "done"
=============================================================================
