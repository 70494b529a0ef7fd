------------------------- MODULE ReservationsProofs -------------------------
(***************************************************************************)
(* The safety of the reservation table for any clients, coins, lifetimes   *)
(* and clock: its invariants are the conjuncts of IInv, which every action *)
(* preserves, and each of its steps is a step of ReservationContract apart *)
(* from the two the module names.                                          *)
(***************************************************************************)
EXTENDS Reservations, FiniteSetTheorems, TLAPS

\* Every handle in the table or in a client's memory was minted.
HandlesAreMinted ==
  /\ DOMAIN table \subseteq minted
  /\ \A c \in Client : handed[c] \subseteq minted
  /\ \A c \in Client : \A g \in grants[c] : g.id \in handed[c]

\* While no handle was returned twice, one client at most remembers a handle.
OneOwner ==
  ~reused => \A c, d \in Client : handed[c] \cap handed[d] # {} => c = d

IInv ==
  /\ TypeOK
  /\ LiveHoldsDisjoint
  /\ HoldsAreBounded
  /\ HandlesAreMinted
  /\ OneOwner
  /\ BackedUnlessReused

-----------------------------------------------------------------------------
(* The parameters of reserve                                               *)

\* The lifetime applied is a natural number within the node's maximum.
LEMMA AppliedTtl ==
  ASSUME NEW ttl \in AskedTtl \cup {NoTtl}
  PROVE  applied_ttl(ttl) \in 0 .. MOCK_MAX_TTL_SECS
BY ConstantsAssumption DEF applied_ttl, NoTtl

\* Normalising a request yields coins of the wallet.
LEMMA ValidatedCoins ==
  ASSUME NEW raws \in SUBSET RawId
  PROVE  validated(raws) \in SUBSET Coin
<1>1. \A raw \in raws : normalize_coin_id(raw) \subseteq Coin
  BY DEF normalize_coin_id, RawId
<1> QED BY <1>1 DEF validated

LEMMA NextHandleType == TypeOK => NextHandle \in Handle
BY FS_CardinalityType DEF TypeOK, NextHandle, Handle

-----------------------------------------------------------------------------
(* Type correctness                                                        *)

LEMMA InitType == Init => TypeOK
<1> SUFFICES ASSUME Init PROVE TypeOK
  OBVIOUS
<1>1. DOMAIN table = {}
  BY DEF Init
<1>2. IsFiniteSet(DOMAIN table)
  BY <1>1, FS_EmptySet
<1> QED BY <1>1, <1>2 DEF Init, TypeOK, NoReply, Answer, Reply, Outcome

LEMMA GrantType ==
  ASSUME TypeOK, NEW c \in Client, NEW raws \in SUBSET RawId,
         NEW ttl \in AskedTtl \cup {NoTtl}, ReserveGrant(c, raws, ttl)
  PROVE  TypeOK'
<1> DEFINE coins == validated(raws)
           id == NextHandle
           expires == now + applied_ttl(ttl)
           entry == [coins |-> coins, expires |-> expires]
<1>1. coins \in SUBSET Coin
  BY ValidatedCoins
<1>2. id \in Handle
  BY NextHandleType
<1>3. expires \in Nat
  BY AppliedTtl, ConstantsAssumption DEF TypeOK
<1>4. entry \in Entry
  BY <1>1, <1>3 DEF Entry
<1>5. table' = Inserted(id, entry)
  BY DEF ReserveGrant
<1>6. DOMAIN table' = DOMAIN table \cup {id}
  BY <1>5 DEF Inserted
<1>7. IsFiniteSet(DOMAIN table')
  BY <1>6, FS_AddElement DEF TypeOK
<1>8. table' \in [DOMAIN table' -> Entry]
  BY <1>4, <1>5, <1>6 DEF Inserted, TypeOK
<1>9. reply' \in Reply
  BY <1>1 DEF ReserveGrant, Answer, Reply, Outcome
<1>10. [id |-> id, coins |-> coins, expires |-> expires] \in Grant
  BY <1>1, <1>2, <1>3 DEF Grant
<1>11. grants' \in [Client -> SUBSET Grant]
  BY <1>10 DEF ReserveGrant, TypeOK
<1>12. handed' \in [Client -> SUBSET Handle]
  BY <1>2 DEF ReserveGrant, TypeOK
<1>13. minted' \in SUBSET Handle /\ mints' \in Nat /\ reused' \in BOOLEAN /\ now' \in Nat
  BY <1>2 DEF ReserveGrant, TypeOK
<1> QED BY <1>2, <1>6, <1>7, <1>8, <1>9, <1>11, <1>12, <1>13 DEF TypeOK

LEMMA ReleaseType ==
  ASSUME TypeOK, NEW c \in Client, Release(c)
  PROVE  TypeOK'
<1> PICK id \in handed[c] : ReleaseKnown(c, id) \/ ReleaseUnknown(c, id)
  BY DEF Release
<1>1. grants' \in [Client -> SUBSET Grant]
  BY DEF ReleaseKnown, ReleaseUnknown, TypeOK
<1>2. CASE ReleaseKnown(c, id)
  <2>1. DOMAIN table' = DOMAIN table \ {id}
    BY <1>2 DEF ReleaseKnown, Removed
  <2>2. IsFiniteSet(DOMAIN table')
    BY <2>1, FS_Subset DEF TypeOK
  <2>3. table' \in [DOMAIN table' -> Entry]
    BY <1>2, <2>1 DEF ReleaseKnown, Removed, TypeOK
  <2>4. reply' \in Reply
    BY <1>2 DEF ReleaseKnown, Answer, Reply, Outcome, TypeOK, Entry
  <2> QED BY <1>1, <1>2, <2>1, <2>2, <2>3, <2>4 DEF ReleaseKnown, TypeOK
<1>3. CASE ReleaseUnknown(c, id)
  BY <1>1, <1>3 DEF ReleaseUnknown, TypeOK, Answer, Reply, Outcome
<1> QED BY <1>2, <1>3

LEMMA NextType == TypeOK /\ [Next]_vars => TypeOK'
<1> SUFFICES ASSUME TypeOK, [Next]_vars PROVE TypeOK'
  OBVIOUS
<1>1. ASSUME NEW raws \in SUBSET RawId, ReserveMalformed(raws) PROVE TypeOK'
  BY <1>1 DEF ReserveMalformed, TypeOK, Answer, Reply, Outcome
<1>2. ASSUME NEW raws \in SUBSET RawId, ReserveClash(raws) PROVE TypeOK'
  BY <1>2, ValidatedCoins DEF ReserveClash, TypeOK, Answer, Reply, Outcome
<1>3. CASE Held
  <2>1. \A id \in DOMAIN table : table[id].coins \subseteq Coin
    BY DEF TypeOK, Entry
  <2>2. reply' \in Reply
    BY <1>3, <2>1 DEF Held, Answer, Reply, Outcome
  <2> QED BY <1>3, <2>2 DEF Held, TypeOK
<1>4. CASE Tick
  BY <1>4 DEF Tick, TypeOK, NoReply, Answer, Reply, Outcome
<1>5. ASSUME NEW c \in Client, Crash(c) PROVE TypeOK'
  BY <1>5 DEF Crash, TypeOK, NoReply, Answer, Reply, Outcome
<1>6. CASE UNCHANGED vars
  BY <1>6 DEF vars, TypeOK
<1> QED
  BY <1>1, <1>2, GrantType, ReleaseType, <1>3, <1>4, <1>5, <1>6
  DEF Next, Reserve, Requests

\* Type correctness: in particular every handle is a positive number and
\* every reply reports coins of the wallet.
THEOREM TypeCorrect == Spec => []TypeOK
<1> QED BY InitType, NextType, PTL DEF Spec

-----------------------------------------------------------------------------
(* The inductive invariant, action by action                               *)

LEMMA InitIInv == Init => IInv
<1> SUFFICES ASSUME Init PROVE IInv
  OBVIOUS
<1>1. DOMAIN table = {} /\ LiveIds = {}
  BY DEF Init, LiveIds
<1> QED
  BY <1>1, InitType
  DEF Init, IInv, LiveHoldsDisjoint, HoldsAreBounded, HandlesAreMinted, OneOwner,
      BackedUnlessReused

\* A step that leaves the table, the clock and the histories alone, and gives
\* clients no new grant or handle.
LEMMA QuietIInv ==
  ASSUME IInv, TypeOK',
         UNCHANGED <<table, now, minted, reused>>,
         \A c \in Client : grants'[c] \subseteq grants[c] /\ handed'[c] \subseteq handed[c],
         \A c \in Client : \A g \in grants'[c] : g.id \in handed'[c]
  PROVE  IInv'
<1>1. LiveIds' = LiveIds
  BY DEF LiveIds, Live
<1>2. LiveHoldsDisjoint' /\ HoldsAreBounded'
  BY <1>1 DEF IInv, LiveHoldsDisjoint, HoldsAreBounded
<1>3. HandlesAreMinted' /\ OneOwner'
  BY DEF IInv, HandlesAreMinted, OneOwner
<1>4. BackedUnlessReused'
  BY DEF IInv, BackedUnlessReused, HoldIsBacked
<1> QED BY <1>2, <1>3, <1>4 DEF IInv

\* A grant adds an entry whose coins no live reservation holds; when its handle
\* is new it overwrites nothing that anyone relies on.
LEMMA GrantIInv ==
  ASSUME IInv, NEW c \in Client, NEW raws \in SUBSET RawId,
         NEW ttl \in AskedTtl \cup {NoTtl}, ReserveGrant(c, raws, ttl)
  PROVE  IInv'
<1> DEFINE coins == validated(raws)
           id == NextHandle
           expires == now + applied_ttl(ttl)
           entry == [coins |-> coins, expires |-> expires]
           grant == [id |-> id, coins |-> coins, expires |-> expires]
<1>1. TypeOK /\ TypeOK'
  BY GrantType DEF IInv
<1>2. /\ id \in Handle
      /\ expires \in Nat
      /\ expires <= now + MOCK_MAX_TTL_SECS
  BY <1>1, NextHandleType, AppliedTtl, ConstantsAssumption DEF TypeOK
<1>3. /\ now' = now
      /\ DOMAIN table' = DOMAIN table \cup {id}
      /\ table'[id] = entry
      /\ \A i \in DOMAIN table : i # id => table'[i] = table[i]
  BY DEF ReserveGrant, Inserted
<1>4. \A i \in LiveIds' : i # id => i \in LiveIds /\ table'[i] = table[i]
  BY <1>3 DEF LiveIds, Live
<1>5. \A i \in LiveIds : table[i].coins \cap coins = {}
  BY DEF ReserveGrant, Clashes, HeldCoins
<1>6. LiveHoldsDisjoint'
  <2> SUFFICES ASSUME NEW i \in LiveIds', NEW j \in LiveIds', i # j
               PROVE  table'[i].coins \cap table'[j].coins = {}
    BY DEF LiveHoldsDisjoint
  <2>1. CASE i = id
    BY <2>1, <1>3, <1>4, <1>5
  <2>2. CASE j = id
    BY <2>2, <1>3, <1>4, <1>5
  <2>3. CASE i # id /\ j # id
    BY <2>3, <1>4 DEF IInv, LiveHoldsDisjoint
  <2> QED BY <2>1, <2>2, <2>3
<1>7. HoldsAreBounded'
  <2> SUFFICES ASSUME NEW i \in DOMAIN table'
               PROVE  table'[i].expires <= now' + MOCK_MAX_TTL_SECS
    BY DEF HoldsAreBounded
  <2>1. CASE i = id
    BY <2>1, <1>2, <1>3
  <2>2. CASE i # id
    BY <2>2, <1>3 DEF IInv, HoldsAreBounded
  <2> QED BY <2>1, <2>2
<1>8. /\ minted' = minted \cup {id}
      /\ handed'[c] = handed[c] \cup {id}
      /\ grants'[c] = grants[c] \cup {grant}
      /\ \A d \in Client \ {c} : handed'[d] = handed[d] /\ grants'[d] = grants[d]
  BY <1>1 DEF ReserveGrant, TypeOK
<1>9. HandlesAreMinted'
  <2>1. DOMAIN table' \subseteq minted'
    BY <1>3, <1>8 DEF IInv, HandlesAreMinted
  <2>2. ASSUME NEW d \in Client
        PROVE  handed'[d] \subseteq minted' /\ \A g \in grants'[d] : g.id \in handed'[d]
    BY <1>8 DEF IInv, HandlesAreMinted
  <2> QED BY <2>1, <2>2 DEF HandlesAreMinted
<1>10. ASSUME ~reused'
       PROVE  ~reused /\ id \notin minted
  BY <1>10 DEF ReserveGrant
<1>11. OneOwner'
  BY <1>8, <1>10 DEF OneOwner, IInv, HandlesAreMinted
<1>12. BackedUnlessReused'
  <2> SUFFICES ASSUME ~reused', NEW d \in Client, NEW g \in grants'[d], g.expires > now'
               PROVE  HoldIsBacked(g)'
    BY DEF BackedUnlessReused
  <2>1. CASE d = c /\ g = grant
    BY <2>1, <1>3 DEF HoldIsBacked
  <2>2. CASE ~(d = c /\ g = grant)
    <3>1. g \in grants[d]
      BY <2>2, <1>8
    <3>2. HoldIsBacked(g)
      BY <3>1, <1>3, <1>10 DEF IInv, BackedUnlessReused
    <3>3. g.id # id
      BY <3>1, <1>10 DEF IInv, HandlesAreMinted
    <3> QED BY <3>2, <3>3, <1>3 DEF HoldIsBacked
  <2> QED BY <2>1, <2>2
<1> QED BY <1>1, <1>6, <1>7, <1>9, <1>11, <1>12 DEF IInv

\* A release removes one entry and the grants of the only client that
\* remembers its handle.
LEMMA ReleaseIInv ==
  ASSUME IInv, NEW c \in Client, Release(c)
  PROVE  IInv'
<1> PICK id \in handed[c] : ReleaseKnown(c, id) \/ ReleaseUnknown(c, id)
  BY DEF Release
<1>1. TypeOK /\ TypeOK'
  BY ReleaseType DEF IInv
<1>2. /\ grants'[c] = {g \in grants[c] : g.id # id}
      /\ \A d \in Client \ {c} : grants'[d] = grants[d]
      /\ UNCHANGED <<now, handed, minted, reused>>
  BY <1>1 DEF ReleaseKnown, ReleaseUnknown, TypeOK
<1>3. CASE ReleaseUnknown(c, id)
  <2>1. table' = table
    BY <1>3 DEF ReleaseUnknown
  <2> QED BY <1>1, <1>2, <2>1, QuietIInv DEF IInv, HandlesAreMinted
<1>4. CASE ReleaseKnown(c, id)
  <2>1. /\ DOMAIN table' = DOMAIN table \ {id}
        /\ \A i \in DOMAIN table' : table'[i] = table[i]
    BY <1>4 DEF ReleaseKnown, Removed
  <2>2. LiveHoldsDisjoint' /\ HoldsAreBounded'
    BY <1>2, <2>1 DEF IInv, LiveHoldsDisjoint, HoldsAreBounded, LiveIds, Live
  <2>3. HandlesAreMinted' /\ OneOwner'
    BY <1>2, <2>1 DEF IInv, HandlesAreMinted, OneOwner
  <2>4. BackedUnlessReused'
    <3> SUFFICES ASSUME ~reused', NEW d \in Client, NEW g \in grants'[d], g.expires > now'
                 PROVE  HoldIsBacked(g)'
      BY DEF BackedUnlessReused
    <3>1. g \in grants[d] /\ HoldIsBacked(g)
      BY <1>2 DEF IInv, BackedUnlessReused
    <3>2. g.id # id
      BY <1>2, <3>1 DEF IInv, OneOwner, HandlesAreMinted
    <3> QED BY <2>1, <3>1, <3>2 DEF HoldIsBacked
  <2> QED BY <1>1, <2>2, <2>3, <2>4 DEF IInv
<1> QED BY <1>3, <1>4

\* Time only ever turns live holds into lapsed ones.
LEMMA TickIInv == IInv /\ Tick => IInv'
<1> SUFFICES ASSUME IInv, Tick PROVE IInv'
  OBVIOUS
<1>1. TypeOK /\ TypeOK'
  BY NextType DEF IInv, Next
<1>2. now' = now + 1 /\ UNCHANGED <<table, handed, minted, reused>>
  BY DEF Tick
<1>3. \A c \in Client : grants'[c] = {g \in grants[c] : g.expires > now'}
  BY DEF Tick
<1>4. \A i \in DOMAIN table : table[i].expires \in Nat
  BY <1>1 DEF TypeOK, Entry
<1>5. \A c \in Client : \A g \in grants[c] : g.expires \in Nat
  BY <1>1 DEF TypeOK, Grant
<1>6. LiveHoldsDisjoint'
  BY <1>1, <1>2, <1>4 DEF IInv, LiveHoldsDisjoint, LiveIds, Live, TypeOK
<1>7. HoldsAreBounded'
  BY <1>1, <1>2, <1>4, ConstantsAssumption DEF IInv, HoldsAreBounded, TypeOK
<1>8. HandlesAreMinted' /\ OneOwner'
  BY <1>2, <1>3 DEF IInv, HandlesAreMinted, OneOwner
<1>9. BackedUnlessReused'
  BY <1>1, <1>2, <1>3, <1>5 DEF IInv, BackedUnlessReused, HoldIsBacked, TypeOK
<1> QED BY <1>1, <1>6, <1>7, <1>8, <1>9 DEF IInv

LEMMA NextIInv == IInv /\ [Next]_vars => IInv'
<1> SUFFICES ASSUME IInv, [Next]_vars PROVE IInv'
  OBVIOUS
<1>1. TypeOK'
  BY NextType DEF IInv
<1>2. ASSUME NEW raws \in SUBSET RawId, ReserveMalformed(raws) \/ ReserveClash(raws)
      PROVE  IInv'
  BY <1>1, <1>2, QuietIInv DEF ReserveMalformed, ReserveClash, IInv, HandlesAreMinted
<1>3. CASE Held \/ UNCHANGED vars
  BY <1>1, <1>3, QuietIInv DEF Held, vars, IInv, HandlesAreMinted
<1>4. ASSUME NEW c \in Client, Crash(c) PROVE IInv'
  <2>1. \A d \in Client : grants'[d] \in {grants[d], {}} /\ handed'[d] \in {handed[d], {}}
    BY <1>4 DEF Crash, IInv, TypeOK
  <2>2. \A d \in Client : \A g \in grants'[d] : g.id \in handed'[d]
    BY <1>4 DEF Crash, IInv, TypeOK, HandlesAreMinted
  <2> QED BY <1>1, <1>4, <2>1, <2>2, QuietIInv DEF Crash
<1> QED
  BY <1>2, <1>3, <1>4, GrantIInv, ReleaseIInv, TickIInv DEF Next, Reserve, Requests

LEMMA Inductive == Spec => []IInv
<1> QED BY InitIInv, NextIInv, PTL DEF Spec

-----------------------------------------------------------------------------
(* What follows                                                            *)

\* No coin is ever in two live reservations: the clash test is enough whatever
\* the clients, the lifetimes and the order of calls, handle reuse included.
THEOREM NoDoubleHold == Spec => []LiveHoldsDisjoint
<1>1. IInv => LiveHoldsDisjoint
  BY DEF IInv
<1> QED BY <1>1, Inductive, PTL

\* No hold outlives the node's maximum lifetime.
THEOREM NoEndlessHold == Spec => []HoldsAreBounded
<1>1. IInv => HoldsAreBounded
  BY DEF IInv
<1> QED BY <1>1, Inductive, PTL

\* Until a handle is returned twice, every grant a client relies on is backed
\* by the table.
THEOREM GrantsAreBacked == Spec => []BackedUnlessReused
<1>1. IInv => BackedUnlessReused
  BY DEF IInv
<1> QED BY <1>1, Inductive, PTL

\* Until a handle is returned twice, no two grants that clients rely on share
\* a coin: both are backed by live entries, so they are one entry, whose
\* handle one client remembers.
THEOREM GrantsAreExclusive == Spec => []ExclusiveUnlessReused
<1>1. IInv => ExclusiveUnlessReused
  <2> SUFFICES ASSUME IInv, ~reused, NEW c \in Client, NEW d \in Client,
                      NEW g \in grants[c], NEW h \in grants[d],
                      g.expires > now, h.expires > now, g.coins \cap h.coins # {}
               PROVE  c = d /\ g = h
    BY DEF ExclusiveUnlessReused
  <2>1. HoldIsBacked(g) /\ HoldIsBacked(h)
    BY DEF IInv, BackedUnlessReused
  <2>2. g.id \in LiveIds /\ h.id \in LiveIds
    BY <2>1 DEF HoldIsBacked, LiveIds, Live
  <2>3. g.id = h.id
    BY <2>1, <2>2 DEF IInv, LiveHoldsDisjoint, HoldIsBacked
  <2>4. c = d
    BY <2>3 DEF IInv, HandlesAreMinted, OneOwner
  <2>5. g \in Grant /\ h \in Grant
    BY DEF IInv, TypeOK
  <2>6. g.coins = h.coins /\ g.expires = h.expires
    BY <2>1, <2>3 DEF HoldIsBacked
  <2>7. g = h
    BY <2>3, <2>5, <2>6 DEF Grant
  <2> QED BY <2>4, <2>7
<1> QED BY <1>1, Inductive, PTL

-----------------------------------------------------------------------------
(* The contract                                                            *)

Hold(i) == [id |-> i, coins |-> table[i].coins, expires |-> table[i].expires]
Holds == {Hold(i) : i \in DOMAIN table}

\* The coins the contract calls live are the coins the clash test looks at.
LEMMA SameLiveCoins == Contract!LiveCoins = HeldCoins
<1>1. Contract!Live = {Hold(i) : i \in LiveIds}
  BY DEF Contract!Live, LiveIds, Live, Hold
<1>2. \A i : Hold(i).coins = table[i].coins
  BY DEF Hold
<1>3. Contract!LiveCoins = UNION {h.coins : h \in {Hold(i) : i \in LiveIds}}
  BY <1>1 DEF Contract!LiveCoins
<1>4. ASSUME NEW k PROVE k \in Contract!LiveCoins <=> \E i \in LiveIds : k \in Hold(i).coins
  BY <1>3
<1>5. ASSUME NEW k PROVE k \in HeldCoins <=> \E i \in LiveIds : k \in table[i].coins
  BY DEF HeldCoins
<1> QED BY <1>2, <1>4, <1>5

\* A grant under a handle never minted before is the contract's Grant.
LEMMA GrantHonours ==
  ASSUME IInv, NEW c \in Client, NEW raws \in SUBSET RawId,
         NEW ttl \in AskedTtl \cup {NoTtl}, ReserveGrant(c, raws, ttl),
         NextHandle \notin minted
  PROVE  Contract!Grant
<1> DEFINE coins == validated(raws)
           id == NextHandle
           expires == now + applied_ttl(ttl)
           h == [id |-> id, coins |-> coins, expires |-> expires]
<1>1. /\ now' = now
      /\ minted' = minted \cup {id}
      /\ reply' = [outcome |-> "Granted", coins |-> coins]
      /\ coins \cap HeldCoins = {}
  BY DEF ReserveGrant, Answer, Clashes
<1>2. id \notin DOMAIN table
  BY DEF IInv, HandlesAreMinted
<1>3. /\ DOMAIN table' = DOMAIN table \cup {id}
      /\ table'[id] = [coins |-> coins, expires |-> expires]
      /\ \A i \in DOMAIN table : table'[i] = table[i]
  BY <1>2 DEF ReserveGrant, Inserted
<1>4. Holds' = Holds \cup {h}
  BY <1>3 DEF Holds, Hold
<1>5. h \notin Holds
  BY <1>2 DEF Holds, Hold
<1>6. expires \in now .. (now + MOCK_MAX_TTL_SECS)
  BY AppliedTtl, ConstantsAssumption DEF IInv, TypeOK
<1>7. /\ h \in Holds' \ Holds
      /\ h.id \notin minted
      /\ h.coins \cap Contract!LiveCoins = {}
      /\ h.expires \in now .. (now + MOCK_MAX_TTL_SECS)
      /\ minted' = minted \cup {h.id}
      /\ reply' = [outcome |-> "Granted", coins |-> h.coins]
  BY <1>1, <1>4, <1>5, <1>6, SameLiveCoins
<1> QED
  BY <1>1, <1>4, <1>7 DEF Contract!Grant, Contract!Replies, Holds, Hold

\* Releasing a live entry is the contract's Free, any other release that does
\* not report a lapsed entry freed is its FreeNothing.
LEMMA ReleaseHonours ==
  ASSUME IInv, NEW c \in Client, Release(c), ~ReleasesLapsed
  PROVE  Contract!Free \/ Contract!FreeNothing
<1> PICK id \in handed[c] : ReleaseKnown(c, id) \/ ReleaseUnknown(c, id)
  BY DEF Release
<1>1. CASE ReleaseUnknown(c, id)
  <2>1. Holds' = Holds
    BY <1>1 DEF ReleaseUnknown, Holds, Hold
  <2>2. Contract!Live \subseteq Holds
    BY DEF Contract!Live, Holds, Hold
  <2> QED
    BY <1>1, <2>1, <2>2
    DEF ReleaseUnknown, Answer, Contract!FreeNothing, Contract!Replies, Holds, Hold
<1>2. CASE ReleaseKnown(c, id)
  <2>1. /\ DOMAIN table' = DOMAIN table \ {id}
        /\ id \in DOMAIN table
        /\ \A i \in DOMAIN table' : table'[i] = table[i]
        /\ reply' = [outcome |-> "Released", coins |-> table[id].coins]
        /\ UNCHANGED <<now, minted>>
    BY <1>2 DEF ReleaseKnown, Removed, Answer
  <2>2. Live(id)
    BY <2>1 DEF ReleasesLapsed
  <2>3. Hold(id) \in Contract!Live
    BY <2>1, <2>2 DEF Contract!Live, Live, Hold
  <2>4. Holds' = Holds \ {Hold(id)}
    BY <2>1 DEF Holds, Hold
  <2>5. reply' = [outcome |-> "Released", coins |-> Hold(id).coins]
    BY <2>1 DEF Hold
  <2> QED
    BY <2>1, <2>3, <2>4, <2>5 DEF Contract!Free, Contract!Replies, Holds, Hold
<1> QED BY <1>1, <1>2

\* The two refusals, the read and the environment map to the contract's own.
LEMMA QuietHonours ==
  ASSUME IInv,
         \/ \E raws \in SUBSET RawId : ReserveMalformed(raws) \/ ReserveClash(raws)
         \/ Held
         \/ Tick
         \/ \E c \in Client : Crash(c)
  PROVE  Contract!Refuse \/ Contract!Held \/ Contract!Environment
<1>1. ASSUME NEW raws \in SUBSET RawId, ReserveMalformed(raws)
      PROVE  Contract!Refuse
  BY <1>1 DEF ReserveMalformed, Answer, Contract!Refuse, Contract!Replies
<1>2. ASSUME NEW raws \in SUBSET RawId, ReserveClash(raws)
      PROVE  Contract!Refuse
  <2>1. reply' = [outcome |-> "WalletCoinsReserved", coins |-> validated(raws)]
    BY <1>2 DEF ReserveClash, Answer
  <2>2. reply'.coins \cap Contract!LiveCoins # {}
    BY <1>2, <2>1, SameLiveCoins DEF ReserveClash, Clashes
  <2> QED BY <1>2, <2>1, <2>2 DEF ReserveClash, Contract!Refuse, Contract!Replies
<1>3. CASE Held
  <2>1. reply' = [outcome |-> "Held", coins |-> HeldCoins]
    BY <1>3 DEF Held, Answer, HeldCoins, LiveIds, Live
  <2> QED BY <1>3, <2>1, SameLiveCoins DEF Held, Contract!Held, Contract!Replies
<1>4. CASE Tick
  BY <1>4 DEF Tick, NoReply, Answer, IInv, TypeOK, Contract!Environment, Contract!Replies
<1>5. ASSUME NEW c \in Client, Crash(c)
      PROVE  Contract!Environment
  BY <1>5 DEF Crash, NoReply, Answer, IInv, TypeOK, Contract!Environment, Contract!Replies
<1> QED BY <1>1, <1>2, <1>3, <1>4, <1>5

\* The handlers implement the contract, except where they mint a handle again
\* or report a lapsed entry freed.
THEOREM TableHonoursContract == Spec => HonoursContract
<1>1. Init => Contract!Init
  BY DEF Init, Contract!Init
<1>2. IInv /\ [Next]_vars => [ReusesHandle \/ ReleasesLapsed \/ Contract!Next]_vars
  <2> SUFFICES ASSUME IInv, Next, ~ReusesHandle, ~ReleasesLapsed
               PROVE  Contract!Next
    OBVIOUS
  <2>1. ASSUME NEW c \in Client, NEW raws \in SUBSET RawId,
               NEW ttl \in AskedTtl \cup {NoTtl}, ReserveGrant(c, raws, ttl)
        PROVE  Contract!Grant
    <3>1. reply'.outcome = "Granted"
      BY <2>1 DEF ReserveGrant, Answer
    <3> QED BY <2>1, <3>1, GrantHonours DEF ReusesHandle
  <2> QED
    BY <2>1, ReleaseHonours, QuietHonours DEF Next, Reserve, Requests, Contract!Next
<1> QED BY <1>1, <1>2, Inductive, PTL DEF Spec, HonoursContract
=============================================================================
