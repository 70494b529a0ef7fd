---------------------------- MODULE Reservations ----------------------------
(***************************************************************************)
(* The coin-reservation table behind control.wallet.reservations.held /    *)
(* .reserve / .release, as the repository's reference node (MockNode in    *)
(* src/src/kats.rs) keeps it: a map from a minted handle to the coins it   *)
(* holds and the instant the hold lapses.  Each handler runs inside one    *)
(* exclusive borrow of the table, so each is one action.                   *)
(*                                                                         *)
(* The table is shared by several processes using one wallet; a process    *)
(* may crash and forget the handles it was given, and may repeat a release *)
(* whose answer it lost.                                                   *)
(***************************************************************************)
EXTENDS Integers, FiniteSets

CONSTANTS
  Client,                 \* processes sharing the node's table
  Coin,                   \* coins of the wallet
  AskedTtl,               \* lifetimes, in ticks, that callers name
  MOCK_MAX_TTL_SECS,      \* longest hold the node grants
  MOCK_DEFAULT_TTL_SECS,  \* the hold granted when no lifetime is named
  ClockRuns,              \* FALSE: the clock is pinned, as in the test build
  Horizon,                \* bound: last instant of the model
  MaxIds,                 \* bound: coin ids named in one request
  MaxMints                \* bound: reservations granted in one behaviour

NoTtl == -1  \* ttl_secs: None

ASSUME ConstantsAssumption ==
  /\ AskedTtl \subseteq Nat
  /\ MOCK_MAX_TTL_SECS \in Nat
  /\ MOCK_DEFAULT_TTL_SECS \in Nat
  /\ ClockRuns \in BOOLEAN
  /\ Horizon \in Nat
  /\ MaxIds \in Nat
  /\ MaxMints \in Nat

VARIABLES
  table,   \* RESERVATIONS: handle -> [coins, expires]
  now,     \* the node's clock, counted from MOCK_NOW_UNIX
  reply,   \* what the last call answered
  grants,  \* per client: the unlapsed holds it was granted and relies on
  handed,  \* per client: every handle it still remembers
  minted,  \* history: every handle the node ever returned
  mints,   \* history: how many reservations were granted
  reused   \* history: some handle was returned twice

vars == <<table, now, reply, grants, handed, minted, mints, reused>>

Handle == Nat \ {0}                      \* "mock-res-{n}"
Entry == [coins : SUBSET Coin, expires : Nat]
Grant == [id : Handle, coins : SUBSET Coin, expires : Nat]
Outcome == {"None", "Granted", "InvalidParams", "WalletCoinsReserved",
            "Released", "NothingReleased", "Held"}
Reply == [outcome : Outcome, coins : SUBSET Coin]

Answer(outcome, coins) == [outcome |-> outcome, coins |-> coins]
NoReply == Answer("None", {})

-----------------------------------------------------------------------------
(* Parameters                                                              *)

\* A submitted coin id: which coin it names and how it is spelled.
Spelling == {"bare", "prefixed", "malformed"}
RawId == Coin \X Spelling

\* A 0x prefix is tolerated and dropped; any other spelling names no coin.
normalize_coin_id(raw) == IF raw[2] = "malformed" THEN {} ELSE {raw[1]}

\* One malformed id refuses the whole request, on decode and in validated().
well_formed(raws) == \A raw \in raws : normalize_coin_id(raw) # {}
validated(raws) == UNION {normalize_coin_id(raw) : raw \in raws}

\* Mutated form: the clamp is forgotten.
applied_ttl_unclamped(ttl) == IF ttl = NoTtl THEN MOCK_DEFAULT_TTL_SECS ELSE ttl

applied_ttl(ttl) ==
  LET asked == IF ttl = NoTtl THEN MOCK_DEFAULT_TTL_SECS ELSE ttl
  IN  IF asked <= MOCK_MAX_TTL_SECS THEN asked ELSE MOCK_MAX_TTL_SECS

-----------------------------------------------------------------------------
(* The table                                                               *)

Live(id) == table[id].expires > now
\* Mutated form: a hold counts as lapsed one tick early.
LiveIds_early == {id \in DOMAIN table : table[id].expires > now + 1}

LiveIds == {id \in DOMAIN table : Live(id)}
HeldCoins == UNION {table[id].coins : id \in LiveIds}

\* Mutated form: the handle counts from zero.
NextHandle_zero == Cardinality(DOMAIN table)

\* A handle is spelled from the table's size, not from a counter.
NextHandle == Cardinality(DOMAIN table) + 1

Inserted(id, entry) ==
  [i \in DOMAIN table \cup {id} |-> IF i = id THEN entry ELSE table[i]]
\* Mutated form: a release drops every entry from the handle on.
Removed_tail(id) == [i \in {j \in DOMAIN table : j < id} |-> table[i]]

Removed(id) == [i \in DOMAIN table \ {id} |-> table[i]]

Init ==
  /\ table = [i \in {} |-> 0]
  /\ now = 0
  /\ reply = NoReply
  /\ grants = [c \in Client |-> {}]
  /\ handed = [c \in Client |-> {}]
  /\ minted = {}
  /\ mints = 0
  /\ reused = FALSE

-----------------------------------------------------------------------------
(* control.wallet.reservations.reserve                                     *)

ReserveMalformed(raws) ==
  /\ ~well_formed(raws)
  /\ reply' = Answer("InvalidParams", {})
  /\ UNCHANGED <<table, now, grants, handed, minted, mints, reused>>

\* Mutated form: only a request for nothing but held coins clashes.
Clashes_all(coins) == coins # {} /\ coins \subseteq HeldCoins

Clashes(coins) == coins \cap HeldCoins # {}

ReserveClash(raws) ==
  /\ well_formed(raws)
  /\ Clashes(validated(raws))
  /\ reply' = Answer("WalletCoinsReserved", validated(raws))
  /\ UNCHANGED <<table, now, grants, handed, minted, mints, reused>>

ReserveGrant(c, raws, ttl) ==
  LET coins == validated(raws)
      id == NextHandle
      expires == now + applied_ttl(ttl)
  IN
  /\ well_formed(raws)
  /\ ~Clashes(coins)
  /\ mints < MaxMints
  /\ now + MOCK_MAX_TTL_SECS <= Horizon
  /\ table' = Inserted(id, [coins |-> coins, expires |-> expires])
  /\ reply' = Answer("Granted", coins)
  /\ grants' = [grants EXCEPT
       ![c] = @ \cup {[id |-> id, coins |-> coins, expires |-> expires]}]
  /\ handed' = [handed EXCEPT ![c] = @ \cup {id}]
  /\ minted' = minted \cup {id}
  /\ mints' = mints + 1
  /\ reused' = (reused \/ id \in minted)
  /\ UNCHANGED now

(* control.wallet.reservations.release: the entry is removed by its handle  *)
(* alone, lapsed or not.                                                   *)

ReleaseKnown(c, id) ==
  /\ id \in handed[c]
  /\ id \in DOMAIN table
  /\ table' = Removed(id)
  /\ reply' = Answer("Released", table[id].coins)
  /\ grants' = [grants EXCEPT ![c] = {g \in @ : g.id # id}]
  /\ UNCHANGED <<now, handed, minted, mints, reused>>

ReleaseUnknown(c, id) ==
  /\ id \in handed[c]
  /\ id \notin DOMAIN table
  /\ reply' = Answer("NothingReleased", {})
  /\ grants' = [grants EXCEPT ![c] = {g \in @ : g.id # id}]
  /\ UNCHANGED <<table, now, handed, minted, mints, reused>>

(* control.wallet.reservations.held                                        *)

\* Mutated form: lapsed entries are listed as well.
Held_lapsed ==
  /\ reply' = Answer("Held", UNION {table[id].coins : id \in DOMAIN table})
  /\ UNCHANGED <<table, now, grants, handed, minted, mints, reused>>

Held ==
  /\ reply' = Answer("Held",
       UNION {table[id].coins : id \in {i \in DOMAIN table : table[i].expires > now}})
  /\ UNCHANGED <<table, now, grants, handed, minted, mints, reused>>

-----------------------------------------------------------------------------
(* The environment                                                         *)

Tick ==
  /\ ClockRuns
  /\ now < Horizon
  /\ now' = now + 1
  /\ grants' = [c \in Client |-> {g \in grants[c] : g.expires > now'}]
  /\ reply' = NoReply
  /\ UNCHANGED <<table, handed, minted, mints, reused>>

\* A client process dies and forgets its handles; the node is not told.
Crash(c) ==
  /\ handed[c] # {}
  /\ grants' = [grants EXCEPT ![c] = {}]
  /\ handed' = [handed EXCEPT ![c] = {}]
  /\ reply' = NoReply
  /\ UNCHANGED <<table, now, minted, mints, reused>>

\* The ids one request may name; a coin may be named twice, spelled two ways.
Requests == {raws \in SUBSET RawId : Cardinality(raws) <= MaxIds}

Reserve ==
  \E raws \in Requests :
    \/ ReserveMalformed(raws)
    \/ ReserveClash(raws)
    \/ \E c \in Client, ttl \in AskedTtl \cup {NoTtl} : ReserveGrant(c, raws, ttl)

Release(c) == \E id \in handed[c] : ReleaseKnown(c, id) \/ ReleaseUnknown(c, id)

Next ==
  \/ Reserve
  \/ \E c \in Client : Release(c) \/ Crash(c)
  \/ Held
  \/ Tick

Spec == Init /\ [][Next]_vars

\* Time passes whatever the clients do; nothing else is promised to happen.
FairSpec == Spec /\ WF_vars(Tick)

-----------------------------------------------------------------------------
(* Properties                                                              *)

TypeOK ==
  /\ DOMAIN table \subseteq Handle
  /\ IsFiniteSet(DOMAIN table)
  /\ table \in [DOMAIN table -> Entry]
  /\ now \in Nat
  /\ reply \in Reply
  /\ grants \in [Client -> SUBSET Grant]
  /\ handed \in [Client -> SUBSET Handle]
  /\ minted \in SUBSET Handle
  /\ mints \in Nat
  /\ reused \in BOOLEAN

\* Two live reservations never hold the same coin, however the coin was
\* spelled and whoever asked: the clash test of wallet_reservations_reserve
\* closes the double-select.
LiveHoldsDisjoint ==
  \A i, j \in LiveIds : i # j => table[i].coins \cap table[j].coins = {}

\* No hold outlives the longest lifetime counted from the present: the clamp
\* applies on every path, so an abandoned build cannot strand coins.
HoldsAreBounded ==
  \A i \in DOMAIN table : table[i].expires <= now + MOCK_MAX_TTL_SECS

\* The table still backs every unlapsed hold a client was told it has.
HoldIsBacked(g) ==
  /\ g.id \in DOMAIN table
  /\ table[g.id] = [coins |-> g.coins, expires |-> g.expires]

\* As long as no handle was returned twice, a client that was granted a hold
\* and has neither released it nor let it lapse really holds every coin of it.
BackedUnlessReused ==
  ~reused => \A c \in Client : \A g \in grants[c] :
                g.expires > now => HoldIsBacked(g)

\* As long as no handle was returned twice, two unlapsed grants that clients
\* rely on share no coin: no two processes build a spend of one coin.
ExclusiveUnlessReused ==
  ~reused => \A c, d \in Client : \A g \in grants[c], h \in grants[d] :
                /\ g.expires > now
                /\ h.expires > now
                /\ g.coins \cap h.coins # {}
                => c = d /\ g = h

\* What the contract promises a caller, without that proviso: a coin granted
\* to a client, not released and not lapsed, is held, so nobody else gets it.
CallerHoldsWhatItWasGranted ==
  \A c \in Client : \A g \in grants[c] :
    g.expires > now => g.coins \subseteq HeldCoins

\* Releasing a handle whose hold has lapsed reports released:false; only a
\* live hold is reported released.
ReleasesLapsed ==
  reply'.outcome = "Released" /\ \E id \in DOMAIN table \ DOMAIN table' : ~Live(id)
ReleaseReportsOnlyLiveHolds == [][~ReleasesLapsed]_vars

\* The table read as the contract's set of holds.
Contract == INSTANCE ReservationContract WITH
  MaxTtl <- MOCK_MAX_TTL_SECS,
  holds <- {[id |-> i, coins |-> table[i].coins, expires |-> table[i].expires] :
              i \in DOMAIN table}

\* With ReleasesLapsed, the steps at which the handlers part from the contract.
ReusesHandle == reply'.outcome = "Granted" /\ NextHandle \in minted

\* Except for a step that mints a handle already given out, and for the
\* release of an entry that has lapsed, every step of the three handlers is a
\* step the contract allows.
HonoursContract ==
  /\ Contract!Init
  /\ [][ReusesHandle \/ ReleasesLapsed \/ Contract!Next]_vars

\* Every coin comes back: a hold whose client crashed lapses by itself.
EveryHoldLapses ==
  \A coin \in Coin : coin \in HeldCoins ~> coin \notin HeldCoins
=============================================================================
