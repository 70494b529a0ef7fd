--------------------------------- MODULE Wire ---------------------------------
(***************************************************************************)
(* One payload of the control interface on its way from the build that     *)
(* writes it to the build that reads it, which may be an older or a newer  *)
(* one: it may pass a relay that decodes and encodes it again, lose a key, *)
(* or be handed to a reader that asked another method.                     *)
(*                                                                         *)
(* An older build lacks the keys added since (the tests keep such          *)
(* payloads), knows one phase less, and names no CAT but $DIG.             *)
(***************************************************************************)
EXTENDS Requests, Integers, FiniteSets

CONSTANTS
  MaxRelays   \* bound: relays one payload passes

ASSUME ConstantsAssumption == MaxRelays \in Nat

VARIABLES
  written,    \* the type the writer encoded
  expected,   \* the type the reader decodes
  said,       \* what the writer said, key by key
  wire,       \* the payload in transit, if any
  builds,     \* the builds that have handled it
  fault,      \* "none", "lost" or "misrouted"
  relays,     \* relays passed
  read        \* what the reader made of it, once it has

vars == <<written, expected, said, wire, builds, fault, relays, read>>

Build == {"older", "current"}

Results ==
  [CacheView |-> CacheView, StatusResult |-> StatusResult, ConfigResult |-> ConfigResult,
   SetUpstreamResult |-> SetUpstreamResult,
   SetMirrorAdvertiseUrlsResult |-> SetMirrorAdvertiseUrlsResult,
   SetLevelResult |-> SetLevelResult, SetCapResult |-> SetCapResult,
   CacheClearResult |-> CacheClearResult, HostedStoresListResult |-> HostedStoresListResult,
   PinResult |-> PinResult, UnpinResult |-> UnpinResult,
   HostedStoreStatusResult |-> HostedStoreStatusResult,
   CapsuleFetchResult |-> CapsuleFetchResult, SyncStatusResult |-> SyncStatusResult,
   SyncTriggerResult |-> SyncTriggerResult, PairingApproveResult |-> PairingApproveResult,
   PairingRevokeResult |-> PairingRevokeResult, PairingRequestResult |-> PairingRequestResult,
   PairingPollResult |-> PairingPollResult, PeerCountsResult |-> PeerCountsResult,
   PeersConnectResult |-> PeersConnectResult, PeersDisconnectResult |-> PeersDisconnectResult,
   ChiaPeersListResult |-> ChiaPeersListResult, ChiaPeersAddResult |-> ChiaPeersAddResult,
   ChiaPeersRemoveResult |-> ChiaPeersRemoveResult, SubscribeResult |-> SubscribeResult,
   UnsubscribeResult |-> UnsubscribeResult, ListSubscriptionsResult |-> ListSubscriptionsResult,
   WalletBalanceResult |-> WalletBalanceResult, WalletCoinsResult |-> WalletCoinsResult,
   WalletCoinByIdResult |-> WalletCoinByIdResult,
   WalletCoinSpendResult |-> WalletCoinSpendResult,
   WalletCoinsByParentResult |-> WalletCoinsByParentResult,
   WalletPeakResult |-> WalletPeakResult,
   WalletOperatorAddressResult |-> WalletOperatorAddressResult,
   WalletSyncStatusResult |-> WalletSyncStatusResult,
   WalletBroadcastResult |-> WalletBroadcastResult, WalletWatchResult |-> WalletWatchResult,
   WalletUnwatchResult |-> WalletUnwatchResult, WalletWatchedResult |-> WalletWatchedResult,
   WalletReservationsHeldResult |-> WalletReservationsHeldResult,
   WalletReservationsReserveResult |-> WalletReservationsReserveResult,
   WalletReservationsReleaseResult |-> WalletReservationsReleaseResult,
   WalletResetCoinDbResult |-> WalletResetCoinDbResult,
   WalletArrivalsResult |-> WalletArrivalsResult,
   ProfilePutBodyResult |-> ProfilePutBodyResult, ProfileGetBodyResult |-> ProfileGetBodyResult,
   SpendsListResult |-> SpendsListResult, MirrorBondStatesResult |-> MirrorBondStatesResult,
   MirrorReconcileResult |-> MirrorReconcileResult,
   CollateralRequirementResult |-> CollateralRequirementResult,
   CollateralBufferResult |-> CollateralBufferResult,
   CollateralMarginResult |-> CollateralMarginResult]

\* Structs that travel inside results, and fail or hold on their own.
Rows ==
  [SyncAvailability |-> SyncAvailability, MirrorAdvertiseView |-> MirrorAdvertiseView,
   CapsuleEntry |-> CapsuleEntry, HostedStore |-> HostedStore, ChiaPeerEntry |-> ChiaPeerEntry,
   WalletCoinRecord |-> WalletCoinRecord, WalletCoinSpend |-> WalletCoinSpend,
   ReservedCoin |-> ReservedCoin, WalletArrivalRecord |-> WalletArrivalRecord,
   SpendAsset |-> SpendAsset, SpendAuthority |-> SpendAuthority, SpendOutcome |-> SpendOutcome,
   SpendChainReference |-> SpendChainReference, AutomatedSpend |-> AutomatedSpend,
   MirrorBondEntry |-> MirrorBondEntry, UrlReconcileStatus |-> UrlReconcileStatus,
   UrlReconcileObservation |-> UrlReconcileObservation,
   MirrorReconcileWalletCapability |-> MirrorReconcileWalletCapability]

Params ==
  [NoParams |-> NoParams, SetUpstreamParams |-> SetUpstreamParams,
   SetMirrorAdvertiseUrlsParams |-> SetMirrorAdvertiseUrlsParams,
   SetLevelParams |-> SetLevelParams, SetCapParams |-> SetCapParams, PinParams |-> PinParams,
   UnpinParams |-> UnpinParams, HostedStoreStatusParams |-> HostedStoreStatusParams,
   SyncTriggerParams |-> SyncTriggerParams, CapsuleFetchParams |-> CapsuleFetchParams,
   SetChannelParams |-> SetChannelParams, PauseParams |-> PauseParams,
   RequestParams |-> RequestParams, PollParams |-> PollParams, ApproveParams |-> ApproveParams,
   RevokeParams |-> RevokeParams, PeersConnectParams |-> PeersConnectParams,
   PeersDisconnectParams |-> PeersDisconnectParams, ChiaPeersAddParams |-> ChiaPeersAddParams,
   ChiaPeersRemoveParams |-> ChiaPeersRemoveParams, SubscribeParams |-> SubscribeParams,
   UnsubscribeParams |-> UnsubscribeParams, WalletBalanceParams |-> WalletBalanceParams,
   WalletCoinsParams |-> WalletCoinsParams, WalletCoinByIdParams |-> WalletCoinByIdParams,
   WalletCoinSpendParams |-> WalletCoinSpendParams,
   WalletCoinsByParentParams |-> WalletCoinsByParentParams,
   WalletArrivalsParams |-> WalletArrivalsParams,
   WalletBroadcastParams |-> WalletBroadcastParams, WalletWatchParams |-> WalletWatchParams,
   WalletUnwatchParams |-> WalletUnwatchParams,
   WalletReservationsReserveParams |-> WalletReservationsReserveParams,
   WalletReservationsReleaseParams |-> WalletReservationsReleaseParams,
   WalletResetCoinDbParams |-> WalletResetCoinDbParams,
   ProfilePutBodyParams |-> ProfilePutBodyParams, ProfileGetBodyParams |-> ProfileGetBodyParams,
   SpendsListParams |-> SpendsListParams, MirrorBondStatesParams |-> MirrorBondStatesParams,
   MirrorReconcileParams |-> MirrorReconcileParams,
   CollateralMarginSetParams |-> CollateralMarginSetParams]

Types == Merged(Merged(Results, Rows), Params)

-----------------------------------------------------------------------------
(* Builds                                                                  *)

\* The keys older builds neither write nor know.
Later ==
  [ConfigResult |-> {"mirror_advertise"}, PeerCountsResult |-> {"known_dig_peer_count"},
   SubscribeResult |-> {"kind"}, SubscribeParams |-> {"kind"},
   WalletBalanceResult |-> {"source"}, WalletCoinsResult |-> {"source", "complete", "cursor"},
   WalletSyncStatusResult |->
     {"watched_addresses", "subscription_peer_count", "chia_peer_peak_height"}]

Cats == {Value("object", "cat: dig"), Value("object", "cat: other")}

InBuild(build, struct, later) ==
  IF build = "current" THEN struct
  ELSE [key \in DOMAIN struct \ later |-> [struct[key] EXCEPT !.holds = @ \ Cats]]

\* The structs a build has for a type.
Structs(build, type) ==
  LET later == IF type \in DOMAIN Later THEN Later[type] ELSE {} IN
  {InBuild(build, struct, later) : struct \in Types[type]}

-----------------------------------------------------------------------------
(* Sync phases                                                             *)

PhasesOf(build) ==
  {"not_started", "syncing", "synced", "no_wallet_enrolled"}
    \cup (IF build = "current" THEN {"wallet_not_unlocked"} ELSE {})

\* Mutated form: a phase this build does not know is taken for progress made.
from_coerced(build, token) ==
  [recognized |-> TRUE, token |-> IF token \in PhasesOf(build) THEN token ELSE "synced"]

\* Total: a token this build does not know is kept, verbatim.
from(build, token) == [recognized |-> token \in PhasesOf(build), token |-> token]

as_wire(phase) == phase.token

may_render_as_settled(phase) ==
  phase.recognized /\ phase.token \in {"synced", "no_wallet_enrolled"}

-----------------------------------------------------------------------------
(* Encoding and decoding                                                   *)

\* Mutated form: the derived impl, which writes the $DIG CAT as any other.
serialize_derived(value) == value

\* $DIG has one value and keeps its bare token on the wire.
serialize(value) == IF value = Value("object", "cat: dig") THEN Value("text", "dig") ELSE value

Encode(struct, view) ==
  [key \in {k \in DOMAIN struct : ~(struct[k].omitted /\ view[k] = None)} |->
     IF view[key] = None THEN Null ELSE serialize(view[key])]

\* Mutated form: an unknown token passes for one of the type's own.
Accepts_any_token(field, value) ==
  value \in field.holds \/ (value.kind = "text" /\ \E v \in field.holds : v.kind = "text")

Accepts(field, value) == value \in field.holds \/ (field.any_text /\ value.kind = "text")

DecodeKey(field, payload, key) ==
  IF key \notin DOMAIN payload THEN field.absent
  ELSE IF payload[key] = Null THEN field.null
  ELSE IF Accepts(field, payload[key]) THEN payload[key] ELSE Refused

Decode(struct, payload) == [key \in DOMAIN struct |-> DecodeKey(struct[key], payload, key)]

\* What a phase becomes in the hands of a build that will encode it again.
Held(build, key, value) ==
  IF key = "phase" /\ value.kind = "text"
  THEN Value("text", as_wire(from(build, value.is))) ELSE value

\* The structs a build can read the payload as: one, or none if it refuses it.
\* Keys it does not know are ignored.
Readable(build, type, payload) ==
  {struct \in Structs(build, type) :
     \A key \in DOMAIN struct : DecodeKey(struct[key], payload, key) # Refused}

-----------------------------------------------------------------------------
\* What a writer says: the usual, but for one key at most.
Sayings(struct) ==
  LET usual == [key \in DOMAIN struct |-> CHOOSE v \in struct[key].holds : TRUE]
      options(key) == struct[key].holds \cup {None : n \in {struct[key].null} \ {Refused}}
  IN {usual} \cup UNION {{[usual EXCEPT ![key] = v] : v \in options(key)} : key \in DOMAIN struct}

Init ==
  /\ written \in DOMAIN Types
  /\ expected = written
  /\ \E build \in Build : \E struct \in Structs(build, written) :
       /\ said \in Sayings(struct)
       /\ "phase" \in DOMAIN said => said["phase"].is \in PhasesOf(build)
       /\ wire = {Encode(struct, said)}
       /\ builds = {build}
  /\ fault = "none"
  /\ relays = 0
  /\ read = {}

\* A build in between decodes the payload and encodes it again, or refuses it.
Relay(build) ==
  /\ relays < MaxRelays
  /\ fault # "misrouted"
  /\ \E payload \in wire :
       LET structs == Readable(build, expected, payload) IN
       /\ wire' = {Encode(struct, [key \in DOMAIN struct |->
                            Held(build, key, Decode(struct, payload)[key])]) : struct \in structs}
       /\ read' = IF structs = {} THEN {Refused} ELSE {}
  /\ relays' = relays + 1
  /\ builds' = builds \cup {build}
  /\ UNCHANGED <<written, expected, said, fault>>

LoseKey ==
  /\ fault = "none"
  /\ fault' = "lost"
  /\ \E payload \in wire : \E key \in DOMAIN payload :
       wire' = {[k \in DOMAIN payload \ {key} |-> payload[k]]}
  /\ UNCHANGED <<written, expected, said, builds, relays, read>>

\* The answer to one method arrives for another.
Misroute ==
  /\ fault = "none"
  /\ wire # {}
  /\ expected \in DOMAIN Results
  /\ fault' = "misrouted"
  /\ expected' \in DOMAIN Results \ {expected}
  /\ UNCHANGED <<written, said, wire, builds, relays, read>>

Read(build) ==
  /\ \E payload \in wire :
       LET structs == Readable(build, expected, payload) IN
       read' = IF structs = {} THEN {Refused}
               ELSE {[build |-> build, view |-> Decode(struct, payload)] : struct \in structs}
  /\ wire' = {}
  /\ builds' = builds \cup {build}
  /\ UNCHANGED <<written, expected, said, fault, relays>>

Next == (\E build \in Build : Relay(build) \/ Read(build)) \/ LoseKey \/ Misroute

Spec == Init /\ [][Next]_vars

-----------------------------------------------------------------------------
(* Properties                                                              *)

Views == {r \in read : r # Refused}

Says(key, value) == key \in DOMAIN said /\ said[key] = value

TypeOK ==
  \* Whatever the payload went through, a key a reader hands to its caller
  \* holds a value of that key's type, or what the type makes of a missing or
  \* a null key; nothing is left in transit once the payload is read.
  /\ written \in DOMAIN Types /\ expected \in DOMAIN Types
  /\ builds \subseteq Build /\ builds # {}
  /\ fault \in {"none", "lost", "misrouted"}
  /\ relays \in 0..MaxRelays
  /\ read # {} => wire = {}
  /\ \A r \in Views : \E struct \in Structs(r.build, expected) :
       /\ DOMAIN r.view = DOMAIN struct
       /\ \A key \in DOMAIN struct :
            LET field == struct[key] IN
            \/ r.view[key] \in field.holds \cup ({field.absent, field.null} \ {Refused})
            \/ field.any_text /\ r.view[key].kind = "text"

\* Builds of different ages understand each other (the optional keys of
\* results.rs): through any chain of older and newer builds a payload is read,
\* and every key all of them know reads as it was said, $DIG under its token;
\* a key that one of them lacks reads as said or as absent, and no age reads
\* it as a value nobody said.  Only a CAT that is not $DIG is refused, and only
\* where an older build, which has no word for it, took part.
SkewIsRead ==
  fault = "none" =>
    LET later == IF written \in DOMAIN Later THEN Later[written] ELSE {}
        older == "older" \in builds
        absent == {None, Value("text", "capsule")} IN
    \A r \in read :
      IF r = Refused THEN older /\ Value("object", "cat: other") \in {said[k] : k \in DOMAIN said}
      ELSE /\ DOMAIN said \ later \subseteq DOMAIN r.view
           /\ \A key \in DOMAIN r.view :
                \/ Says(key, r.view[key])
                \/ key \in DOMAIN said /\ r.view[key] = serialize(said[key])
                \/ older /\ key \in later /\ r.view[key] \in absent

\* The keys that must be present, null or not (required_option, results.rs):
\* "there is no such coin", "nothing more follows", "no chain reference".  Other
\* optional keys are not protected: a getBody answer that lost body_b64 reads as
\* "this node holds no body", and a coin that lost spent_height as unspent.
Verdicts ==
  [WalletCoinByIdResult |-> "coin", WalletCoinSpendResult |-> "spend",
   WalletCoinsByParentResult |-> "cursor", SpendsListResult |-> "cursor",
   MirrorBondStatesResult |-> "cursor", AutomatedSpend |-> "chain_reference"]

\* A payload that lost a key, or answers another method, is never read as a
\* verdict: "none" on a key that must be present, and "complete" on a page,
\* are read only if the writer said so (results.rs: the doc of required_option).
VerdictsAreSaid ==
  \A r \in Views :
    /\ expected \in DOMAIN Verdicts =>
         LET key == Verdicts[expected] IN
         key \in DOMAIN r.view /\ r.view[key] = None => Says(key, None)
    /\ "complete" \in DOMAIN r.view /\ r.view["complete"] = True => Says("complete", True)

\* Pairs <<read, written>> of results whose payloads one type cannot tell from
\* the other's.
Lookalikes ==
  {<<"PeerCountsResult", type>> : type \in DOMAIN Results}
    \cup {<<"WalletPeakResult", type>> :
            type \in {"WalletBalanceResult", "WalletCoinsResult", "WalletCoinByIdResult",
                      "WalletCoinSpendResult", "WalletCoinsByParentResult"}}
    \cup {<<"PairingPollResult", type>> : type \in {"CapsuleFetchResult", "SyncTriggerResult"}}
    \cup {<<"WalletCoinsResult", "WalletCoinsByParentResult">>,
          <<"WalletCoinsByParentResult", "WalletCoinsResult">>,
          <<"ProfileGetBodyResult", "ProfilePutBodyResult">>,
          <<"MirrorBondStatesResult", "CollateralBufferResult">>,
          <<"CollateralBufferResult", "MirrorBondStatesResult">>,
          <<"CollateralMarginResult", "CollateralBufferResult">>,
          <<"SetCapResult", "CacheView">>}

\* The answer to one method is refused by the reader of another, whatever the
\* builds in between made of it, except for the pairs named above (decode,
\* traits.rs:793, has nothing but the type to tell them apart).
MisroutedIsRefused ==
  fault = "misrouted" /\ Views # {} => <<expected, written>> \in Lookalikes

\* A wallet is shown as settled only if the node said it has nothing left to
\* sync, however old the builds in between, whatever phase they do not know,
\* and whatever was lost (WalletSyncPhase::may_render_as_settled).
SettledIsSaid ==
  \A r \in Views :
    /\ "phase" \in DOMAIN r.view
    /\ r.view["phase"] # None
    /\ may_render_as_settled(from(r.build, r.view["phase"].is))
    => Says("phase", Value("text", "synced")) \/ Says("phase", Value("text", "no_wallet_enrolled"))

\* Consent is never invented: the node takes a removal for a ban, or a coin
\* database reset for confirmed, only if the caller said true, whatever was
\* lost on the way (ChiaPeersRemoveParams.ban, WalletResetCoinDbParams.confirm).
ConsentIsSaid ==
  \A r \in Views : \A key \in {"ban", "confirm"} :
    key \in DOMAIN r.view /\ r.view[key] = True => Says(key, True)
=============================================================================
