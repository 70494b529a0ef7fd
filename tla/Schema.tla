-------------------------------- MODULE Schema --------------------------------
(***************************************************************************)
(* The payloads of the control interface, key by key, as their readers     *)
(* take them apart (src/src/results.rs, src/src/params.rs): what a key     *)
(* holds, and what a reader makes of a key that is null or not there.      *)
(*                                                                         *)
(* A value keeps its JSON kind and as much of its content as readers tell  *)
(* apart; "*" stands for any content of the kind.  A struct is a function  *)
(* from keys to fields; a type is a set of structs, one per variant.       *)
(***************************************************************************)
Value(kind, is) == [kind |-> kind, is |-> is]
Null    == Value("null", "")      \* on the wire
None    == Value("none", "")      \* in a reader's hands
Refused == Value("refused", "")

-----------------------------------------------------------------------------
(* Fields                                                                  *)

\* A key that must be there and must not be null.
Holding(values) ==
  [holds |-> values, any_text |-> FALSE, absent |-> Refused, null |-> Refused, omitted |-> FALSE]

Tokens(tokens) == Holding({Value("text", t) : t \in tokens})
Text == [Tokens({"*"}) EXCEPT !.any_text = TRUE]
Bool == Holding({Value("bool", b) : b \in {"true", "false"}})
Number == Holding({Value("number", "*")})
List(of) == Holding({Value("list", is) : is \in {"empty", of}})
Object(of) == Holding({Value("object", of)})
Json == Holding({Value("object", "*")})

\* Serde reads a missing Option as None, exactly like an explicit null.
Option(field) == [field EXCEPT !.absent = None, !.null = None]

\* An Option that is left out of the payload when it is None.
Skipped(field) == [Option(field) EXCEPT !.omitted = TRUE]

\* Mutated form: the attribute is forgotten and the derive decides.
required_option_derived(field) == Option(field)

\* Nullable but not omittable: null is None, a missing key is an error.
required_option(field) == [field EXCEPT !.null = None]

\* A key whose absence reads as a value, one of those it may hold.
Default(field, value) == [field EXCEPT !.absent = value, !.holds = @ \cup {value}]

True == Value("bool", "true")
False == Value("bool", "false")

\* Two structs flattened into one, or two tables of types joined.
Merged(f, g) ==
  [key \in DOMAIN f \cup DOMAIN g |-> IF key \in DOMAIN f THEN f[key] ELSE g[key]]

-----------------------------------------------------------------------------
(* Results: the node, its configuration, its content                       *)

CacheView == {[cap_bytes |-> Number, used_bytes |-> Number, dir |-> Text, shared |-> Bool]}

SyncAvailability == {[available |-> Bool]}

StatusResult ==
  {[running |-> Bool, service |-> Text, version |-> Text, commit |-> Text, protocol |-> Text,
    uptime_secs |-> Number, addr |-> Text, upstream |-> Text, cache |-> Object("CacheView"),
    hosted_store_count |-> Number, cached_capsule_count |-> Number,
    pinned_store_count |-> Number, sync |-> Object("SyncAvailability")]}

ConfigResult ==
  {[addr |-> Text, port |-> Text, upstream |-> Text, upstream_override |-> Option(Text),
    cache_dir |-> Text, cache_shared |-> Bool, config_path |-> Text, sync_available |-> Bool,
    mirror_advertise |-> Option(Object("MirrorAdvertiseView"))]}

SetUpstreamResult == {[upstream |-> Text, requires_restart |-> Bool]}

MirrorAdvertiseState ==
  Tokens({"advertising_override", "advertising_derived", "off", "no_public_address",
          "uncorroborated_address", "no_relay"})

MirrorAdvertiseView ==
  {[urls |-> List("String"), operator_override |-> Option(List("String")),
    state |-> MirrorAdvertiseState]}

SetMirrorAdvertiseUrlsResult ==
  {[mirror_advertise |-> Object("MirrorAdvertiseView"), requires_restart |-> Bool]}

SetLevelResult == {[filter |-> Text]}
SetCapResult == {[cap_bytes |-> Number]}
CacheClearResult == {[cleared |-> Bool]}

CapsuleEntry ==
  {[capsule |-> Text, root |-> Text, size_bytes |-> Number, last_used_unix_ms |-> Number]}

HostedStore ==
  {[store_id |-> Text, pinned |-> Bool, capsule_count |-> Number, total_bytes |-> Number,
    capsules |-> List("CapsuleEntry")]}

HostedStoresListResult == {[stores |-> List("HostedStore")]}

PinResult == {[store_id |-> Text, root |-> Option(Text), pinned |-> Bool, fetch |-> Json]}

UnpinResult == {[store_id |-> Text, unpinned |-> Bool, evicted_capsules |-> Number]}

\* The same keys as a row of the list.
HostedStoreStatusResult == HostedStore

CapsuleFetchResult == {[store |-> Text, root |-> Text, status |-> Text]}

SyncStatusResult ==
  {[available |-> Bool, method |-> Text, pinned_total |-> Number, pinned_synced |-> Number,
    whole_store_trigger_supported |-> Bool]}

SyncTriggerResult ==
  {[store_id |-> Text, root |-> Text, status |-> Text, size_bytes |-> Number,
    served_root |-> Text]}

PairingApproveResult == {[approved |-> Bool, client_name |-> Text, token_id |-> Text]}
PairingRevokeResult == {[revoked |-> Bool, token_id |-> Text]}
PairingRequestResult ==
  {[pairing_id |-> Text, pairing_code |-> Text, expires_ms |-> Number]}
PairingPollResult == {[status |-> Text, token |-> Skipped(Text)]}

-----------------------------------------------------------------------------
(* Results: peers and subscriptions                                        *)

PeerCountsResult ==
  {[dig_peer_count |-> Option(Number), chia_peer_count |-> Option(Number),
    known_dig_peer_count |-> Option(Number)]}

PeersConnectResult == {[connected |-> Bool, peer_id |-> Text]}
PeersDisconnectResult == {[disconnected |-> Bool, peer_id |-> Text]}

ChiaPeerEntry ==
  {[ip |-> Text, port |-> Number, peak_height |-> Option(Number), user_managed |-> Bool,
    banned |-> Bool]}

ChiaPeersListResult == {[peers |-> List("ChiaPeerEntry")]}

ChiaPeersAddResult ==
  {[added |-> Bool, ip |-> Text, port |-> Number, corroboration_bypassed |-> Bool,
    notice |-> Text]}

ChiaPeersRemoveResult ==
  {[outcome |-> Tokens({"removed", "no_such_peer"}), ip |-> Text, banned |-> Bool]}

SubscriptionKind == Tokens({"capsule", "profile"})

SubscribeResult ==
  {[subscribed |-> Bool, added |-> Bool, store_id |-> Text,
    kind |-> Default(SubscriptionKind, Value("text", "capsule"))]}

UnsubscribeResult == {[subscribed |-> Bool, removed |-> Bool, store_id |-> Text]}
ListSubscriptionsResult == {[subscriptions |-> List("String"), count |-> Number]}

-----------------------------------------------------------------------------
(* Results: the wallet                                                     *)

\* A bare token, or one CAT by its id; the tagged form admits no other key.
Asset ==
  Holding({Value("text", t) : t \in {"xch", "dig"}}
            \cup {Value("object", cat) : cat \in {"cat: dig", "cat: other"}})

WalletReadSource == Tokens({"db", "fallback"})

WalletBalanceResult ==
  {[balance |-> Number, pending |-> Number, source |-> Option(WalletReadSource),
    synced |-> Bool, peak_height |-> Option(Number)]}

WalletCoinRecord ==
  {[coin_id |-> Text, asset |-> Option(Asset), amount |-> Number, parent_coin_info |-> Text,
    puzzle_hash |-> Text, created_height |-> Option(Number), spent_height |-> Option(Number)]}

WalletCoinsResult ==
  {[coins |-> List("WalletCoinRecord"), complete |-> Option(Bool), cursor |-> Option(Text),
    source |-> Option(WalletReadSource), synced |-> Bool, peak_height |-> Option(Number)]}

WalletCoinByIdResult ==
  {[coin |-> required_option(Object("WalletCoinRecord")), source |-> Option(WalletReadSource),
    synced |-> Bool, peak_height |-> Option(Number)]}

WalletCoinSpend ==
  {[coin |-> Object("WalletCoinRecord"), puzzle_reveal |-> Text, solution |-> Text]}

WalletCoinSpendResult ==
  {[spend |-> required_option(Object("WalletCoinSpend")), source |-> Option(WalletReadSource),
    synced |-> Bool, peak_height |-> Option(Number)]}

WalletCoinsByParentResult ==
  {[coins |-> List("WalletCoinRecord"), complete |-> Bool, cursor |-> required_option(Text),
    source |-> Option(WalletReadSource), synced |-> Bool, peak_height |-> Option(Number)]}

WalletPeakResult == {[peak_height |-> Option(Number), synced |-> Bool]}

WalletOperatorAddressUnavailableReason == Tokens({"not_initialized", "unreadable"})

WalletOperatorAddressResult ==
  {[state |-> Tokens({"known"}), address |-> Text, puzzle_hash |-> Text],
   [state |-> Tokens({"unavailable"}), reason |-> WalletOperatorAddressUnavailableReason]}

\* Any token is a phase, whether this build knows it or not.
WalletSyncPhase ==
  [Tokens({"not_started", "syncing", "synced", "no_wallet_enrolled", "wallet_not_unlocked"})
     EXCEPT !.any_text = TRUE]

\* Mutated form: the phase is one more key that may be missing.
WalletSyncStatusResult_optional ==
  {[phase |-> Option(WalletSyncPhase), peak_height |-> Option(Number),
    chia_peer_count |-> Option(Number), watched_addresses |-> Option(Number),
    subscription_peer_count |-> Option(Number), chia_peer_peak_height |-> Option(Number)]}

WalletSyncStatusResult ==
  {[phase |-> WalletSyncPhase, peak_height |-> Option(Number),
    chia_peer_count |-> Option(Number), watched_addresses |-> Option(Number),
    subscription_peer_count |-> Option(Number), chia_peer_peak_height |-> Option(Number)]}

WalletBroadcastResult ==
  {[accepted |-> Bool, transaction_id |-> Option(Text), rejection |-> Option(Text)]}

WalletWatchResult == {[added |-> Number, watched |-> Number]}
WalletUnwatchResult == {[removed |-> Number, watched |-> Number]}
WalletWatchedResult == {[public_keys |-> List("String")]}

ReservedCoin == {[coin_id |-> Text, reservation_id |-> Text, expires_at_unix |-> Number]}

WalletReservationsHeldResult == {[reserved |-> List("ReservedCoin"), as_of_unix |-> Number]}

WalletReservationsReserveResult ==
  {[reservation_id |-> Text, coin_ids |-> List("String"), expires_at_unix |-> Number,
    ttl_secs |-> Number]}

WalletReservationsReleaseResult == {[released |-> Bool, coin_ids |-> List("String")]}

WalletResetCoinDbResult == {[coins_dropped |-> Number, staged_dropped |-> Number]}

WalletArrivalRecord ==
  {[seq |-> Number, coin_id |-> Text, puzzle_hash |-> Text, amount |-> Text,
    asset_id |-> Option(Text), confirmed_height |-> Number]}

WalletArrivalsResult ==
  {[arrivals |-> List("WalletArrivalRecord"), cursor |-> Number, latest |-> Number]}

ProfilePutBodyResult ==
  {[stored |-> Bool, store_id |-> Text, root |-> Text, body_bytes |-> Number]}

ProfileGetBodyResult ==
  {[store_id |-> Text, root |-> Text, body_b64 |-> Option(Text), body_bytes |-> Number]}

-----------------------------------------------------------------------------
(* Results: automated spends                                               *)

SpendAsset ==
  {[asset |-> Tokens({"xch", "dig"})], [asset |-> Tokens({"cat"}), asset_id |-> Text]}

SpendAuthority == {[principal |-> Text, grant |-> Text]}

SpendOutcome ==
  {[state |-> Tokens({"pending", "submitted"})],
   [state |-> Tokens({"confirmed"}), height |-> Number, coin_id |-> Text],
   [state |-> Tokens({"failed"}), stage |-> Tokens({"signing", "broadcast", "confirmation"}),
    reason |-> Text],
   [state |-> Tokens({"unresolved"}), reason |-> Text]}

SpendChainReference == {[coin_id |-> Text, confirmed |-> Bool]}

AutomatedSpend ==
  {[id |-> Text, revision |-> Number, kind |-> Text, purpose |-> Text,
    authority |-> Object("SpendAuthority"), asset |-> Object("SpendAsset"),
    amount_mojos |-> Text, fee_mojos |-> Text, store_id |-> Option(Text),
    initiated_ms |-> Number, updated_ms |-> Number, status |-> Object("SpendOutcome"),
    funding_coin_ids |-> List("String"),
    chain_reference |-> required_option(Object("SpendChainReference"))]}

SpendsListResult ==
  {[spends |-> List("AutomatedSpend"), complete |-> Bool, cursor |-> required_option(Text),
    unreadable_lines |-> Number]}

-----------------------------------------------------------------------------
(* Results: mirror bonds and their reconciliation                          *)

CollateralUnknownReason ==
  Tokens({"not_censused", "behind_finality_depth", "record_unreadable", "no_chain_source",
          "balance_unreadable"})

MirrorBondState ==
  {[bond_state |-> Tokens({"bonded"}), coin_id |-> Text, epoch |-> Number,
    amount_dig_base_units |-> Number, urls |-> List("String"), url_current |-> Bool],
   [bond_state |-> Tokens({"pending", "withheld", "disabled", "unadvertised"})],
   [bond_state |-> Tokens({"unfunded"}), short_dig_base_units |-> Number],
   [bond_state |-> Tokens({"deferred"}), reason |-> CollateralUnknownReason],
   [bond_state |-> Tokens({"reclaiming"}), coin_id |-> Text, epoch |-> Number,
    amount_dig_base_units |-> Number]}

MirrorBondKey == [store_id |-> Text, root |-> Text]

\* The state is flattened into the row.
MirrorBondEntry == {Merged(MirrorBondKey, state) : state \in MirrorBondState}

MirrorBondStatesUnknownReason ==
  Tokens({"served_set_unknown", "chain_unreadable", "in_flight_unknown", "provenance_unknown"})

MirrorBondStatesResult ==
  {[state |-> Tokens({"known"}), entries |-> List("MirrorBondEntry"), complete |-> Bool,
    cursor |-> required_option(Object("MirrorBondKey")), locked_dig_base_units |-> Number,
    epoch |-> Number, funding_wallet |-> Object("WalletOperatorAddressResult"),
    url_reconcile |-> Object("UrlReconcileStatus")],
   [state |-> Tokens({"unknown"}), reason |-> MirrorBondStatesUnknownReason]}

UrlReconcileStatus ==
  {[auto_enabled |-> Bool, personal_day_offset_secs |-> Option(Number),
    next_check_unix_ms |-> Option(Number),
    last_observation |-> Option(Object("UrlReconcileObservation")),
    stale_bonds |-> Number, auto_reconciled_this_epoch |-> Bool]}

UrlReconcileObservation ==
  {[at_unix_ms |-> Number, conclusive |-> Bool, urls |-> Option(List("String")),
    state |-> Option(MirrorAdvertiseState)]}

MirrorReconcileWalletCapability ==
  {[kind |-> Tokens({"signing"}), reason |-> WalletOperatorAddressUnavailableReason],
   [kind |-> Tokens({"broadcasting"})]}

MirrorReconcileRefusal ==
  {[reason |-> Tokens({"not_publishing"}), state |-> MirrorAdvertiseState],
   [reason |-> Tokens({"url_unchanged", "no_mirror_coins", "reconcile_in_progress", "disabled",
                       "chain_unreadable", "funds_unmeasured"})],
   [reason |-> Tokens({"insufficient_funds"}), have_dig_base_units |-> Number,
    need_dig_base_units |-> Number],
   [reason |-> Tokens({"requirement_unknown"}), collateral_reason |-> CollateralUnknownReason],
   [reason |-> Tokens({"wallet_unavailable"}),
    capability |-> Object("MirrorReconcileWalletCapability")]}

MirrorReconcileResult ==
  {[outcome |-> Tokens({"planned"}), capsules_stale |-> Number, capsules_affordable |-> Number,
    collateral_reclaimed_dig_base_units |-> Number,
    collateral_relocked_dig_base_units |-> Number, fee_estimate_mojos |-> Number,
    stale_url_sets |-> List("Vec<String>"), url_current |-> List("String"),
    targets_seen_last_7_days |-> Number],
   [outcome |-> Tokens({"submitted"}), reclaims_submitted |-> Number,
    reclaims_rejected |-> Number, recreates_owed |-> Number, left_unchanged |-> Number,
    left_reason |-> Option(Text), url_current |-> List("String")]}
  \cup {Merged([outcome |-> Tokens({"refused"}), url_current |-> Option(List("String"))], reason) :
          reason \in MirrorReconcileRefusal}

-----------------------------------------------------------------------------
(* Results: collateral                                                     *)

CollateralRequirementResult ==
  {[state |-> Tokens({"known"}), epoch |-> Number, protocol_version |-> Number,
    required_per_store_dig_base_units |-> Number, stores |-> Number, owners |-> Number,
    multiplier_micros |-> Number, handicap_dig_base_units |-> Number],
   [state |-> Tokens({"unknown"}), reason |-> CollateralUnknownReason]}

CollateralFundingState ==
  Tokens({"short_now", "dangerously_low", "below_recommended_buffer", "funded"})

CollateralBufferUnknownReason ==
  Tokens({"requirement_unknown", "served_set_unknown", "reclaim_state_unknown",
          "balance_unknown"})

CollateralBufferResult ==
  {[state |-> Tokens({"known"}), epoch |-> Number, protocol_version |-> Number,
    funding_state |-> CollateralFundingState, recommended_buffer_dig_base_units |-> Number,
    spendable_dig_base_units |-> Number, pairs_served_by_this_node |-> Number,
    required_per_store_dig_base_units |-> Number, margin_bp |-> Number,
    overlap_dig_base_units |-> Number, escalation_headroom_dig_base_units |-> Number,
    horizon_epochs |-> Number, escalation_ceiling_micros |-> Number],
   [state |-> Tokens({"unknown"}), reason |-> CollateralBufferUnknownReason]}

CollateralMarginResult == {[margin_bp |-> Number]}
=============================================================================
