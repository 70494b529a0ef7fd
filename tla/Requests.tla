------------------------------- MODULE Requests -------------------------------
(***************************************************************************)
(* The params of the control methods (src/src/params.rs), in the terms of  *)
(* Schema.  What the node checks of their values beyond their shape is     *)
(* part of the modules that model its handlers.                            *)
(***************************************************************************)
EXTENDS Schema

\* An empty object; also what a method without parameters is sent.
NoParams == {[key \in {} |-> Text]}

SetUpstreamParams == {[upstream |-> Text]}
SetMirrorAdvertiseUrlsParams == {[urls |-> Skipped(List("String"))]}
SetLevelParams == {[filter |-> Text]}
SetCapParams == {[cap_bytes |-> Number]}

PinParams == {[store |-> Text]}
UnpinParams == PinParams
HostedStoreStatusParams == PinParams
SyncTriggerParams == PinParams
CapsuleFetchParams == {[store |-> Text, root |-> Text]}

SetChannelParams == {[channel |-> Text]}
PauseParams == {[until |-> Skipped(Number)]}

RequestParams == {[client_name |-> Text]}
PollParams == {[pairing_id |-> Text]}
ApproveParams == PollParams
RevokeParams == {[token_id |-> Text]}

PeersConnectParams == {[peer |-> Text]}
PeersDisconnectParams == PeersConnectParams
ChiaPeersAddParams == {[ip |-> Text]}

\* Mutated form: a removal bans unless told otherwise.
ChiaPeersRemoveParams_banning == {[ip |-> Text, ban |-> Default(Bool, True)]}

ChiaPeersRemoveParams == {[ip |-> Text, ban |-> Default(Bool, False)]}

SubscribeParams ==
  {[store_id |-> Text, kind |-> Default(SubscriptionKind, Value("text", "capsule"))]}
UnsubscribeParams == {[store_id |-> Text]}

WalletBalanceParams == {[address |-> Text, asset |-> Asset]}
WalletCoinsParams ==
  {[address |-> Text, asset |-> Asset, after_coin_id |-> Skipped(Text), limit |-> Skipped(Number)]}
WalletCoinByIdParams == {[coin_id |-> Text]}
WalletCoinSpendParams == {[coin_id |-> Text]}
WalletCoinsByParentParams ==
  {[parent_coin_id |-> Text, after_coin_id |-> Skipped(Text), limit |-> Skipped(Number)]}
WalletArrivalsParams ==
  {[after_seq |-> Default(Number, Value("number", "0")), limit |-> Skipped(Number)]}
WalletBroadcastParams == {[signed_bundle_hex |-> Text]}
WalletWatchParams == {[public_keys |-> List("String")]}
WalletUnwatchParams == WalletWatchParams

WalletReservationsReserveParams == {[coin_ids |-> List("String"), ttl_secs |-> Skipped(Number)]}
WalletReservationsReleaseParams == {[reservation_id |-> Text]}

\* Mutated form: a caller that says nothing has confirmed.
WalletResetCoinDbParams_confirmed == {[confirm |-> Default(Bool, True)]}

WalletResetCoinDbParams == {[confirm |-> Default(Bool, False)]}

ProfilePutBodyParams == {[store_id |-> Text, root |-> Text, body_b64 |-> Text]}
ProfileGetBodyParams == {[store_id |-> Text, root |-> Text]}

SpendsListParams ==
  {[since_ms |-> Skipped(Number), until_ms |-> Skipped(Number), store_id |-> Skipped(Text),
    kind |-> Skipped(Text), status |-> Skipped(Text), after_id |-> Skipped(Text),
    limit |-> Skipped(Number)]}

MirrorBondStatesParams == {[after |-> Skipped(Object("MirrorBondKey")), limit |-> Skipped(Number)]}

\* An omitted dry_run reconciles for real.
MirrorReconcileParams == {[dry_run |-> Default(Bool, False)]}

CollateralMarginSetParams == {[margin_bp |-> Number]}
=============================================================================
