------------------------------ MODULE WireProofs ------------------------------
(***************************************************************************)
(* Wire's invariants, for any number of relays.                            *)
(*                                                                         *)
(* What a payload goes through is proved from four facts about a type: its *)
(* fields are WellFormed, its phase is the one every reader takes, its     *)
(* structs are Tagged, and what an older build lacks may be missing.  They *)
(* are proved of the 111 types one after the other.  WireInv, the          *)
(* inductive invariant, says what a payload in transit still carries; each *)
(* of Wire's invariants then follows for the step that reads it.  That no  *)
(* result is taken for another rests on a catalogue, Telling, of the keys  *)
(* that tell each of them from all the others.                             *)
(***************************************************************************)
EXTENDS Wire, TLAPS

\* The two CATs, and the token one of them has on the wire.
Dig == Value("object", "cat: dig")
DigToken == Value("text", "dig")
OtherCat == Value("object", "cat: other")

-----------------------------------------------------------------------------
(* Fields                                                                  *)

\* A set of values a key may hold: an older build is left one of them, none
\* stands for nothing, and the token of $DIG comes with its CAT.
Content(values) ==
  /\ values \ Cats # {}
  /\ \A v \in values : v.kind \notin {"null", "none", "refused"}
  /\ Dig \in values => DigToken \in values

\* A field on whose key every reader can agree with every writer: what is left
\* out reads as none, a key without a value reads as none or as a value that
\* every build knows, and never as consent.
WellFormed(field) ==
  /\ DOMAIN field = {"holds", "any_text", "absent", "null", "omitted"}
  /\ Content(field.holds)
  /\ field.null \in {None, Refused}
  /\ field.absent \in {None, Refused} \cup (field.holds \ Cats)
  /\ field.absent # True
  /\ field.absent = None => field.null = None
  /\ field.omitted => field.absent = None

Required(field) == WellFormed(field) /\ field.absent = Refused

LEMMA ValueParts ==
  \A kind, is : Value(kind, is).kind = kind /\ Value(kind, is).is = is
BY DEF Value

LEMMA Distinct ==
  /\ None # Refused /\ None # Null /\ Refused # Null
  /\ True # None /\ True # Refused /\ True # Null
  /\ None \notin Cats /\ Null \notin Cats /\ Refused \notin Cats /\ True \notin Cats
  /\ DigToken \notin Cats /\ True # DigToken /\ None # DigToken /\ Null # DigToken
  /\ Dig \in Cats /\ OtherCat \in Cats /\ Dig # OtherCat
BY DEF None, Refused, Null, True, Cats, Dig, DigToken, OtherCat, Value

LEMMA OnlyObjectsAreCats == \A kind, is : kind # "object" => Value(kind, is) \notin Cats
BY DEF Cats, Value

LEMMA ContentOf ==
  ASSUME NEW values, NEW one \in values, one \notin Cats,
         \A v \in values : v.kind \in {"text", "bool", "number", "list", "object"},
         Dig \in values => DigToken \in values
  PROVE  Content(values)
<1>1. values \ Cats # {} /\ \A v \in values : v.kind \notin {"null", "none", "refused"}
  OBVIOUS
<1> QED
  BY <1>1 DEF Content

LEMMA HoldingRequires == ASSUME NEW values, Content(values) PROVE Required(Holding(values))
BY Distinct DEF Holding, Required, WellFormed

\* Values of one kind that is not an object's.
LEMMA OneKind ==
  ASSUME NEW kind \in {"text", "bool", "number", "list"}, NEW values, values # {},
         \A v \in values : v.kind = kind
  PROVE  Content(values)
<1>1. PICK one \in values : TRUE
  OBVIOUS
<1>2. \A c \in Cats : c.kind = "object"
  BY ValueParts DEF Cats
<1>3. kind # "object" /\ kind \in {"text", "bool", "number", "list", "object"}
  OBVIOUS
<1>4. values \cap Cats = {}
  BY <1>2, <1>3
<1>5. Dig \notin values
  BY <1>4, Distinct
<1> QED
  BY <1>1, <1>3, <1>4, <1>5, ContentOf

LEMMA TokensRequire == \A tokens : tokens # {} => Required(Tokens(tokens))
<1> SUFFICES ASSUME NEW tokens, tokens # {} PROVE Required(Tokens(tokens))
  OBVIOUS
<1> DEFINE values == {Value("text", t) : t \in tokens}
<1>1. values # {} /\ \A v \in values : v.kind = "text"
  BY ValueParts
<1> HIDE DEF values
<1>2. Content(values)
  BY <1>1, OneKind
<1> QED
  BY <1>2, HoldingRequires DEF Tokens, values

LEMMA ListsRequire == \A of : Required(List(of))
<1> SUFFICES ASSUME NEW of PROVE Required(List(of))
  OBVIOUS
<1> DEFINE values == {Value("list", is) : is \in {"empty", of}}
<1>1. values # {} /\ \A v \in values : v.kind = "list"
  BY ValueParts
<1> HIDE DEF values
<1>2. Content(values)
  BY <1>1, OneKind
<1> QED
  BY <1>2, HoldingRequires DEF List, values

\* Values of one object that is no CAT.
LEMMA ObjectRequires ==
  ASSUME NEW of, Value("object", of) \notin Cats
  PROVE  Required(Holding({Value("object", of)}))
<1>1. Value("object", of) # Dig
  BY Distinct
<1>2. Value("object", of).kind = "object"
  BY ValueParts
<1>3. Content({Value("object", of)})
  BY <1>1, <1>2, ContentOf
<1> QED
  BY <1>3, HoldingRequires

LEMMA ScalarsRequire ==
  /\ Required(Text) /\ Required(Number) /\ Required(Bool) /\ Required(Json) /\ Required(Asset)
<1>1. Required(Text)
  <2>1. Required(Tokens({"*"}))
    BY TokensRequire
  <2> QED
    BY <2>1 DEF Text, Required, WellFormed
<1>2. Required(Number)
  <2>1. Content({Value("number", "*")})
    BY ValueParts, OneKind
  <2> QED
    BY <2>1, HoldingRequires DEF Number
<1>3. Required(Bool)
  <2> DEFINE values == {Value("bool", b) : b \in {"true", "false"}}
  <2>1. values # {} /\ \A v \in values : v.kind = "bool"
    BY ValueParts
  <2> HIDE DEF values
  <2>2. Content(values)
    BY <2>1, OneKind
  <2> QED
    BY <2>2, HoldingRequires DEF Bool, values
<1>4. Required(Json)
  <2>1. Value("object", "*") \notin Cats
    BY DEF Value, Cats
  <2> QED
    BY <2>1, ObjectRequires DEF Json
<1>5. Required(Asset)
  <2> DEFINE values == {Value("text", t) : t \in {"xch", "dig"}}
                         \cup {Value("object", cat) : cat \in {"cat: dig", "cat: other"}}
  <2>1. \A v \in values : v.kind \in {"text", "object"}
    BY ValueParts
  <2>2. DigToken \in values
    BY DEF DigToken
  <2> HIDE DEF values
  <2>3. Content(values)
    BY <2>1, <2>2, Distinct, ContentOf
  <2> QED
    BY <2>3, HoldingRequires DEF Asset, values
<1> QED
  BY <1>1, <1>2, <1>3, <1>4, <1>5

LEMMA OptionsFit ==
  \A field : Required(field) =>
    /\ WellFormed(Option(field)) /\ WellFormed(Skipped(field)) /\ WellFormed(required_option(field))
<1> SUFFICES ASSUME NEW field, Required(field)
             PROVE  /\ WellFormed(Option(field)) /\ WellFormed(Skipped(field))
                    /\ WellFormed(required_option(field))
  OBVIOUS
<1>1. WellFormed(Option(field))
  BY Distinct DEF Required, WellFormed, Option
<1>2. WellFormed(Skipped(field))
  BY <1>1, Distinct DEF WellFormed, Option, Skipped
<1>3. WellFormed(required_option(field))
  BY Distinct DEF Required, WellFormed, required_option
<1> QED
  BY <1>1, <1>2, <1>3

LEMMA NamedFieldsRequire ==
  /\ Required(MirrorAdvertiseState) /\ Required(SubscriptionKind) /\ Required(WalletReadSource)
  /\ Required(WalletOperatorAddressUnavailableReason) /\ Required(WalletSyncPhase)
  /\ Required(CollateralUnknownReason) /\ Required(MirrorBondStatesUnknownReason)
  /\ Required(CollateralFundingState) /\ Required(CollateralBufferUnknownReason)
<1>1. Required(WalletSyncPhase)
  <2>1. Required(Tokens({"not_started", "syncing", "synced", "no_wallet_enrolled",
                         "wallet_not_unlocked"}))
    BY TokensRequire
  <2> QED
    BY <2>1 DEF WalletSyncPhase, Required, WellFormed
<1> QED
  BY <1>1, TokensRequire
     DEF MirrorAdvertiseState, SubscriptionKind, WalletReadSource, CollateralUnknownReason,
         WalletOperatorAddressUnavailableReason, MirrorBondStatesUnknownReason,
         CollateralFundingState, CollateralBufferUnknownReason

LEMMA ObjectsRequire ==
  \A of \in {"CacheView", "SyncAvailability", "MirrorAdvertiseView", "WalletCoinRecord",
             "WalletCoinSpend", "SpendAuthority", "SpendAsset", "SpendOutcome",
             "SpendChainReference", "MirrorBondKey", "WalletOperatorAddressResult",
             "UrlReconcileStatus", "UrlReconcileObservation",
             "MirrorReconcileWalletCapability"} : Required(Object(of))
<1>1. ASSUME NEW of, of # "cat: dig", of # "cat: other"
      PROVE  Value("object", of) \notin Cats
  BY <1>1 DEF Value, Cats
<1> QED
  BY <1>1, ObjectRequires DEF Object

\* Keys whose absence reads as a value.
LEMMA DefaultsFit ==
  /\ WellFormed(Default(Bool, False))
  /\ WellFormed(Default(SubscriptionKind, Value("text", "capsule")))
  /\ WellFormed(Default(Number, Value("number", "0")))
<1>1. ASSUME NEW field, Required(field), NEW value, value \notin Cats, value # True,
             value.kind \in {"text", "bool", "number"}
      PROVE  WellFormed(Default(field, value))
  <2> DEFINE given == Default(field, value)
  <2>1. /\ DOMAIN given = {"holds", "any_text", "absent", "null", "omitted"}
        /\ given.holds = field.holds \cup {value} /\ given.absent = value
        /\ given.null = field.null /\ given.omitted = field.omitted
    BY <1>1 DEF Required, WellFormed, Default
  <2>2. Content(given.holds)
    BY <1>1, <2>1, Distinct DEF Required, WellFormed, Content
  <2>3. value # None
    <3>1. None.kind = "none"
      BY ValueParts DEF None
    <3> QED
      BY <1>1, <3>1
  <2>4. ~ field.omitted
    BY <1>1, Distinct DEF Required, WellFormed
  <2> QED
    BY <1>1, <2>1, <2>2, <2>3, <2>4 DEF Required, WellFormed
<1>2. \A value \in {False, Value("text", "capsule"), Value("number", "0")} :
         value \notin Cats /\ value # True /\ value.kind \in {"text", "bool", "number"}
  BY ValueParts, OnlyObjectsAreCats DEF False, True
<1> QED
  BY <1>1, <1>2, ScalarsRequire, NamedFieldsRequire

LEMMA RequiredFits == \A field : Required(field) => WellFormed(field)
BY DEF Required

-----------------------------------------------------------------------------
(* The types                                                               *)

LEMMA MergedIsSound ==
  ASSUME NEW f, NEW g, \A key \in DOMAIN f : WellFormed(f[key]),
         \A key \in DOMAIN g : WellFormed(g[key])
  PROVE  \A key \in DOMAIN Merged(f, g) : WellFormed(Merged(f, g)[key])
BY DEF Merged

Sound(type) == \A struct \in type : \A key \in DOMAIN struct : WellFormed(struct[key])

LEMMA ResultsAreSound == \A type \in DOMAIN Results : Sound(Results[type])
<1>1. /\ Sound(CacheView) /\ Sound(StatusResult) /\ Sound(ConfigResult) /\
         Sound(SetUpstreamResult) /\ Sound(SetMirrorAdvertiseUrlsResult) /\
         Sound(SetLevelResult)
  BY ScalarsRequire, ListsRequire, ObjectsRequire, TokensRequire, NamedFieldsRequire,
     OptionsFit, DefaultsFit, RequiredFits
     DEF Sound, CacheView, StatusResult, ConfigResult, SetUpstreamResult,
         SetMirrorAdvertiseUrlsResult, SetLevelResult
<1>2. /\ Sound(SetCapResult) /\ Sound(CacheClearResult) /\ Sound(HostedStoresListResult) /\
         Sound(PinResult) /\ Sound(UnpinResult) /\ Sound(HostedStoreStatusResult)
  BY ScalarsRequire, ListsRequire, ObjectsRequire, TokensRequire, NamedFieldsRequire,
     OptionsFit, DefaultsFit, RequiredFits
     DEF Sound, SetCapResult, CacheClearResult, HostedStoresListResult, PinResult, UnpinResult,
         HostedStoreStatusResult, HostedStore
<1>3. /\ Sound(CapsuleFetchResult) /\ Sound(SyncStatusResult) /\ Sound(SyncTriggerResult) /\
         Sound(PairingApproveResult) /\ Sound(PairingRevokeResult) /\
         Sound(PairingRequestResult)
  BY ScalarsRequire, ListsRequire, ObjectsRequire, TokensRequire, NamedFieldsRequire,
     OptionsFit, DefaultsFit, RequiredFits
     DEF Sound, CapsuleFetchResult, SyncStatusResult, SyncTriggerResult, PairingApproveResult,
         PairingRevokeResult, PairingRequestResult
<1>4. /\ Sound(PairingPollResult) /\ Sound(PeerCountsResult) /\ Sound(PeersConnectResult) /\
         Sound(PeersDisconnectResult) /\ Sound(ChiaPeersListResult) /\
         Sound(ChiaPeersAddResult)
  BY ScalarsRequire, ListsRequire, ObjectsRequire, TokensRequire, NamedFieldsRequire,
     OptionsFit, DefaultsFit, RequiredFits
     DEF Sound, PairingPollResult, PeerCountsResult, PeersConnectResult, PeersDisconnectResult,
         ChiaPeersListResult, ChiaPeersAddResult
<1>5. /\ Sound(ChiaPeersRemoveResult) /\ Sound(SubscribeResult) /\ Sound(UnsubscribeResult) /\
         Sound(ListSubscriptionsResult) /\ Sound(WalletBalanceResult) /\
         Sound(WalletCoinsResult)
  BY ScalarsRequire, ListsRequire, ObjectsRequire, TokensRequire, NamedFieldsRequire,
     OptionsFit, DefaultsFit, RequiredFits
     DEF Sound, ChiaPeersRemoveResult, SubscribeResult, UnsubscribeResult,
         ListSubscriptionsResult, WalletBalanceResult, WalletCoinsResult
<1>6. /\ Sound(WalletCoinByIdResult) /\ Sound(WalletCoinSpendResult) /\
         Sound(WalletCoinsByParentResult) /\ Sound(WalletPeakResult) /\
         Sound(WalletOperatorAddressResult) /\ Sound(WalletSyncStatusResult)
  BY ScalarsRequire, ListsRequire, ObjectsRequire, TokensRequire, NamedFieldsRequire,
     OptionsFit, DefaultsFit, RequiredFits
     DEF Sound, WalletCoinByIdResult, WalletCoinSpendResult, WalletCoinsByParentResult,
         WalletPeakResult, WalletOperatorAddressResult, WalletSyncStatusResult
<1>7. /\ Sound(WalletBroadcastResult) /\ Sound(WalletWatchResult) /\
         Sound(WalletUnwatchResult) /\ Sound(WalletWatchedResult) /\
         Sound(WalletReservationsHeldResult) /\ Sound(WalletReservationsReserveResult)
  BY ScalarsRequire, ListsRequire, ObjectsRequire, TokensRequire, NamedFieldsRequire,
     OptionsFit, DefaultsFit, RequiredFits
     DEF Sound, WalletBroadcastResult, WalletWatchResult, WalletUnwatchResult,
         WalletWatchedResult, WalletReservationsHeldResult, WalletReservationsReserveResult
<1>8. /\ Sound(WalletReservationsReleaseResult) /\ Sound(WalletResetCoinDbResult) /\
         Sound(WalletArrivalsResult) /\ Sound(ProfilePutBodyResult) /\
         Sound(ProfileGetBodyResult) /\ Sound(SpendsListResult)
  BY ScalarsRequire, ListsRequire, ObjectsRequire, TokensRequire, NamedFieldsRequire,
     OptionsFit, DefaultsFit, RequiredFits
     DEF Sound, WalletReservationsReleaseResult, WalletResetCoinDbResult, WalletArrivalsResult,
         ProfilePutBodyResult, ProfileGetBodyResult, SpendsListResult
<1>9. /\ Sound(MirrorBondStatesResult) /\ Sound(CollateralRequirementResult) /\
         Sound(CollateralBufferResult) /\ Sound(CollateralMarginResult)
  BY ScalarsRequire, ListsRequire, ObjectsRequire, TokensRequire, NamedFieldsRequire,
     OptionsFit, DefaultsFit, RequiredFits
     DEF Sound, MirrorBondStatesResult, CollateralRequirementResult, CollateralBufferResult,
         CollateralMarginResult
<1>10. Sound(MirrorReconcileResult)
  <2>1. Sound(MirrorReconcileRefusal)
    BY ScalarsRequire, TokensRequire, ObjectsRequire, NamedFieldsRequire, RequiredFits
       DEF Sound, MirrorReconcileRefusal
  <2>2. \A struct \in {[outcome |-> Tokens({"refused"}), url_current |-> Option(List("String"))]} :
           \A key \in DOMAIN struct : WellFormed(struct[key])
    BY TokensRequire, ListsRequire, OptionsFit, RequiredFits
  <2>3. ASSUME NEW struct \in MirrorReconcileResult, NEW key \in DOMAIN struct
        PROVE  WellFormed(struct[key])
    <3> DEFINE refused == [outcome |-> Tokens({"refused"}),
                           url_current |-> Option(List("String"))]
    <3>1. CASE \E reason \in MirrorReconcileRefusal : struct = Merged(refused, reason)
      BY <2>1, <2>2, <3>1, MergedIsSound DEF Sound
    <3>2. CASE ~ \E reason \in MirrorReconcileRefusal : struct = Merged(refused, reason)
      BY <3>2, ScalarsRequire, TokensRequire, ListsRequire, OptionsFit, RequiredFits
         DEF MirrorReconcileResult
    <3> QED
      BY <3>1, <3>2
  <2> QED
    BY <2>3 DEF Sound
<1> QED
  BY <1>1, <1>2, <1>3, <1>4, <1>5, <1>6, <1>7, <1>8, <1>9, <1>10 DEF Results

LEMMA RowsAreSound == \A type \in DOMAIN Rows : Sound(Rows[type])
<1>1. /\ Sound(SyncAvailability) /\ Sound(MirrorAdvertiseView) /\ Sound(CapsuleEntry) /\
         Sound(HostedStore) /\ Sound(ChiaPeerEntry) /\ Sound(WalletCoinRecord)
  BY ScalarsRequire, ListsRequire, ObjectsRequire, TokensRequire, NamedFieldsRequire,
     OptionsFit, DefaultsFit, RequiredFits
     DEF Sound, SyncAvailability, MirrorAdvertiseView, CapsuleEntry, HostedStore, ChiaPeerEntry,
         WalletCoinRecord
<1>2. /\ Sound(WalletCoinSpend) /\ Sound(ReservedCoin) /\ Sound(WalletArrivalRecord) /\
         Sound(SpendAsset) /\ Sound(SpendAuthority) /\ Sound(SpendChainReference)
  BY ScalarsRequire, ListsRequire, ObjectsRequire, TokensRequire, NamedFieldsRequire,
     OptionsFit, DefaultsFit, RequiredFits
     DEF Sound, WalletCoinSpend, ReservedCoin, WalletArrivalRecord, SpendAsset, SpendAuthority,
         SpendChainReference
<1>3. /\ Sound(AutomatedSpend) /\ Sound(UrlReconcileStatus) /\
         Sound(UrlReconcileObservation) /\ Sound(MirrorReconcileWalletCapability)
  BY ScalarsRequire, ListsRequire, ObjectsRequire, TokensRequire, NamedFieldsRequire,
     OptionsFit, DefaultsFit, RequiredFits
     DEF Sound, AutomatedSpend, UrlReconcileStatus, UrlReconcileObservation,
         MirrorReconcileWalletCapability
<1>4. Sound(SpendOutcome)
  BY TokensRequire, ScalarsRequire, RequiredFits DEF Sound, SpendOutcome
<1>5. Sound(MirrorBondEntry)
  <2>1. Sound(MirrorBondState)
    BY ScalarsRequire, ListsRequire, TokensRequire, NamedFieldsRequire, RequiredFits
       DEF Sound, MirrorBondState
  <2>2. \A key \in DOMAIN MirrorBondKey : WellFormed(MirrorBondKey[key])
    BY ScalarsRequire, RequiredFits DEF MirrorBondKey
  <2> QED
    BY <2>1, <2>2, MergedIsSound DEF Sound, MirrorBondEntry
<1> QED
  BY <1>1, <1>2, <1>3, <1>4, <1>5 DEF Rows

LEMMA ParamsAreSound == \A type \in DOMAIN Params : Sound(Params[type])
<1>1. /\ Sound(NoParams) /\ Sound(SetUpstreamParams) /\ Sound(SetMirrorAdvertiseUrlsParams) /\
         Sound(SetLevelParams) /\ Sound(SetCapParams) /\ Sound(PinParams)
  BY ScalarsRequire, ListsRequire, ObjectsRequire, TokensRequire, NamedFieldsRequire,
     OptionsFit, DefaultsFit, RequiredFits
     DEF Sound, NoParams, SetUpstreamParams, SetMirrorAdvertiseUrlsParams, SetLevelParams,
         SetCapParams, PinParams
<1>2. /\ Sound(UnpinParams) /\ Sound(HostedStoreStatusParams) /\ Sound(SyncTriggerParams) /\
         Sound(CapsuleFetchParams) /\ Sound(SetChannelParams) /\ Sound(PauseParams)
  BY ScalarsRequire, ListsRequire, ObjectsRequire, TokensRequire, NamedFieldsRequire,
     OptionsFit, DefaultsFit, RequiredFits
     DEF Sound, UnpinParams, PinParams, HostedStoreStatusParams, SyncTriggerParams,
         CapsuleFetchParams, SetChannelParams, PauseParams
<1>3. /\ Sound(RequestParams) /\ Sound(PollParams) /\ Sound(ApproveParams) /\
         Sound(RevokeParams) /\ Sound(PeersConnectParams) /\ Sound(PeersDisconnectParams)
  BY ScalarsRequire, ListsRequire, ObjectsRequire, TokensRequire, NamedFieldsRequire,
     OptionsFit, DefaultsFit, RequiredFits
     DEF Sound, RequestParams, PollParams, ApproveParams, RevokeParams, PeersConnectParams,
         PeersDisconnectParams
<1>4. /\ Sound(ChiaPeersAddParams) /\ Sound(ChiaPeersRemoveParams) /\ Sound(SubscribeParams) /\
         Sound(UnsubscribeParams) /\ Sound(WalletBalanceParams) /\ Sound(WalletCoinsParams)
  BY ScalarsRequire, ListsRequire, ObjectsRequire, TokensRequire, NamedFieldsRequire,
     OptionsFit, DefaultsFit, RequiredFits
     DEF Sound, ChiaPeersAddParams, ChiaPeersRemoveParams, SubscribeParams, UnsubscribeParams,
         WalletBalanceParams, WalletCoinsParams
<1>5. /\ Sound(WalletCoinByIdParams) /\ Sound(WalletCoinSpendParams) /\
         Sound(WalletCoinsByParentParams) /\ Sound(WalletArrivalsParams) /\
         Sound(WalletBroadcastParams) /\ Sound(WalletWatchParams)
  BY ScalarsRequire, ListsRequire, ObjectsRequire, TokensRequire, NamedFieldsRequire,
     OptionsFit, DefaultsFit, RequiredFits
     DEF Sound, WalletCoinByIdParams, WalletCoinSpendParams, WalletCoinsByParentParams,
         WalletArrivalsParams, WalletBroadcastParams, WalletWatchParams
<1>6. /\ Sound(WalletUnwatchParams) /\ Sound(WalletReservationsReserveParams) /\
         Sound(WalletReservationsReleaseParams) /\ Sound(WalletResetCoinDbParams) /\
         Sound(ProfilePutBodyParams) /\ Sound(ProfileGetBodyParams)
  BY ScalarsRequire, ListsRequire, ObjectsRequire, TokensRequire, NamedFieldsRequire,
     OptionsFit, DefaultsFit, RequiredFits
     DEF Sound, WalletUnwatchParams, WalletWatchParams, WalletReservationsReserveParams,
         WalletReservationsReleaseParams, WalletResetCoinDbParams, ProfilePutBodyParams,
         ProfileGetBodyParams
<1>7. /\ Sound(SpendsListParams) /\ Sound(MirrorBondStatesParams) /\
         Sound(MirrorReconcileParams) /\ Sound(CollateralMarginSetParams)
  BY ScalarsRequire, ListsRequire, ObjectsRequire, TokensRequire, NamedFieldsRequire,
     OptionsFit, DefaultsFit, RequiredFits
     DEF Sound, SpendsListParams, MirrorBondStatesParams, MirrorReconcileParams,
         CollateralMarginSetParams
<1> QED
  BY <1>1, <1>2, <1>3, <1>4, <1>5, <1>6, <1>7 DEF Params

\* The phase is the one any reader takes; no other type has a key of that name.
PhaseIsTotal(type) ==
  \A struct \in type : "phase" \in DOMAIN struct => struct["phase"] = WalletSyncPhase

LEMMA ResultsPhase == \A type \in DOMAIN Results : PhaseIsTotal(Results[type])
<1>1. /\ PhaseIsTotal(CacheView) /\ PhaseIsTotal(StatusResult) /\ PhaseIsTotal(ConfigResult) /\
         PhaseIsTotal(SetUpstreamResult) /\ PhaseIsTotal(SetMirrorAdvertiseUrlsResult) /\
         PhaseIsTotal(SetLevelResult) /\ PhaseIsTotal(SetCapResult) /\
         PhaseIsTotal(CacheClearResult) /\ PhaseIsTotal(HostedStoresListResult) /\
         PhaseIsTotal(PinResult) /\ PhaseIsTotal(UnpinResult) /\
         PhaseIsTotal(HostedStoreStatusResult) /\ PhaseIsTotal(CapsuleFetchResult) /\
         PhaseIsTotal(SyncStatusResult) /\ PhaseIsTotal(SyncTriggerResult) /\
         PhaseIsTotal(PairingApproveResult) /\ PhaseIsTotal(PairingRevokeResult) /\
         PhaseIsTotal(PairingRequestResult) /\ PhaseIsTotal(PairingPollResult) /\
         PhaseIsTotal(PeerCountsResult) /\ PhaseIsTotal(PeersConnectResult) /\
         PhaseIsTotal(PeersDisconnectResult) /\ PhaseIsTotal(ChiaPeersListResult) /\
         PhaseIsTotal(ChiaPeersAddResult) /\ PhaseIsTotal(ChiaPeersRemoveResult) /\
         PhaseIsTotal(SubscribeResult) /\ PhaseIsTotal(UnsubscribeResult) /\
         PhaseIsTotal(ListSubscriptionsResult) /\ PhaseIsTotal(WalletBalanceResult) /\
         PhaseIsTotal(WalletCoinsResult)
  BY DEF PhaseIsTotal, CacheView, StatusResult, ConfigResult, SetUpstreamResult,
         SetMirrorAdvertiseUrlsResult, SetLevelResult, SetCapResult, CacheClearResult,
         HostedStoresListResult, PinResult, UnpinResult, HostedStoreStatusResult, HostedStore,
         CapsuleFetchResult, SyncStatusResult, SyncTriggerResult, PairingApproveResult,
         PairingRevokeResult, PairingRequestResult, PairingPollResult, PeerCountsResult,
         PeersConnectResult, PeersDisconnectResult, ChiaPeersListResult, ChiaPeersAddResult,
         ChiaPeersRemoveResult, SubscribeResult, UnsubscribeResult, ListSubscriptionsResult,
         WalletBalanceResult, WalletCoinsResult
<1>2. /\ PhaseIsTotal(WalletCoinByIdResult) /\ PhaseIsTotal(WalletCoinSpendResult) /\
         PhaseIsTotal(WalletCoinsByParentResult) /\ PhaseIsTotal(WalletPeakResult) /\
         PhaseIsTotal(WalletOperatorAddressResult) /\ PhaseIsTotal(WalletSyncStatusResult) /\
         PhaseIsTotal(WalletBroadcastResult) /\ PhaseIsTotal(WalletWatchResult) /\
         PhaseIsTotal(WalletUnwatchResult) /\ PhaseIsTotal(WalletWatchedResult) /\
         PhaseIsTotal(WalletReservationsHeldResult) /\
         PhaseIsTotal(WalletReservationsReserveResult) /\
         PhaseIsTotal(WalletReservationsReleaseResult) /\
         PhaseIsTotal(WalletResetCoinDbResult) /\ PhaseIsTotal(WalletArrivalsResult) /\
         PhaseIsTotal(ProfilePutBodyResult) /\ PhaseIsTotal(ProfileGetBodyResult) /\
         PhaseIsTotal(SpendsListResult) /\ PhaseIsTotal(MirrorBondStatesResult) /\
         PhaseIsTotal(CollateralRequirementResult) /\ PhaseIsTotal(CollateralBufferResult) /\
         PhaseIsTotal(CollateralMarginResult)
  BY DEF PhaseIsTotal, WalletCoinByIdResult, WalletCoinSpendResult, WalletCoinsByParentResult,
         WalletPeakResult, WalletOperatorAddressResult, WalletSyncStatusResult,
         WalletBroadcastResult, WalletWatchResult, WalletUnwatchResult, WalletWatchedResult,
         WalletReservationsHeldResult, WalletReservationsReserveResult,
         WalletReservationsReleaseResult, WalletResetCoinDbResult, WalletArrivalsResult,
         ProfilePutBodyResult, ProfileGetBodyResult, SpendsListResult, MirrorBondStatesResult,
         CollateralRequirementResult, CollateralBufferResult, CollateralMarginResult
<1>3. PhaseIsTotal(MirrorReconcileResult)
  BY DEF PhaseIsTotal, MirrorReconcileResult, MirrorReconcileRefusal, Merged
<1> QED
  BY <1>1, <1>2, <1>3 DEF Results

LEMMA RowsPhase == \A type \in DOMAIN Rows : PhaseIsTotal(Rows[type])
<1>1. /\ PhaseIsTotal(SyncAvailability) /\ PhaseIsTotal(MirrorAdvertiseView) /\
         PhaseIsTotal(CapsuleEntry) /\ PhaseIsTotal(HostedStore) /\
         PhaseIsTotal(ChiaPeerEntry) /\ PhaseIsTotal(WalletCoinRecord) /\
         PhaseIsTotal(WalletCoinSpend) /\ PhaseIsTotal(ReservedCoin) /\
         PhaseIsTotal(WalletArrivalRecord) /\ PhaseIsTotal(SpendAsset) /\
         PhaseIsTotal(SpendAuthority) /\ PhaseIsTotal(SpendOutcome) /\
         PhaseIsTotal(SpendChainReference) /\ PhaseIsTotal(AutomatedSpend) /\
         PhaseIsTotal(UrlReconcileStatus) /\ PhaseIsTotal(UrlReconcileObservation) /\
         PhaseIsTotal(MirrorReconcileWalletCapability)
  BY DEF PhaseIsTotal, SyncAvailability, MirrorAdvertiseView, CapsuleEntry, HostedStore,
         ChiaPeerEntry, WalletCoinRecord, WalletCoinSpend, ReservedCoin, WalletArrivalRecord,
         SpendAsset, SpendAuthority, SpendOutcome, SpendChainReference, AutomatedSpend,
         UrlReconcileStatus, UrlReconcileObservation, MirrorReconcileWalletCapability
<1>2. PhaseIsTotal(MirrorBondEntry)
  BY DEF PhaseIsTotal, MirrorBondEntry, MirrorBondKey, MirrorBondState, Merged
<1> QED
  BY <1>1, <1>2 DEF Rows

LEMMA ParamsPhase == \A type \in DOMAIN Params : PhaseIsTotal(Params[type])
<1>1. /\ PhaseIsTotal(NoParams) /\ PhaseIsTotal(SetUpstreamParams) /\
         PhaseIsTotal(SetMirrorAdvertiseUrlsParams) /\ PhaseIsTotal(SetLevelParams) /\
         PhaseIsTotal(SetCapParams) /\ PhaseIsTotal(PinParams) /\ PhaseIsTotal(UnpinParams) /\
         PhaseIsTotal(HostedStoreStatusParams) /\ PhaseIsTotal(SyncTriggerParams) /\
         PhaseIsTotal(CapsuleFetchParams) /\ PhaseIsTotal(SetChannelParams) /\
         PhaseIsTotal(PauseParams) /\ PhaseIsTotal(RequestParams) /\
         PhaseIsTotal(PollParams) /\ PhaseIsTotal(ApproveParams) /\
         PhaseIsTotal(RevokeParams) /\ PhaseIsTotal(PeersConnectParams) /\
         PhaseIsTotal(PeersDisconnectParams) /\ PhaseIsTotal(ChiaPeersAddParams) /\
         PhaseIsTotal(ChiaPeersRemoveParams) /\ PhaseIsTotal(SubscribeParams) /\
         PhaseIsTotal(UnsubscribeParams) /\ PhaseIsTotal(WalletBalanceParams) /\
         PhaseIsTotal(WalletCoinsParams) /\ PhaseIsTotal(WalletCoinByIdParams) /\
         PhaseIsTotal(WalletCoinSpendParams) /\ PhaseIsTotal(WalletCoinsByParentParams) /\
         PhaseIsTotal(WalletArrivalsParams) /\ PhaseIsTotal(WalletBroadcastParams) /\
         PhaseIsTotal(WalletWatchParams)
  BY DEF PhaseIsTotal, NoParams, SetUpstreamParams, SetMirrorAdvertiseUrlsParams, SetLevelParams,
         SetCapParams, PinParams, UnpinParams, HostedStoreStatusParams, SyncTriggerParams,
         CapsuleFetchParams, SetChannelParams, PauseParams, RequestParams, PollParams,
         ApproveParams, RevokeParams, PeersConnectParams, PeersDisconnectParams,
         ChiaPeersAddParams, ChiaPeersRemoveParams, SubscribeParams, UnsubscribeParams,
         WalletBalanceParams, WalletCoinsParams, WalletCoinByIdParams, WalletCoinSpendParams,
         WalletCoinsByParentParams, WalletArrivalsParams, WalletBroadcastParams,
         WalletWatchParams
<1>2. /\ PhaseIsTotal(WalletUnwatchParams) /\ PhaseIsTotal(WalletReservationsReserveParams) /\
         PhaseIsTotal(WalletReservationsReleaseParams) /\
         PhaseIsTotal(WalletResetCoinDbParams) /\ PhaseIsTotal(ProfilePutBodyParams) /\
         PhaseIsTotal(ProfileGetBodyParams) /\ PhaseIsTotal(SpendsListParams) /\
         PhaseIsTotal(MirrorBondStatesParams) /\ PhaseIsTotal(MirrorReconcileParams) /\
         PhaseIsTotal(CollateralMarginSetParams)
  BY DEF PhaseIsTotal, WalletUnwatchParams, WalletWatchParams, WalletReservationsReserveParams,
         WalletReservationsReleaseParams, WalletResetCoinDbParams, ProfilePutBodyParams,
         ProfileGetBodyParams, SpendsListParams, MirrorBondStatesParams, MirrorReconcileParams,
         CollateralMarginSetParams
<1> QED
  BY <1>1, <1>2 DEF Params

LEMMA TablesJoin ==
  /\ DOMAIN Types = DOMAIN Results \cup DOMAIN Rows \cup DOMAIN Params
  /\ \A type \in DOMAIN Results : Types[type] = Results[type]
  /\ \A type \in DOMAIN Rows : Types[type] = Rows[type]
  /\ \A type \in DOMAIN Params : Types[type] = Params[type]
<1>1. DOMAIN Results \cap DOMAIN Rows = {}
  BY DEF Results, Rows
<1>2. DOMAIN Params \cap (DOMAIN Results \cup DOMAIN Rows) = {}
  BY DEF Results, Rows, Params
<1> QED
  BY <1>1, <1>2 DEF Types, Merged

LEMMA TypesAreSound == \A type \in DOMAIN Types : Sound(Types[type]) /\ PhaseIsTotal(Types[type])
BY TablesJoin, ResultsAreSound, RowsAreSound, ParamsAreSound, ResultsPhase, RowsPhase, ParamsPhase

LaterOf(type) == IF type \in DOMAIN Later THEN Later[type] ELSE {}

\* What an older build lacks may be missing, and the type has one struct only.
LEMMA LaterKeysMayBeMissing ==
  \A type \in DOMAIN Later :
    /\ type \in DOMAIN Types
    /\ \A s \in Types[type], t \in Types[type] : s = t
    /\ \A struct \in Types[type] : \A key \in Later[type] :
         key \in DOMAIN struct /\ struct[key].absent \in {None, Value("text", "capsule")}
<1>1. \A type \in DOMAIN Later : type \in DOMAIN Types
  BY TablesJoin DEF Later, Results, Rows, Params
<1>2. /\ Types["ConfigResult"] = ConfigResult /\ Types["PeerCountsResult"] = PeerCountsResult
      /\ Types["SubscribeResult"] = SubscribeResult
      /\ Types["SubscribeParams"] = SubscribeParams
      /\ Types["WalletBalanceResult"] = WalletBalanceResult
      /\ Types["WalletCoinsResult"] = WalletCoinsResult
      /\ Types["WalletSyncStatusResult"] = WalletSyncStatusResult
  <2>1. "SubscribeParams" \in DOMAIN Params /\ Params["SubscribeParams"] = SubscribeParams
    BY DEF Params
  <2>2. \A type \in DOMAIN Later \ {"SubscribeParams"} : type \in DOMAIN Results
    BY DEF Later, Results
  <2>3. /\ Results["ConfigResult"] = ConfigResult
        /\ Results["PeerCountsResult"] = PeerCountsResult
        /\ Results["SubscribeResult"] = SubscribeResult
        /\ Results["WalletBalanceResult"] = WalletBalanceResult
        /\ Results["WalletCoinsResult"] = WalletCoinsResult
        /\ Results["WalletSyncStatusResult"] = WalletSyncStatusResult
    BY DEF Results
  <2> QED
    BY <2>1, <2>2, <2>3, TablesJoin DEF Later
<1>3. \A field : Required(field) => Option(field).absent = None
  BY DEF Required, WellFormed, Option
<1>4. Default(SubscriptionKind, Value("text", "capsule")).absent = Value("text", "capsule")
  BY NamedFieldsRequire DEF Default, Required, WellFormed
<1> QED
  BY <1>1, <1>2, <1>3, <1>4, ScalarsRequire, NamedFieldsRequire, ObjectsRequire
     DEF Later, ConfigResult, PeerCountsResult, SubscribeResult, SubscribeParams,
         WalletBalanceResult, WalletCoinsResult, WalletSyncStatusResult

\* What a verdict is read from must be there.
LEMMA VerdictsMustBeThere ==
  \A type \in DOMAIN Verdicts :
    /\ type \in DOMAIN Types
    /\ \A struct \in Types[type] :
         Verdicts[type] \in DOMAIN struct => struct[Verdicts[type]].absent = Refused
<1>1. /\ Types["WalletCoinByIdResult"] = WalletCoinByIdResult
      /\ Types["WalletCoinSpendResult"] = WalletCoinSpendResult
      /\ Types["WalletCoinsByParentResult"] = WalletCoinsByParentResult
      /\ Types["SpendsListResult"] = SpendsListResult
      /\ Types["MirrorBondStatesResult"] = MirrorBondStatesResult
      /\ Types["AutomatedSpend"] = AutomatedSpend
  <2>1. "AutomatedSpend" \in DOMAIN Rows /\ Rows["AutomatedSpend"] = AutomatedSpend
    BY DEF Rows
  <2>2. \A type \in DOMAIN Verdicts \ {"AutomatedSpend"} : type \in DOMAIN Results
    BY DEF Verdicts, Results
  <2>3. /\ Results["WalletCoinByIdResult"] = WalletCoinByIdResult
        /\ Results["WalletCoinSpendResult"] = WalletCoinSpendResult
        /\ Results["WalletCoinsByParentResult"] = WalletCoinsByParentResult
        /\ Results["SpendsListResult"] = SpendsListResult
        /\ Results["MirrorBondStatesResult"] = MirrorBondStatesResult
    BY DEF Results
  <2> QED
    BY <2>1, <2>2, <2>3, TablesJoin DEF Verdicts
<1>2. \A field : Required(field) => required_option(field).absent = Refused
  BY DEF Required, WellFormed, required_option
<1>3. \A type \in DOMAIN Verdicts : type \in DOMAIN Types
  BY TablesJoin DEF Verdicts, Results, Rows
<1> QED
  BY <1>1, <1>2, <1>3, ScalarsRequire, ObjectsRequire
     DEF Verdicts, WalletCoinByIdResult, WalletCoinSpendResult, WalletCoinsByParentResult,
         SpendsListResult, MirrorBondStatesResult, AutomatedSpend

-----------------------------------------------------------------------------
(* Variants                                                                *)

\* The two structs never agree on the key: what one holds there the other
\* refuses, and neither may leave it out.
Tells(s, t, key) ==
  /\ key \in DOMAIN s /\ key \in DOMAIN t
  /\ s[key].holds \cap t[key].holds = {}
  /\ s[key].null = Refused /\ s[key].absent = Refused
  /\ t[key].null = Refused /\ t[key].absent = Refused /\ ~ t[key].any_text

Tagged(type) == \A s \in type, t \in type : s = t \/ \E key \in DOMAIN s : Tells(s, t, key)

LEMMA TokensTell ==
  ASSUME NEW s, NEW t, NEW key, key \in DOMAIN s, key \in DOMAIN t,
         NEW tokens, NEW others, tokens \cap others = {},
         s[key] = Tokens(tokens), t[key] = Tokens(others)
  PROVE  Tells(s, t, key)
<1>1. Tokens(tokens).holds = {Value("text", x) : x \in tokens}
      /\ Tokens(others).holds = {Value("text", x) : x \in others}
  BY DEF Tokens, Holding
<1>2. Tokens(tokens).holds \cap Tokens(others).holds = {}
  BY <1>1, ValueParts
<1>3. /\ Tokens(tokens).null = Refused /\ Tokens(tokens).absent = Refused
      /\ Tokens(others).null = Refused /\ Tokens(others).absent = Refused
      /\ ~ Tokens(others).any_text
  BY DEF Tokens, Holding
<1> QED
  BY <1>2, <1>3 DEF Tells

\* A type of one struct has nothing to tell apart.
LEMMA OneStruct == \A struct : Tagged({struct})
BY DEF Tagged

LEMMA ResultsAreTagged == \A type \in DOMAIN Results : Tagged(Results[type])
<1>1. /\ Tagged(CacheView) /\ Tagged(StatusResult) /\ Tagged(ConfigResult) /\
         Tagged(SetUpstreamResult) /\ Tagged(SetMirrorAdvertiseUrlsResult) /\
         Tagged(SetLevelResult) /\ Tagged(SetCapResult) /\ Tagged(CacheClearResult) /\
         Tagged(HostedStoresListResult) /\ Tagged(PinResult) /\ Tagged(UnpinResult) /\
         Tagged(HostedStoreStatusResult) /\ Tagged(CapsuleFetchResult) /\
         Tagged(SyncStatusResult) /\ Tagged(SyncTriggerResult) /\
         Tagged(PairingApproveResult) /\ Tagged(PairingRevokeResult) /\
         Tagged(PairingRequestResult) /\ Tagged(PairingPollResult) /\
         Tagged(PeerCountsResult) /\ Tagged(PeersConnectResult) /\
         Tagged(PeersDisconnectResult) /\ Tagged(ChiaPeersListResult) /\
         Tagged(ChiaPeersAddResult) /\ Tagged(ChiaPeersRemoveResult) /\
         Tagged(SubscribeResult) /\ Tagged(UnsubscribeResult) /\
         Tagged(ListSubscriptionsResult) /\ Tagged(WalletBalanceResult) /\
         Tagged(WalletCoinsResult)
  BY OneStruct
     DEF CacheView, StatusResult, ConfigResult, SetUpstreamResult,
         SetMirrorAdvertiseUrlsResult, SetLevelResult, SetCapResult, CacheClearResult,
         HostedStoresListResult, PinResult, UnpinResult, HostedStoreStatusResult, HostedStore,
         CapsuleFetchResult, SyncStatusResult, SyncTriggerResult, PairingApproveResult,
         PairingRevokeResult, PairingRequestResult, PairingPollResult, PeerCountsResult,
         PeersConnectResult, PeersDisconnectResult, ChiaPeersListResult, ChiaPeersAddResult,
         ChiaPeersRemoveResult, SubscribeResult, UnsubscribeResult, ListSubscriptionsResult,
         WalletBalanceResult, WalletCoinsResult
<1>2. /\ Tagged(WalletCoinByIdResult) /\ Tagged(WalletCoinSpendResult) /\
         Tagged(WalletCoinsByParentResult) /\ Tagged(WalletPeakResult) /\
         Tagged(WalletSyncStatusResult) /\ Tagged(WalletBroadcastResult) /\
         Tagged(WalletWatchResult) /\ Tagged(WalletUnwatchResult) /\
         Tagged(WalletWatchedResult) /\ Tagged(WalletReservationsHeldResult) /\
         Tagged(WalletReservationsReserveResult) /\ Tagged(WalletReservationsReleaseResult) /\
         Tagged(WalletResetCoinDbResult) /\ Tagged(WalletArrivalsResult) /\
         Tagged(ProfilePutBodyResult) /\ Tagged(ProfileGetBodyResult) /\
         Tagged(SpendsListResult) /\ Tagged(CollateralMarginResult)
  BY OneStruct
     DEF WalletCoinByIdResult, WalletCoinSpendResult, WalletCoinsByParentResult,
         WalletPeakResult, WalletSyncStatusResult, WalletBroadcastResult, WalletWatchResult,
         WalletUnwatchResult, WalletWatchedResult, WalletReservationsHeldResult,
         WalletReservationsReserveResult, WalletReservationsReleaseResult,
         WalletResetCoinDbResult, WalletArrivalsResult, ProfilePutBodyResult,
         ProfileGetBodyResult, SpendsListResult, CollateralMarginResult
<1>3. Tagged(WalletOperatorAddressResult)
  BY TokensTell DEF Tagged, WalletOperatorAddressResult
<1>4. Tagged(MirrorBondStatesResult)
  BY TokensTell DEF Tagged, MirrorBondStatesResult
<1>5. Tagged(MirrorReconcileResult)
  BY TokensTell DEF Tagged, MirrorReconcileResult, MirrorReconcileRefusal, Merged
<1>6. Tagged(CollateralRequirementResult)
  BY TokensTell DEF Tagged, CollateralRequirementResult
<1>7. Tagged(CollateralBufferResult)
  BY TokensTell DEF Tagged, CollateralBufferResult
<1> QED
  BY <1>1, <1>2, <1>3, <1>4, <1>5, <1>6, <1>7 DEF Results

LEMMA RowsAreTagged == \A type \in DOMAIN Rows : Tagged(Rows[type])
<1>1. /\ Tagged(SyncAvailability) /\ Tagged(MirrorAdvertiseView) /\ Tagged(CapsuleEntry) /\
         Tagged(HostedStore) /\ Tagged(ChiaPeerEntry) /\ Tagged(WalletCoinRecord) /\
         Tagged(WalletCoinSpend) /\ Tagged(ReservedCoin) /\ Tagged(WalletArrivalRecord) /\
         Tagged(SpendAuthority) /\ Tagged(SpendChainReference) /\ Tagged(AutomatedSpend) /\
         Tagged(UrlReconcileStatus) /\ Tagged(UrlReconcileObservation)
  BY OneStruct
     DEF SyncAvailability, MirrorAdvertiseView, CapsuleEntry, HostedStore, ChiaPeerEntry,
         WalletCoinRecord, WalletCoinSpend, ReservedCoin, WalletArrivalRecord, SpendAuthority,
         SpendChainReference, AutomatedSpend, UrlReconcileStatus, UrlReconcileObservation
<1>2. Tagged(SpendAsset)
  BY TokensTell DEF Tagged, SpendAsset
<1>3. Tagged(SpendOutcome)
  BY TokensTell DEF Tagged, SpendOutcome
<1>4. Tagged(MirrorBondEntry)
  BY TokensTell DEF Tagged, MirrorBondEntry, MirrorBondKey, MirrorBondState, Merged
<1>5. Tagged(MirrorReconcileWalletCapability)
  BY TokensTell DEF Tagged, MirrorReconcileWalletCapability
<1> QED
  BY <1>1, <1>2, <1>3, <1>4, <1>5 DEF Rows

LEMMA ParamsAreTagged == \A type \in DOMAIN Params : Tagged(Params[type])
<1>1. /\ Tagged(NoParams) /\ Tagged(SetUpstreamParams) /\
         Tagged(SetMirrorAdvertiseUrlsParams) /\ Tagged(SetLevelParams) /\
         Tagged(SetCapParams) /\ Tagged(PinParams) /\ Tagged(UnpinParams) /\
         Tagged(HostedStoreStatusParams) /\ Tagged(SyncTriggerParams) /\
         Tagged(CapsuleFetchParams) /\ Tagged(SetChannelParams) /\ Tagged(PauseParams) /\
         Tagged(RequestParams) /\ Tagged(PollParams) /\ Tagged(ApproveParams) /\
         Tagged(RevokeParams) /\ Tagged(PeersConnectParams) /\ Tagged(PeersDisconnectParams) /\
         Tagged(ChiaPeersAddParams) /\ Tagged(ChiaPeersRemoveParams) /\
         Tagged(SubscribeParams) /\ Tagged(UnsubscribeParams) /\ Tagged(WalletBalanceParams) /\
         Tagged(WalletCoinsParams) /\ Tagged(WalletCoinByIdParams) /\
         Tagged(WalletCoinSpendParams) /\ Tagged(WalletCoinsByParentParams) /\
         Tagged(WalletArrivalsParams) /\ Tagged(WalletBroadcastParams) /\
         Tagged(WalletWatchParams)
  BY OneStruct
     DEF NoParams, SetUpstreamParams, SetMirrorAdvertiseUrlsParams, SetLevelParams,
         SetCapParams, PinParams, UnpinParams, HostedStoreStatusParams, SyncTriggerParams,
         CapsuleFetchParams, SetChannelParams, PauseParams, RequestParams, PollParams,
         ApproveParams, RevokeParams, PeersConnectParams, PeersDisconnectParams,
         ChiaPeersAddParams, ChiaPeersRemoveParams, SubscribeParams, UnsubscribeParams,
         WalletBalanceParams, WalletCoinsParams, WalletCoinByIdParams, WalletCoinSpendParams,
         WalletCoinsByParentParams, WalletArrivalsParams, WalletBroadcastParams,
         WalletWatchParams
<1>2. /\ Tagged(WalletUnwatchParams) /\ Tagged(WalletReservationsReserveParams) /\
         Tagged(WalletReservationsReleaseParams) /\ Tagged(WalletResetCoinDbParams) /\
         Tagged(ProfilePutBodyParams) /\ Tagged(ProfileGetBodyParams) /\
         Tagged(SpendsListParams) /\ Tagged(MirrorBondStatesParams) /\
         Tagged(MirrorReconcileParams) /\ Tagged(CollateralMarginSetParams)
  BY OneStruct
     DEF WalletUnwatchParams, WalletWatchParams, WalletReservationsReserveParams,
         WalletReservationsReleaseParams, WalletResetCoinDbParams, ProfilePutBodyParams,
         ProfileGetBodyParams, SpendsListParams, MirrorBondStatesParams, MirrorReconcileParams,
         CollateralMarginSetParams
<1> QED
  BY <1>1, <1>2 DEF Params

-----------------------------------------------------------------------------
(* Values on the wire                                                      *)

OnWire(value) == IF value = None THEN Null ELSE serialize(value)

LEMMA WireValues ==
  /\ OnWire(None) = Null /\ OnWire(Dig) = DigToken
  /\ \A v : v # None /\ v # Dig => OnWire(v) = v
BY Distinct DEF OnWire, serialize, Dig, DigToken, None, Value

LEMMA ContentIsReal ==
  \A values : Content(values) => None \notin values /\ Null \notin values /\ Refused \notin values
<1>1. None.kind = "none" /\ Null.kind = "null" /\ Refused.kind = "refused"
  BY ValueParts DEF None, Null, Refused
<1> QED
  BY <1>1 DEF Content

\* Of a value that may be held, what is on the wire is null for none only,
\* consent for consent only, and is encoded the same again.
LEMMA WireTells ==
  ASSUME NEW values, Content(values), NEW v \in values \cup {None}
  PROVE  /\ OnWire(v) = Null <=> v = None
         /\ OnWire(v) = True <=> v = True
         /\ v # None => OnWire(v) \in values /\ OnWire(v) # None /\ OnWire(OnWire(v)) = OnWire(v)
<1>1. \A w \in values : w # None /\ w # Null /\ w # Refused
  BY ContentIsReal
<1>2. Dig \in values => DigToken \in values
  BY DEF Content
<1>3. Dig # True /\ Dig # None /\ DigToken # Dig
  BY DEF Dig, True, None, DigToken, Value
<1> QED
  BY <1>1, <1>2, <1>3, WireValues, Distinct

LEMMA EncodeParts ==
  \A struct, view :
    /\ DOMAIN Encode(struct, view) = {k \in DOMAIN struct : ~(struct[k].omitted /\ view[k] = None)}
    /\ \A key \in DOMAIN Encode(struct, view) : Encode(struct, view)[key] = OnWire(view[key])
BY DEF Encode, OnWire

LEMMA DecodeParts ==
  \A struct, payload :
    /\ DOMAIN Decode(struct, payload) = DOMAIN struct
    /\ \A key \in DOMAIN struct :
         Decode(struct, payload)[key] = DecodeKey(struct[key], payload, key)
BY DEF Decode

\* What a key that is not refused reads as.
LEMMA DecodeCases ==
  ASSUME NEW field, NEW payload, NEW key, DecodeKey(field, payload, key) # Refused
  PROVE  \/ key \notin DOMAIN payload /\ DecodeKey(field, payload, key) = field.absent
         \/ /\ key \in DOMAIN payload /\ payload[key] = Null
            /\ DecodeKey(field, payload, key) = field.null
         \/ /\ key \in DOMAIN payload /\ payload[key] # Null
            /\ DecodeKey(field, payload, key) = payload[key]
            /\ payload[key] \in field.holds \/ (field.any_text /\ payload[key].kind = "text")
BY DEF DecodeKey, Accepts

-----------------------------------------------------------------------------
(* Structs of a build                                                      *)

\* struct is what base is to a build: a build that is not current lacks the
\* later keys and names no CAT.
Aged(build, struct, base, later) ==
  /\ DOMAIN struct = IF build = "current" THEN DOMAIN base ELSE DOMAIN base \ later
  /\ \A key \in DOMAIN struct :
       /\ struct[key].any_text = base[key].any_text /\ struct[key].absent = base[key].absent
       /\ struct[key].null = base[key].null /\ struct[key].omitted = base[key].omitted
       /\ base[key].holds \ Cats \subseteq struct[key].holds
       /\ struct[key].holds \subseteq base[key].holds
       /\ build = "current" => struct[key].holds = base[key].holds

LEMMA InBuildAges ==
  ASSUME NEW build, NEW base, NEW later, \A key \in DOMAIN base : WellFormed(base[key])
  PROVE  Aged(build, InBuild(build, base, later), base, later)
<1>1. CASE build = "current"
  BY <1>1 DEF InBuild, Aged
<1>2. CASE build # "current"
  <2> DEFINE struct == InBuild(build, base, later)
  <2>1. DOMAIN struct = DOMAIN base \ later
    BY <1>2 DEF InBuild
  <2>2. ASSUME NEW key \in DOMAIN base \ later
        PROVE  /\ struct[key].any_text = base[key].any_text
               /\ struct[key].absent = base[key].absent
               /\ struct[key].null = base[key].null /\ struct[key].omitted = base[key].omitted
               /\ struct[key].holds = base[key].holds \ Cats
    <3>1. struct[key] = [base[key] EXCEPT !.holds = @ \ Cats]
      BY <1>2, <2>2 DEF InBuild
    <3>2. DOMAIN base[key] = {"holds", "any_text", "absent", "null", "omitted"}
      BY <2>2 DEF WellFormed
    <3> QED
      BY <3>1, <3>2
  <2> HIDE DEF struct
  <2>3. Aged(build, struct, base, later)
    BY <1>2, <2>1, <2>2 DEF Aged
  <2> QED
    BY <2>3 DEF struct
<1> QED
  BY <1>1, <1>2

LEMMA StructsAge ==
  ASSUME NEW type \in DOMAIN Types, NEW build
  PROVE  /\ \A struct \in Structs(build, type) : \E base \in Types[type] :
              Aged(build, struct, base, LaterOf(type))
         /\ \A base \in Types[type] : \E struct \in Structs(build, type) :
              Aged(build, struct, base, LaterOf(type))
<1>1. Structs(build, type) = {InBuild(build, base, LaterOf(type)) : base \in Types[type]}
  BY DEF Structs, LaterOf
<1>2. \A base \in Types[type] : \A key \in DOMAIN base : WellFormed(base[key])
  BY TypesAreSound DEF Sound
<1>3. \A base \in Types[type] :
         Aged(build, InBuild(build, base, LaterOf(type)), base, LaterOf(type))
  BY <1>2, InBuildAges
<1> QED
  BY <1>1, <1>3

-----------------------------------------------------------------------------
(* What a payload carries                                                  *)

\* words are values that the keys of base may be given.
Worded(base, words) ==
  /\ DOMAIN words \subseteq DOMAIN base
  /\ \A key \in DOMAIN words :
       words[key] \in base[key].holds \/ (words[key] = None /\ base[key].null = None)

\* The key is on the wire as it was said; none may be left out.
AsSaid(base, words, payload, key) ==
  /\ key \in DOMAIN words
  /\ IF key \in DOMAIN payload THEN payload[key] = OnWire(words[key])
     ELSE words[key] = None /\ base[key].omitted

\* The key is not there, or as a reader encodes it who did not find it.
AsAbsent(base, payload, key) ==
  key \in DOMAIN payload => payload[key] = OnWire(base[key].absent)

\* The payload still has every key as it was said; but once an older build had
\* it, the keys that build lacks may all be gone, or filled in by a newer one.
Carries(base, later, aged, words, payload) ==
  /\ DOMAIN payload \subseteq DOMAIN base
  /\ \A key \in DOMAIN base \ later : AsSaid(base, words, payload, key)
  /\ \/ \A key \in later : AsSaid(base, words, payload, key)
     \/ aged /\ \A key \in later : AsAbsent(base, payload, key)

\* What is said of a key is read as it was said, or is a CAT that only a build
\* that is not current refuses.
LEMMA SaidReads ==
  ASSUME NEW build, NEW base, NEW later, NEW struct, Aged(build, struct, base, later),
         NEW words, Worded(base, words), NEW payload, NEW key \in DOMAIN struct,
         WellFormed(base[key]), AsSaid(base, words, payload, key), key \in DOMAIN base,
         NEW v, v = DecodeKey(struct[key], payload, key)
  PROVE  /\ v = Refused => build # "current" /\ words[key] = OtherCat
         /\ v # Refused => /\ words[key] = None <=> v = None
                           /\ words[key] # None => v = OnWire(words[key])
                           /\ OnWire(v) = OnWire(words[key])
<1>1. /\ struct[key].any_text = base[key].any_text /\ struct[key].absent = base[key].absent
      /\ struct[key].null = base[key].null
      /\ base[key].holds \ Cats \subseteq struct[key].holds
      /\ struct[key].holds \subseteq base[key].holds
      /\ build = "current" => struct[key].holds = base[key].holds
  BY DEF Aged
<1>2. words[key] \in base[key].holds \/ (words[key] = None /\ base[key].null = None)
  BY DEF Worded, AsSaid
<1>3. Content(base[key].holds)
  BY DEF WellFormed
<1>4. /\ OnWire(words[key]) = Null <=> words[key] = None
      /\ words[key] # None =>
           /\ OnWire(words[key]) \in base[key].holds /\ OnWire(words[key]) # None
           /\ OnWire(OnWire(words[key])) = OnWire(words[key])
  BY <1>2, <1>3, WireTells
<1>5. CASE words[key] = None /\ key \in DOMAIN payload
  <2>1. payload[key] = Null
    BY <1>4, <1>5 DEF AsSaid
  <2>2. base[key].null = None
    <3>1. None \notin base[key].holds
      BY <1>3, ContentIsReal
    <3> QED
      BY <1>2, <1>5, <3>1
  <2>3. v = None
    BY <1>1, <1>5, <2>1, <2>2 DEF DecodeKey
  <2> QED
    BY <1>5, <2>3, Distinct
<1>6. CASE key \notin DOMAIN payload
  <2>1. words[key] = None /\ base[key].absent = None
    BY <1>6 DEF AsSaid, WellFormed
  <2>2. v = None
    BY <1>1, <1>6, <2>1 DEF DecodeKey
  <2> QED
    BY <2>1, <2>2, Distinct
<1>7. CASE words[key] # None /\ key \in DOMAIN payload
  <2>1. payload[key] = OnWire(words[key]) /\ payload[key] # Null
    BY <1>4, <1>7 DEF AsSaid
  <2>2. v = IF Accepts(struct[key], payload[key]) THEN payload[key] ELSE Refused
    BY <1>7, <2>1 DEF DecodeKey
  <2>3. ASSUME v # Refused
        PROVE  v = OnWire(words[key]) /\ v # None /\ OnWire(v) = OnWire(words[key])
    BY <1>4, <1>7, <2>1, <2>2, <2>3
  <2>4. ASSUME v = Refused
        PROVE  build # "current" /\ words[key] = OtherCat
    <3>1. Refused \notin base[key].holds
      BY <1>3, ContentIsReal
    <3>2. OnWire(words[key]) \notin struct[key].holds
      BY <1>4, <1>7, <2>1, <2>2, <2>4, <3>1 DEF Accepts
    <3>3. build # "current" /\ OnWire(words[key]) \in Cats
      BY <1>1, <1>4, <1>7, <3>2
    <3>4. OnWire(words[key]) = words[key] /\ words[key] # Dig
      BY <1>7, <3>3, WireValues, Distinct
    <3> QED
      BY <3>3, <3>4 DEF Cats, Dig, OtherCat
  <2> QED
    BY <1>7, <2>3, <2>4
<1> QED
  BY <1>5, <1>6, <1>7

\* What is not there, or filled in for it, reads as what the absence stands for.
LEMMA AbsentReads ==
  ASSUME NEW build, NEW base, NEW later, NEW struct, Aged(build, struct, base, later),
         NEW payload, NEW key \in DOMAIN struct, WellFormed(base[key]),
         base[key].absent # Refused, AsAbsent(base, payload, key)
  PROVE  DecodeKey(struct[key], payload, key) = base[key].absent
<1> DEFINE v == DecodeKey(struct[key], payload, key)
<1>1. /\ struct[key].absent = base[key].absent /\ struct[key].null = base[key].null
      /\ base[key].holds \ Cats \subseteq struct[key].holds
  BY DEF Aged
<1>2. CASE key \notin DOMAIN payload
  BY <1>1, <1>2 DEF DecodeKey
<1>3. CASE key \in DOMAIN payload /\ base[key].absent = None
  <2>1. payload[key] = Null /\ base[key].null = None
    BY <1>3, WireValues DEF AsAbsent, WellFormed
  <2> QED
    BY <1>1, <1>3, <2>1 DEF DecodeKey
<1>4. CASE key \in DOMAIN payload /\ base[key].absent # None
  <2>1. base[key].absent \in base[key].holds \ Cats
    BY <1>4 DEF WellFormed
  <2>2. payload[key] = base[key].absent
    BY <1>4, <2>1, WireValues, Distinct DEF AsAbsent
  <2>3. payload[key] # Null
    BY <2>1, <2>2, ContentIsReal DEF WellFormed
  <2> QED
    BY <1>1, <1>4, <2>1, <2>2, <2>3 DEF DecodeKey, Accepts
<1> QED
  BY <1>2, <1>3, <1>4

\* A struct that asks for a key the payload was not written with, or tells its
\* values from those it was, refuses it.
Foreign(s, t) ==
  \E key \in DOMAIN t : t[key].absent = Refused /\ (key \notin DOMAIN s \/ Tells(s, t, key))

LEMMA ForeignIsRefused ==
  ASSUME NEW base, NEW later, NEW aged, NEW words, Worded(base, words), NEW payload,
         Carries(base, later, aged, words, payload),
         \A key \in DOMAIN base : WellFormed(base[key]),
         \A key \in later : key \in DOMAIN base /\ base[key].absent # Refused,
         NEW other, NEW others, \A key \in others : other[key].absent # Refused,
         NEW build, NEW struct, Aged(build, struct, other, others), Foreign(base, other)
  PROVE  \E key \in DOMAIN struct : DecodeKey(struct[key], payload, key) = Refused
<1>1. PICK key \in DOMAIN other : /\ other[key].absent = Refused
                                  /\ key \notin DOMAIN base \/ Tells(base, other, key)
  BY DEF Foreign
<1>2. /\ key \in DOMAIN struct /\ struct[key].absent = Refused
      /\ struct[key].null = other[key].null /\ struct[key].any_text = other[key].any_text
      /\ struct[key].holds \subseteq other[key].holds
  BY <1>1 DEF Aged
<1>3. CASE key \notin DOMAIN payload
  BY <1>2, <1>3 DEF DecodeKey
<1>4. CASE key \in DOMAIN payload
  <2>1. key \in DOMAIN base /\ Tells(base, other, key)
    BY <1>1, <1>4 DEF Carries
  <2>2. AsSaid(base, words, payload, key)
    BY <2>1 DEF Carries, Tells
  <2>3. words[key] \in base[key].holds /\ words[key] # None
    <3>1. None \notin base[key].holds
      BY <2>1, ContentIsReal DEF WellFormed
    <3> QED
      BY <2>1, <2>2, <3>1, Distinct DEF Worded, AsSaid, Tells
  <2>4. payload[key] \in base[key].holds
    BY <1>4, <2>1, <2>2, <2>3, WireTells DEF AsSaid, WellFormed
  <2>5. ~ Accepts(struct[key], payload[key])
    BY <1>2, <2>1, <2>4 DEF Accepts, Tells
  <2> QED
    BY <1>2, <1>4, <2>1, <2>5 DEF DecodeKey, Tells
<1> QED
  BY <1>3, <1>4

\* Encoded again by a build that reads it, a payload carries what it carried.
LEMMA CarriesOn ==
  ASSUME NEW base, NEW later, NEW aged, NEW words, Worded(base, words), NEW payload,
         Carries(base, later, aged, words, payload),
         \A key \in DOMAIN base : WellFormed(base[key]),
         \A key \in later : key \in DOMAIN base /\ base[key].absent # Refused,
         NEW build, NEW struct, Aged(build, struct, base, later),
         \A key \in DOMAIN struct : DecodeKey(struct[key], payload, key) # Refused,
         NEW older, aged \/ build # "current" => older
  PROVE  Carries(base, later, older, words, Encode(struct, Decode(struct, payload)))
<1> DEFINE again == Encode(struct, Decode(struct, payload))
           read_as(key) == DecodeKey(struct[key], payload, key)
<1>1. DOMAIN struct \subseteq DOMAIN base
  BY DEF Aged
<1>2. /\ DOMAIN again = {key \in DOMAIN struct : ~(struct[key].omitted /\ read_as(key) = None)}
      /\ \A key \in DOMAIN again : again[key] = OnWire(read_as(key))
  <2> DEFINE view == Decode(struct, payload)
  <2>1. \A key \in DOMAIN struct : view[key] = read_as(key)
    BY DecodeParts
  <2>2. /\ DOMAIN again = {key \in DOMAIN struct : ~(struct[key].omitted /\ view[key] = None)}
        /\ \A key \in DOMAIN again : again[key] = OnWire(view[key])
    BY EncodeParts
  <2> HIDE DEF read_as, again, view
  <2> QED
    BY <2>1, <2>2
<1> HIDE DEF again
<1>3. ASSUME NEW key \in DOMAIN struct, AsSaid(base, words, payload, key)
      PROVE  AsSaid(base, words, again, key)
  <2>1. /\ read_as(key) # Refused /\ key \in DOMAIN base /\ WellFormed(base[key])
        /\ struct[key].omitted = base[key].omitted
    BY <1>1, <1>3 DEF Aged
  <2>2. /\ words[key] = None <=> read_as(key) = None
        /\ OnWire(read_as(key)) = OnWire(words[key])
    BY <1>3, <2>1, SaidReads
  <2> QED
    BY <1>2, <1>3, <2>1, <2>2 DEF AsSaid
<1>4. ASSUME NEW key \in later, AsAbsent(base, payload, key)
      PROVE  AsAbsent(base, again, key)
  <2>1. ASSUME key \in DOMAIN again
        PROVE  again[key] = OnWire(base[key].absent)
    BY <1>2, <1>4, <2>1, AbsentReads
  <2> QED
    BY <2>1 DEF AsAbsent
<1>5. DOMAIN base \ later \subseteq DOMAIN struct
  BY DEF Aged
<1>6. Carries(base, later, older, words, again)
  <2>1. DOMAIN again \subseteq DOMAIN base
    BY <1>1, <1>2
  <2>2. \A key \in DOMAIN base \ later : AsSaid(base, words, again, key)
    BY <1>3, <1>5 DEF Carries
  <2>3. CASE build = "current" /\ \A key \in later : AsSaid(base, words, payload, key)
    <3>1. later \subseteq DOMAIN struct
      BY <2>3 DEF Aged
    <3> QED
      BY <1>3, <2>1, <2>2, <2>3, <3>1 DEF Carries
  <2>4. CASE older /\ \A key \in later : AsAbsent(base, payload, key)
    BY <1>4, <2>1, <2>2, <2>4 DEF Carries
  <2>5. CASE build # "current"
    <3>1. \A key \in later : AsAbsent(base, again, key)
      BY <1>2, <2>5 DEF Aged, AsAbsent
    <3> QED
      BY <2>1, <2>2, <2>5, <3>1 DEF Carries
  <2> QED
    BY <2>3, <2>4, <2>5 DEF Carries
<1> QED
  BY <1>6 DEF again

LEMMA TypesAreTagged == \A type \in DOMAIN Types : Tagged(Types[type])
BY TablesJoin, ResultsAreTagged, RowsAreTagged, ParamsAreTagged

LEMMA LaterKeysFit ==
  \A type \in DOMAIN Types : \A struct \in Types[type] : \A key \in LaterOf(type) :
    key \in DOMAIN struct /\ struct[key].absent \in {None, Value("text", "capsule")}
                          /\ struct[key].absent # Refused
<1>1. Value("text", "capsule") # Refused
  BY DEF Refused, Value
<1> QED
  BY <1>1, LaterKeysMayBeMissing, Distinct DEF LaterOf

-----------------------------------------------------------------------------
(* The inductive invariant                                                 *)

Sane ==
  /\ written \in DOMAIN Types /\ expected \in DOMAIN Types
  /\ builds \subseteq Build /\ builds # {}
  /\ fault \in {"none", "lost", "misrouted"}
  /\ relays \in 0..MaxRelays
  /\ read # {} => wire = {}
  /\ fault # "misrouted" => expected = written
  /\ fault = "misrouted" =>
       expected \in DOMAIN Results /\ written \in DOMAIN Results /\ expected # written

\* The phase the writer said is a token.
PhaseIsSaid == "phase" \in DOMAIN said => \E token : said["phase"] = Value("text", token)

\* Whatever was lost, what is in transit affirms nothing, names no phase and
\* gives no verdict that was not said.
Kept(payload) ==
  /\ \A key \in DOMAIN payload : payload[key] = True => Says(key, True)
  /\ "phase" \in DOMAIN payload => Says("phase", payload["phase"])
  /\ written \in DOMAIN Verdicts =>
       LET key == Verdicts[written] IN
       key \in DOMAIN payload /\ payload[key] = Null => Says(key, None)

\* Until a key is lost, the payload carries one struct of the writer's type.
Untouched ==
  fault # "lost" =>
    \E base \in Types[written] :
      /\ Worded(base, said)
      /\ \A payload \in wire :
           Carries(base, LaterOf(written), "older" \in builds, said, payload)

WireInv ==
  /\ Sane
  /\ PhaseIsSaid
  /\ \A payload \in wire : Kept(payload)
  /\ Untouched

-----------------------------------------------------------------------------
(* A payload is written                                                    *)

LEMMA SayingsFit ==
  ASSUME NEW struct, \A key \in DOMAIN struct : Content(struct[key].holds),
         NEW words \in Sayings(struct)
  PROVE  /\ DOMAIN words = DOMAIN struct
         /\ \A key \in DOMAIN struct :
              \/ words[key] \in struct[key].holds
              \/ words[key] = None /\ struct[key].null # Refused
<1> DEFINE usual == [key \in DOMAIN struct |-> CHOOSE v \in struct[key].holds : TRUE]
           options(key) == struct[key].holds \cup {None : n \in {struct[key].null} \ {Refused}}
<1>1. \A key \in DOMAIN struct : usual[key] \in struct[key].holds
  BY DEF Content
<1>2. DOMAIN usual = DOMAIN struct
  OBVIOUS
<1>3. words \in {usual}
         \cup UNION {{[usual EXCEPT ![key] = v] : v \in options(key)} : key \in DOMAIN struct}
  BY DEF Sayings
<1> HIDE DEF usual
<1>4. CASE words = usual
  BY <1>1, <1>2, <1>4
<1>5. CASE words # usual
  <2>1. PICK key \in DOMAIN struct : \E v \in options(key) : words = [usual EXCEPT ![key] = v]
    BY <1>3, <1>5
  <2> PICK v \in options(key) : words = [usual EXCEPT ![key] = v]
    BY <2>1
  <2>2. v \in struct[key].holds \/ (v = None /\ struct[key].null # Refused)
    OBVIOUS
  <2> QED
    BY <1>1, <1>2, <2>2
<1> QED
  BY <1>4, <1>5

LEMMA InitInv == ASSUME ConstantsAssumption, Init PROVE WireInv
<1> DEFINE later == LaterOf(written)
<1>1. PICK build \in Build : \E struct \in Structs(build, written) :
        /\ said \in Sayings(struct) /\ wire = {Encode(struct, said)} /\ builds = {build}
  BY DEF Init
<1> PICK struct \in Structs(build, written) :
        /\ said \in Sayings(struct) /\ wire = {Encode(struct, said)} /\ builds = {build}
  BY <1>1
<1>2. /\ written \in DOMAIN Types /\ expected = written /\ fault = "none" /\ relays = 0
      /\ read = {}
  BY DEF Init
<1>3. PICK base \in Types[written] : Aged(build, struct, base, later)
  BY <1>2, StructsAge
<1>4. /\ \A key \in DOMAIN base : WellFormed(base[key])
      /\ "phase" \in DOMAIN base => base["phase"] = WalletSyncPhase
  BY <1>2, TypesAreSound DEF Sound, PhaseIsTotal
<1>5. /\ \A key \in DOMAIN struct : Content(struct[key].holds)
      /\ DOMAIN struct \subseteq DOMAIN base
      /\ DOMAIN base \ later \subseteq DOMAIN struct
  BY <1>3, <1>4, Distinct DEF Aged, WellFormed, Content
<1>6. /\ DOMAIN said = DOMAIN struct
      /\ \A key \in DOMAIN struct :
           said[key] \in struct[key].holds \/ (said[key] = None /\ struct[key].null # Refused)
  BY <1>5, SayingsFit
<1>7. \A key \in DOMAIN said :
         said[key] \in base[key].holds \/ (said[key] = None /\ base[key].null = None)
  BY <1>3, <1>4, <1>5, <1>6 DEF Aged, WellFormed
<1>8. Worded(base, said)
  BY <1>5, <1>6, <1>7 DEF Worded
<1> DEFINE payload == Encode(struct, said)
<1>9. /\ DOMAIN payload = {key \in DOMAIN struct : ~(struct[key].omitted /\ said[key] = None)}
      /\ \A key \in DOMAIN payload : payload[key] = OnWire(said[key])
  BY EncodeParts
<1>10. wire = {payload}
  OBVIOUS
<1> HIDE DEF payload
<1>11. Sane
  BY <1>1, <1>2, <1>10 DEF Sane, ConstantsAssumption
<1>12. PhaseIsSaid
  <2>1. WalletSyncPhase.holds
          = {Value("text", t) : t \in {"not_started", "syncing", "synced", "no_wallet_enrolled",
                                       "wallet_not_unlocked"}}
    BY DEF WalletSyncPhase, Tokens, Holding
  <2>2. WalletSyncPhase.null = Refused
    BY NamedFieldsRequire DEF WalletSyncPhase, Tokens, Holding
  <2>3. ASSUME "phase" \in DOMAIN said
        PROVE  said["phase"] \in WalletSyncPhase.holds
    BY <1>4, <1>5, <1>6, <1>7, <2>2, <2>3, Distinct
  <2> QED
    BY <2>1, <2>3 DEF PhaseIsSaid
<1>13. Kept(payload)
  <2>1. \A key \in DOMAIN payload : /\ payload[key] = Null <=> said[key] = None
                                    /\ payload[key] = True <=> said[key] = True
    BY <1>4, <1>5, <1>6, <1>7, <1>9, WireTells DEF WellFormed
  <2>2. "phase" \in DOMAIN payload => payload["phase"] = said["phase"]
    <3>1. \A token : Value("text", token) # None /\ Value("text", token) # Dig
      BY ValueParts DEF None, Dig, Value
    <3> QED
      BY <1>6, <1>9, <1>12, <3>1, WireValues DEF PhaseIsSaid
  <2> QED
    BY <1>6, <1>9, <2>1, <2>2 DEF Kept, Says
<1>14. Carries(base, later, "older" \in builds, said, payload)
  <2>1. DOMAIN payload \subseteq DOMAIN base
    BY <1>5, <1>9
  <2>2. \A key \in DOMAIN struct : AsSaid(base, said, payload, key)
    BY <1>3, <1>6, <1>9 DEF AsSaid, Aged
  <2>3. CASE build = "current"
    <3>1. DOMAIN struct = DOMAIN base
      BY <1>3, <2>3 DEF Aged
    <3>2. later \subseteq DOMAIN base
      BY <1>2, LaterKeysMayBeMissing DEF LaterOf
    <3> QED
      BY <2>1, <2>2, <3>1, <3>2 DEF Carries
  <2>4. CASE build # "current"
    <3>1. "older" \in builds
      BY <2>4 DEF Build
    <3>2. \A key \in later : AsAbsent(base, payload, key)
      BY <1>3, <1>9, <2>4 DEF Aged, AsAbsent
    <3> QED
      BY <1>5, <2>1, <2>2, <3>1, <3>2 DEF Carries
  <2> QED
    BY <2>3, <2>4
<1> QED
  BY <1>8, <1>10, <1>11, <1>12, <1>13, <1>14 DEF WireInv, Untouched

-----------------------------------------------------------------------------
(* A payload on its way                                                    *)

\* What all steps know of the reader's side.
LEMMA ReaderKnows ==
  ASSUME NEW type \in DOMAIN Types, NEW build, NEW struct \in Structs(build, type)
  PROVE  \E base \in Types[type] :
           /\ Aged(build, struct, base, LaterOf(type))
           /\ \A key \in DOMAIN struct :
                /\ key \in DOMAIN base /\ WellFormed(base[key])
                /\ struct[key].absent = base[key].absent /\ struct[key].null = base[key].null
                /\ struct[key].any_text = base[key].any_text
                /\ struct[key].holds \subseteq base[key].holds
                /\ key = "phase" => base[key] = WalletSyncPhase
<1>1. PICK base \in Types[type] : Aged(build, struct, base, LaterOf(type))
  BY StructsAge
<1>2. \A key \in DOMAIN base : /\ WellFormed(base[key])
                               /\ key = "phase" => base[key] = WalletSyncPhase
  BY TypesAreSound DEF Sound, PhaseIsTotal
<1> QED
  BY <1>1, <1>2 DEF Aged

\* What is read affirms, names as a phase, or leaves out of a verdict, only
\* what is on the wire.
LEMMA ReadsNoMore ==
  ASSUME NEW type \in DOMAIN Types, NEW build, NEW struct \in Structs(build, type), NEW payload,
         NEW key \in DOMAIN struct, NEW v, v = DecodeKey(struct[key], payload, key), v # Refused
  PROVE  /\ v = True => key \in DOMAIN payload /\ payload[key] = True
         /\ key = "phase" => key \in DOMAIN payload /\ v = payload[key] /\ v # None
         /\ v = None /\ struct[key].absent = Refused =>
              key \in DOMAIN payload /\ payload[key] = Null
         /\ v # Null
<1>1. PICK base \in Types[type] :
        /\ key \in DOMAIN base /\ WellFormed(base[key])
        /\ struct[key].absent = base[key].absent /\ struct[key].null = base[key].null
        /\ struct[key].any_text = base[key].any_text
        /\ struct[key].holds \subseteq base[key].holds
        /\ key = "phase" => base[key] = WalletSyncPhase
  BY ReaderKnows
<1>2. /\ None \notin struct[key].holds /\ struct[key].null \in {None, Refused}
      /\ struct[key].absent # True
      /\ Null \notin base[key].holds
  BY <1>1, ContentIsReal DEF WellFormed
<1>3. None.kind # "text" /\ struct[key].absent # Null
  <2>1. None.kind # "text"
    BY DEF None, Value
  <2>2. struct[key].absent # Null
    BY <1>1, <1>2, Distinct DEF WellFormed
  <2> QED
    BY <2>1, <2>2
<1>4. WalletSyncPhase.absent = Refused /\ WalletSyncPhase.null = Refused
  BY DEF WalletSyncPhase, Tokens, Holding
<1>5. CASE key \notin DOMAIN payload
  <2>1. v = struct[key].absent
    BY <1>5, DecodeCases
  <2> QED
    BY <1>1, <1>2, <1>3, <1>4, <2>1, Distinct
<1>6. CASE key \in DOMAIN payload /\ payload[key] = Null
  <2>1. v = struct[key].null
    BY <1>6, DecodeCases
  <2> QED
    BY <1>1, <1>2, <1>4, <1>6, <2>1, Distinct
<1>7. CASE key \in DOMAIN payload /\ payload[key] # Null
  <2>1. v = payload[key] /\ (v \in struct[key].holds \/ v.kind = "text")
    BY <1>7, DecodeCases
  <2>2. v # None
    BY <1>2, <1>3, <2>1
  <2> QED
    BY <1>7, <2>1, <2>2
<1> QED
  BY <1>5, <1>6, <1>7

\* A build that encodes again writes what it has read.
LEMMA HeldIsRead ==
  ASSUME NEW type \in DOMAIN Types, NEW build, NEW struct \in Structs(build, type), NEW payload,
         \A key \in DOMAIN struct : DecodeKey(struct[key], payload, key) # Refused,
         PhaseIsSaid, Kept(payload)
  PROVE  [key \in DOMAIN struct |-> Held(build, key, Decode(struct, payload)[key])]
           = Decode(struct, payload)
<1> DEFINE view == Decode(struct, payload)
<1>1. view = [key \in DOMAIN struct |-> view[key]]
  BY DEF Decode
<1>2. ASSUME NEW key \in DOMAIN struct PROVE Held(build, key, view[key]) = view[key]
  <2>1. CASE key # "phase"
    BY <2>1 DEF Held
  <2>2. CASE key = "phase"
    <3>1. view[key] = DecodeKey(struct[key], payload, key)
      BY DecodeParts
    <3>2. key \in DOMAIN payload /\ view[key] = payload[key]
      BY <2>2, <3>1, ReadsNoMore
    <3>3. Says("phase", view[key])
      BY <2>2, <3>2 DEF Kept
    <3>4. PICK token : view[key] = Value("text", token)
      BY <3>3 DEF PhaseIsSaid, Says
    <3> QED
      BY <2>2, <3>4, ValueParts DEF Held, from, as_wire
  <2> QED
    BY <2>1, <2>2
<1> HIDE DEF view
<1>3. [key \in DOMAIN struct |-> Held(build, key, view[key])] = view
  BY <1>1, <1>2
<1> QED
  BY <1>3 DEF view

LEMMA KeptOn ==
  ASSUME NEW build, NEW struct \in Structs(build, written), written \in DOMAIN Types,
         NEW payload,
         \A key \in DOMAIN struct : DecodeKey(struct[key], payload, key) # Refused,
         PhaseIsSaid, Kept(payload)
  PROVE  Kept(Encode(struct, Decode(struct, payload)))
<1> DEFINE again == Encode(struct, Decode(struct, payload))
           v(key) == DecodeKey(struct[key], payload, key)
<1>1. /\ DOMAIN again \subseteq DOMAIN struct
      /\ \A key \in DOMAIN again : again[key] = OnWire(v(key))
  <2> DEFINE view == Decode(struct, payload)
  <2>1. /\ DOMAIN again \subseteq DOMAIN struct
        /\ \A key \in DOMAIN again : again[key] = OnWire(view[key])
    BY EncodeParts
  <2>2. \A key \in DOMAIN struct : view[key] = v(key)
    BY DecodeParts
  <2> HIDE DEF again, v, view
  <2> QED
    BY <2>1, <2>2
<1> HIDE DEF again
<1>2. ASSUME NEW key \in DOMAIN again
      PROVE  /\ v(key) = True => key \in DOMAIN payload /\ payload[key] = True
             /\ key = "phase" => key \in DOMAIN payload /\ v(key) = payload[key] /\ v(key) # None
             /\ v(key) = None /\ struct[key].absent = Refused =>
                  key \in DOMAIN payload /\ payload[key] = Null
             /\ v(key) # Null
  BY <1>1, <1>2, ReadsNoMore
<1> HIDE DEF v
<1>3. \A w : w # Null => /\ OnWire(w) = Null => w = None
                         /\ OnWire(w) = True => w = True
  BY WireValues, Distinct
<1>4. ASSUME NEW key \in DOMAIN again, again[key] = True
      PROVE  Says(key, True)
  BY <1>1, <1>2, <1>3, <1>4 DEF Kept
<1>5. ASSUME "phase" \in DOMAIN again
      PROVE  Says("phase", again["phase"])
  <2>1. Says("phase", v("phase")) /\ v("phase") # None
    BY <1>2, <1>5 DEF Kept
  <2>2. PICK token : v("phase") = Value("text", token)
    BY <2>1 DEF Says, PhaseIsSaid
  <2>3. v("phase") # Dig
    <3>1. Value("text", token) # Dig
      BY DEF Dig, Value
    <3> QED
      BY <2>2, <3>1
  <2>4. again["phase"] = v("phase")
    BY <1>1, <1>5, <2>1, <2>3, WireValues
  <2> QED
    BY <2>1, <2>4
<1>6. ASSUME written \in DOMAIN Verdicts, NEW key, key = Verdicts[written],
             key \in DOMAIN again, again[key] = Null
      PROVE  Says(key, None)
  <2>1. v(key) = None
    BY <1>1, <1>2, <1>3, <1>6
  <2>2. struct[key].absent = Refused
    <3>1. PICK base \in Types[written] :
            key \in DOMAIN base /\ struct[key].absent = base[key].absent
      BY <1>1, <1>6, ReaderKnows
    <3> QED
      BY <1>6, <3>1, VerdictsMustBeThere
  <2>3. key \in DOMAIN payload /\ payload[key] = Null
    BY <1>2, <1>6, <2>1, <2>2
  <2> QED
    BY <1>6, <2>3 DEF Kept
<1>7. Kept(again)
  BY <1>4, <1>5, <1>6 DEF Kept
<1> QED
  BY <1>7 DEF again

\* Of the writer's type, only the struct the payload was written with reads it.
LEMMA OneReads ==
  ASSUME NEW type \in DOMAIN Types, NEW base \in Types[type], NEW aged,
         Worded(base, said), NEW payload, Carries(base, LaterOf(type), aged, said, payload),
         NEW build, NEW struct \in Structs(build, type),
         \A key \in DOMAIN struct : DecodeKey(struct[key], payload, key) # Refused
  PROVE  Aged(build, struct, base, LaterOf(type))
<1>1. PICK other \in Types[type] : Aged(build, struct, other, LaterOf(type))
  BY StructsAge
<1>2. CASE other = base
  BY <1>1, <1>2
<1>3. CASE other # base
  <2>1. PICK key \in DOMAIN base : Tells(base, other, key)
    BY <1>3, TypesAreTagged DEF Tagged
  <2>2. Foreign(base, other)
    BY <2>1 DEF Tells, Foreign
  <2>3. /\ \A k \in DOMAIN base : WellFormed(base[k])
        /\ \A s \in Types[type] : \A k \in LaterOf(type) :
             k \in DOMAIN s /\ s[k].absent # Refused
    BY TypesAreSound, LaterKeysFit DEF Sound
  <2> QED
    BY <1>1, <2>2, <2>3, ForeignIsRefused
<1> QED
  BY <1>2, <1>3

\* What Untouched says of one struct.
Writes(base) ==
  /\ Worded(base, said)
  /\ \A payload \in wire : Carries(base, LaterOf(written), "older" \in builds, said, payload)

LEMMA RelayInv == ASSUME WireInv, NEW build \in Build, Relay(build) PROVE WireInv'
<1>1. PICK payload \in wire :
        LET structs == Readable(build, expected, payload) IN
        /\ wire' = {Encode(struct, [key \in DOMAIN struct |->
                             Held(build, key, Decode(struct, payload)[key])]) : struct \in structs}
        /\ read' = IF structs = {} THEN {Refused} ELSE {}
  BY DEF Relay
<1>2. /\ relays < MaxRelays /\ fault # "misrouted" /\ relays' = relays + 1
      /\ builds' = builds \cup {build}
      /\ written' = written /\ expected' = expected /\ said' = said /\ fault' = fault
  BY DEF Relay
<1>3. /\ Sane /\ PhaseIsSaid /\ Kept(payload) /\ Untouched
  BY DEF WireInv
<1>4. written \in DOMAIN Types /\ expected = written
  BY <1>2, <1>3 DEF Sane
<1> DEFINE Again(struct) == Encode(struct, Decode(struct, payload))
<1>5. ASSUME NEW again \in wire'
      PROVE  \E struct \in Structs(build, written) :
               /\ \A key \in DOMAIN struct : DecodeKey(struct[key], payload, key) # Refused
               /\ again = Again(struct)
  <2>1. PICK struct \in Readable(build, written, payload) :
          again = Encode(struct, [key \in DOMAIN struct |->
                                    Held(build, key, Decode(struct, payload)[key])])
    BY <1>1, <1>4, <1>5
  <2>2. /\ struct \in Structs(build, written)
        /\ \A key \in DOMAIN struct : DecodeKey(struct[key], payload, key) # Refused
    BY DEF Readable
  <2>3. [key \in DOMAIN struct |-> Held(build, key, Decode(struct, payload)[key])]
          = Decode(struct, payload)
    BY <1>3, <1>4, <2>2, HeldIsRead
  <2> QED
    BY <2>1, <2>2, <2>3
<1>6. Sane'
  <2>1. relays' \in 0..MaxRelays
    BY <1>2, <1>3, ConstantsAssumption DEF Sane, ConstantsAssumption
  <2>2. read' # {} => wire' = {}
    BY <1>1
  <2> QED
    BY <1>2, <1>3, <2>1, <2>2 DEF Sane
<1>7. PhaseIsSaid'
  BY <1>2, <1>3 DEF PhaseIsSaid
<1>8. \A again \in wire' : Kept(again)'
  <2>1. ASSUME NEW again \in wire' PROVE Kept(again)
    <3>1. PICK struct \in Structs(build, written) :
            /\ \A key \in DOMAIN struct : DecodeKey(struct[key], payload, key) # Refused
            /\ again = Again(struct)
      BY <1>5, <2>1
    <3> QED
      BY <1>3, <1>4, <3>1, KeptOn
  <2> QED
    BY <1>2, <2>1 DEF Kept, Says
<1>9. Untouched'
  <2> SUFFICES ASSUME fault # "lost" PROVE \E base \in Types[written] : Writes(base)'
    BY <1>2 DEF Untouched, Writes
  <2>1. PICK base \in Types[written] : Writes(base)
    BY <1>3 DEF Untouched, Writes
  <2>2. /\ \A key \in DOMAIN base : WellFormed(base[key])
        /\ \A key \in LaterOf(written) : key \in DOMAIN base /\ base[key].absent # Refused
    BY <1>4, TypesAreSound, LaterKeysFit DEF Sound
  <2>3. Worded(base, said)
    BY <2>1 DEF Writes
  <2>4. ASSUME NEW again \in wire'
        PROVE  Carries(base, LaterOf(written), "older" \in builds', said, again)
    <3>1. PICK struct \in Structs(build, written) :
            /\ \A key \in DOMAIN struct : DecodeKey(struct[key], payload, key) # Refused
            /\ again = Again(struct)
      BY <1>5, <2>4
    <3>2. Carries(base, LaterOf(written), "older" \in builds, said, payload)
      BY <2>1 DEF Writes
    <3>3. Aged(build, struct, base, LaterOf(written))
      BY <1>4, <2>3, <3>1, <3>2, OneReads
    <3>4. "older" \in builds \/ build # "current" => "older" \in builds'
      BY <1>2 DEF Build
    <3>5. Carries(base, LaterOf(written), "older" \in builds', said, Again(struct))
      BY <2>2, <2>3, <3>1, <3>2, <3>3, <3>4, CarriesOn
    <3> QED
      BY <3>1, <3>5
  <2> QED
    BY <1>2, <2>3, <2>4 DEF Writes
<1> QED
  BY <1>6, <1>7, <1>8, <1>9 DEF WireInv

LEMMA LoseKeyInv == ASSUME WireInv, LoseKey PROVE WireInv'
<1>1. PICK payload \in wire : \E key \in DOMAIN payload :
        wire' = {[k \in DOMAIN payload \ {key} |-> payload[k]]}
  BY DEF LoseKey
<1>2. PICK key \in DOMAIN payload : wire' = {[k \in DOMAIN payload \ {key} |-> payload[k]]}
  BY <1>1
<1>3. /\ fault = "none" /\ fault' = "lost"
      /\ written' = written /\ expected' = expected /\ said' = said /\ builds' = builds
      /\ relays' = relays /\ read' = read
  BY DEF LoseKey
<1>4. Sane /\ PhaseIsSaid /\ Kept(payload)
  BY DEF WireInv
<1>5. Sane'
  BY <1>1, <1>3, <1>4 DEF Sane
<1>6. PhaseIsSaid'
  BY <1>3, <1>4 DEF PhaseIsSaid
<1>7. \A rest \in wire' : Kept(rest)'
  <2> DEFINE rest == [k \in DOMAIN payload \ {key} |-> payload[k]]
  <2>1. DOMAIN rest \subseteq DOMAIN payload /\ \A k \in DOMAIN rest : rest[k] = payload[k]
    OBVIOUS
  <2> HIDE DEF rest
  <2>2. Kept(rest)
    BY <1>4, <2>1 DEF Kept
  <2>3. Kept(rest)'
    BY <1>3, <2>2 DEF Kept, Says
  <2>4. wire' = {rest}
    BY <1>2 DEF rest
  <2> QED
    BY <2>3, <2>4
<1>8. Untouched'
  BY <1>3 DEF Untouched
<1> QED
  BY <1>5, <1>6, <1>7, <1>8 DEF WireInv

LEMMA MisrouteInv == ASSUME WireInv, Misroute PROVE WireInv'
<1>1. /\ fault = "none" /\ fault' = "misrouted" /\ expected \in DOMAIN Results
      /\ expected' \in DOMAIN Results /\ expected' # expected
      /\ written' = written /\ said' = said /\ wire' = wire /\ builds' = builds
      /\ relays' = relays /\ read' = read
  BY DEF Misroute
<1>2. Sane /\ PhaseIsSaid /\ Untouched /\ \A payload \in wire : Kept(payload)
  BY DEF WireInv
<1>3. Sane'
  BY <1>1, <1>2, TablesJoin DEF Sane
<1>4. PhaseIsSaid'
  BY <1>1, <1>2 DEF PhaseIsSaid
<1>5. \A payload \in wire' : Kept(payload)'
  BY <1>1, <1>2 DEF Kept, Says
<1>6. Untouched'
  BY <1>1, <1>2 DEF Untouched
<1> QED
  BY <1>3, <1>4, <1>5, <1>6 DEF WireInv

LEMMA ReadInv == ASSUME WireInv, NEW build \in Build, Read(build) PROVE WireInv'
<1>1. /\ wire' = {} /\ builds' = builds \cup {build} /\ fault' = fault
      /\ written' = written /\ expected' = expected /\ said' = said /\ relays' = relays
  BY DEF Read
<1>2. Sane /\ PhaseIsSaid /\ Untouched
  BY DEF WireInv
<1>3. Sane'
  BY <1>1, <1>2 DEF Sane
<1>4. PhaseIsSaid'
  BY <1>1, <1>2 DEF PhaseIsSaid
<1>5. Untouched'
  BY <1>1, <1>2 DEF Untouched
<1> QED
  BY <1>1, <1>3, <1>4, <1>5 DEF WireInv

LEMMA NextInv == WireInv /\ [Next]_vars => WireInv'
<1> SUFFICES ASSUME WireInv, [Next]_vars PROVE WireInv'
  OBVIOUS
<1>1. CASE UNCHANGED vars
  BY <1>1 DEF vars, WireInv, Sane, PhaseIsSaid, Kept, Says, Untouched
<1>2. CASE Next
  BY <1>2, RelayInv, ReadInv, LoseKeyInv, MisrouteInv DEF Next
<1> QED
  BY <1>1, <1>2

\* Through any number of relays, of any builds, what is in transit affirms and
\* denies nothing that was not said, and carries what was said until a key is
\* lost (the serde attributes of results.rs and params.rs).
THEOREM SpecWireInv == Spec => []WireInv
<1>1. Init => WireInv
  BY InitInv, ConstantsAssumption
<1> QED
  BY <1>1, NextInv, PTL DEF Spec

-----------------------------------------------------------------------------
(* What is read                                                            *)

\* A view is one that a step has just read from what was in transit.
ReadAs(r, build, payload, struct) ==
  /\ build \in Build /\ payload \in wire /\ struct \in Structs(build, expected)
  /\ r = [build |-> build, view |-> Decode(struct, payload)]
  /\ \A key \in DOMAIN struct : DecodeKey(struct[key], payload, key) # Refused
  /\ builds' = builds \cup {build}

LEMMA AnswersAreRead ==
  ASSUME WireInv, Next, NEW r \in read'
  PROVE  /\ written' = written /\ expected' = expected /\ said' = said /\ fault' = fault
         /\ \E build \in Build, payload \in wire :
              /\ builds' = builds \cup {build}
              /\ \/ r = Refused /\ Readable(build, expected, payload) = {}
                 \/ \E struct : ReadAs(r, build, payload, struct)
<1>1. wire # {} => read = {}
  BY DEF WireInv, Sane
<1>2. ~ LoseKey /\ ~ Misroute
  BY <1>1 DEF LoseKey, Misroute
<1>3. PICK build \in Build : Relay(build) \/ Read(build)
  BY <1>2 DEF Next
<1>4. /\ written' = written /\ expected' = expected /\ said' = said /\ fault' = fault
      /\ builds' = builds \cup {build}
  BY <1>3 DEF Relay, Read
<1>5. CASE Relay(build)
  <2>1. PICK payload \in wire :
          read' = IF Readable(build, expected, payload) = {} THEN {Refused} ELSE {}
    BY <1>5 DEF Relay
  <2> QED
    BY <1>4, <2>1
<1>6. CASE Read(build)
  <2>1. PICK payload \in wire :
          LET structs == Readable(build, expected, payload) IN
          read' = IF structs = {} THEN {Refused}
                  ELSE {[build |-> build, view |-> Decode(struct, payload)] : struct \in structs}
    BY <1>6 DEF Read
  <2>2. CASE Readable(build, expected, payload) = {}
    BY <1>4, <2>1, <2>2
  <2>3. CASE Readable(build, expected, payload) # {}
    <3>1. PICK struct \in Readable(build, expected, payload) :
            r = [build |-> build, view |-> Decode(struct, payload)]
      BY <2>1, <2>3
    <3>2. ReadAs(r, build, payload, struct)
      BY <1>4, <3>1 DEF ReadAs, Readable
    <3> QED
      BY <1>4, <3>2
  <2> QED
    BY <2>2, <2>3
<1> QED
  BY <1>3, <1>5, <1>6

LEMMA ViewsAreRead ==
  ASSUME WireInv, Next, NEW r \in Views'
  PROVE  /\ written' = written /\ expected' = expected /\ said' = said /\ fault' = fault
         /\ \E build, payload, struct : ReadAs(r, build, payload, struct)
<1>1. r \in read' /\ r # Refused
  BY DEF Views
<1> QED
  BY <1>1, AnswersAreRead

\* The parts of a view, and what the reader knows of them.
LEMMA ViewParts ==
  ASSUME NEW r, NEW build, NEW payload, NEW struct, ReadAs(r, build, payload, struct)
  PROVE  /\ r.build = build /\ DOMAIN r.view = DOMAIN struct
         /\ \A key \in DOMAIN struct : /\ r.view[key] = DecodeKey(struct[key], payload, key)
                                       /\ r.view[key] # Refused
<1>1. r.view = Decode(struct, payload) /\ r.build = build
  BY DEF ReadAs
<1> QED
  BY <1>1, DecodeParts DEF ReadAs

LEMMA TypeOKStep == WireInv /\ TypeOK /\ [Next]_vars => TypeOK'
<1> SUFFICES ASSUME WireInv, TypeOK, [Next]_vars PROVE TypeOK'
  OBVIOUS
<1>1. CASE UNCHANGED vars
  BY <1>1 DEF vars, TypeOK, Views
<1>2. CASE Next
  <2>1. Sane'
    BY NextInv DEF WireInv
  <2>2. ASSUME NEW r \in Views'
        PROVE  \E struct \in Structs(r.build, expected') :
                 /\ DOMAIN r.view = DOMAIN struct
                 /\ \A key \in DOMAIN struct :
                      LET field == struct[key] IN
                      \/ r.view[key] \in field.holds \cup ({field.absent, field.null} \ {Refused})
                      \/ field.any_text /\ r.view[key].kind = "text"
    <3>3. PICK build, payload, struct : ReadAs(r, build, payload, struct)
      BY <1>2, ViewsAreRead
    <3>4. /\ r.build = build /\ DOMAIN r.view = DOMAIN struct
          /\ \A key \in DOMAIN struct : /\ r.view[key] = DecodeKey(struct[key], payload, key)
                                        /\ r.view[key] # Refused
      BY <3>3, ViewParts
    <3>5. struct \in Structs(r.build, expected')
      BY <1>2, <3>3, <3>4, ViewsAreRead DEF ReadAs
    <3>6. ASSUME NEW key \in DOMAIN struct
          PROVE  \/ r.view[key] \in struct[key].holds
                                     \cup ({struct[key].absent, struct[key].null} \ {Refused})
                 \/ struct[key].any_text /\ r.view[key].kind = "text"
      BY <3>4, DecodeCases
    <3> QED
      BY <3>4, <3>5, <3>6
  <2> QED
    BY <2>1, <2>2 DEF Sane, TypeOK
<1> QED
  BY <1>1, <1>2

LEMMA SettledStep == WireInv /\ SettledIsSaid /\ [Next]_vars => SettledIsSaid'
<1> SUFFICES ASSUME WireInv, SettledIsSaid, [Next]_vars PROVE SettledIsSaid'
  OBVIOUS
<1>1. CASE UNCHANGED vars
  BY <1>1 DEF vars, SettledIsSaid, Views, Says
<1>2. CASE Next
  <2> SUFFICES ASSUME NEW r \in Views', "phase" \in DOMAIN r.view,
                      may_render_as_settled(from(r.build, r.view["phase"].is))
               PROVE  \/ Says("phase", Value("text", "synced"))'
                      \/ Says("phase", Value("text", "no_wallet_enrolled"))'
    BY DEF SettledIsSaid
  <2>1. /\ said' = said /\ expected \in DOMAIN Types /\ PhaseIsSaid
        /\ \A payload \in wire : Kept(payload)
    BY <1>2, ViewsAreRead DEF WireInv, Sane
  <2>4. PICK build, payload, struct : ReadAs(r, build, payload, struct)
    BY <1>2, ViewsAreRead
  <2>5. "phase" \in DOMAIN payload /\ r.view["phase"] = payload["phase"]
    BY <2>1, <2>4, ViewParts, ReadsNoMore DEF ReadAs
  <2>6. Says("phase", r.view["phase"])
    BY <2>1, <2>4, <2>5 DEF Kept, ReadAs
  <2>7. PICK token : r.view["phase"] = Value("text", token)
    BY <2>1, <2>6 DEF PhaseIsSaid, Says
  <2>8. token \in {"synced", "no_wallet_enrolled"}
    BY <2>7, ValueParts DEF may_render_as_settled, from
  <2> QED
    BY <2>1, <2>6, <2>7, <2>8 DEF Says
<1> QED
  BY <1>1, <1>2

LEMMA ConsentStep == WireInv /\ ConsentIsSaid /\ [Next]_vars => ConsentIsSaid'
<1> SUFFICES ASSUME WireInv, ConsentIsSaid, [Next]_vars PROVE ConsentIsSaid'
  OBVIOUS
<1>1. CASE UNCHANGED vars
  BY <1>1 DEF vars, ConsentIsSaid, Views, Says
<1>2. CASE Next
  <2>1. ASSUME NEW r \in Views', NEW key \in DOMAIN r.view, r.view[key] = True
        PROVE  Says(key, True)'
    <3>1. /\ said' = said /\ expected \in DOMAIN Types
          /\ \A payload \in wire : Kept(payload)
      BY <1>2, ViewsAreRead DEF WireInv, Sane
    <3>4. PICK build, payload, struct : ReadAs(r, build, payload, struct)
      BY <1>2, ViewsAreRead
    <3>5. key \in DOMAIN payload /\ payload[key] = True
      BY <2>1, <3>1, <3>4, ViewParts, ReadsNoMore DEF ReadAs
    <3> QED
      BY <3>1, <3>4, <3>5 DEF Kept, Says, ReadAs
  <2> QED
    BY <2>1 DEF ConsentIsSaid
<1> QED
  BY <1>1, <1>2

\* What a type needs to be known of for its payloads to be followed.
LEMMA TypeFacts ==
  ASSUME NEW type \in DOMAIN Types, NEW base \in Types[type]
  PROVE  /\ \A key \in DOMAIN base : WellFormed(base[key])
         /\ \A key \in LaterOf(type) :
              /\ key \in DOMAIN base /\ base[key].absent # Refused
              /\ base[key].absent \in {None, Value("text", "capsule")}
BY TypesAreSound, LaterKeysFit DEF Sound

\* A build refuses what was not tampered with for a CAT alone that it has no
\* word for.
LEMMA RefusedForACat ==
  ASSUME WireInv, fault = "none", NEW build \in Build, NEW payload \in wire,
         Readable(build, expected, payload) = {}
  PROVE  build = "older" /\ OtherCat \in {said[k] : k \in DOMAIN said}
<1> DEFINE later == LaterOf(written)
<1>1. written \in DOMAIN Types /\ expected = written
  BY DEF WireInv, Sane
<1>2. PICK base \in Types[written] :
        /\ Worded(base, said) /\ Carries(base, later, "older" \in builds, said, payload)
  BY DEF WireInv, Untouched
<1>3. PICK struct \in Structs(build, written) : Aged(build, struct, base, later)
  BY <1>1, StructsAge
<1>4. PICK key \in DOMAIN struct : DecodeKey(struct[key], payload, key) = Refused
  BY <1>1, <1>3 DEF Readable
<1>5. key \in DOMAIN base /\ WellFormed(base[key])
  BY <1>1, <1>3, TypeFacts DEF Aged
<1>6. ASSUME key \in later, AsAbsent(base, payload, key) PROVE FALSE
  BY <1>1, <1>3, <1>4, <1>5, <1>6, TypeFacts, AbsentReads
<1>7. AsSaid(base, said, payload, key)
  BY <1>2, <1>5, <1>6 DEF Carries
<1>8. build # "current" /\ said[key] = OtherCat
  BY <1>2, <1>3, <1>4, <1>5, <1>7, SaidReads
<1> QED
  BY <1>7, <1>8 DEF AsSaid, Build

\* What was not tampered with reads as it was said, or as what its absence
\* stands for.
LEMMA ReadsAsSaid ==
  ASSUME WireInv, fault = "none", NEW r, NEW build, NEW payload, NEW struct,
         ReadAs(r, build, payload, struct)
  PROVE  /\ DOMAIN said \ LaterOf(written) \subseteq DOMAIN r.view
         /\ \A key \in DOMAIN r.view :
              \/ Says(key, r.view[key])
              \/ key \in DOMAIN said /\ r.view[key] = serialize(said[key])
              \/ /\ "older" \in builds' /\ key \in LaterOf(written)
                 /\ r.view[key] \in {None, Value("text", "capsule")}
<1> DEFINE later == LaterOf(written)
<1>1. written \in DOMAIN Types /\ expected = written
  BY DEF WireInv, Sane
<1>2. PICK base \in Types[written] :
        /\ Worded(base, said) /\ Carries(base, later, "older" \in builds, said, payload)
  BY DEF WireInv, Untouched, ReadAs
<1>3. Aged(build, struct, base, later)
  BY <1>1, <1>2, OneReads DEF ReadAs
<1>4. /\ DOMAIN r.view = DOMAIN struct
      /\ \A key \in DOMAIN struct : /\ r.view[key] = DecodeKey(struct[key], payload, key)
                                    /\ r.view[key] # Refused
  BY ViewParts
<1>5. DOMAIN said \ later \subseteq DOMAIN r.view
  BY <1>2, <1>3, <1>4 DEF Worded, Aged
<1>6. ASSUME NEW key \in DOMAIN struct
      PROVE  \/ Says(key, r.view[key])
             \/ key \in DOMAIN said /\ r.view[key] = serialize(said[key])
             \/ /\ "older" \in builds' /\ key \in later
                /\ r.view[key] \in {None, Value("text", "capsule")}
  <2>1. key \in DOMAIN base /\ WellFormed(base[key])
    BY <1>1, <1>3, TypeFacts DEF Aged
  <2>2. CASE AsSaid(base, said, payload, key)
    <3>1. /\ said[key] = None <=> r.view[key] = None
          /\ said[key] # None => r.view[key] = OnWire(said[key])
      BY <1>2, <1>3, <1>4, <2>1, <2>2, SaidReads
    <3> QED
      BY <2>2, <3>1 DEF AsSaid, Says, OnWire
  <2>3. CASE ~ AsSaid(base, said, payload, key)
    <3>1. "older" \in builds /\ key \in later /\ AsAbsent(base, payload, key)
      BY <1>2, <2>1, <2>3 DEF Carries
    <3>2. base[key].absent # Refused /\ base[key].absent \in {None, Value("text", "capsule")}
      BY <1>1, <3>1, TypeFacts
    <3>3. r.view[key] = base[key].absent
      BY <1>3, <1>4, <2>1, <3>1, <3>2, AbsentReads
    <3>4. "older" \in builds'
      BY <3>1 DEF ReadAs
    <3> QED
      BY <3>1, <3>2, <3>3, <3>4
  <2> QED
    BY <2>2, <2>3
<1> QED
  BY <1>4, <1>5, <1>6

LEMMA SkewStep == WireInv /\ SkewIsRead /\ [Next]_vars => SkewIsRead'
<1> SUFFICES ASSUME WireInv, SkewIsRead, [Next]_vars PROVE SkewIsRead'
  OBVIOUS
<1>1. CASE UNCHANGED vars
  BY <1>1 DEF vars, SkewIsRead, Says
<1>2. CASE Next
  <2> DEFINE Right(r) ==
               IF r = Refused
               THEN "older" \in builds' /\ OtherCat \in {said[k] : k \in DOMAIN said}
               ELSE /\ DOMAIN said \ LaterOf(written) \subseteq DOMAIN r.view
                    /\ \A key \in DOMAIN r.view :
                         \/ Says(key, r.view[key])
                         \/ key \in DOMAIN said /\ r.view[key] = serialize(said[key])
                         \/ /\ "older" \in builds' /\ key \in LaterOf(written)
                            /\ r.view[key] \in {None, Value("text", "capsule")}
  <2>1. ASSUME fault' = "none", NEW r \in read'
        PROVE  written' = written /\ said' = said /\ Right(r)
    <3>1. /\ written' = written /\ said' = said /\ fault = "none"
          /\ \E build \in Build, payload \in wire :
               /\ builds' = builds \cup {build}
               /\ \/ r = Refused /\ Readable(build, expected, payload) = {}
                  \/ \E struct : ReadAs(r, build, payload, struct)
      BY <1>2, <2>1, AnswersAreRead
    <3>2. CASE r = Refused /\ \E build \in Build, payload \in wire :
                 builds' = builds \cup {build} /\ Readable(build, expected, payload) = {}
      BY <3>1, <3>2, RefusedForACat
    <3>3. CASE \E build, payload, struct : ReadAs(r, build, payload, struct)
      <4>1. r # Refused
        <5>1. "build" \in DOMAIN r
          BY <3>3 DEF ReadAs
        <5>2. "build" \notin DOMAIN Refused
          BY DEF Refused, Value
        <5> QED
          BY <5>1, <5>2
      <4> QED
        BY <3>1, <3>3, <4>1, ReadsAsSaid
    <3> QED
      BY <3>1, <3>2, <3>3
  <2> HIDE DEF Right
  <2> QED
    BY <2>1 DEF SkewIsRead, Says, LaterOf, OtherCat, Right
<1> QED
  BY <1>1, <1>2

\* Of the keys a verdict is read from, an older build lacks only a page's
\* cursor, and it lacks "complete" with it.
LEMMA LaterVerdicts ==
  \A type \in DOMAIN Types : \A verdict \in DOMAIN Verdicts :
    Verdicts[verdict] \in LaterOf(type) =>
      /\ Verdicts[verdict] = "cursor"
      /\ "complete" \in LaterOf(type)
      /\ \A base \in Types[type] : base["complete"].absent = None
<1>1. \A type \in DOMAIN Later : \A verdict \in DOMAIN Verdicts :
        Verdicts[verdict] \in Later[type] =>
          Verdicts[verdict] = "cursor" /\ "complete" \in Later[type]
  BY DEF Later, Verdicts
<1>2. \A type \in DOMAIN Later : "complete" \in Later[type] =>
        type = "WalletCoinsResult"
  BY DEF Later
<1>3. \A base \in Types["WalletCoinsResult"] : base["complete"].absent = None
  <2>1. Types["WalletCoinsResult"] = WalletCoinsResult
    BY TablesJoin DEF Results
  <2>2. Option(Bool).absent = None
    BY ScalarsRequire DEF Required, WellFormed, Option
  <2> QED
    BY <2>1, <2>2 DEF WalletCoinsResult
<1> QED
  BY <1>1, <1>2, <1>3 DEF LaterOf

\* A reader of a page that reads a verdict from its cursor also insists on
\* "complete".
LEMMA PagesAreWhole ==
  \A type \in DOMAIN Verdicts : Verdicts[type] = "cursor" =>
    \A base \in Types[type] : "cursor" \in DOMAIN base =>
      "complete" \in DOMAIN base /\ base["complete"].absent = Refused
                                 /\ base["complete"].null = Refused
<1>1. /\ Types["WalletCoinsByParentResult"] = WalletCoinsByParentResult
      /\ Types["SpendsListResult"] = SpendsListResult
      /\ Types["MirrorBondStatesResult"] = MirrorBondStatesResult
  BY TablesJoin DEF Results
<1>2. Bool.absent = Refused /\ Bool.null = Refused
  BY DEF Bool, Holding
<1>3. \A type \in DOMAIN Verdicts : Verdicts[type] = "cursor" =>
        type \in {"WalletCoinsByParentResult", "SpendsListResult", "MirrorBondStatesResult"}
  BY DEF Verdicts
<1> QED
  BY <1>1, <1>2, <1>3 DEF WalletCoinsByParentResult, SpendsListResult, MirrorBondStatesResult

\* The reader of another method's answer finds no verdict that was not said.
LEMMA MisroutedVerdict ==
  ASSUME WireInv, fault = "misrouted", NEW r, NEW build, NEW payload, NEW struct,
         ReadAs(r, build, payload, struct), expected \in DOMAIN Verdicts,
         NEW key, key = Verdicts[expected], key \in DOMAIN r.view, r.view[key] = None
  PROVE  Says(key, None)
<1> DEFINE later == LaterOf(written)
<1>1. written \in DOMAIN Types /\ expected \in DOMAIN Types
  BY DEF WireInv, Sane
<1>2. PICK base \in Types[written] :
        /\ Worded(base, said) /\ Carries(base, later, "older" \in builds, said, payload)
  BY DEF WireInv, Untouched, ReadAs
<1>3. PICK asked \in Types[expected] : Aged(build, struct, asked, LaterOf(expected))
  BY <1>1, StructsAge DEF ReadAs
<1>4. /\ DOMAIN r.view = DOMAIN struct
      /\ \A k \in DOMAIN struct : /\ r.view[k] = DecodeKey(struct[k], payload, k)
                                  /\ r.view[k] # Refused
  BY ViewParts
<1>5. key \in DOMAIN payload /\ payload[key] = Null
  <2>1. struct[key].absent = Refused
    BY <1>3, <1>4, VerdictsMustBeThere DEF Aged
  <2> QED
    BY <1>1, <1>4, <2>1, ReadsNoMore DEF ReadAs
<1>6. key \in DOMAIN base /\ WellFormed(base[key])
  BY <1>1, <1>2, <1>5, TypeFacts DEF Carries
<1>7. CASE AsSaid(base, said, payload, key)
  <2>1. OnWire(said[key]) = Null
    BY <1>5, <1>7 DEF AsSaid
  <2>2. said[key] \in base[key].holds \cup {None}
    BY <1>2, <1>7 DEF Worded, AsSaid
  <2>3. said[key] = None
    BY <1>6, <2>1, <2>2, WireTells DEF WellFormed
  <2> QED
    BY <1>7, <2>3 DEF AsSaid, Says
<1>8. CASE ~ AsSaid(base, said, payload, key)
  <2>1. key \in later /\ \A k \in later : AsAbsent(base, payload, k)
    BY <1>2, <1>6, <1>8 DEF Carries
  <2>2. key = "cursor" /\ "complete" \in later /\ base["complete"].absent = None
    BY <1>1, <2>1, LaterVerdicts
  <2>3. /\ "complete" \in DOMAIN asked /\ asked["complete"].absent = Refused
        /\ asked["complete"].null = Refused
    BY <1>3, <1>4, <2>2, PagesAreWhole DEF Aged
  <2>4. "complete" \in DOMAIN struct /\ struct["complete"].absent = Refused
        /\ struct["complete"].null = Refused
    <3>1. "complete" \notin LaterOf(expected)
      BY <1>1, <2>3, TypeFacts
    <3> QED
      BY <1>3, <2>3, <3>1 DEF Aged
  <2>5. DecodeKey(struct["complete"], payload, "complete") = Refused
    <3>1. "complete" \in DOMAIN payload => payload["complete"] = Null
      BY <2>1, <2>2, WireValues DEF AsAbsent
    <3> QED
      BY <2>4, <3>1 DEF DecodeKey
  <2> QED
    BY <1>4, <2>4, <2>5
<1> QED
  BY <1>7, <1>8

LEMMA VerdictStep == WireInv /\ VerdictsAreSaid /\ [Next]_vars => VerdictsAreSaid'
<1> SUFFICES ASSUME WireInv, VerdictsAreSaid, [Next]_vars PROVE VerdictsAreSaid'
  OBVIOUS
<1>1. CASE UNCHANGED vars
  BY <1>1 DEF vars, VerdictsAreSaid, Views, Says
<1>2. CASE Next
  <2>1. ASSUME NEW r \in Views'
        PROVE  /\ expected' = expected /\ said' = said
               /\ \A key \in DOMAIN r.view : r.view[key] = True => Says(key, True)
               /\ expected \in DOMAIN Verdicts =>
                    LET key == Verdicts[expected] IN
                    key \in DOMAIN r.view /\ r.view[key] = None => Says(key, None)
    <3>1. PICK build, payload, struct : ReadAs(r, build, payload, struct)
      BY <1>2, ViewsAreRead
    <3>2. expected' = expected /\ said' = said
      BY <1>2, ViewsAreRead
    <3>3. /\ written \in DOMAIN Types /\ expected \in DOMAIN Types /\ Kept(payload)
          /\ fault # "misrouted" => expected = written
      BY <3>1 DEF WireInv, Sane, ReadAs
    <3>4. /\ DOMAIN r.view = DOMAIN struct
          /\ \A key \in DOMAIN struct : /\ r.view[key] = DecodeKey(struct[key], payload, key)
                                        /\ r.view[key] # Refused
      BY <3>1, ViewParts
    <3>5. ASSUME NEW key \in DOMAIN r.view, r.view[key] = True
          PROVE  Says(key, True)
      <4>1. key \in DOMAIN payload /\ payload[key] = True
        BY <3>1, <3>3, <3>4, <3>5, ReadsNoMore DEF ReadAs
      <4> QED
        BY <3>3, <4>1 DEF Kept
    <3>6. ASSUME expected \in DOMAIN Verdicts, NEW key, key = Verdicts[expected],
                 key \in DOMAIN r.view, r.view[key] = None
          PROVE  Says(key, None)
      <4>1. CASE fault = "misrouted"
        BY <3>1, <3>6, <4>1, MisroutedVerdict
      <4>2. CASE fault # "misrouted"
        <5>1. struct[key].absent = Refused
          <6>1. PICK base \in Types[written] :
                  key \in DOMAIN base /\ struct[key].absent = base[key].absent
            BY <3>1, <3>3, <3>4, <3>6, <4>2, ReaderKnows DEF ReadAs
          <6> QED
            BY <3>3, <3>6, <4>2, <6>1, VerdictsMustBeThere
        <5>2. key \in DOMAIN payload /\ payload[key] = Null
          BY <3>1, <3>3, <3>4, <3>6, <5>1, ReadsNoMore DEF ReadAs
        <5> QED
          BY <3>3, <3>6, <4>2, <5>2 DEF Kept
      <4> QED
        BY <4>1, <4>2
    <3> QED
      BY <3>2, <3>5, <3>6
  <2> QED
    BY <2>1 DEF VerdictsAreSaid, Says
<1> QED
  BY <1>1, <1>2

-----------------------------------------------------------------------------
(* Answers that go astray                                                  *)

\* Of each result, keys that must be there and that no other result has all
\* of, but for the lookalikes and the pairs of Alike.
Telling ==
  [CacheView |-> {"dir"}, StatusResult |-> {"cache"}, ConfigResult |-> {"cache_dir"},
   SetUpstreamResult |-> {"requires_restart", "upstream"},
   SetMirrorAdvertiseUrlsResult |-> {"mirror_advertise", "requires_restart"},
   SetLevelResult |-> {"filter"}, SetCapResult |-> {"cap_bytes"},
   CacheClearResult |-> {"cleared"}, HostedStoresListResult |-> {"stores"},
   PinResult |-> {"fetch"}, UnpinResult |-> {"evicted_capsules"},
   HostedStoreStatusResult |-> {"capsule_count"}, CapsuleFetchResult |-> {"store"},
   SyncStatusResult |-> {"available"}, SyncTriggerResult |-> {"served_root"},
   PairingApproveResult |-> {"approved"}, PairingRevokeResult |-> {"revoked"},
   PairingRequestResult |-> {"expires_ms"}, PairingPollResult |-> {"status"},
   PeerCountsResult |-> {}, PeersConnectResult |-> {"connected"},
   PeersDisconnectResult |-> {"disconnected"}, ChiaPeersListResult |-> {"peers"},
   ChiaPeersAddResult |-> {"corroboration_bypassed"}, ChiaPeersRemoveResult |-> {"banned"},
   SubscribeResult |-> {"added", "store_id"}, UnsubscribeResult |-> {"removed", "store_id"},
   ListSubscriptionsResult |-> {"count"}, WalletBalanceResult |-> {"balance"},
   WalletCoinsResult |-> {"coins"}, WalletCoinByIdResult |-> {"coin"},
   WalletCoinSpendResult |-> {"spend"}, WalletCoinsByParentResult |-> {"coins"},
   WalletPeakResult |-> {"synced"}, WalletOperatorAddressResult |-> {"state"},
   WalletSyncStatusResult |-> {"phase"}, WalletBroadcastResult |-> {"accepted"},
   WalletWatchResult |-> {"added", "watched"}, WalletUnwatchResult |-> {"removed", "watched"},
   WalletWatchedResult |-> {"public_keys"}, WalletReservationsHeldResult |-> {"as_of_unix"},
   WalletReservationsReserveResult |-> {"expires_at_unix"},
   WalletReservationsReleaseResult |-> {"released"},
   WalletResetCoinDbResult |-> {"coins_dropped"}, WalletArrivalsResult |-> {"arrivals"},
   ProfilePutBodyResult |-> {"stored"}, ProfileGetBodyResult |-> {"body_bytes"},
   SpendsListResult |-> {"spends"}, MirrorBondStatesResult |-> {"state"},
   MirrorReconcileResult |-> {"outcome"}, CollateralRequirementResult |-> {"state"},
   CollateralBufferResult |-> {"state"}, CollateralMarginResult |-> {"margin_bp"}]

Asks(type, keys) ==
  \A struct \in type : \A key \in keys : key \in DOMAIN struct /\ struct[key].absent = Refused

\* Only the readers, and whoever asked for the peer counts, find their keys in
\* a payload of the type.
Sought(type, readers) ==
  \A s \in type : \A reader \in DOMAIN Telling :
    Telling[reader] \subseteq DOMAIN s => reader \in {"PeerCountsResult"} \cup readers

Stated == {"WalletOperatorAddressResult", "MirrorBondStatesResult",
           "CollateralRequirementResult", "CollateralBufferResult"}

\* Pairs <<read, written>> that only the values of a key tell apart.
Alike ==
  {<<"MirrorReconcileResult", "ChiaPeersRemoveResult">>,
   <<"HostedStoresListResult", "CollateralRequirementResult">>}
    \cup {<<reader, type>> : reader \in Stated, type \in Stated \cup {"MirrorReconcileResult"}}

ReconcileKeys ==
  {"outcome", "capsules_stale", "capsules_affordable", "collateral_reclaimed_dig_base_units",
   "collateral_relocked_dig_base_units", "fee_estimate_mojos", "stale_url_sets", "url_current",
   "targets_seen_last_7_days", "reclaims_submitted", "reclaims_rejected", "recreates_owed",
   "left_unchanged", "left_reason", "reason", "state", "have_dig_base_units",
   "need_dig_base_units", "collateral_reason", "capability"}

LEMMA ReconcileParts ==
  \A struct \in MirrorReconcileResult :
    /\ DOMAIN struct \subseteq ReconcileKeys
    /\ "outcome" \in DOMAIN struct
    /\ struct["outcome"] \in {Tokens({"planned"}), Tokens({"submitted"}), Tokens({"refused"})}
    /\ "state" \in DOMAIN struct => struct["state"] = MirrorAdvertiseState
<1> SUFFICES ASSUME NEW struct \in MirrorReconcileResult
             PROVE  /\ DOMAIN struct \subseteq ReconcileKeys
                    /\ "outcome" \in DOMAIN struct
                    /\ struct["outcome"] \in {Tokens({"planned"}), Tokens({"submitted"}),
                                              Tokens({"refused"})}
                    /\ "state" \in DOMAIN struct => struct["state"] = MirrorAdvertiseState
  OBVIOUS
<1> DEFINE refused == [outcome |-> Tokens({"refused"}), url_current |-> Option(List("String"))]
<1>1. CASE \E reason \in MirrorReconcileRefusal : struct = Merged(refused, reason)
  <2>1. PICK reason \in MirrorReconcileRefusal : struct = Merged(refused, reason)
    BY <1>1
  <2>2. /\ DOMAIN struct = {"outcome", "url_current"} \cup DOMAIN reason
        /\ struct["outcome"] = Tokens({"refused"})
        /\ "state" \in DOMAIN reason => struct["state"] = reason["state"]
    BY <2>1 DEF Merged
  <2>3. /\ DOMAIN reason \subseteq {"reason", "state", "have_dig_base_units",
                                    "need_dig_base_units", "collateral_reason", "capability"}
        /\ "state" \in DOMAIN reason => reason["state"] = MirrorAdvertiseState
    BY DEF MirrorReconcileRefusal
  <2> QED
    BY <2>2, <2>3 DEF ReconcileKeys
<1>2. CASE ~ \E reason \in MirrorReconcileRefusal : struct = Merged(refused, reason)
  BY <1>2 DEF MirrorReconcileResult, ReconcileKeys
<1> QED
  BY <1>1, <1>2

LEMMA TellingIsAsked == \A type \in DOMAIN Results : Asks(Results[type], Telling[type])
<1>1. \A field : Required(field) => required_option(field).absent = Refused
  BY DEF Required, WellFormed, required_option
<1>2. /\ Asks(CacheView, Telling["CacheView"])
      /\ Asks(StatusResult, Telling["StatusResult"])
      /\ Asks(ConfigResult, Telling["ConfigResult"])
      /\ Asks(SetUpstreamResult, Telling["SetUpstreamResult"])
      /\ Asks(SetMirrorAdvertiseUrlsResult, Telling["SetMirrorAdvertiseUrlsResult"])
      /\ Asks(SetLevelResult, Telling["SetLevelResult"])
      /\ Asks(SetCapResult, Telling["SetCapResult"])
      /\ Asks(CacheClearResult, Telling["CacheClearResult"])
      /\ Asks(HostedStoresListResult, Telling["HostedStoresListResult"])
      /\ Asks(PinResult, Telling["PinResult"])
      /\ Asks(UnpinResult, Telling["UnpinResult"])
      /\ Asks(HostedStoreStatusResult, Telling["HostedStoreStatusResult"])
  BY ScalarsRequire, ListsRequire, ObjectsRequire, TokensRequire, NamedFieldsRequire
     DEF Asks, Required, Telling, CacheView, StatusResult, ConfigResult, SetUpstreamResult,
         SetMirrorAdvertiseUrlsResult, SetLevelResult, SetCapResult, CacheClearResult,
         HostedStoresListResult, PinResult, UnpinResult, HostedStoreStatusResult, HostedStore
<1>3. /\ Asks(CapsuleFetchResult, Telling["CapsuleFetchResult"])
      /\ Asks(SyncStatusResult, Telling["SyncStatusResult"])
      /\ Asks(SyncTriggerResult, Telling["SyncTriggerResult"])
      /\ Asks(PairingApproveResult, Telling["PairingApproveResult"])
      /\ Asks(PairingRevokeResult, Telling["PairingRevokeResult"])
      /\ Asks(PairingRequestResult, Telling["PairingRequestResult"])
      /\ Asks(PairingPollResult, Telling["PairingPollResult"])
      /\ Asks(PeerCountsResult, Telling["PeerCountsResult"])
      /\ Asks(PeersConnectResult, Telling["PeersConnectResult"])
      /\ Asks(PeersDisconnectResult, Telling["PeersDisconnectResult"])
      /\ Asks(ChiaPeersListResult, Telling["ChiaPeersListResult"])
      /\ Asks(ChiaPeersAddResult, Telling["ChiaPeersAddResult"])
  BY ScalarsRequire, ListsRequire, ObjectsRequire, TokensRequire, NamedFieldsRequire
     DEF Asks, Required, Telling, CapsuleFetchResult, SyncStatusResult, SyncTriggerResult,
         PairingApproveResult, PairingRevokeResult, PairingRequestResult, PairingPollResult,
         PeerCountsResult, PeersConnectResult, PeersDisconnectResult, ChiaPeersListResult,
         ChiaPeersAddResult
<1>4. /\ Asks(ChiaPeersRemoveResult, Telling["ChiaPeersRemoveResult"])
      /\ Asks(SubscribeResult, Telling["SubscribeResult"])
      /\ Asks(UnsubscribeResult, Telling["UnsubscribeResult"])
      /\ Asks(ListSubscriptionsResult, Telling["ListSubscriptionsResult"])
      /\ Asks(WalletBalanceResult, Telling["WalletBalanceResult"])
      /\ Asks(WalletCoinsResult, Telling["WalletCoinsResult"])
      /\ Asks(WalletCoinsByParentResult, Telling["WalletCoinsByParentResult"])
      /\ Asks(WalletPeakResult, Telling["WalletPeakResult"])
      /\ Asks(WalletSyncStatusResult, Telling["WalletSyncStatusResult"])
      /\ Asks(WalletBroadcastResult, Telling["WalletBroadcastResult"])
      /\ Asks(WalletWatchResult, Telling["WalletWatchResult"])
      /\ Asks(WalletUnwatchResult, Telling["WalletUnwatchResult"])
  BY ScalarsRequire, ListsRequire, ObjectsRequire, TokensRequire, NamedFieldsRequire
     DEF Asks, Required, Telling, ChiaPeersRemoveResult, SubscribeResult, UnsubscribeResult,
         ListSubscriptionsResult, WalletBalanceResult, WalletCoinsResult,
         WalletCoinsByParentResult, WalletPeakResult, WalletSyncStatusResult,
         WalletBroadcastResult, WalletWatchResult, WalletUnwatchResult
<1>5. /\ Asks(WalletWatchedResult, Telling["WalletWatchedResult"])
      /\ Asks(WalletReservationsHeldResult, Telling["WalletReservationsHeldResult"])
      /\ Asks(WalletReservationsReserveResult, Telling["WalletReservationsReserveResult"])
      /\ Asks(WalletReservationsReleaseResult, Telling["WalletReservationsReleaseResult"])
      /\ Asks(WalletResetCoinDbResult, Telling["WalletResetCoinDbResult"])
      /\ Asks(WalletArrivalsResult, Telling["WalletArrivalsResult"])
      /\ Asks(ProfilePutBodyResult, Telling["ProfilePutBodyResult"])
      /\ Asks(ProfileGetBodyResult, Telling["ProfileGetBodyResult"])
      /\ Asks(SpendsListResult, Telling["SpendsListResult"])
      /\ Asks(CollateralMarginResult, Telling["CollateralMarginResult"])
  BY ScalarsRequire, ListsRequire, ObjectsRequire, TokensRequire, NamedFieldsRequire
     DEF Asks, Required, Telling, WalletWatchedResult, WalletReservationsHeldResult,
         WalletReservationsReserveResult, WalletReservationsReleaseResult,
         WalletResetCoinDbResult, WalletArrivalsResult, ProfilePutBodyResult,
         ProfileGetBodyResult, SpendsListResult, CollateralMarginResult
<1>6. /\ Asks(WalletCoinByIdResult, Telling["WalletCoinByIdResult"])
      /\ Asks(WalletCoinSpendResult, Telling["WalletCoinSpendResult"])
  BY <1>1, ObjectsRequire
     DEF Asks, Required, Telling, WalletCoinByIdResult, WalletCoinSpendResult
<1>7. /\ Asks(WalletOperatorAddressResult, Telling["WalletOperatorAddressResult"])
      /\ Asks(MirrorBondStatesResult, Telling["MirrorBondStatesResult"])
      /\ Asks(CollateralRequirementResult, Telling["CollateralRequirementResult"])
      /\ Asks(CollateralBufferResult, Telling["CollateralBufferResult"])
  BY TokensRequire
     DEF Asks, Required, Telling, WalletOperatorAddressResult, MirrorBondStatesResult,
         CollateralRequirementResult, CollateralBufferResult
<1>8. Asks(MirrorReconcileResult, Telling["MirrorReconcileResult"])
  <2>1. Tokens({"planned"}).absent = Refused /\ Tokens({"submitted"}).absent = Refused
        /\ Tokens({"refused"}).absent = Refused
    BY TokensRequire DEF Required
  <2> QED
    BY <2>1, ReconcileParts DEF Asks, Telling
<1> QED
  BY <1>2, <1>3, <1>4, <1>5, <1>6, <1>7, <1>8 DEF Results

LEMMA ReadersOf ==
  \A type \in DOMAIN Results : Sought(Results[type], {reader \in DOMAIN Results :
    reader = type \/ <<reader, type>> \in Lookalikes \cup Alike})
<1>1. /\ Sought(CacheView, {"CacheView", "SetCapResult"})
      /\ Sought(StatusResult, {"StatusResult"})
      /\ Sought(ConfigResult, {"ConfigResult"})
      /\ Sought(SetUpstreamResult, {"SetUpstreamResult"})
      /\ Sought(SetMirrorAdvertiseUrlsResult, {"SetMirrorAdvertiseUrlsResult"})
      /\ Sought(SetLevelResult, {"SetLevelResult"})
      /\ Sought(SetCapResult, {"SetCapResult"})
      /\ Sought(CacheClearResult, {"CacheClearResult"})
      /\ Sought(HostedStoresListResult, {"HostedStoresListResult"})
  BY DEF Sought, Telling, CacheView, StatusResult, ConfigResult, SetUpstreamResult,
         SetMirrorAdvertiseUrlsResult, SetLevelResult, SetCapResult, CacheClearResult,
         HostedStoresListResult
<1>2. /\ Sought(PinResult, {"PinResult"})
      /\ Sought(UnpinResult, {"UnpinResult"})
      /\ Sought(HostedStoreStatusResult, {"HostedStoreStatusResult"})
      /\ Sought(CapsuleFetchResult, {"CapsuleFetchResult", "PairingPollResult"})
      /\ Sought(SyncStatusResult, {"SyncStatusResult"})
      /\ Sought(SyncTriggerResult, {"SyncTriggerResult", "PairingPollResult"})
      /\ Sought(PairingApproveResult, {"PairingApproveResult"})
      /\ Sought(PairingRevokeResult, {"PairingRevokeResult"})
      /\ Sought(PairingRequestResult, {"PairingRequestResult"})
  BY DEF Sought, Telling, PinResult, UnpinResult, HostedStoreStatusResult, HostedStore,
         CapsuleFetchResult, SyncStatusResult, SyncTriggerResult, PairingApproveResult,
         PairingRevokeResult, PairingRequestResult
<1>3. /\ Sought(PairingPollResult, {"PairingPollResult"})
      /\ Sought(PeerCountsResult, {})
      /\ Sought(PeersConnectResult, {"PeersConnectResult"})
      /\ Sought(PeersDisconnectResult, {"PeersDisconnectResult"})
      /\ Sought(ChiaPeersListResult, {"ChiaPeersListResult"})
      /\ Sought(ChiaPeersAddResult, {"ChiaPeersAddResult"})
      /\ Sought(ChiaPeersRemoveResult, {"ChiaPeersRemoveResult", "MirrorReconcileResult"})
      /\ Sought(SubscribeResult, {"SubscribeResult"})
      /\ Sought(UnsubscribeResult, {"UnsubscribeResult"})
  BY DEF Sought, Telling, PairingPollResult, PeerCountsResult, PeersConnectResult,
         PeersDisconnectResult, ChiaPeersListResult, ChiaPeersAddResult, ChiaPeersRemoveResult,
         SubscribeResult, UnsubscribeResult
<1>4. /\ Sought(ListSubscriptionsResult, {"ListSubscriptionsResult"})
      /\ Sought(WalletBalanceResult, {"WalletBalanceResult", "WalletPeakResult"})
      /\ Sought(WalletCoinsResult,
                {"WalletCoinsResult", "WalletCoinsByParentResult", "WalletPeakResult"})
      /\ Sought(WalletCoinByIdResult, {"WalletCoinByIdResult", "WalletPeakResult"})
      /\ Sought(WalletCoinSpendResult, {"WalletCoinSpendResult", "WalletPeakResult"})
      /\ Sought(WalletCoinsByParentResult,
                {"WalletCoinsResult", "WalletCoinsByParentResult", "WalletPeakResult"})
      /\ Sought(WalletPeakResult, {"WalletPeakResult"})
      /\ Sought(WalletOperatorAddressResult,
                {"WalletOperatorAddressResult", "MirrorBondStatesResult",
                 "CollateralRequirementResult", "CollateralBufferResult"})
      /\ Sought(WalletSyncStatusResult, {"WalletSyncStatusResult"})
  BY DEF Sought, Telling, ListSubscriptionsResult, WalletBalanceResult, WalletCoinsResult,
         WalletCoinByIdResult, WalletCoinSpendResult, WalletCoinsByParentResult,
         WalletPeakResult, WalletOperatorAddressResult, WalletSyncStatusResult
<1>5. /\ Sought(WalletBroadcastResult, {"WalletBroadcastResult"})
      /\ Sought(WalletWatchResult, {"WalletWatchResult"})
      /\ Sought(WalletUnwatchResult, {"WalletUnwatchResult"})
      /\ Sought(WalletWatchedResult, {"WalletWatchedResult"})
      /\ Sought(WalletReservationsHeldResult, {"WalletReservationsHeldResult"})
      /\ Sought(WalletReservationsReserveResult, {"WalletReservationsReserveResult"})
      /\ Sought(WalletReservationsReleaseResult, {"WalletReservationsReleaseResult"})
      /\ Sought(WalletResetCoinDbResult, {"WalletResetCoinDbResult"})
      /\ Sought(WalletArrivalsResult, {"WalletArrivalsResult"})
  BY DEF Sought, Telling, WalletBroadcastResult, WalletWatchResult, WalletUnwatchResult,
         WalletWatchedResult, WalletReservationsHeldResult, WalletReservationsReserveResult,
         WalletReservationsReleaseResult, WalletResetCoinDbResult, WalletArrivalsResult
<1>6. /\ Sought(ProfilePutBodyResult, {"ProfilePutBodyResult", "ProfileGetBodyResult"})
      /\ Sought(ProfileGetBodyResult, {"ProfileGetBodyResult"})
      /\ Sought(SpendsListResult, {"SpendsListResult"})
      /\ Sought(MirrorBondStatesResult,
                {"WalletOperatorAddressResult", "MirrorBondStatesResult",
                 "CollateralRequirementResult", "CollateralBufferResult"})
      /\ Sought(CollateralRequirementResult,
                {"HostedStoresListResult", "WalletOperatorAddressResult",
                 "MirrorBondStatesResult", "CollateralRequirementResult",
                 "CollateralBufferResult"})
      /\ Sought(CollateralBufferResult,
                {"WalletOperatorAddressResult", "MirrorBondStatesResult",
                 "CollateralRequirementResult", "CollateralBufferResult",
                 "CollateralMarginResult"})
      /\ Sought(CollateralMarginResult, {"CollateralMarginResult"})
  BY DEF Sought, Telling, ProfilePutBodyResult, ProfileGetBodyResult, SpendsListResult,
         MirrorBondStatesResult, CollateralRequirementResult, CollateralBufferResult,
         CollateralMarginResult
<1>7. Sought(MirrorReconcileResult,
             {"WalletOperatorAddressResult", "MirrorBondStatesResult", "MirrorReconcileResult",
              "CollateralRequirementResult", "CollateralBufferResult"})
  BY ReconcileParts DEF Sought, Telling, ReconcileKeys
<1> QED
  BY <1>1, <1>2, <1>3, <1>4, <1>5, <1>6, <1>7 DEF Results, Sought, Lookalikes, Alike, Stated

Apart(reader, type) == \A s \in type, t \in reader : Foreign(s, t)

LEMMA ForeignByKey ==
  ASSUME NEW s, NEW t, NEW key \in DOMAIN t, t[key].absent = Refused, key \notin DOMAIN s
  PROVE  Foreign(s, t)
BY DEF Foreign

LEMMA ForeignByTokens ==
  ASSUME NEW s, NEW t, NEW key, key \in DOMAIN s, key \in DOMAIN t,
         NEW tokens, NEW others, tokens \cap others = {},
         s[key] = Tokens(tokens), t[key] = Tokens(others)
  PROVE  Foreign(s, t)
<1>1. Tells(s, t, key)
  BY TokensTell
<1> QED
  BY <1>1 DEF Foreign, Tells

\* Results that give a state: one variant knows it, with a key of its own, and
\* the other has a reason.
Gives(type, own, state, reasons) ==
  \A struct \in type :
    \/ /\ "state" \in DOMAIN struct /\ struct["state"] = Tokens({"known"})
       /\ own \in DOMAIN struct /\ struct[own].absent = Refused
    \/ /\ DOMAIN struct = {"state", "reason"}
       /\ struct["state"] = Tokens({state}) /\ struct["reason"] = Tokens(reasons)

Lacks(type, keys) == \A struct \in type : keys \cap DOMAIN struct = {}

AddressReasons == {"not_initialized", "unreadable"}
BondReasons ==
  {"served_set_unknown", "chain_unreadable", "in_flight_unknown", "provenance_unknown"}
RequirementReasons ==
  {"not_censused", "behind_finality_depth", "record_unreadable", "no_chain_source",
   "balance_unreadable"}
BufferReasons ==
  {"requirement_unknown", "served_set_unknown", "reclaim_state_unknown", "balance_unknown"}

LEMMA StatesGiven ==
  /\ Gives(WalletOperatorAddressResult, "address", "unavailable", AddressReasons)
  /\ Gives(MirrorBondStatesResult, "entries", "unknown", BondReasons)
  /\ Gives(CollateralRequirementResult, "owners", "unknown", RequirementReasons)
  /\ Gives(CollateralBufferResult, "funding_state", "unknown", BufferReasons)
<1>1. /\ Text.absent = Refused /\ Number.absent = Refused
      /\ List("MirrorBondEntry").absent = Refused /\ CollateralFundingState.absent = Refused
  BY ScalarsRequire, ListsRequire, NamedFieldsRequire DEF Required
<1> QED
  BY <1>1
     DEF Gives, WalletOperatorAddressResult, AddressReasons,
         WalletOperatorAddressUnavailableReason, MirrorBondStatesResult, BondReasons,
         MirrorBondStatesUnknownReason, CollateralRequirementResult, RequirementReasons,
         CollateralUnknownReason, CollateralBufferResult, BufferReasons,
         CollateralBufferUnknownReason

LEMMA OwnKeys ==
  /\ Lacks(WalletOperatorAddressResult, {"entries", "owners", "funding_state"})
  /\ Lacks(MirrorBondStatesResult, {"address", "owners", "funding_state"})
  /\ Lacks(CollateralRequirementResult, {"address", "entries", "funding_state"})
  /\ Lacks(CollateralBufferResult, {"address", "entries", "owners"})
  /\ Lacks(MirrorReconcileResult, {"address", "entries", "owners", "funding_state"})
BY ReconcileParts
   DEF Lacks, ReconcileKeys, WalletOperatorAddressResult, MirrorBondStatesResult,
       CollateralRequirementResult, CollateralBufferResult

\* A key of its own, another state, or other reasons tell two of them apart.
LEMMA StatesTell ==
  ASSUME NEW type, NEW own, NEW state, NEW reasons, Gives(type, own, state, reasons),
         NEW reader, NEW asked, NEW given, NEW others, Gives(reader, asked, given, others),
         NEW keys, Lacks(type, keys), asked \in keys,
         state # "known", given # "known", reasons \cap others = {}
  PROVE  Apart(reader, type)
<1> SUFFICES ASSUME NEW s \in type, NEW t \in reader PROVE Foreign(s, t)
  BY DEF Apart
<1>1. \/ /\ "state" \in DOMAIN t /\ t["state"] = Tokens({"known"})
         /\ asked \in DOMAIN t /\ t[asked].absent = Refused
      \/ /\ DOMAIN t = {"state", "reason"}
         /\ t["state"] = Tokens({given}) /\ t["reason"] = Tokens(others)
  BY DEF Gives
<1>2. \/ "state" \in DOMAIN s /\ s["state"] = Tokens({"known"})
      \/ /\ DOMAIN s = {"state", "reason"}
         /\ s["state"] = Tokens({state}) /\ s["reason"] = Tokens(reasons)
  BY DEF Gives
<1>3. CASE asked \in DOMAIN t /\ t[asked].absent = Refused
  BY <1>3, ForeignByKey DEF Lacks
<1>4. CASE t["state"] = Tokens({given}) /\ s["state"] = Tokens({"known"})
           /\ "state" \in DOMAIN s /\ "state" \in DOMAIN t
  <2>1. {"known"} \cap {given} = {}
    OBVIOUS
  <2> QED
    BY <1>4, <2>1, ForeignByTokens
<1>5. CASE t["reason"] = Tokens(others) /\ s["reason"] = Tokens(reasons)
           /\ "reason" \in DOMAIN s /\ "reason" \in DOMAIN t
  BY <1>5, ForeignByTokens
<1> QED
  BY <1>1, <1>2, <1>3, <1>4, <1>5

\* A reconcile result names a state only of what is advertised.
LEMMA ReconcileTells ==
  ASSUME NEW reader, NEW asked, NEW given \in {"unknown", "unavailable"}, NEW others,
         Gives(reader, asked, given, others),
         asked \in {"address", "entries", "owners", "funding_state"}
  PROVE  Apart(reader, MirrorReconcileResult)
<1> SUFFICES ASSUME NEW s \in MirrorReconcileResult, NEW t \in reader PROVE Foreign(s, t)
  BY DEF Apart
<1>1. \/ asked \in DOMAIN t /\ t[asked].absent = Refused
      \/ "state" \in DOMAIN t /\ t["state"] = Tokens({given})
  BY DEF Gives
<1>2. CASE asked \in DOMAIN t /\ t[asked].absent = Refused
  BY <1>2, OwnKeys, ForeignByKey DEF Lacks
<1>3. CASE "state" \in DOMAIN t /\ t["state"] = Tokens({given})
  <2> DEFINE states == {"advertising_override", "advertising_derived", "off",
                        "no_public_address", "uncorroborated_address", "no_relay"}
  <2>1. "state" \in DOMAIN s => s["state"] = Tokens(states)
    BY ReconcileParts DEF MirrorAdvertiseState
  <2>2. states \cap {given} = {}
    OBVIOUS
  <2>3. t["state"].absent = Refused
    BY <1>3, TokensRequire DEF Required
  <2> HIDE DEF states
  <2>4. CASE "state" \in DOMAIN s
    BY <1>3, <2>1, <2>2, <2>4, ForeignByTokens
  <2>5. CASE "state" \notin DOMAIN s
    BY <1>3, <2>3, <2>5, ForeignByKey
  <2> QED
    BY <2>4, <2>5
<1> QED
  BY <1>1, <1>2, <1>3

LEMMA AlikeAreApart ==
  \A reader \in DOMAIN Results, type \in DOMAIN Results :
    <<reader, type>> \in Alike \ Lookalikes /\ reader # type =>
      Apart(Results[reader], Results[type])
<1>1. Apart(MirrorReconcileResult, ChiaPeersRemoveResult)
  <2> SUFFICES ASSUME NEW s \in ChiaPeersRemoveResult, NEW t \in MirrorReconcileResult
               PROVE  Foreign(s, t)
    BY DEF Apart
  <2>1. "outcome" \in DOMAIN s /\ s["outcome"] = Tokens({"removed", "no_such_peer"})
    BY DEF ChiaPeersRemoveResult
  <2>2. PICK word \in {"planned", "submitted", "refused"} :
          "outcome" \in DOMAIN t /\ t["outcome"] = Tokens({word})
    BY ReconcileParts
  <2>3. {"removed", "no_such_peer"} \cap {word} = {}
    OBVIOUS
  <2> QED
    BY <2>1, <2>2, <2>3, ForeignByTokens
<1>2. Apart(HostedStoresListResult, CollateralRequirementResult)
  <2> SUFFICES ASSUME NEW s \in CollateralRequirementResult, NEW t \in HostedStoresListResult
               PROVE  Foreign(s, t)
    BY DEF Apart
  <2>1. "stores" \in DOMAIN t /\ t["stores"] = List("HostedStore")
    BY DEF HostedStoresListResult
  <2>2. "stores" \in DOMAIN s => s["stores"] = Number
    BY DEF CollateralRequirementResult
  <2>3. \A v \in Number.holds : \A w \in List("HostedStore").holds : v # w
    BY DEF Number, List, Holding, Value
  <2>4. /\ Number.null = Refused /\ Number.absent = Refused
        /\ List("HostedStore").null = Refused /\ List("HostedStore").absent = Refused
        /\ ~ List("HostedStore").any_text
    BY DEF Number, List, Holding
  <2>5. Number.holds \cap List("HostedStore").holds = {}
    BY <2>3
  <2> QED
    BY <2>1, <2>2, <2>4, <2>5 DEF Foreign, Tells
<1>3. /\ AddressReasons \cap BondReasons = {} /\ AddressReasons \cap RequirementReasons = {}
      /\ AddressReasons \cap BufferReasons = {} /\ BondReasons \cap RequirementReasons = {}
      /\ RequirementReasons \cap BufferReasons = {}
  BY DEF AddressReasons, BondReasons, RequirementReasons, BufferReasons
<1>4. /\ Apart(WalletOperatorAddressResult, MirrorBondStatesResult)
      /\ Apart(WalletOperatorAddressResult, CollateralRequirementResult)
      /\ Apart(WalletOperatorAddressResult, CollateralBufferResult)
  BY <1>3, StatesGiven, OwnKeys, StatesTell
<1>5. /\ Apart(MirrorBondStatesResult, WalletOperatorAddressResult)
      /\ Apart(MirrorBondStatesResult, CollateralRequirementResult)
  BY <1>3, StatesGiven, OwnKeys, StatesTell
<1>6. /\ Apart(CollateralRequirementResult, WalletOperatorAddressResult)
      /\ Apart(CollateralRequirementResult, MirrorBondStatesResult)
      /\ Apart(CollateralRequirementResult, CollateralBufferResult)
  BY <1>3, StatesGiven, OwnKeys, StatesTell
<1>7. /\ Apart(CollateralBufferResult, WalletOperatorAddressResult)
      /\ Apart(CollateralBufferResult, CollateralRequirementResult)
  BY <1>3, StatesGiven, OwnKeys, StatesTell
<1>8. /\ Apart(WalletOperatorAddressResult, MirrorReconcileResult)
      /\ Apart(MirrorBondStatesResult, MirrorReconcileResult)
      /\ Apart(CollateralRequirementResult, MirrorReconcileResult)
      /\ Apart(CollateralBufferResult, MirrorReconcileResult)
  BY StatesGiven, ReconcileTells
<1>9. /\ Results["MirrorReconcileResult"] = MirrorReconcileResult
      /\ Results["ChiaPeersRemoveResult"] = ChiaPeersRemoveResult
      /\ Results["HostedStoresListResult"] = HostedStoresListResult
      /\ Results["WalletOperatorAddressResult"] = WalletOperatorAddressResult
      /\ Results["MirrorBondStatesResult"] = MirrorBondStatesResult
      /\ Results["CollateralRequirementResult"] = CollateralRequirementResult
      /\ Results["CollateralBufferResult"] = CollateralBufferResult
  BY DEF Results
<1>10. \A reader, type : <<reader, type>> \in Alike /\ reader # type =>
          \/ reader = "MirrorReconcileResult" /\ type = "ChiaPeersRemoveResult"
          \/ reader = "HostedStoresListResult" /\ type = "CollateralRequirementResult"
          \/ reader \in Stated /\ type \in Stated \cup {"MirrorReconcileResult"}
  BY DEF Alike
<1>11. /\ <<"MirrorBondStatesResult", "CollateralBufferResult">> \in Lookalikes
       /\ <<"CollateralBufferResult", "MirrorBondStatesResult">> \in Lookalikes
  BY DEF Lookalikes
<1> QED
  BY <1>1, <1>2, <1>4, <1>5, <1>6, <1>7, <1>8, <1>9, <1>10, <1>11 DEF Stated

\* Whoever asked for one result refuses another, but for the lookalikes.
LEMMA StrangersAreForeign ==
  ASSUME NEW reader \in DOMAIN Results, NEW type \in DOMAIN Results, reader # type,
         <<reader, type>> \notin Lookalikes, NEW s \in Results[type], NEW t \in Results[reader]
  PROVE  Foreign(s, t)
<1>1. CASE <<reader, type>> \in Alike
  BY <1>1, AlikeAreApart DEF Apart
<1>2. CASE <<reader, type>> \notin Alike
  <2>1. reader \in DOMAIN Telling
    BY DEF Results, Telling
  <2>2. ~ (Telling[reader] \subseteq DOMAIN s)
    <3>1. reader # "PeerCountsResult"
      BY DEF Lookalikes
    <3> QED
      BY <1>2, <2>1, <3>1, ReadersOf DEF Sought
  <2>3. PICK key \in Telling[reader] : key \notin DOMAIN s
    BY <2>2
  <2>4. key \in DOMAIN t /\ t[key].absent = Refused
    BY <2>3, TellingIsAsked DEF Asks
  <2> QED
    BY <2>3, <2>4, ForeignByKey
<1> QED
  BY <1>1, <1>2

LEMMA MisroutedStep == WireInv /\ MisroutedIsRefused /\ [Next]_vars => MisroutedIsRefused'
<1> SUFFICES ASSUME WireInv, MisroutedIsRefused, [Next]_vars PROVE MisroutedIsRefused'
  OBVIOUS
<1>1. CASE UNCHANGED vars
  BY <1>1 DEF vars, MisroutedIsRefused, Views
<1>2. CASE Next
  <2> SUFFICES ASSUME fault' = "misrouted", NEW r \in Views'
               PROVE  <<expected', written'>> \in Lookalikes
    BY DEF MisroutedIsRefused, Lookalikes
  <2>1. PICK build, payload, struct : ReadAs(r, build, payload, struct)
    BY <1>2, ViewsAreRead
  <2>2. expected' = expected /\ written' = written /\ fault = "misrouted"
    BY <1>2, ViewsAreRead
  <2>3. expected \in DOMAIN Results /\ written \in DOMAIN Results /\ expected # written
    BY <2>2 DEF WireInv, Sane
  <2>4. expected \in DOMAIN Types /\ written \in DOMAIN Types
        /\ Types[expected] = Results[expected] /\ Types[written] = Results[written]
    BY <2>3, TablesJoin
  <2>5. PICK base \in Types[written] :
          /\ Worded(base, said)
          /\ Carries(base, LaterOf(written), "older" \in builds, said, payload)
    BY <2>1, <2>2 DEF WireInv, Untouched, ReadAs
  <2>6. PICK asked \in Types[expected] : Aged(build, struct, asked, LaterOf(expected))
    BY <2>1, <2>4, StructsAge DEF ReadAs
  <2>7. ASSUME <<expected, written>> \notin Lookalikes PROVE FALSE
    <3>1. Foreign(base, asked)
      BY <2>3, <2>4, <2>7, StrangersAreForeign
    <3>2. \E key \in DOMAIN struct : DecodeKey(struct[key], payload, key) = Refused
      BY <2>4, <2>5, <2>6, <3>1, TypeFacts, ForeignIsRefused
    <3> QED
      BY <2>1, <3>2 DEF ReadAs
  <2> QED
    BY <2>2, <2>7
<1> QED
  BY <1>1, <1>2

-----------------------------------------------------------------------------
(* Theorems                                                                *)

\* What decode (traits.rs) hands a caller holds, key by key, what the type that
\* was asked for makes of a present, a null or a missing key, whatever builds,
\* losses and mistaken answers came before.
THEOREM TypeIsOK == Spec => []TypeOK
<1>1. Init => TypeOK
  BY InitInv, ConstantsAssumption DEF Init, TypeOK, Views, WireInv, Sane
<1> QED
  BY <1>1, SpecWireInv, TypeOKStep, PTL DEF Spec

\* Builds of any ages, in any number, read of an undamaged payload what was said
\* or, of a key that one of them lacks, nothing (the optional keys of
\* results.rs); only a CAT that an older build has no word for is refused.
THEOREM SkewIsAlwaysRead == Spec => []SkewIsRead
<1>1. Init => SkewIsRead
  BY DEF Init, SkewIsRead
<1> QED
  BY <1>1, SpecWireInv, SkewStep, PTL DEF Spec

\* "No such coin", "nothing more follows", "no chain reference" and "complete"
\* are read only where the writer said so (required_option, results.rs).
THEOREM VerdictsAreAlwaysSaid == Spec => []VerdictsAreSaid
<1>1. Init => VerdictsAreSaid
  BY DEF Init, VerdictsAreSaid, Views
<1> QED
  BY <1>1, SpecWireInv, VerdictStep, PTL DEF Spec

\* The answer to one method is refused by the reader of another, but for the
\* pairs of Lookalikes (decode, traits.rs).
THEOREM MisroutedIsAlwaysRefused == Spec => []MisroutedIsRefused
<1>1. Init => MisroutedIsRefused
  BY DEF Init, MisroutedIsRefused, Views
<1> QED
  BY <1>1, SpecWireInv, MisroutedStep, PTL DEF Spec

\* A wallet is shown as settled only if the node said that it is
\* (WalletSyncPhase::may_render_as_settled, results.rs).
THEOREM SettledIsAlwaysSaid == Spec => []SettledIsSaid
<1>1. Init => SettledIsSaid
  BY DEF Init, SettledIsSaid, Views
<1> QED
  BY <1>1, SpecWireInv, SettledStep, PTL DEF Spec

\* A removal is taken for a ban, and a coin database reset for confirmed, only
\* if the caller said so (ban and confirm, params.rs).
THEOREM ConsentIsAlwaysSaid == Spec => []ConsentIsSaid
<1>1. Init => ConsentIsSaid
  BY DEF Init, ConsentIsSaid, Views
<1> QED
  BY <1>1, SpecWireInv, ConsentStep, PTL DEF Spec
=============================================================================
