---- MODULE PayloadTypes ----
(***************************************************************************)
(* The C++ types of the payloads Core encodes: the messages of             *)
(* core_messages_v2.hpp, the configuration messages of service_types.hpp   *)
(* and the two payloads of the session handshake.  They are a table of     *)
(* their own, apart from the writers and readers of PayloadCodec, so that  *)
(* a member no codec transmits would show.                                 *)
(*                                                                         *)
(* A value is: a text or byte string, a sequence of bytes; a bool, 0 or 1; *)
(* a map, a function from keys to texts; an enumerator, its number.  A     *)
(* number of up to four bytes, or a float, is the signed integer its bits  *)
(* spell; one of eight bytes, or a double, the pair of its high and low    *)
(* half.                                                                   *)
(***************************************************************************)
EXTENDS Integers, TLC

Str == [t |-> "str"]
Num == [t |-> "num"]
Wide == [t |-> "wide"]
Bool == [t |-> "enum", lo |-> 0, hi |-> 1, def |-> 0]
Dbl == Wide
MapOf == [t |-> "map"]
Enum(lo, hi, def) == [t |-> "enum", lo |-> lo, hi |-> hi, def |-> def]
ListOf(type) == [t |-> "list", of |-> type]
Rec(fields) == [t |-> "rec", of |-> fields]

\* A member that counts only when the member `flag` has the value `on`.
PartOf(type, flag, on) == [t |-> "part", of |-> type, flag |-> flag, on |-> on]

TypeRef == Rec([profile_id |-> Str, major |-> Num, minor |-> Num, type_name |-> Str])

EntityDescriptor ==
    Rec([entity_uid |-> Str, kind |-> Str, display_name |-> Str, hardware_id |-> Str,
         attributes |-> MapOf, capabilities |-> ListOf(Str), availability |-> Enum(0, 3, 0)])

LogSummary ==
    Rec([log_uid |-> Str, owner_uid |-> Str, title |-> Str, state |-> Str,
         started_at_ns |-> Wide, finished_at_ns |-> Wide, has_exit_code |-> Bool,
         exit_code |-> Num, labels |-> MapOf, message |-> Str])

StreamDescriptor ==
    Rec([stream_uid |-> Str, type |-> TypeRef, encoding |-> Str, metadata |-> MapOf])

ProfileDescriptor ==
    Rec([profile_id |-> Str, major |-> Num, minor |-> Num, schema_digest |-> Str])

CoreType ==
  [ EntityDirectory |-> Rec([endpoint_uid |-> Str, revision |-> Str,
                             entities |-> ListOf(EntityDescriptor)]),
    AttachmentRequest |-> Rec([expected_revision |-> Str, entity_uids |-> ListOf(Str)]),
    AttachmentResponse |-> Rec([success |-> Bool, revision |-> Str,
                                attached_entity_uids |-> ListOf(Str), message |-> Str]),
    AuthorityRequest |-> Rec([authority_scope |-> Str, lease_ttl_ms |-> Num,
                              allow_preempt |-> Bool]),
    AuthorityStatus |-> Rec([authority_scope |-> Str, state |-> Str, lease_ttl_ms |-> Num,
                             reason_code |-> Num, detail |-> Str]),
    StreamCatalog |-> Rec([revision |-> Str, streams |-> ListOf(StreamDescriptor)]),
    StreamSubscription |-> Rec([stream_uid |-> Str, max_rate_hz |-> Num,
                                max_payload_bytes |-> Num]),
    StreamSubscriptionStatus |-> Rec([success |-> Bool, subscribed |-> Bool,
                                      stream_uid |-> Str, max_rate_hz |-> Num,
                                      max_payload_bytes |-> Num, message |-> Str]),
    StreamSample |-> Rec([stream_uid |-> Str, encoding |-> Str, metadata |-> MapOf,
                          source_timestamp_ns |-> Wide, sequence |-> Wide, data |-> Str]),
    ActionUpdate |-> Rec([phase |-> Enum(1, 7, 1), result_code |-> Num,
                          progress_percent |-> Num, detail |-> Str]),
    BulkDescriptor |-> Rec([media_type |-> Str, encoding |-> Str, metadata |-> MapOf,
                            total_bytes |-> Wide]),
    LogListResponse |-> Rec([success |-> Bool, message |-> Str, logs |-> ListOf(LogSummary)]),
    LogReadRequest |-> Rec([log_uid |-> Str, cursor |-> Wide, max_bytes |-> Num]),
    LogReadResponse |-> Rec([success |-> Bool, message |-> Str, log_uid |-> Str,
                             chunk |-> Str, next_cursor |-> Wide, truncated |-> Bool,
                             eof |-> Bool]),
    SessionText |-> Rec([value |-> Str]),
    ProfileList |-> Rec([profiles |-> ListOf(ProfileDescriptor)]) ]

\* One member of a ConfigValue counts, the one that its type selects; 7 is kUnset.
ConfigValue ==
    Rec([type |-> Enum(1, 7, 4), bool_value |-> PartOf(Bool, "type", 1),
         int64_value |-> PartOf(Wide, "type", 2), double_value |-> PartOf(Dbl, "type", 3),
         string_value |-> PartOf(Str, "type", 4),
         string_list_value |-> PartOf(ListOf(Str), "type", 5),
         double_list_value |-> PartOf(ListOf(Dbl), "type", 6)])

ConfigResourceDescriptor ==
    Rec([id |-> Str, title |-> Str, description |-> Str, readable |-> Bool,
         writable |-> Bool, apply_supported |-> Bool, variants_supported |-> Bool])

ConfigChoice == Rec([value |-> ConfigValue, label |-> Str])

ConfigFieldSchema ==
    Rec([path |-> Str, title |-> Str, description |-> Str, type |-> Enum(1, 7, 4),
         required |-> Bool, read_only |-> Bool, sensitive |-> Bool, has_minimum |-> Bool,
         minimum |-> Dbl, has_maximum |-> Bool, maximum |-> Dbl, validation_pattern |-> Str,
         choices |-> ListOf(ConfigChoice), group_path |-> Str,
         update_policy |-> Enum(0, 5, 4), unit |-> Str,
         default_value |-> PartOf(ConfigValue, "has_default_value", 1),
         has_default_value |-> Bool, advanced |-> Bool])

ConfigFieldValue == Rec([path |-> Str, value |-> ConfigValue])

ConfigSnapshot ==
    Rec([resource_id |-> Str, revision |-> Str, applied_revision |-> Str,
         variant_id |-> Str, active_variant_id |-> Str,
         values |-> ListOf(ConfigFieldValue), user_overridden_paths |-> ListOf(Str)])

ConfigVariantDescriptor ==
    Rec([id |-> Str, title |-> Str, revision |-> Str, modified_at_ns |-> Wide,
         active |-> Bool, mutable_variant |-> Bool])

ConfigFieldError == Rec([path |-> Str, code |-> Str, message |-> Str])

ConfigEffects ==
    Rec([requirement |-> Enum(0, 4, 0), affected_components |-> ListOf(Str),
         reconnect_expected |-> Bool])

ConfigServiceStatus == Enum(0, 8, 8)
ConfigApplyOutcome == Enum(1, 4, 4)

ConfigType ==
  [ ConfigResourceListRequest |-> Rec([reserved |-> Num]),
    ConfigResourceListResponse |->
        Rec([status |-> ConfigServiceStatus, message |-> Str,
             resources |-> ListOf(ConfigResourceDescriptor)]),
    ConfigResourceDescribeRequest |-> Rec([resource_id |-> Str, locale |-> Str]),
    ConfigResourceDescribeResponse |->
        Rec([status |-> ConfigServiceStatus, message |-> Str,
             resource |-> ConfigResourceDescriptor, fields |-> ListOf(ConfigFieldSchema)]),
    ConfigResourceGetRequest |-> Rec([resource_id |-> Str, variant_id |-> Str]),
    ConfigResourceGetResponse |->
        Rec([status |-> ConfigServiceStatus, message |-> Str, snapshot |-> ConfigSnapshot]),
    ConfigResourcePatchRequest |->
        Rec([resource_id |-> Str, variant_id |-> Str, expected_revision |-> Str,
             updates |-> ListOf(ConfigFieldValue), validate_only |-> Bool]),
    ConfigResourcePatchResponse |->
        Rec([status |-> ConfigServiceStatus, message |-> Str, snapshot |-> ConfigSnapshot,
             errors |-> ListOf(ConfigFieldError), effects |-> ConfigEffects,
             has_candidate_snapshot |-> Bool,
             candidate_snapshot |-> PartOf(ConfigSnapshot, "has_candidate_snapshot", 1)]),
    ConfigResourceApplyRequest |-> Rec([resource_id |-> Str, expected_revision |-> Str]),
    ConfigResourceApplyResponse |->
        Rec([status |-> ConfigServiceStatus, message |-> Str, applied_revision |-> Str,
             outcome |-> ConfigApplyOutcome, effects |-> ConfigEffects]) ]

VariantType ==
  [ ConfigResourceVariantListRequest |-> Rec([resource_id |-> Str]),
    ConfigResourceVariantListResponse |->
        Rec([status |-> ConfigServiceStatus, message |-> Str, active_variant_id |-> Str,
             variants |-> ListOf(ConfigVariantDescriptor)]),
    ConfigResourceVariantCreateRequest |->
        Rec([resource_id |-> Str, variant_id |-> Str, source |-> Enum(1, 2, 2),
             expected_active_revision |-> Str]),
    ConfigResourceVariantCreateResponse |->
        Rec([status |-> ConfigServiceStatus, message |-> Str,
             variant |-> ConfigVariantDescriptor, effects |-> ConfigEffects]),
    ConfigResourceVariantSaveCurrentRequest |->
        Rec([resource_id |-> Str, variant_id |-> Str, expected_variant_revision |-> Str,
             expected_active_revision |-> Str]),
    ConfigResourceVariantSaveCurrentResponse |->
        Rec([status |-> ConfigServiceStatus, message |-> Str,
             variant |-> ConfigVariantDescriptor, effects |-> ConfigEffects]),
    ConfigResourceVariantActivateRequest |->
        Rec([resource_id |-> Str, variant_id |-> Str, expected_active_revision |-> Str]),
    ConfigResourceVariantActivateResponse |->
        Rec([status |-> ConfigServiceStatus, message |-> Str, applied_revision |-> Str,
             outcome |-> ConfigApplyOutcome, effects |-> ConfigEffects]),
    ConfigResourceVariantDeleteRequest |->
        Rec([resource_id |-> Str, variant_id |-> Str, expected_revision |-> Str]),
    ConfigResourceVariantDeleteResponse |->
        Rec([status |-> ConfigServiceStatus, message |-> Str]) ]

TypeOf == CoreType @@ ConfigType @@ VariantType
Message == DOMAIN TypeOf

\* T{}: the value of a default-initialized object.
RECURSIVE Default(_)
Default(type) ==
    CASE type.t \in {"str", "list", "map"} -> <<>>
      [] type.t = "num" -> 0
      [] type.t = "wide" -> <<0, 0>>
      [] type.t = "enum" -> type.def
      [] type.t = "part" -> Default(type.of)
      [] type.t = "rec" -> [f \in DOMAIN type.of |-> Default(type.of[f])]
====
