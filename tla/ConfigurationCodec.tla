---- MODULE ConfigurationCodec ----
(***************************************************************************)
(* The writers and readers of the configuration resource messages, and     *)
(* encode and decode over all the payloads of Core.                        *)
(***************************************************************************)
EXTENDS PayloadCodec

Vector(kind) == Items(kind, MaxItems)
Strings == Vector(String)
Enumerator(lo, hi) == Number(1, Within(lo, hi))

\* The member that each type of value has; the type kUnset has none.
ValueMembers ==
    << When("type", 1, "bool_value", Flag), When("type", 2, "int64_value", U64),
       When("type", 3, "double_value", Finite), When("type", 4, "string_value", String),
       When("type", 5, "string_list_value", Strings),
       When("type", 6, "double_list_value", Vector(Finite)) >>

write_value == Members(ConfigValue, <<F("type", U8)>> \o ValueMembers, Unchecked)

read_value == Members(ConfigValue, <<F("type", Enumerator(1, 7))>> \o ValueMembers, Unchecked)

write_descriptor ==
    Members(ConfigResourceDescriptor,
            <<F("id", String), F("title", String), F("description", String),
              F("readable", Flag), F("writable", Flag), F("apply_supported", Flag),
              F("variants_supported", Flag)>>, Unchecked)

read_descriptor ==
    Members(ConfigResourceDescriptor,
            <<F("id", String), F("title", String), F("description", String),
              F("readable", Flag), F("writable", Flag), F("apply_supported", Flag),
              F("variants_supported", Flag)>>, Unchecked)

write_choice == Members(ConfigChoice, <<F("value", write_value), F("label", String)>>, Unchecked)

read_choice == Members(ConfigChoice, <<F("value", read_value), F("label", String)>>, Unchecked)

write_schema ==
    Members(ConfigFieldSchema,
            <<F("path", String), F("title", String), F("description", String), F("type", U8),
              F("required", Flag), F("read_only", Flag), F("sensitive", Flag),
              F("has_minimum", Flag), F("minimum", Double), F("has_maximum", Flag),
              F("maximum", Double), F("validation_pattern", String),
              F("choices", Vector(write_choice)), F("group_path", String),
              F("update_policy", U8), F("unit", String), F("has_default_value", Flag),
              When("has_default_value", 1, "default_value", write_value),
              F("advanced", Flag)>>, Unchecked)

read_schema ==
    Members(ConfigFieldSchema,
            <<F("path", String), F("title", String), F("description", String),
              F("type", Enumerator(1, 6)), F("required", Flag), F("read_only", Flag),
              F("sensitive", Flag), F("has_minimum", Flag), F("minimum", Finite),
              F("has_maximum", Flag), F("maximum", Finite), F("validation_pattern", String),
              F("choices", Vector(read_choice)), F("group_path", String),
              F("update_policy", Enumerator(0, 5)), F("unit", String),
              F("has_default_value", Flag),
              When("has_default_value", 1, "default_value", read_value),
              F("advanced", Flag)>>, Unchecked)

write_field_value ==
    Members(ConfigFieldValue, <<F("path", String), F("value", write_value)>>, Unchecked)

read_field_value ==
    Members(ConfigFieldValue, <<F("path", String), F("value", read_value)>>, Unchecked)

write_snapshot ==
    Members(ConfigSnapshot,
            <<F("resource_id", String), F("revision", String), F("applied_revision", String),
              F("variant_id", String), F("active_variant_id", String),
              F("values", Vector(write_field_value)), F("user_overridden_paths", Strings)>>,
            Unchecked)

\* mutant: the two variant ids in the other order
read_snapshot_swapped ==
    Members(ConfigSnapshot,
            <<F("resource_id", String), F("revision", String), F("applied_revision", String),
              F("active_variant_id", String), F("variant_id", String),
              F("values", Vector(read_field_value)), F("user_overridden_paths", Strings)>>,
            Unchecked)

read_snapshot ==
    Members(ConfigSnapshot,
            <<F("resource_id", String), F("revision", String), F("applied_revision", String),
              F("variant_id", String), F("active_variant_id", String),
              F("values", Vector(read_field_value)), F("user_overridden_paths", Strings)>>,
            Unchecked)

write_variant ==
    Members(ConfigVariantDescriptor,
            <<F("id", String), F("title", String), F("revision", String),
              F("modified_at_ns", U64), F("active", Flag), F("mutable_variant", Flag)>>,
            Unchecked)

read_variant ==
    Members(ConfigVariantDescriptor,
            <<F("id", String), F("title", String), F("revision", String),
              F("modified_at_ns", U64), F("active", Flag), F("mutable_variant", Flag)>>,
            Unchecked)

write_field_error ==
    Members(ConfigFieldError, <<F("path", String), F("code", String), F("message", String)>>,
            Unchecked)

read_field_error ==
    Members(ConfigFieldError, <<F("path", String), F("code", String), F("message", String)>>,
            Unchecked)

write_effects ==
    Members(ConfigEffects, <<F("requirement", U8), F("affected_components", Strings),
                             F("reconnect_expected", Flag)>>, Unchecked)

read_effects ==
    Members(ConfigEffects, <<F("requirement", Enumerator(0, 4)),
                             F("affected_components", Strings),
                             F("reconnect_expected", Flag)>>, Unchecked)

write_status == <<F("status", U8), F("message", String)>>

read_status == <<F("status", Enumerator(0, 8)), F("message", String)>>

EncodeBrowse ==
  [ ConfigResourceListRequest |-> <<F("reserved", U8)>>,
    ConfigResourceListResponse |-> write_status \o <<F("resources", Vector(write_descriptor))>>,
    ConfigResourceDescribeRequest |-> <<F("resource_id", String), F("locale", LastString)>>,
    ConfigResourceDescribeResponse |->
        write_status \o <<F("resource", write_descriptor), F("fields", Vector(write_schema))>>,
    ConfigResourceGetRequest |-> <<F("resource_id", String), F("variant_id", String)>>,
    ConfigResourceGetResponse |-> write_status \o <<F("snapshot", write_snapshot)>> ]

DecodeBrowse ==
  [ ConfigResourceListRequest |-> <<F("reserved", U8)>>,
    ConfigResourceListResponse |-> read_status \o <<F("resources", Vector(read_descriptor))>>,
    ConfigResourceDescribeRequest |-> <<F("resource_id", String), F("locale", LastString)>>,
    ConfigResourceDescribeResponse |->
        read_status \o <<F("resource", read_descriptor), F("fields", Vector(read_schema))>>,
    ConfigResourceGetRequest |-> <<F("resource_id", String), F("variant_id", String)>>,
    ConfigResourceGetResponse |-> read_status \o <<F("snapshot", read_snapshot)>> ]

EncodeChange ==
  [ ConfigResourcePatchRequest |->
        <<F("resource_id", String), F("variant_id", String), F("expected_revision", String),
          F("updates", Vector(write_field_value)), F("validate_only", Flag)>>,
    ConfigResourcePatchResponse |->
        write_status \o
        <<F("snapshot", write_snapshot), F("has_candidate_snapshot", Flag),
          When("has_candidate_snapshot", 1, "candidate_snapshot", write_snapshot),
          F("errors", Vector(write_field_error)), F("effects", write_effects)>>,
    ConfigResourceApplyRequest |->
        <<F("resource_id", String), F("expected_revision", String)>>,
    ConfigResourceApplyResponse |->
        write_status \o
        <<F("applied_revision", String), F("outcome", U8), F("effects", write_effects)>> ]

DecodeChange ==
  [ ConfigResourcePatchRequest |->
        <<F("resource_id", String), F("variant_id", String), F("expected_revision", String),
          F("updates", Vector(read_field_value)), F("validate_only", Flag)>>,
    ConfigResourcePatchResponse |->
        read_status \o
        <<F("snapshot", read_snapshot), F("has_candidate_snapshot", Flag),
          When("has_candidate_snapshot", 1, "candidate_snapshot", read_snapshot),
          F("errors", Vector(read_field_error)), F("effects", read_effects)>>,
    ConfigResourceApplyRequest |->
        <<F("resource_id", String), F("expected_revision", String)>>,
    ConfigResourceApplyResponse |->
        read_status \o
        <<F("applied_revision", String), F("outcome", Enumerator(1, 4)),
          F("effects", read_effects)>> ]

EncodeVariants ==
  [ ConfigResourceVariantListRequest |-> <<F("resource_id", String)>>,
    ConfigResourceVariantListResponse |->
        write_status \o <<F("active_variant_id", String), F("variants", Vector(write_variant))>>,
    ConfigResourceVariantCreateRequest |->
        <<F("resource_id", String), F("variant_id", String), F("source", U8),
          F("expected_active_revision", String)>>,
    ConfigResourceVariantCreateResponse |->
        write_status \o <<F("variant", write_variant), F("effects", write_effects)>>,
    ConfigResourceVariantSaveCurrentRequest |->
        <<F("resource_id", String), F("variant_id", String),
          F("expected_variant_revision", String), F("expected_active_revision", String)>>,
    ConfigResourceVariantSaveCurrentResponse |->
        write_status \o <<F("variant", write_variant), F("effects", write_effects)>> ]

DecodeVariants ==
  [ ConfigResourceVariantListRequest |-> <<F("resource_id", String)>>,
    ConfigResourceVariantListResponse |->
        read_status \o <<F("active_variant_id", String), F("variants", Vector(read_variant))>>,
    ConfigResourceVariantCreateRequest |->
        <<F("resource_id", String), F("variant_id", String), F("source", Enumerator(1, 2)),
          F("expected_active_revision", String)>>,
    ConfigResourceVariantCreateResponse |->
        read_status \o <<F("variant", read_variant), F("effects", read_effects)>>,
    ConfigResourceVariantSaveCurrentRequest |->
        <<F("resource_id", String), F("variant_id", String),
          F("expected_variant_revision", String), F("expected_active_revision", String)>>,
    ConfigResourceVariantSaveCurrentResponse |->
        read_status \o <<F("variant", read_variant), F("effects", read_effects)>> ]

EncodeActivation ==
  [ ConfigResourceVariantActivateRequest |->
        <<F("resource_id", String), F("variant_id", String),
          F("expected_active_revision", String)>>,
    ConfigResourceVariantActivateResponse |->
        write_status \o
        <<F("applied_revision", String), F("outcome", U8), F("effects", write_effects)>>,
    ConfigResourceVariantDeleteRequest |->
        <<F("resource_id", String), F("variant_id", String), F("expected_revision", String)>>,
    ConfigResourceVariantDeleteResponse |-> write_status ]

DecodeActivation ==
  [ ConfigResourceVariantActivateRequest |->
        <<F("resource_id", String), F("variant_id", String),
          F("expected_active_revision", String)>>,
    ConfigResourceVariantActivateResponse |->
        read_status \o
        <<F("applied_revision", String), F("outcome", Enumerator(1, 4)),
          F("effects", read_effects)>>,
    ConfigResourceVariantDeleteRequest |->
        <<F("resource_id", String), F("variant_id", String), F("expected_revision", String)>>,
    ConfigResourceVariantDeleteResponse |-> read_status ]
----------------------------------------------------------------------------
WriterOf == CoreEncode @@ SessionEncode @@ EncodeBrowse @@ EncodeChange @@ EncodeVariants
            @@ EncodeActivation

ReaderOf == CoreDecode @@ SessionDecode @@ DecodeBrowse @@ DecodeChange @@ DecodeVariants
            @@ DecodeActivation

PayloadBytes(m, v, ascending) ==
    take(Write(Members(TypeOf[m], WriterOf[m], Unchecked), v, ascending))

encode_payload(m, v) == PayloadBytes(m, v, TRUE)

\* mutant: bytes after the last field are ignored
parse_prefix(fields, type, data) == Read(Members(type, fields, Unchecked), data, 0)

\* A reader must accept every field and be at the end of the bytes.
parse_payload(fields, type, data) ==
    LET all == Read(Members(type, fields, Unchecked), data, 0)
    IN IF all.ok /\ all.at = Len(data) THEN all ELSE Refused

decode_payload(m, data) == parse_payload(ReaderOf[m], TypeOf[m], data)
====
