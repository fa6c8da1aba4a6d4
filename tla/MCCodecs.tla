---- MODULE MCCodecs ----
EXTENDS Codecs

\* The texts of every length around the limits, and one that is not a uid.
Texts == {<<>>, <<32>>} \cup {[i \in 1..n |-> 97] : n \in 1..(MaxText + 1)}
Bytes4 == {0, 1, 100, 101, 255}
Doubles == {<<0, 0>>, <<0, 1>>, <<-1, -2>>, <<1072693248, 0>>, <<2146435072, 0>>}
Maps == {<<>>, (<<97>> :> <<>>), (<<>> :> <<97>>) @@ (<<97>> :> <<98, 97>>),
         (<<97, 97, 97, 97>> :> <<97>>)}

RECURSIVE BaseOf(_)
BaseOf(type) ==
    CASE type.t = "str" -> <<97>>
      [] type.t = "num" -> 1
      [] type.t = "wide" -> <<0, 1>>
      [] type.t = "map" -> (<<97>> :> <<98>>) @@ (<<98>> :> <<>>)
      [] type.t = "enum" -> type.def
      [] type.t = "part" -> Default(type.of)
      [] type.t = "list" -> <<BaseOf(type.of)>>
      [] type.t = "rec" -> [f \in DOMAIN type.of |-> BaseOf(type.of[f])]

\* The values of a type that differ from the base in one member, at any depth.
RECURSIVE ValuesOf(_)
ValuesOf(type) ==
    CASE type.t = "str" -> Texts
      [] type.t = "num" -> Bytes4
      [] type.t = "wide" -> Doubles
      [] type.t = "map" -> Maps
      [] type.t = "enum" -> type.lo..type.hi
      [] type.t = "part" -> ValuesOf(type.of)
      [] type.t = "list" ->
           {<<v>> : v \in ValuesOf(type.of)}
           \cup {[i \in 1..n |-> BaseOf(type.of)] : n \in {0, MaxItems, MaxItems + 1,
                                                           MaxText, MaxText + 1}}
      [] type.t = "rec" ->
           UNION {IF type.of[f].t = "part"
                  THEN {[BaseOf(type) EXCEPT ![f] = v, ![type.of[f].flag] = type.of[f].on] :
                            v \in ValuesOf(type.of[f])}
                  ELSE {[BaseOf(type) EXCEPT ![f] = v] : v \in ValuesOf(type.of[f])} :
                  f \in DOMAIN type.of}

MCTypical(m) == BaseOf(TypeOf[m])
MCPayloadsOf(m) == ValuesOf(TypeOf[m]) \cup {MCTypical(m)}

MCTypicalHeader ==
    [ family |-> 7, operation |-> 1, qos_class |-> 1, scope |-> 1, uids |-> <<<<97>>, <<98, 97>>>>,
      entity_uid |-> <<98>>, profile_id |-> <<97>>, major |-> 1, minor |-> 0,
      type_name |-> <<97>>, correlation_id |-> <<0, 0>>, ttl_ms |-> 5 ]

\* The typical header, changed in one argument.
Changed(f, values) == {[MCTypicalHeader EXCEPT ![f] = v] : v \in values}
MCHeaders ==
    UNION {Changed("family", 0..10), Changed("qos_class", 0..5), Changed("scope", 0..5),
           Changed("uids", {<<>>, <<<<32>>>>, <<<<97>>>>,
                            [i \in 1..9 |-> <<97, 97>>]}),
           Changed("entity_uid", Texts), Changed("profile_id", Texts),
           Changed("type_name", Texts), Changed("major", {0, 255}),
           Changed("correlation_id", {<<0, 7>>, <<-1, -1>>}), Changed("ttl_ms", {0, -1}),
           {[MCTypicalHeader EXCEPT !.scope = 4, !.uids = <<>>]}}
MCEndpoint == <<97, 98>>
====
