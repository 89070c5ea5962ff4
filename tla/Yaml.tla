--------------------------------- MODULE Yaml ---------------------------------
(***************************************************************************)
(* YAML nodes as src/parser/yaml_parser.cpp uses them (the library is      *)
(* yaml-cpp, a dependency fetched by the build).  A node is a record whose *)
(* field kind says what it is:                                             *)
(*    undefined    what n["key"] gives for a key that is not there         *)
(*    null         an empty value                                          *)
(*    scalar       text: what it says; number, flag: what that reads as,   *)
(*                 sets with at most one member                            *)
(*    list         items: a sequence of nodes                              *)
(*    map          of: a partial function from keys to nodes               *)
(* An operation that may throw returns a set: what it returns is its only  *)
(* member, and it is empty if the operation throws.  A set comprehension   *)
(* over such sets throws if any of them does, as a function does that      *)
(* catches nothing.                                                        *)
(***************************************************************************)
EXTENDS Integers, Sequences, FiniteSets

CONSTANTS Address,    \* inet_pton: the strings that are IPv4 addresses |-> the address
          Multicast   \* the addresses in 224.0.0.0/4

ASSUME MulticastType == Multicast \subseteq {Address[x] : x \in DOMAIN Address}

Undefined == [kind |-> "undefined"]

IsDefined(n) == n.kind # "undefined"

(* n["key"] throws on a scalar, and on a node that is itself undefined.    *)
Subscriptable(n) == n.kind \in {"map", "list", "null"}

Field(n, key) == IF n.kind = "map" /\ key \in DOMAIN n.of THEN n.of[key] ELSE Undefined

-----------------------------------------------------------------------------
(* as<T>.  A null reads as the string "null" and as nothing else; an       *)
(* integer has to be in the range of its type.                             *)
AsText(n) == IF n.kind = "scalar" THEN {n.text} ELSE IF n.kind = "null" THEN {"null"} ELSE {}
AsFlag(n) == IF n.kind = "scalar" THEN n.flag ELSE {}
AsNumber(n, T) == IF n.kind = "scalar" THEN n.number \cap T ELSE {}

Required(n, value) == IF Subscriptable(n) THEN value ELSE {}

(* A required field is converted without asking whether it is there.       *)
RequiredText(n, key)      == Required(n, AsText(Field(n, key)))
RequiredNumber(n, key, T) == Required(n, AsNumber(Field(n, key), T))

(* n["key"] ? n["key"].as<T>() : default                                   *)
Optional(n, key, value, default) ==
    IF ~Subscriptable(n) THEN {} ELSE IF IsDefined(Field(n, key)) THEN value ELSE {default}

OptionalText(n, key, default)      == Optional(n, key, AsText(Field(n, key)), default)
OptionalFlag(n, key, default)      == Optional(n, key, AsFlag(Field(n, key)), default)
OptionalNumber(n, key, T, default) == Optional(n, key, AsNumber(Field(n, key), T), default)

-----------------------------------------------------------------------------
(* for (const auto& item : n["key"]): the items of a list; nothing for a   *)
(* scalar, a null or a key that is not there; for a map its entries, which *)
(* are pairs and no nodes: whatever is done with them throws.              *)
Iterated(n) ==
    CASE n.kind = "list" -> n.items
      [] n.kind = "map"  -> [i \in 1..Cardinality(DOMAIN n.of) |-> Undefined]
      [] OTHER           -> <<>>

Items(n, key) == IF Subscriptable(n) THEN Iterated(Field(n, key)) ELSE <<Undefined>>

(* Every item converted in turn; the first that throws ends the loop.      *)
Each(converted) ==
    {s \in [DOMAIN converted -> UNION {converted[i] : i \in DOMAIN converted}] :
        \A i \in DOMAIN converted : s[i] \in converted[i]}

(* inet_pton and the range check behind it (parse_ipv4).                   *)
AsAddress(n) == {Address[x] : x \in AsText(n) \cap DOMAIN Address}
AsGroup(n)   == AsAddress(n) \cap Multicast
=============================================================================
