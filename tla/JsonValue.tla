----------------------------- MODULE JsonValue -----------------------------
(***************************************************************************)
(* json_spirit_value.h: a value is a variant.  Its first part names the    *)
(* alternative: "obj" (a sequence of members, each a name and a value, in  *)
(* order and with duplicates: Config_vector), "arr", "str", "bool", "int"  *)
(* (int64_t), "real", "null" and "uint" (uint64_t).  Equality of values is *)
(* operator==.                                                             *)
(*                                                                         *)
(* A string is a sequence of characters: bytes, and the words of Words,    *)
(* each of which stands for its printable characters.                      *)
(***************************************************************************)
EXTENDS Integers, Sequences

CONSTANTS
    W,           \* the width of the 64-bit integers
    Real,        \* the values of a double
    MaxNesting   \* bound on how deep the containers of a value are nested

ASSUME WidthAssumption   == W \in Nat \ {0, 1}
ASSUME NestingAssumption == MaxNesting \in Nat

Int64  == -(2 ^ (W - 1)) .. 2 ^ (W - 1) - 1
Uint64 == 0 .. 2 ^ W - 1

Obj(ms)  == <<"obj", ms>>
Arr(vs)  == <<"arr", vs>>
Str(s)   == <<"str", s>>
IntVal(n)  == <<"int", n>>
UintVal(n) == <<"uint", n>>
BoolVal(b) == <<"bool", b>>
Null     == <<"null", 0>>

Scalars ==
    ({"str"} \X Seq(Nat)) \cup ({"bool"} \X BOOLEAN) \cup ({"int"} \X Int64)
      \cup ({"uint"} \X Uint64) \cup ({"real"} \X Real) \cup {Null}

\* The values in which containers are nested at most n deep.
Values[n \in 0..MaxNesting] ==
    IF n = 0 THEN Scalars
    ELSE LET inner == Values[n - 1]
         IN  Scalars \cup ({"obj"} \X Seq(Seq(Nat) \X inner)) \cup ({"arr"} \X Seq(inner))

\* static_cast between the two.
ToUint64(n) == n % 2 ^ W
ToInt64(n)  == IF n \in Int64 THEN n ELSE n - 2 ^ W

IsUint64(v) == v[1] = "uint"
Type(v)     == IF IsUint64(v) THEN "int" ELSE v[1]

\* Where Type is not the one asked for, the getters throw (check_type).
GetInt64(v)  == IF IsUint64(v) THEN ToInt64(v[2]) ELSE v[2]
GetUint64(v) == IF IsUint64(v) THEN v[2] ELSE ToUint64(v[2])

\* Config_vector::add and push_back.
AddMember(v, name, x) == Obj(Append(v[2], <<name, x>>))
AddElement(v, x)      == Arr(Append(v[2], x))

\* The values inside a container.
Children(v) ==
    CASE v[1] = "obj" -> [i \in DOMAIN v[2] |-> v[2][i][2]]
      [] v[1] = "arr" -> v[2]
      [] OTHER        -> <<>>
=============================================================================
