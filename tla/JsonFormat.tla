----------------------------- MODULE JsonFormat -----------------------------
(***************************************************************************)
(* include/mif/serialization/json.h: how a C++ value of a reflected or     *)
(* standard type becomes a boost::json value, what the text of that value  *)
(* is read back as, and how it becomes a C++ value again.                  *)
(*                                                                         *)
(* A C++ type is a tuple whose first element is its kind:                  *)
(*   <<"int", w, s>>     an integer of width w, signed iff s (enumerations *)
(*                       without meta-information are their integer)       *)
(*   <<"bool">>  <<"double">>  <<"string">>                                *)
(*   <<"enum", items>>   a reflected enumeration; an item is <<name, n>>   *)
(*   <<"ptr", t>>, <<"opt", t>>    the value is <<>> (null) or <<v>>       *)
(*   <<"list", t>>       vector, list, deque: a sequence                   *)
(*   <<"set", t>>        set, map (of pairs): a set                        *)
(*   <<"array", n, t>>, <<"tuple", ts>>, <<"pair", a, b>>   a sequence     *)
(*   <<"rec", name, bases, fields>>  a reflected struct; its value is      *)
(*                       <<values of bases, values of fields>>             *)
(* A double is counted in units of 1 / Unit.  A boost::json value is a     *)
(* tuple too, its kind first.  What a reader returns is a sequence: <<v>>, *)
(* Throws, or Undefined where the code follows a null pointer or an index  *)
(* out of range.                                                           *)
(***************************************************************************)
EXTENDS Integers, Sequences, SequencesExt, FiniteSetsExt, TLC

CONSTANTS
    Bits,       \* Bits[w] is how many bits the C++ width w keeps in the model
    Unit,       \* units of a double that make 1
    Precision   \* units that the six digits of operator << and to_string keep

ASSUME BitsAssumption ==
    /\ DOMAIN Bits = {8, 16, 32, 64}
    /\ \A w \in DOMAIN Bits : Bits[w] \in Nat \ {0}
    /\ Bits[8] < Bits[16] /\ Bits[16] < Bits[32] /\ Bits[32] < Bits[64]

ASSUME UnitAssumption == Precision \in Nat \ {0} /\ Unit \in Nat \ {0} /\ Unit % Precision = 0

Throws == <<>>
Undefined == <<"undefined", "behaviour">>
Value(r) == Len(r) = 1

\* static_cast<T>: the value modulo 2^w, in the range of the type.
Cast(n, w, signed) ==
    LET m == n % (2 ^ Bits[w])
    IN  IF signed /\ m >= 2 ^ (Bits[w] - 1) THEN m - 2 ^ Bits[w] ELSE m

Int64Max == 2 ^ (Bits[64] - 1) - 1

-----------------------------------------------------------------------------
\* The object of a reflected struct is filled in order, a later member of the
\* same name replacing an earlier one.
Fill(root, names, values) ==
    FoldLeft(LAMBDA o, i : [o EXCEPT ![2] = [k \in DOMAIN o[2] \cup {names[i]} |->
                                               IF k = names[i] THEN values[i] ELSE o[2][k]]],
             root, [i \in 1 .. Len(names) |-> i])

EmptyObject == <<"object", [k \in {} |-> <<"null">>]>>

\* Reflection::ToString: the items are compared from the last to the first
\* (the values that have no item throw and are not written).
EnumName(items, v) == items[Max({i \in DOMAIN items : items[i][2] = v})][1]

RECURSIVE ValueToJson(_, _)
ValueToJson(t, v) ==
    CASE t[1] = "int"    -> IF t[3] THEN <<"int64", v>> ELSE <<"uint64", v>>
      [] t[1] \in {"bool", "double", "string"} -> <<t[1], v>>
      [] t[1] = "enum"   -> <<"string", EnumName(t[2], v)>>
      [] t[1] \in {"ptr", "opt"} -> IF v = <<>> THEN <<"null">> ELSE ValueToJson(t[2], v[1])
      [] t[1] = "list"   -> <<"array", [i \in DOMAIN v |-> ValueToJson(t[2], v[i])]>>
      [] t[1] = "set"    -> LET s == SetToSeq(v)
                            IN  <<"array", [i \in DOMAIN s |-> ValueToJson(t[2], s[i])]>>
      [] t[1] = "array"  -> <<"array", [i \in DOMAIN v |-> ValueToJson(t[3], v[i])]>>
      [] t[1] = "tuple"  -> <<"array", [i \in DOMAIN v |-> ValueToJson(t[2][i], v[i])]>>
      [] t[1] = "pair"   -> Fill(EmptyObject, <<"id", "val">>,
                                 <<ValueToJson(t[2], v[1]), ValueToJson(t[3], v[2])>>)
      [] t[1] = "rec"    -> Fill(Fill(EmptyObject,
                                      [i \in DOMAIN t[3] |-> t[3][i][2]],
                                      [i \in DOMAIN t[3] |-> ValueToJson(t[3][i], v[1][i])]),
                                 [i \in DOMAIN t[4] |-> t[4][i][1]],
                                 [i \in DOMAIN t[4] |-> ValueToJson(t[4][i][2], v[2][i])])

-----------------------------------------------------------------------------
(***************************************************************************)
(* Write, then boost::json::parse: a number has no sign in the text, and   *)
(* the parser makes it int64 whenever it fits.  The pretty writer puts     *)
(* doubles through operator <<, which keeps six digits and writes a whole  *)
(* number without a point; the other one writes them exactly, as doubles.  *)
(***************************************************************************)
RECURSIVE Reparse(_, _)
Reparse(j, pretty) ==
    CASE j[1] = "uint64" -> IF j[2] <= Int64Max THEN <<"int64", j[2]>> ELSE j
      [] j[1] = "double" /\ pretty -> LET d == (j[2] \div Precision) * Precision
                                      IN  IF d % Unit = 0 THEN <<"int64", d \div Unit>>
                                                          ELSE <<"double", d>>
      [] j[1] = "array"  -> <<"array", [i \in DOMAIN j[2] |-> Reparse(j[2][i], pretty)]>>
      [] j[1] = "object" -> <<"object", [k \in DOMAIN j[2] |-> Reparse(j[2][k], pretty)]>>
      [] OTHER -> j

-----------------------------------------------------------------------------
\* JsonValueConverter<std::string>: to_string of every kind of number.
ConvertString(j) ==
    CASE j[1] = "string" -> <<j[2]>>
      [] j[1] = "bool"   -> <<IF j[2] THEN "1" ELSE "0">>
      [] j[1] = "double" -> <<ToString((j[2] \div Precision) * Precision)>>
      [] j[1] \in {"int64", "uint64"} -> <<ToString(j[2])>>
      [] OTHER -> Throws

ConvertDouble(j) ==
    CASE j[1] = "double" -> <<j[2]>>
      [] j[1] \in {"int64", "uint64"} -> <<j[2] * Unit>>
      [] OTHER -> Throws

ConvertBool(j) ==
    CASE j[1] = "bool" -> <<j[2]>>
      [] j[1] \in {"int64", "uint64"} -> <<j[2] # 0>>
      [] OTHER -> Throws

\* Mutant of ConvertInt: the unsigned readers know only the uint64 kind.
ConvertIntExactKind(w, signed, j) ==
    IF j[1] = (IF signed THEN "int64" ELSE "uint64") THEN <<Cast(j[2], w, signed)>> ELSE Throws

\* Mutant of ConvertInt: no cast to the narrower type.
ConvertIntUncast(w, signed, j) ==
    IF j[1] \in {"int64", "uint64"} THEN <<j[2]>> ELSE Throws

\* JsonValueConverter of the integers: int64 and int32 take the int64 kind,
\* uint64 and uint32 both kinds, the narrower ones go through int32.
ConvertInt(w, signed, j) ==
    CASE j[1] = "int64" ->
            <<Cast(IF w < 32 THEN Cast(j[2], 32, TRUE) ELSE j[2], w, signed)>>
      [] j[1] = "uint64" /\ ~signed /\ w >= 32 -> <<Cast(j[2], w, signed)>>
      [] OTHER -> Throws

\* Reflection::FromString looks the name up from the last item to the first.
FromString(items, name) ==
    LET at == {i \in DOMAIN items : items[i][1] = name}
    IN  IF at = {} THEN Throws ELSE <<items[Max(at)][2]>>

\* A sequence of reads: the values, or the first of them that failed.
Gather(rs) ==
    LET failed == {i \in DOMAIN rs : ~ Value(rs[i])}
    IN  IF failed = {} THEN <<[i \in DOMAIN rs |-> rs[i][1]]>> ELSE rs[Min(failed)]

RECURSIVE JsonToValue(_, _)

\* The pair is looked up in whatever the value is: only "not an object and
\* no id and no val" would throw, and that test follows the null pointer.
ReadPair(t, j) ==
    IF j[1] = "object" /\ {"id", "val"} \subseteq DOMAIN j[2]
    THEN Gather(<<JsonToValue(t[2], j[2]["id"]), JsonToValue(t[3], j[2]["val"])>>)
    ELSE Undefined

\* Tuple and std::array: item by item, by index, without a test of the length.
ReadIndexed(types, j) ==
    CASE j[1] # "array"           -> Throws
      [] Len(j[2]) < Len(types)   -> Undefined
      [] OTHER                    -> Gather([i \in DOMAIN types |-> JsonToValue(types[i], j[2][i])])

\* Every other container: all items, inserted one after another.
ReadIterable(t, j) ==
    IF j[1] # "array" THEN Throws
    ELSE LET g == Gather([i \in DOMAIN j[2] |-> JsonToValue(t[2], j[2][i])])
         IN  IF Value(g) /\ t[1] = "set" THEN <<Range(g[1])>> ELSE g

\* A reflected struct: its bases must be there (at throws), a field that is
\* missing is read from null.
ReadStruct(t, j) ==
    LET base(b) == IF b[2] \in DOMAIN j[2] THEN JsonToValue(b, j[2][b[2]]) ELSE Throws
        field(f) == JsonToValue(f[2], IF f[1] \in DOMAIN j[2] THEN j[2][f[1]] ELSE <<"null">>)
    IN  IF j[1] # "object" THEN Throws
        ELSE Gather(<<Gather([i \in DOMAIN t[3] |-> base(t[3][i])]),
                      Gather([i \in DOMAIN t[4] |-> field(t[4][i])])>>)

\* Simple values, enumerations, pointers and optionals; the rest above.
JsonToValue(t, j) ==
    CASE t[1] = "string" -> ConvertString(j)
      [] t[1] = "double" -> ConvertDouble(j)
      [] t[1] = "bool"   -> ConvertBool(j)
      [] t[1] = "int"    -> ConvertInt(t[2], t[3], j)
      [] t[1] = "enum"   -> LET s == ConvertString(j)
                            IN  IF s = Throws THEN Throws ELSE FromString(t[2], s[1])
      [] t[1] \in {"ptr", "opt"} ->
            IF j[1] = "null" THEN <<(<<>>)>>
            ELSE LET r == JsonToValue(t[2], j) IN IF Value(r) THEN <<r>> ELSE r
      [] t[1] \in {"list", "set"} -> ReadIterable(t, j)
      [] t[1] = "array"  -> ReadIndexed([i \in 1 .. t[2] |-> t[3]], j)
      [] t[1] = "tuple"  -> ReadIndexed(t[2], j)
      [] t[1] = "pair"   -> ReadPair(t, j)
      [] t[1] = "rec"    -> ReadStruct(t, j)

\* Serialize and Deserialize of a document under a root name, or under none.
SerializeJson(t, v, root) ==
    IF root = "" THEN ValueToJson(t, v) ELSE Fill(EmptyObject, <<root>>, <<ValueToJson(t, v)>>)

DeserializeJson(t, j, root) ==
    CASE root = "" -> JsonToValue(t, j)
      [] root # "" /\ j[1] = "object" ->
            JsonToValue(t, IF root \in DOMAIN j[2] THEN j[2][root] ELSE <<"null">>)
      [] OTHER -> Throws

-----------------------------------------------------------------------------
\* v is a value the C++ type t can hold.
RECURSIVE Holds(_, _)
Holds(t, v) ==
    CASE t[1] = "int"  -> v = Cast(v, t[2], t[3])
      [] t[1] = "bool" -> v \in BOOLEAN
      [] t[1] = "enum" -> \E i \in DOMAIN t[2] : t[2][i][2] = v
      [] t[1] \in {"string", "double"} -> TRUE
      [] t[1] \in {"ptr", "opt"} -> Len(v) <= 1 /\ \A i \in DOMAIN v : Holds(t[2], v[i])
      [] t[1] = "list" -> \A i \in DOMAIN v : Holds(t[2], v[i])
      [] t[1] = "set"  -> \A x \in v : Holds(t[2], x)
      [] t[1] = "array" -> Len(v) = t[2] /\ \A i \in DOMAIN v : Holds(t[3], v[i])
      [] t[1] = "tuple" -> Len(v) = Len(t[2]) /\ \A i \in DOMAIN v : Holds(t[2][i], v[i])
      [] t[1] = "pair" -> Len(v) = 2 /\ Holds(t[2], v[1]) /\ Holds(t[3], v[2])
      [] t[1] = "rec"  -> /\ Len(v[1]) = Len(t[3]) /\ \A i \in DOMAIN v[1] : Holds(t[3][i], v[1][i])
                          /\ Len(v[2]) = Len(t[4]) /\ \A i \in DOMAIN v[2] : Holds(t[4][i][2], v[2][i])

=============================================================================
