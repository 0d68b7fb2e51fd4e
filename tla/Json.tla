-------------------------------- MODULE Json --------------------------------
(***************************************************************************)
(* JSON values, as serde_json builds them.                                 *)
(***************************************************************************)
EXTENDS Integers, Sequences

CONSTANT MaxInteger   \* bound: stands for the greatest i64

ASSUME IntegerAssumption == MaxInteger \in Nat \ {0}

Null == [kind |-> "null"]
Boolean(b) == [kind |-> "boolean", is |-> b]
String(s) == [kind |-> "string", is |-> s]
Number(n) == [kind |-> "number", is |-> n]
Array(items) == [kind |-> "array", items |-> items]
Object(fields) == [kind |-> "object", fields |-> fields]

(* Option<T>, where None is spelt as an empty sequence. *)
Optional(option, AsValue(_)) == IF option = <<>> THEN Null ELSE AsValue(option[1])

ArrayOf(items, AsValue(_)) == Array([i \in DOMAIN items |-> AsValue(items[i])])

(* Map::insert of a new key. *)
With(fields, key, value) ==
  [k \in DOMAIN fields \union {key} |-> IF k = key THEN value ELSE fields[k]]

Has(object, key) == object.kind = "object" /\ key \in DOMAIN object.fields
Get(object, key) == object.fields[key]

Same(v, w) == v.kind = w.kind /\ v = w

=============================================================================
