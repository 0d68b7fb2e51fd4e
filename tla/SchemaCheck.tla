----------------------------- MODULE SchemaCheck -----------------------------
(***************************************************************************)
(* The checker of src/src/schema.rs that `loop3r validate` runs.  A schema *)
(* is a record with the keywords the checker knows; a keyword it ignores   *)
(* (minimum, pattern, propertyNames) is left out.                          *)
(***************************************************************************)
EXTENDS Json

(* Bug: a number without a fraction is not taken for an integer. *)
MatchesTypeByName(value, kind) == value.kind = kind

MatchesType(value, kind) ==
  IF kind = "integer" THEN value.kind = "number" /\ value.is <= MaxInteger ELSE value.kind = kind

(* check_value reports no error, if Check is what it calls for the parts   *)
(* of the value and of the schema.  The errors themselves are messages.    *)
CheckKeywords(value, schema, Check(_, _)) ==
  /\ "const" \in DOMAIN schema => Same(value, schema.const)
  /\ "enum" \in DOMAIN schema => value.kind = "string" /\ value.is \in schema.enum
  /\ "type" \in DOMAIN schema => \E kind \in schema.type : MatchesType(value, kind)
  /\ "properties" \in DOMAIN schema /\ value.kind = "object" =>
       /\ schema.required \subseteq DOMAIN value.fields
       /\ \A key \in DOMAIN value.fields :
            IF key \in DOMAIN schema.properties
              THEN Check(value.fields[key], schema.properties[key])
              ELSE schema.additionalProperties
  /\ "items" \in DOMAIN schema /\ value.kind = "array" =>
       \A i \in DOMAIN value.items : Check(value.items[i], schema.items)
  /\ "anyOf" \in DOMAIN schema =>
       \E i \in DOMAIN schema.anyOf : Check(value, schema.anyOf[i])

=============================================================================
