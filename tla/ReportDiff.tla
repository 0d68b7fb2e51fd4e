----------------------------- MODULE ReportDiff -----------------------------
(***************************************************************************)
(* src/src/diff.rs on JSON: what `diff` and `--baseline` take from a       *)
(* report that some earlier command wrote, or somebody by hand, and how it *)
(* is compared.  A fingerprint is the tuple that is hashed.                *)
(***************************************************************************)
EXTENDS Documents, SequencesExt

(* Missing fields and fields of another type count as "" and 0. *)
TextOf(value, key) ==
  IF Has(value, key) /\ Get(value, key).kind = "string" THEN Get(value, key).is ELSE ""

NumberOf(value, key) ==
  IF Has(value, key) /\ Get(value, key).kind = "number" THEN Get(value, key).is ELSE 0

Fingerprint(value, content) ==
  <<TextOf(value, "rule_id"), TextOf(value, "path"), NumberOf(value, "line"),
    NumberOf(value, "column"), TextOf(value, content)>>

SecurityLike(value) == Fingerprint(value, "callee")
SecretLike(value) == Fingerprint(value, "fingerprint")

(* The same of the findings of the scan that is running. *)
SecurityFingerprint(f) == <<f.rule_id, f.path, f.line, f.column, f.callee>>
SecretFingerprint(f) == <<f.rule_id, f.path, f.line, f.column, f.fingerprint>>

(* load_findings: an object with a numeric schema_version and at least one *)
(* of the two lists ...                                                    *)
Loads(value) ==
  /\ Has(value, "schema_version") /\ Get(value, "schema_version").kind = "number"
  /\ Has(value, "security_findings") \/ Has(value, "secret_findings")

(* ... each of which counts as empty when it is no array. *)
ListOf(value, key) ==
  IF Has(value, key) /\ Get(value, key).kind = "array" THEN Get(value, key).items ELSE <<>>

Security(value) == ListOf(value, "security_findings")
Secrets(value) == ListOf(value, "secret_findings")

SecurityPrints(value) == [i \in DOMAIN Security(value) |-> SecurityLike(Security(value)[i])]
SecretPrints(value) == [i \in DOMAIN Secrets(value) |-> SecretLike(Secrets(value)[i])]

(* baseline_sets *)
Known(value) ==
  [security |-> {SecurityLike(Security(value)[i]) : i \in DOMAIN Security(value)},
   secrets |-> {SecretLike(Secrets(value)[i]) : i \in DOMAIN Secrets(value)}]

(* current_sets *)
Current(report) ==
  [security |-> {SecurityFingerprint(report.security_findings[i]) :
                   i \in DOMAIN report.security_findings},
   secrets |-> {SecretFingerprint(report.secret_findings[i]) :
                  i \in DOMAIN report.secret_findings}]

Summary(path, current, known) ==
  [path |-> path,
   new_security |-> Cardinality(current.security \ known.security),
   new_secrets |-> Cardinality(current.secrets \ known.secrets),
   fixed_security |-> Cardinality(known.security \ current.security),
   fixed_secrets |-> Cardinality(known.secrets \ current.secrets)]

(* has_unsuppressed_new; without a baseline `known` is empty. *)
HasUnsuppressedNew(report, known) ==
  \/ \E i \in DOMAIN report.security_findings :
       LET f == report.security_findings[i]
       IN  f.suppressed = <<>> /\ (known = <<>> \/ SecurityFingerprint(f) \notin known[1].security)
  \/ \E i \in DOMAIN report.secret_findings :
       LET f == report.secret_findings[i]
       IN  f.suppressed = <<>> /\ (known = <<>> \/ SecretFingerprint(f) \notin known[1].secrets)

(* The items of one report, with their fingerprints, that the other does   *)
(* not know.                                                               *)
Beyond(items, prints, known) == Picked(items, {n \in DOMAIN items : prints[n] \notin known})

Compare(old, new) ==
  LET added_security == Beyond(Security(new), SecurityPrints(new), Known(old).security)
      added_secrets == Beyond(Secrets(new), SecretPrints(new), Known(old).secrets)
  IN  [added_security |-> added_security,
       fixed_security |-> Beyond(Security(old), SecurityPrints(old), Known(new).security),
       added_secrets |-> added_secrets,
       fixed_secrets |-> Beyond(Secrets(old), SecretPrints(old), Known(new).secrets),
       unchanged_security |-> Len(Security(new)) - Len(added_security),
       unchanged_secrets |-> Len(Secrets(new)) - Len(added_secrets)]

=============================================================================
