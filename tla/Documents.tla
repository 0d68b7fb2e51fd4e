------------------------------ MODULE Documents ------------------------------
(***************************************************************************)
(* The reports of the commands as JSON values (the structs of              *)
(* src/src/report.rs, deps.rs, diff.rs and scope.rs, serialized field by   *)
(* field), and the schemas in src/schema.                                  *)
(*                                                                         *)
(* A report is a record of what the commands tell apart; an Option is a    *)
(* sequence of at most one element; Text and Count stand for the strings   *)
(* and numbers nothing depends on.                                         *)
(***************************************************************************)
EXTENDS Json, FiniteSets

Text == String("text")
Count == Number(1)
Texts == Array(<<Text>>)

(* The items at these places, in order. *)
Picked(items, places) ==
  LET picked[n \in 0..Len(items)] ==
        IF n = 0 THEN <<>>
        ELSE IF n \in places THEN Append(picked[n - 1], items[n]) ELSE picked[n - 1]
  IN  picked[Len(items)]

Scale == Object([confirmed |-> Text, high |-> Text, medium |-> Text, low |-> Text])

Suppressed(reason) == Object([reason |-> String(reason), owner |-> Text, expires |-> Text])

Taint(variable) ==
  Object([source_line |-> Count, source |-> Text, variable |-> String(variable)])

(* Bug: the resolved callee is written where the callee belongs. *)
SecurityFindingResolved(f) ==
  Object([rule_id |-> String(f.rule_id), title |-> Text, severity |-> String(f.severity),
          cwe |-> Text, path |-> String(f.path), line |-> Number(f.line),
          column |-> Number(f.column),
          callee |-> IF f.resolved_callee = <<>> THEN String(f.callee)
                                                 ELSE String(f.resolved_callee[1]),
          resolved_callee |-> Optional(f.resolved_callee, String), evidence |-> Text,
          message |-> Text, references |-> Texts, confidence |-> String(f.confidence),
          taint |-> Optional(f.taint, Taint), suppressed |-> Optional(f.suppressed, Suppressed)])

SecurityFinding(f) ==
  Object([rule_id |-> String(f.rule_id), title |-> Text, severity |-> String(f.severity),
          cwe |-> Text, path |-> String(f.path), line |-> Number(f.line),
          column |-> Number(f.column), callee |-> String(f.callee),
          resolved_callee |-> Optional(f.resolved_callee, String), evidence |-> Text,
          message |-> Text, references |-> Texts, confidence |-> String(f.confidence),
          taint |-> Optional(f.taint, Taint), suppressed |-> Optional(f.suppressed, Suppressed)])

SecretFinding(f) ==
  Object([rule_id |-> String(f.rule_id), title |-> Text, severity |-> String("high"),
          cwe |-> Text, path |-> String(f.path), line |-> Number(f.line),
          column |-> Number(f.column), evidence |-> Text,
          fingerprint |-> String(f.fingerprint), message |-> Text, reference |-> Text,
          confidence |-> String("high"), suppressed |-> Optional(f.suppressed, Suppressed)])

SyntaxFinding(f) ==
  Object([path |-> String(f.path), language |-> String(f.language), line |-> Number(f.line),
          column |-> Number(f.column), node_kind |-> Text])

BaselineSummary(b) ==
  Object([path |-> String(b.path), new_security |-> Number(b.new_security),
          new_secrets |-> Number(b.new_secrets), fixed_security |-> Number(b.fixed_security),
          fixed_secrets |-> Number(b.fixed_secrets)])

SuppressionReport(s) ==
  Object([file |-> Optional(s.file, String), applied |-> Number(s.applied),
          expired |-> ArrayOf(s.expired, String)])

ScopeReport(scope, languages) ==
  Object([target |-> Text, max_file_bytes |-> Number(scope.max_file_bytes),
          budget_seconds |-> Number(scope.budget_seconds),
          include |-> Texts, exclude |-> Array(<<>>),
          languages |-> ArrayOf(languages, String)])

ScanReport(r) ==
  Object([schema_version |-> Number(4), files_parsed |-> Count, secret_files_scanned |-> Count,
          files_skipped_oversized |-> Count, files_skipped_unsupported |-> Count,
          languages |-> Object([python |-> Count]),
          syntax_findings |-> ArrayOf(r.syntax_findings, SyntaxFinding),
          security_findings |-> ArrayOf(r.security_findings, SecurityFinding),
          secret_findings |-> ArrayOf(r.secret_findings, SecretFinding),
          timed_out |-> Boolean(FALSE), seed |-> Number(r.seed),
          scope |-> ScopeReport(r.scope, <<"python">>),
          baseline |-> Optional(r.baseline, BaselineSummary),
          suppressions |-> SuppressionReport(r.suppressions), confidence_scale |-> Scale])

Package(p) ==
  Object([ecosystem |-> String(p.ecosystem), name |-> String(p.name),
          version |-> String(p.version), source |-> Optional(p.source, String),
          lockfile |-> String(p.lockfile)])

LockfileError(lockfile) == Object([lockfile |-> String(lockfile), message |-> Text])

Vulnerability(p) ==
  Object([advisory_id |-> Text, ecosystem |-> String(p.ecosystem), package |-> String(p.name),
          version |-> String(p.version), severity |-> String("high"), summary |-> Text,
          reference |-> Text, lockfile |-> String(p.lockfile)])

DepsReport(r) ==
  Object([schema_version |-> Number(2), target |-> Text, lockfiles |-> Texts,
          packages |-> ArrayOf(r.packages, Package), unsupported |-> Array(<<>>),
          errors |-> ArrayOf(r.errors, LockfileError),
          advisory_db |-> Optional(r.advisory_db, String),
          vulnerabilities |-> ArrayOf(r.vulnerabilities, Vulnerability)])

WebFinding(f) ==
  Object([rule_id |-> String(f.rule_id), severity |-> String(f.severity), message |-> Text,
          evidence |-> String(f.cookie), reference |-> Text,
          confidence |-> String(f.confidence)])

WebReport(r) ==
  Object([schema_version |-> Number(1), url |-> Text, status |-> Number(r.status),
          duration_ms |-> Count, redirect |-> Optional(r.redirect, String),
          findings |-> ArrayOf(r.findings, WebFinding), confidence_scale |-> Scale])

(* The findings in a diff are the JSON objects of the two reports. *)
DiffReport(r) ==
  Object([schema_version |-> Number(1), old |-> Text, new |-> Text,
          added_security |-> Array(r.added_security), fixed_security |-> Array(r.fixed_security),
          added_secrets |-> Array(r.added_secrets), fixed_secrets |-> Array(r.fixed_secrets),
          unchanged_security |-> Number(r.unchanged_security),
          unchanged_secrets |-> Number(r.unchanged_secrets)])

-----------------------------------------------------------------------------
(* src/schema *)

AString == [type |-> {"string"}]
AnInteger == [type |-> {"integer"}]
AStringOrNull == [type |-> {"string", "null"}]
Listing(items) == [type |-> {"array"}, items |-> items]
Strings == Listing(AString)
OneOf(names) == [enum |-> names]
OrNull(schema) == [anyOf |-> <<[type |-> {"null"}], schema>>]
AnObject == [type |-> {"object"}]

(* Every property is required and no other is allowed. *)
Closed(properties) ==
  [type |-> {"object"}, required |-> DOMAIN properties, additionalProperties |-> FALSE,
   properties |-> properties]

Languages ==
  {"c", "csharp", "css", "go", "html", "java", "javascript", "kotlin", "php", "python", "ruby",
   "rust", "shell", "sql", "swift", "typescript", "tsx"}
Confidences == {"low", "medium", "high", "confirmed"}
Ecosystems == {"cargo", "npm"}

ALanguage == OneOf(Languages)
AConfidence == OneOf(Confidences)
AJustification == OrNull(Closed([reason |-> AString, owner |-> AString, expires |-> AString]))

ASyntaxFinding ==
  Closed([path |-> AString, language |-> ALanguage, line |-> AnInteger, column |-> AnInteger,
          node_kind |-> AString])

ASecurityFinding ==
  Closed([rule_id |-> AString, title |-> AString, severity |-> OneOf({"high", "review"}),
          cwe |-> AString, path |-> AString, line |-> AnInteger, column |-> AnInteger,
          callee |-> AString, resolved_callee |-> AStringOrNull, evidence |-> AString,
          message |-> AString, references |-> Strings, confidence |-> AConfidence,
          taint |-> OrNull(Closed([source_line |-> AnInteger, source |-> AString,
                                   variable |-> AString])),
          suppressed |-> AJustification])

ASecretFinding ==
  Closed([rule_id |-> AString, title |-> AString, severity |-> OneOf({"high"}),
          cwe |-> AString, path |-> AString, line |-> AnInteger, column |-> AnInteger,
          evidence |-> AString, fingerprint |-> AString, message |-> AString,
          reference |-> AString, confidence |-> AConfidence, suppressed |-> AJustification])

ABaseline ==
  OrNull(Closed([path |-> AString, new_security |-> AnInteger, new_secrets |-> AnInteger,
                 fixed_security |-> AnInteger, fixed_secrets |-> AnInteger]))

AScope ==
  Closed([target |-> AString, max_file_bytes |-> AnInteger, budget_seconds |-> AnInteger,
          include |-> Strings, exclude |-> Strings, languages |-> Listing(ALanguage)])

ScanSchema ==
  Closed([schema_version |-> [const |-> Number(4)], files_parsed |-> AnInteger,
          secret_files_scanned |-> AnInteger, files_skipped_oversized |-> AnInteger,
          files_skipped_unsupported |-> AnInteger, languages |-> AnObject,
          syntax_findings |-> Listing(ASyntaxFinding),
          security_findings |-> Listing(ASecurityFinding),
          secret_findings |-> Listing(ASecretFinding), timed_out |-> [type |-> {"boolean"}],
          seed |-> AnInteger, scope |-> AScope, baseline |-> ABaseline,
          suppressions |-> Closed([file |-> AStringOrNull, applied |-> AnInteger,
                                   expired |-> Strings]),
          confidence_scale |-> AnObject])

DepsSchema ==
  Closed([schema_version |-> [const |-> Number(2)], target |-> AString, lockfiles |-> Strings,
          packages |-> Listing(Closed([ecosystem |-> OneOf(Ecosystems), name |-> AString,
                                       version |-> AString, source |-> AStringOrNull,
                                       lockfile |-> AString])),
          unsupported |-> Strings,
          errors |-> Listing(Closed([lockfile |-> AString, message |-> AString])),
          advisory_db |-> AStringOrNull,
          vulnerabilities |->
            Listing(Closed([advisory_id |-> AString, ecosystem |-> AString, package |-> AString,
                            version |-> AString,
                            severity |-> OneOf({"low", "medium", "high", "critical"}),
                            summary |-> AString, reference |-> AString,
                            lockfile |-> AString]))])

WebSchema ==
  Closed([schema_version |-> [const |-> Number(1)], url |-> AString, status |-> AnInteger,
          duration_ms |-> AnInteger, redirect |-> AStringOrNull,
          findings |-> Listing(Closed([rule_id |-> AString,
                                       severity |-> OneOf({"high", "medium", "review"}),
                                       message |-> AString, evidence |-> AString,
                                       reference |-> AString, confidence |-> AConfidence])),
          confidence_scale |-> AnObject])

AnyFindings ==
  Listing([type |-> {"object"}, required |-> {"rule_id"}, additionalProperties |-> TRUE,
           properties |-> [rule_id |-> AString]])

DiffSchema ==
  Closed([schema_version |-> [const |-> Number(1)], old |-> AString, new |-> AString,
          added_security |-> AnyFindings, fixed_security |-> AnyFindings,
          added_secrets |-> AnyFindings, fixed_secrets |-> AnyFindings,
          unchanged_security |-> AnInteger, unchanged_secrets |-> AnInteger])

SchemaNames == {"scan", "deps", "web", "diff"}

LoadSchema(name) ==
  CASE name = "scan" -> ScanSchema
    [] name = "deps" -> DepsSchema
    [] name = "web" -> WebSchema
    [] name = "diff" -> DiffSchema

=============================================================================
