------------------------------- MODULE Sarif --------------------------------
(***************************************************************************)
(* The two export formats: SARIF (src/src/sarif.rs) from a scan or a web   *)
(* report, and a CycloneDX SBOM (src/src/sbom.rs) from an inventory.       *)
(***************************************************************************)
EXTENDS Documents, Calendar, SequencesExt

Level(severity) ==
  CASE severity = "high" -> "error"
    [] severity = "medium" -> "warning"
    [] OTHER -> "note"

TextObject == Object([text |-> Text])

(* The description and the reference are those of the first finding with   *)
(* the rule; no two findings of a rule differ in them.                     *)
RuleEntry(id) ==
  Object([id |-> String(id), name |-> Text, shortDescription |-> TextObject, helpUri |-> Text])

(* A region needs a line and a column: `at` is a pair or empty. *)
Location(uri, at) ==
  LET file == [artifactLocation |-> Object([uri |-> String(uri)])]
      region == Object([startLine |-> Number(at[1]), startColumn |-> Number(at[2])])
  IN  Object([physicalLocation |-> Object(IF at = <<>> THEN file ELSE With(file, "region", region))])

SarifResult(rule_id, severity, where, properties, suppressed) ==
  LET result == [ruleId |-> String(rule_id), level |-> String(Level(severity)),
                 message |-> TextObject, locations |-> Array(<<where>>),
                 properties |-> Object(properties)]
      external(reason) == Object([kind |-> String("external"), justification |-> String(reason)])
  IN  Object(IF suppressed = <<>> THEN result
             ELSE With(result, "suppressions", Array(<<external(suppressed[1])>>)))

SecurityResult(f) ==
  LET properties == [cwe |-> Text, confidence |-> String(f.confidence),
                     severity |-> String(f.severity), callee |-> String(f.callee),
                     evidence |-> Text]
      resolved == IF f.resolved_callee = <<>> THEN properties
                  ELSE With(properties, "resolvedCallee", String(f.resolved_callee[1]))
      taint == IF f.taint = <<>> THEN resolved
               ELSE With(resolved, "taint", Object([sourceLine |-> Count, source |-> Text,
                                                    variable |-> String(f.taint[1])]))
  IN  SarifResult(f.rule_id, f.severity, Location(f.path, <<f.line, f.column>>), taint,
                  f.suppressed)

SecretResult(f) ==
  SarifResult(f.rule_id, "high", Location(f.path, <<f.line, f.column>>),
              [cwe |-> Text, confidence |-> String("high"), severity |-> String("high"),
               fingerprint |-> String(f.fingerprint), evidence |-> Text], f.suppressed)

SyntaxRuleId == "LOOP3R-SYNTAX"

SyntaxResult(f) ==
  SarifResult(SyntaxRuleId, "review", Location(f.path, <<f.line, f.column>>),
              [language |-> String(f.language)], <<>>)

WebResult(f) ==
  SarifResult(f.rule_id, f.severity, Location("url", <<>>),
              [confidence |-> String(f.confidence), severity |-> String(f.severity),
               evidence |-> String(f.cookie)], <<>>)

(* Bug: every finding adds its rule. *)
RulesRepeated(ids) == [i \in DOMAIN ids |-> RuleEntry(ids[i])]

(* One descriptor for each rule, from its first finding.  The code sorts   *)
(* them by id.                                                             *)
Firsts(ids) == {i \in DOMAIN ids : \A j \in 1..i - 1 : ids[j] # ids[i]}

Rules(ids) == Picked([i \in DOMAIN ids |-> RuleEntry(ids[i])], Firsts(ids))

Ids(findings) == [i \in DOMAIN findings |-> findings[i].rule_id]

SarifRun(ids, results) ==
  LET driver == Object([name |-> Text, version |-> Text, informationUri |-> Text,
                        rules |-> Array(Rules(ids))])
      run == Object([tool |-> Object([driver |-> driver]), results |-> Array(results)])
  IN  Object([schema |-> Text, version |-> Text, runs |-> Array(<<run>>)])

(* Security findings, then secrets, then syntax. *)
SourceToSarif(r) ==
  SarifRun(Ids(r.security_findings) \o Ids(r.secret_findings)
             \o [i \in DOMAIN r.syntax_findings |-> SyntaxRuleId],
           [i \in DOMAIN r.security_findings |-> SecurityResult(r.security_findings[i])]
             \o [i \in DOMAIN r.secret_findings |-> SecretResult(r.secret_findings[i])]
             \o [i \in DOMAIN r.syntax_findings |-> SyntaxResult(r.syntax_findings[i])])

WebToSarif(r) ==
  SarifRun(Ids(r.findings), [i \in DOMAIN r.findings |-> WebResult(r.findings[i])])

-----------------------------------------------------------------------------
(* sbom.rs *)

(* pkg:<ecosystem>/<name>@<version>.  The encoding of the @ of a scope     *)
(* does not merge two names.                                               *)
Purl(p) == <<p.ecosystem, p.name, p.version>>

(* A component is named by its purl, which is also its reference. *)
Component(p) ==
  Object([type |-> String("library"), name |-> String(p.name), version |-> String(p.version),
          bomRef |-> String(Purl(p)), purl |-> String(Purl(p))])

(* The time of day and the date come from two readings of the clock. *)
TimestampUtc(time, clock) == <<TodayIso(clock), time>>

DepsToCyclonedx(r, timestamp) ==
  Object([bomFormat |-> Text, specVersion |-> Text, version |-> Number(1),
          metadata |-> Object([timestamp |-> String(timestamp),
                               tools |-> Object([components |-> Array(<<Text>>)])]),
          components |-> ArrayOf(r.packages, Component)])

=============================================================================
