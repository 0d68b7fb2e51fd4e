-------------------------------- MODULE Cli ---------------------------------
(***************************************************************************)
(* `loop3r` at the command line (src/src/main.rs): sessions of commands    *)
(* that write reports and read the reports of earlier ones, each from its  *)
(* options to its exit code.  Between any two steps of a command somebody  *)
(* else may change the tree or a file.                                     *)
(*                                                                         *)
(* What a scan finds, an inventory holds and a server answers is given;    *)
(* ScanPipeline, RuleMatch, TaintLite, Secrets and Inventory say where it  *)
(* comes from, Gate what the entries of a suppression file do, and         *)
(* PrivateWrite how a file is replaced.                                    *)
(***************************************************************************)
EXTENDS ReportDiff, Sarif, WebProbe

CONSTANTS Starts,        \* bound: files, tree and session that a behaviour starts with;
                         \*   a session is a sequence of the command lines to choose from
          Trees,         \* what a scan and an inventory may meet
          Edits,         \* what others may put into a file
          Days,          \* the day when an SBOM is made
          Conforms(_, _),   \* check_value: the value conforms to the schema
          MaxChanges     \* bound: changes by others in a behaviour

VARIABLES files,     \* what each path holds
          tree,      \* the target of scan and deps
          session,   \* the rest of the session
          command,   \* the command line that runs or ran last
          step,      \* where it is, or "idle"
          report,    \* the report under construction
          known,     \* what --baseline, validate or diff (old, then new) has read
          document,  \* the rendered report
          stdout,    \* what was printed
          exit,      \* the exit code of the last command
          before,    \* what the files would hold without the command
          changes    \* changes by others so far

run == <<report, known, document>>
world == <<files, tree, before, changes>>
vars == <<world, session, command, step, run, stdout, exit>>

Absent == [form |-> "absent"]
Garbage == [form |-> "garbage"]   \* no JSON
Nothing == [form |-> "nothing"]

(* What can stand in a file: a document, something written by hand, or     *)
(* nothing of use.                                                         *)
Forms == {"scan", "web", "deps", "diff", "scan-sarif", "web-sarif", "sbom"}
Contents == Forms \union {"suppressions", "advisories", "note", "absent", "garbage"}

Paths == UNION {DOMAIN start.files : start \in Starts}
Option(S) == {<<>>} \union {<<x>> : x \in S}

(* A length, a line or a status: the checker takes it for an integer. *)
IsInteger(n) == n \in 0..MaxInteger

(* A command line as its options are declared.  The URL of web is left to  *)
(* the instance, and so is the answer but for its cookies.                 *)
CommandLine(c) ==
  \/ /\ c.kind = "scan" /\ c.format \in {"json", "sarif"} /\ c.output \in Option(Paths)
     /\ {c.seed, c.max_file_bytes, c.budget_seconds} \subseteq Nat
     /\ c.suppress \in Option(Paths) /\ c.baseline \in Option(Paths)
  \/ /\ c.kind = "web" /\ c.format \in {"json", "sarif"} /\ c.output \in Option(Paths)
     /\ IsInteger(c.answer.status)
     /\ c.answer.cookies \in Seq(Range(c.answer.cookies))
     /\ \A cookie \in Range(c.answer.cookies) :
          /\ cookie \in Seq(Range(cookie))
          /\ \A segment \in Range(cookie) : segment.value \in Option(Range(segment.value))
  \/ /\ c.kind = "deps" /\ c.format \in {"json", "sbom"} /\ c.output \in Option(Paths)
     /\ c.advisory_db \in Option(Paths)
  \/ /\ c.kind = "diff" /\ c.format = "json" /\ c.output \in Option(Paths)
     /\ c.old \in Paths /\ c.new \in Paths
  \/ c.kind = "validate" /\ c.file \in Paths /\ c.schema \in SchemaNames

Offered == UNION {Range(start.session) : start \in Starts}

SecurityFields ==
  {"rule_id", "severity", "path", "line", "column", "callee", "resolved_callee", "taint",
   "confidence", "suppressed"}
SecretFields == {"rule_id", "path", "line", "column", "fingerprint", "suppressed"}
SyntaxFields == {"path", "language", "line", "column"}

ASSUME SessionsAssumption ==
  /\ \A start \in Starts : start.session \in Seq(Offered)
  /\ \A choice \in Offered : \A c \in choice : CommandLine(c)

(* A list of records with these fields. *)
Records(list, fields) ==
  list \in Seq(Range(list)) /\ \A item \in Range(list) : DOMAIN item = fields

(* Whether the fields of a report hold what their types can.  Lists fit    *)
(* into memory.                                                            *)
Placed(findings) ==
  \A i \in DOMAIN findings : IsInteger(findings[i].line) /\ IsInteger(findings[i].column)

FindingsGenuine(r) ==
  /\ \A i \in DOMAIN r.security_findings :
       /\ r.security_findings[i].severity \in {"high", "review"}
       /\ r.security_findings[i].confidence \in Confidences
  /\ \A i \in DOMAIN r.syntax_findings : r.syntax_findings[i].language \in Languages
  /\ Placed(r.security_findings) /\ Placed(r.secret_findings) /\ Placed(r.syntax_findings)
  /\ IsInteger(Len(r.security_findings) + Len(r.secret_findings))

ScanGenuine(r) ==
  /\ FindingsGenuine(r)
  /\ Records(r.security_findings, SecurityFields) /\ Records(r.secret_findings, SecretFields)
  /\ {r.seed, r.scope.max_file_bytes, r.scope.budget_seconds} \subseteq Nat
  /\ IsInteger(r.suppressions.applied)
  /\ r.baseline # <<>> =>
       \A count \in {"new_security", "new_secrets", "fixed_security", "fixed_secrets"} :
         IsInteger(r.baseline[1][count])

WebGenuine(r) ==
  /\ IsInteger(r.status)
  /\ \A i \in DOMAIN r.findings :
       /\ r.findings[i].severity \in {"high", "medium", "review"}
       /\ r.findings[i].confidence \in Confidences

DepsGenuine(r) == \A i \in DOMAIN r.packages : r.packages[i].ecosystem \in Ecosystems

DiffGenuine(r) == IsInteger(r.unchanged_security) /\ IsInteger(r.unchanged_secrets)

(* The findings of a JSON value are lists that fit into memory, too. *)
ListsFit(value) ==
  \A list \in {Security(value), Secrets(value)} :
    list \in Seq(Range(list)) /\ IsInteger(Len(list))

Genuine(content) ==
  /\ content.form \in Contents
  /\ content.form = "scan" => ScanGenuine(content.report)
  /\ content.form = "web" => WebGenuine(content.report)
  /\ content.form = "deps" => DepsGenuine(content.report)
  /\ content.form = "diff" => DiffGenuine(content.report)
  /\ content.form = "note" => ListsFit(content.value)

ASSUME FilesAssumption ==
  /\ \A start \in Starts :
       DOMAIN start.files = Paths /\ \A p \in Paths : Genuine(start.files[p])
  /\ \A content \in Edits : Genuine(content)

ASSUME TreesAssumption ==
  \A t \in Trees \union {start.tree : start \in Starts} :
    /\ Records(t.security_findings, SecurityFields)
    /\ Records(t.secret_findings, SecretFields)
    /\ Records(t.syntax_findings, SyntaxFields)
    /\ FindingsGenuine(t) /\ DepsGenuine(t)

(* What a file holds, as JSON.  Written by hand are suppression files,     *)
(* advisory snapshots and notes, such as a short report.                   *)
Value(content) ==
  CASE content.form = "scan" -> ScanReport(content.report)
    [] content.form = "web" -> WebReport(content.report)
    [] content.form = "deps" -> DepsReport(content.report)
    [] content.form = "diff" -> DiffReport(content.report)
    [] content.form = "scan-sarif" -> SourceToSarif(content.report)
    [] content.form = "web-sarif" -> WebToSarif(content.report)
    [] content.form = "sbom" -> DepsToCyclonedx(content.report, content.timestamp)
    [] content.form = "suppressions" -> Object([suppressions |-> Array(<<>>)])
    [] content.form = "advisories" -> Object([format_version |-> Count, advisories |-> Array(<<>>)])
    [] content.form = "note" -> content.value

IsJson(content) == content.form \notin {"absent", "garbage"}

(* diff::load_findings succeeds. *)
Comparable(content) == IsJson(content) /\ Loads(Value(content))

(* The rules that a suppression file accepts, all entries being live: the  *)
(* list defaults to empty, so an object without it loads as well.          *)
Accepts(content) == IF content.form = "suppressions" THEN content.accepts ELSE {}

SuppressionsLoad(content) ==
  \/ content.form = "suppressions"
  \/ IsJson(content) /\ ~Has(Value(content), "suppressions")

Init ==
  /\ \E start \in Starts :
       files = start.files /\ tree = start.tree /\ session = start.session
  /\ before = files /\ changes = 0
  /\ command = Nothing /\ step = "idle"
  /\ report = Nothing /\ known = <<>> /\ document = Nothing
  /\ stdout = Nothing /\ exit = -1

-----------------------------------------------------------------------------
Invoke ==
  /\ step = "idle" /\ session # <<>>
  /\ command' \in session[1] /\ session' = Tail(session)
  /\ step' = command'.kind
  /\ report' = Nothing /\ known' = <<>> /\ document' = Nothing
  /\ stdout' = Nothing /\ exit' = -1
  /\ before' = files
  /\ UNCHANGED <<files, tree, changes>>

At(this) == step = this /\ UNCHANGED <<session, command>>

Continue(next) == step' = next /\ UNCHANGED <<stdout, exit>>

(* An error ends the command with 2; the message goes to stderr. *)
Refuse == step' = "idle" /\ exit' = 2 /\ UNCHANGED <<world, run, stdout>>

Keep == UNCHANGED <<world, run>>

(* scan: a bad glob, an unreadable target and zero for a budget or a cap   *)
(* are refused.  The seed is that of --seed or the nanoseconds of the      *)
(* clock.                                                                  *)
ScanRefused == ~command.valid \/ 0 \in {command.max_file_bytes, command.budget_seconds}

Scan ==
  /\ At("scan")
  /\ \/ ScanRefused /\ Refuse
     \/ /\ ~ScanRefused
        /\ report' = [security_findings |-> tree.security_findings,
                      secret_findings |-> tree.secret_findings,
                      syntax_findings |-> tree.syntax_findings,
                      utf8 |-> tree.utf8, seed |-> command.seed, baseline |-> <<>>,
                      scope |-> [max_file_bytes |-> command.max_file_bytes,
                                 budget_seconds |-> command.budget_seconds],
                      suppressions |-> [file |-> <<>>, applied |-> 0, expired |-> <<>>]]
        /\ Continue("suppress") /\ UNCHANGED <<world, known, document>>

(* Findings with the rule of a live entry get its reason. *)
Marked(findings, accepts) ==
  [i \in DOMAIN findings |->
     IF findings[i].rule_id \in accepts
       THEN [findings[i] EXCEPT !.suppressed = <<"accepted">>] ELSE findings[i]]

CountMarked(findings) == Cardinality({i \in DOMAIN findings : findings[i].suppressed # <<>>})

(* main.rs applies the file after the scan. *)
Suppress ==
  /\ At("suppress")
  /\ \/ command.suppress = <<>> /\ Continue("baseline") /\ Keep
     \/ /\ command.suppress # <<>>
        /\ LET content == files[command.suppress[1]]
               security == Marked(report.security_findings, Accepts(content))
               secrets == Marked(report.secret_findings, Accepts(content))
           IN  IF ~SuppressionsLoad(content) THEN Refuse
               ELSE /\ report' = [report EXCEPT
                         !.security_findings = security, !.secret_findings = secrets,
                         !.suppressions = [file |-> command.suppress, expired |-> <<>>,
                                           applied |-> CountMarked(security) + CountMarked(secrets)]]
                    /\ Continue("baseline") /\ UNCHANGED <<world, known, document>>

Baseline ==
  /\ At("baseline")
  /\ \/ command.baseline = <<>> /\ Continue("render") /\ Keep
     \/ /\ command.baseline # <<>>
        /\ LET old == files[command.baseline[1]]
           IN  IF ~Comparable(old) THEN Refuse
               ELSE /\ known' = <<old>>
                    /\ report' = [report EXCEPT !.baseline =
                         <<Summary(command.baseline[1], Current(report), Known(Value(old)))>>]
                    /\ Continue("render") /\ UNCHANGED <<world, document>>

(* web: one GET to the URL ... *)
Probe ==
  /\ At("web")
  /\ \/ ~(command.authorized /\ Admitted(command.url, command.timeout)) /\ Refuse
     \/ /\ command.authorized /\ Admitted(command.url, command.timeout)
        /\ Continue("answer") /\ UNCHANGED <<world, run>>

(* A server that does not answer has status 0. *)
Answers(response) == response.status # 0

(* ... its answer ... *)
Answer ==
  /\ At("answer") /\ Answers(command.answer)
  /\ report' = WebScan(command.url, command.answer)
  /\ Continue("render") /\ UNCHANGED <<world, known, document>>

(* Bug: the client has no timeout. *)
NoAnswerWaits == At("answer") /\ Answers(command.answer) /\ Refuse

(* ... or an error: no connection, or the timeout of the client. *)
NoAnswer == At("answer") /\ Refuse

(* deps: a missing target, or a lockfile that is named and does not parse. *)
Deps ==
  /\ At("deps")
  /\ \/ ~command.valid /\ Refuse
     \/ /\ command.valid
        /\ report' = [packages |-> tree.packages, errors |-> tree.errors, utf8 |-> tree.utf8,
                      advisory_db |-> <<>>, vulnerabilities |-> <<>>]
        /\ Continue("advisories") /\ UNCHANGED <<world, known, document>>

Advisories ==
  /\ At("advisories")
  /\ \/ command.advisory_db = <<>> /\ Continue("render") /\ Keep
     \/ /\ command.advisory_db # <<>>
        /\ LET content == files[command.advisory_db[1]]
           IN  IF content.form # "advisories" THEN Refuse
               ELSE /\ report' = [report EXCEPT
                         !.advisory_db = command.advisory_db,
                         !.vulnerabilities =
                           SelectSeq(report.packages, LAMBDA p : p.name \in content.affects)]
                    /\ Continue("render") /\ UNCHANGED <<world, known, document>>

(* diff reads the old report, then the new one. *)
ReadOld ==
  /\ At("diff")
  /\ IF ~Comparable(files[command.old]) THEN Refuse
     ELSE /\ known' = <<files[command.old]>>
          /\ Continue("new") /\ UNCHANGED <<world, report, document>>

(* Bug: only the old one has to be a report of a scan. *)
ReadNewUnchecked ==
  /\ At("new")
  /\ IF ~IsJson(files[command.new]) THEN Refuse
     ELSE /\ known' = Append(known, files[command.new])
          /\ report' = Compare(Value(known[1]), Value(files[command.new]))
          /\ Continue("render") /\ UNCHANGED <<world, document>>

ReadNew ==
  /\ At("new")
  /\ IF ~Comparable(files[command.new]) THEN Refuse
     ELSE /\ known' = Append(known, files[command.new])
          /\ report' = Compare(Value(known[1]), Value(files[command.new]))
          /\ Continue("render") /\ UNCHANGED <<world, document>>

Validate ==
  /\ At("validate")
  /\ LET content == files[command.file]
     IN  IF ~IsJson(content) THEN Refuse
         ELSE /\ known' = <<content>>
              /\ report' = [conforms |-> Conforms(Value(content), LoadSchema(command.schema))]
              /\ Continue("print") /\ UNCHANGED <<world, document>>

(* serde refuses a path that is no UTF-8, also when only a summary will be *)
(* printed; SARIF and SBOM have no such path.                              *)
Unserializable == command.kind \in {"scan", "deps"} /\ command.format = "json" /\ ~report.utf8

SarifForm == [scan |-> "scan-sarif", web |-> "web-sarif"]

Render ==
  /\ At("render")
  /\ \/ Unserializable /\ Refuse
     \/ /\ ~Unserializable
        /\ document' \in
             CASE command.format = "json" -> {[form |-> command.kind, report |-> report]}
               [] command.format = "sarif" -> {[form |-> SarifForm[command.kind], report |-> report]}
               [] command.format = "sbom" ->
                    {[form |-> "sbom", report |-> report, timestamp |-> TimestampUtc("time", day)] :
                       day \in Days}
        /\ step' = IF command.output = <<>> THEN "print" ELSE "write"
        /\ UNCHANGED <<world, report, known, stdout, exit>>

Write ==
  /\ At("write")
  /\ files' = [files EXCEPT ![command.output[1]] = document]
  /\ Continue("print") /\ UNCHANGED <<tree, before, changes, run>>

(* Bug: the file is truncated before it is written. *)
WriteFailsTorn ==
  /\ At("write")
  /\ files' = [files EXCEPT ![command.output[1]] = Garbage]
  /\ step' = "idle" /\ exit' = 2 /\ UNCHANGED <<tree, before, changes, run, stdout>>

WriteFails == At("write") /\ Refuse

ExitCode ==
  CASE command.kind = "scan" ->
         IF HasUnsuppressedNew(report, IF known = <<>> THEN <<>> ELSE <<Known(Value(known[1]))>>)
           THEN 1 ELSE 0
    [] command.kind = "web" -> IF report.findings # <<>> THEN 1 ELSE 0
    [] command.kind = "validate" -> IF report.conforms THEN 0 ELSE 1
    [] OTHER -> 0

(* With --output the path, with --json or another format the report,       *)
(* otherwise a summary.                                                    *)
Emit ==
  /\ At("print")
  /\ stdout' = CASE command.kind = "validate" -> [form |-> "verdict"]
                 [] command.kind # "validate" /\ command.output # <<>> -> [form |-> "path"]
                 [] command.kind # "validate" /\ command.output = <<>> ->
                      IF command.json \/ command.format # "json" THEN document
                      ELSE [form |-> "summary"]
  /\ exit' = ExitCode
  /\ step' = "idle"
  /\ Keep

(* Nobody reads stdout: println! panics. *)
EmitFails == At("print") /\ step' = "idle" /\ exit' = 101 /\ Keep /\ UNCHANGED stdout

Program ==
  \/ Scan \/ Suppress \/ Baseline \/ Probe \/ Answer \/ NoAnswer \/ Deps \/ Advisories
  \/ ReadOld \/ ReadNew \/ Validate \/ Render \/ Write \/ WriteFails \/ Emit \/ EmitFails

(* Somebody else changes the tree or replaces a file. *)
Others ==
  /\ changes < MaxChanges /\ changes' = changes + 1
  /\ \/ tree' \in Trees /\ UNCHANGED <<files, before>>
     \/ \E name \in DOMAIN files, content \in Edits :
          /\ files' = [files EXCEPT ![name] = content]
          /\ before' = [before EXCEPT ![name] = content]
          /\ UNCHANGED tree
  /\ UNCHANGED <<session, command, step, run, stdout, exit>>

Next == Invoke \/ Program \/ Others

(* The machine runs a command that has a next step; the HTTP client has a  *)
(* timeout.                                                                *)
Spec == Init /\ [][Next]_vars /\ WF_vars(Program)

-----------------------------------------------------------------------------
(* A command that fails has written none of the files that a command can   *)
(* name and printed nothing: an exit code of 2 leaves every path as it     *)
(* would be without the command.  (A temp file may stay beside the output: *)
(* LeftoverExplained in PrivateWrite.)                                     *)
RefusedLeavesNothing ==
  step = "idle" /\ exit = 2 => files = before /\ stdout = Nothing

(* The gate agrees with `diff` and with the report it prints, whatever the *)
(* output: a scan exits with 1 exactly if the comparison of its JSON       *)
(* report with the baseline, as JSON, adds a finding that carries no       *)
(* justification.                                                          *)
GateAgreesWithDiff ==
  step = "idle" /\ exit \in {0, 1} /\ command.kind = "scan" =>
    LET new == ScanReport(report)
        open(items) == \E i \in DOMAIN items : Get(items[i], "suppressed") = Null
        added == IF known = <<>>
                   THEN [added_security |-> Security(new), added_secrets |-> Secrets(new)]
                   ELSE Compare(Value(known[1]), new)
    IN  exit = 1 <=> open(added.added_security) \/ open(added.added_secrets)

(* A baseline and both sides of a comparison are source reports: whatever  *)
(* else loop3r writes is refused, also when it stands there by the time    *)
(* the second side is read, so a wrong file never hides a finding as old   *)
(* (a baseline, the old side) or shows everything as fixed (the new one).  *)
OnlySourceReportsCompared ==
  /\ known # <<>> /\ command.kind \in {"scan", "diff"} =>
       \A k \in DOMAIN known : known[k].form \in {"scan", "note"}
  /\ report # Nothing /\ command.kind = "diff" => Len(known) = 2

(* A finding that names its rule.  diff copies what it finds in the lists  *)
(* of a report, which need not be findings.                                *)
NamesRule(item) == Has(item, "rule_id") /\ Get(item, "rule_id").kind = "string"

(* `validate` accepts a report exactly under the schema of the command     *)
(* that wrote it, and no export under any.  Two kinds of reports it        *)
(* refuses: a scan whose seed, byte cap or budget is beyond what the       *)
(* checker calls an integer, and a diff with an item that names no rule.   *)
ValidateKnowsItsOwn ==
  step = "idle" /\ exit \in {0, 1} /\ command.kind = "validate" /\ known[1].form \in Forms =>
    LET r == known[1].report
        long == known[1].form = "scan" /\
                  \E n \in {r.seed, r.scope.max_file_bytes, r.scope.budget_seconds} :
                    n > MaxInteger
        odd == known[1].form = "diff" /\
                 \E list \in {"added_security", "fixed_security", "added_secrets", "fixed_secrets"} :
                   \E i \in DOMAIN r[list] : ~NamesRule(r[list][i])
    IN  exit = 0 <=> known[1].form = command.schema /\ ~long /\ ~odd

(* An export loses nothing: one result for each finding, in order, at its  *)
(* place, marked exactly if the finding is; one descriptor for each rule   *)
(* that a result names, and no other.                                      *)
SarifKeepsFindings ==
  document.form \in {"scan-sarif", "web-sarif"} =>
    LET sarif == Get(Value(document), "runs").items[1].fields
        results == sarif.results.items
        rules == sarif.tool.fields.driver.fields.rules.items
        findings == IF command.kind = "web" THEN report.findings
                    ELSE report.security_findings \o report.secret_findings
                           \o report.syntax_findings
    IN  /\ Len(results) = Len(findings)
        /\ Len(rules) = Cardinality({Get(rules[k], "id").is : k \in DOMAIN rules})
        /\ {Get(rules[k], "id") : k \in DOMAIN rules}
             = {Get(results[i], "ruleId") : i \in DOMAIN results}
        /\ \A i \in DOMAIN results :
             LET f == findings[i]
                 where == Get(Get(results[i], "locations").items[1], "physicalLocation").fields
             IN  /\ "rule_id" \in DOMAIN f => Get(results[i], "ruleId") = String(f.rule_id)
                 /\ Has(results[i], "suppressions")
                      <=> "suppressed" \in DOMAIN f /\ f.suppressed # <<>>
                 /\ "severity" \in DOMAIN f /\ f.severity = "medium"
                      <=> Get(results[i], "level") = String("warning")
                 /\ IF command.kind = "web" THEN "region" \notin DOMAIN where
                    ELSE /\ Get(where.artifactLocation, "uri") = String(f.path)
                         /\ Get(where.region, "startLine") = Number(f.line)
                         /\ Get(where.region, "startColumn") = Number(f.column)

(* The findings of a rule name the cookies at these places, in order. *)
Grades(findings, rule, places, cookies) ==
  \E at \in Bijection(places, {k \in DOMAIN findings : findings[k].rule_id = rule}) :
    /\ \A i, j \in places : i < j => at[i] < at[j]
    /\ \A i \in places : findings[at[i]].cookie = cookies[i][1].key

(* Each cookie of a response is graded on its own: the findings of a flag  *)
(* name, in order, the cookies without the attribute, which neither the    *)
(* value nor the name of a cookie can stand in for; and a response that    *)
(* sets a cookie needs a Cache-Control.                                    *)
EveryCookieGraded ==
  step = "render" /\ command.kind = "web" =>
    LET cookies == command.answer.cookies
        named == {i \in DOMAIN cookies : cookies[i] # <<>> /\ cookies[i][1].key # ""}
        sound(c, key) ==
          \E i \in DOMAIN c : /\ i > 1 /\ Folded[c[i].key] = key
                              /\ key = "samesite" =>
                                   \E text \in ToSet(c[i].value) :
                                     Folded[text] \in {"lax", "strict", "none"}
        lacking(key) == {i \in named : ~sound(cookies[i], key)}
        https == command.url.scheme = "https"
    IN  /\ Grades(report.findings, "WEB-COOKIE-HTTPONLY", lacking("httponly"), cookies)
        /\ Grades(report.findings, "WEB-COOKIE-SAMESITE", lacking("samesite"), cookies)
        /\ Grades(report.findings, "WEB-COOKIE-SECURE",
                  IF https THEN lacking("secure") ELSE {}, cookies)
        /\ Cardinality({k \in DOMAIN report.findings : report.findings[k].rule_id = "WEB-CACHE"})
             = (IF named # {} /\ ~command.answer.cache_control THEN 1 ELSE 0)

(* Every command comes to an end. *)
CommandsEnd == step # "idle" ~> step = "idle"

=============================================================================
