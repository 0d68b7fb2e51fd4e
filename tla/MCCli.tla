-------------------------------- MODULE MCCli --------------------------------
(***************************************************************************)
(* Cli for TLC: a short session that exercises every reader and writer of  *)
(* files on two paths, and the web probe alone on many responses.          *)
(***************************************************************************)
EXTENDS Cli, SchemaCheck

(* check_value: the keywords of SchemaCheck, for the parts of a value too. *)
RECURSIVE CheckValue(_, _)
CheckValue(value, schema) == CheckKeywords(value, schema, CheckValue)

Small(text) ==
  CASE text \in {"HttpOnly", "HTTPONLY"} -> "httponly"
    [] text = "Secure" -> "secure"
    [] text = "SameSite" -> "samesite"
    [] text = "Lax" -> "lax"
    [] text = "Sometimes" -> "sometimes"
    [] text = "NoSniff" -> "nosniff"
    [] text = "Text/HTML" -> "text/html"
    [] text = "TRUE" -> "true"
    [] OTHER -> text

MCFolded ==
  [text \in {"", "session", "httponly", "HttpOnly", "HTTPONLY", "Secure", "SameSite", "Lax",
             "Sometimes", "nosniff", "NoSniff", "Text/HTML", "application/json",
             "true", "TRUE"} |-> Small(text)]

Eval(line, flow) ==
  [rule_id |-> "EVAL", severity |-> "high", path |-> "app.py", line |-> line, column |-> 1,
   callee |-> "e", resolved_callee |-> <<"eval">>, taint |-> flow, confidence |-> "medium",
   suppressed |-> <<>>]

Key(hash) ==
  [rule_id |-> "KEY", path |-> ".env", line |-> 1, column |-> 1, fingerprint |-> hash,
   suppressed |-> <<>>]

Syntax == [path |-> "app.py", language |-> "python", line |-> 9, column |-> 1]

Crate == [ecosystem |-> "cargo", name |-> "log", version |-> "1", source |-> <<"registry">>,
          lockfile |-> "Cargo.lock"]
Module == [ecosystem |-> "npm", name |-> "left-pad", version |-> "1", source |-> <<>>,
           lockfile |-> "package-lock.json"]

(* A tree, the next commit of it, which moves the call and rotates the     *)
(* key, and one with a path that is no UTF-8.                              *)
Rotten ==
  [security_findings |-> <<Eval(1, <<>>)>>, secret_findings |-> <<>>,
   syntax_findings |-> <<>>, packages |-> <<>>, errors |-> <<>>, utf8 |-> FALSE]

MCTrees ==
  {Rotten,
   [security_findings |-> <<Eval(1, <<"cmd">>)>>, secret_findings |-> <<Key("k1")>>,
    syntax_findings |-> <<Syntax>>, packages |-> <<Crate, Module>>, errors |-> <<>>,
    utf8 |-> TRUE],
   [security_findings |-> <<Eval(1, <<>>), Eval(2, <<>>)>>, secret_findings |-> <<>>,
    syntax_findings |-> <<>>, packages |-> <<Crate>>, errors |-> <<"package-lock.json">>,
    utf8 |-> TRUE]}

Accepting == [form |-> "suppressions", accepts |-> {"EVAL"}]
Snapshot == [form |-> "advisories", affects |-> {"left-pad"}]

(* A short report, as the tests write them: one list, sparse fields. *)
Short ==
  [form |-> "note",
   value |-> Object([schema_version |-> Number(1),
                     security_findings |->
                       Array(<<Object([rule_id |-> String("EVAL"), path |-> String("app.py"),
                                       line |-> Number(1), column |-> Number(1),
                                       callee |-> String("e")])>>)])]

(* A finding that is none, and a list that is no list. *)
Odd ==
  [form |-> "note",
   value |-> Object([schema_version |-> Number(1), security_findings |-> Array(<<Null>>),
                     secret_findings |-> Null])]

MCInitialFiles ==
  {("a" :> first) @@ ("b" :> Absent) : first \in {Accepting, Snapshot, Short, Odd, Garbage}}

MCEdits == {Garbage}

Outputs == {<<>>, <<"b">>}

Scans(suppressions, baselines, outputs, formats) ==
  [kind : {"scan"}, valid : {TRUE}, seed : {1}, max_file_bytes : {MaxInteger},
   budget_seconds : {1}, suppress : suppressions, baseline : baselines, format : formats,
   json : {FALSE}, output : outputs]

Printed(commands) == {[c EXCEPT !.json = TRUE, !.output = <<>>] : c \in commands}

Home == [parses |-> TRUE, scheme |-> "http", credentials |-> FALSE, host |-> "localhost"]

Plain ==
  [status |-> 200, location |-> <<>>, content_type_options |-> <<>>, content_type |-> <<>>,
   csp |-> FALSE, hsts |-> FALSE, allow_origin |-> <<>>, allow_credentials |-> <<>>,
   cache_control |-> FALSE, cookies |-> <<>>]

Web(urls, answers, outputs) ==
  [kind : {"web"}, authorized : {TRUE}, url : urls, timeout : {1}, answer : answers,
   format : {"json", "sarif"}, json : {FALSE}, output : outputs]

Inventories(dbs, outputs) ==
  [kind : {"deps"}, valid : {TRUE}, advisory_db : dbs, format : {"json", "sbom"},
   json : {FALSE}, output : outputs]

Diffs == [kind : {"diff"}, old : {"a", "b"}, new : {"a", "b"}, format : {"json"},
          json : {FALSE}, output : {<<>>, <<"a">>}]

Validations == [kind : {"validate"}, file : {"a", "b"}, schema : SchemaNames]

Given == {<<>>, <<"a">>, <<"b">>}

Refused ==
  LET scan == [kind |-> "scan", valid |-> FALSE, seed |-> 1, max_file_bytes |-> 1,
               budget_seconds |-> 1, suppress |-> <<>>, baseline |-> <<>>,
               format |-> "json", json |-> FALSE, output |-> <<"b">>]
  IN  {scan, [scan EXCEPT !.valid = TRUE, !.budget_seconds = 0],
       [kind |-> "deps", valid |-> FALSE, advisory_db |-> <<>>, format |-> "json",
              json |-> TRUE, output |-> <<>>]}

(* Options are 64 bits without a sign, the integers of the checker have one. *)
Long ==
  LET scans == Scans({<<>>}, {<<>>}, {<<"b">>}, {"json"})
      long == MaxInteger + 1
  IN  {[c EXCEPT !.seed = long] : c \in scans}
        \union {[c EXCEPT !.max_file_bytes = long] : c \in scans}
        \union {[c EXCEPT !.budget_seconds = long] : c \in scans}

First ==
  Scans({<<>>, <<"a">>}, {<<>>, <<"a">>}, Outputs, {"json", "sarif"})
    \union Web({Home}, {Plain}, {<<"b">>}) \union Inventories({<<>>, <<"a">>}, Outputs)
    \union Refused

Second ==
  Scans({<<>>, <<"a">>}, {<<"b">>}, {<<>>, <<"a">>, <<"b">>}, {"json"}) \union Diffs
    \union Validations

Third ==
  Scans({<<>>}, {<<"a">>}, {<<>>}, {"json"})
    \union [kind : {"diff"}, old : {"b"}, new : {"a"}, format : {"json"}, json : {TRUE},
            output : {<<>>}]
    \union [kind : {"validate"}, file : {"a"}, schema : SchemaNames]

(* Responses, each header varied against the rest. *)
Segment(key, value) == [key |-> key, value |-> value]
Cookies ==
  {<<Segment("session", <<"true">>)>>,
   <<Segment("session", <<"httponly">>), Segment("HTTPONLY", <<>>), Segment("Secure", <<>>),
     Segment("SameSite", <<"Lax">>)>>,
   <<Segment("httponly", <<"true">>), Segment("SameSite", <<"Sometimes">>)>>,
   <<Segment("httponly", <<>>), Segment("", <<>>), Segment("SameSite", <<>>)>>,
   <<Segment("", <<"true">>), Segment("HttpOnly", <<>>)>>,
   <<>>}

Headers ==
  [status : {200, 302}, location : {<<>>, <<Unreadable>>, <<"session">>},
   content_type_options : {<<"NoSniff">>, <<Unreadable>>},
   content_type : {<<>>, <<"Text/HTML">>, <<"application/json">>}, csp : BOOLEAN,
   hsts : BOOLEAN, allow_origin : {<<>>, <<"https://loop3r.invalid">>},
   allow_credentials : {<<"TRUE">>, <<"nosniff">>}, cache_control : BOOLEAN,
   cookies : {<<<<Segment("session", <<>>)>>>>}]

Responses ==
  {h \in Headers : h.status = 302 \/ h.location = <<>>}
    \union [status : {200}, location : {<<>>}, content_type_options : {<<>>},
            content_type : {<<>>}, csp : {FALSE}, hsts : {TRUE}, allow_origin : {<<>>},
            allow_credentials : {<<>>}, cache_control : BOOLEAN,
            cookies : {<<>>} \union {<<c>> : c \in Cookies} \union (Cookies \X Cookies)]

Urls ==
  {Home, [Home EXCEPT !.scheme = "https"], [Home EXCEPT !.host = "[::1]"]}

BadUrls ==
  {[Home EXCEPT !.parses = FALSE], [Home EXCEPT !.scheme = "ftp"],
   [Home EXCEPT !.credentials = TRUE], [Home EXCEPT !.host = "localhost.example"]}

Probes ==
  Web(Urls, Responses \union {[Plain EXCEPT !.status = 0]}, {<<>>}) \union Printed(Web(BadUrls, {Plain}, {<<>>}))
    \union {[c EXCEPT !.authorized = FALSE] : c \in Web({Home}, {Plain}, {<<>>})}
    \union {[c EXCEPT !.timeout = 121] : c \in Web({Home}, {Plain}, {<<>>})}

Empty == ("a" :> Absent) @@ ("b" :> Absent)

MCStarts ==
  [files : MCInitialFiles, tree : MCTrees, session : {<<First, Second, Third>>}]
    \union [files : {Empty}, tree : MCTrees, session : {<<Long, Second>>}]
    \union [files : {Empty}, tree : {Rotten}, session : {<<Probes>>}]
=============================================================================
