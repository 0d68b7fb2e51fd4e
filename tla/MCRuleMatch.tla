---------------------------- MODULE MCRuleMatch ----------------------------
(* RuleMatch for TLC: every tree of four nodes, three of which are an      *)
(* import or a call of a small alphabet for its language.                  *)
EXTENDS RuleMatch

Blank ==
  [kind |-> "other", children |-> <<>>, error |-> FALSE, module |-> None, clauses |-> <<>>,
   callee |-> None, args |-> {}, tainted |-> FALSE]

Call(callee, args, tainted) ==
  [Blank EXCEPT !.kind = "call", !.callee = callee, !.args = args, !.tainted = tainted]

I(kind, module, clauses) ==
  [Blank EXCEPT !.kind = kind, !.module = module, !.clauses = clauses]

C(form, name, alias) == [form |-> form, name |-> name, alias |-> alias]

Shapes ==
  {<< <<2, 3, 4>>, <<>>, <<>>, <<>> >>, << <<2, 4>>, <<3>>, <<>>, <<>> >>,
   << <<2, 3>>, <<>>, <<4>>, <<>> >>, << <<2>>, <<3, 4>>, <<>>, <<>> >>,
   << <<2>>, <<3>>, <<4>>, <<>> >>}

Calls ==
  {Call(<<"run">>, {}, FALSE), Call(<<"run", "system">>, {"shell"}, TRUE),
   Call(<<"os", "system">>, {"shell", "safe"}, FALSE), Call(<<"system">>, {"shell"}, FALSE),
   [Call(None, {}, FALSE) EXCEPT !.error = TRUE]}

FromOs(clauses) == I("import_from_statement", <<"os">>, clauses)

PythonImports ==
  {I("import_statement", None, <<C("aliased_import", <<"os">>, "run")>>),
   I("import_statement", None, <<C("other", <<"os">>, NoAlias)>>),
   FromOs(<<C("dotted_name", <<"system">>, NoAlias), C("aliased_import", <<"system">>, "run")>>),
   FromOs(<<C("aliased_import", <<"system">>, "run"), C("aliased_import", <<"run">>, "run")>>),
   FromOs(<<C("aliased_import", <<"system">>, NotIdentifier), C("other", None, NoAlias)>>),
   I("import_from_statement", None, <<C("dotted_name", <<"system">>, NoAlias)>>)}

JavaScriptImports ==
  {I("import_statement", <<"os">>, <<C("other", None, NoAlias),
                                     C("namespace_import", None, "run")>>),
   I("import_statement", <<"os">>, <<C("import_specifier", <<"system">>, NoAlias)>>),
   I("import_statement", <<"os">>, <<C("import_specifier", <<"system">>, "run")>>),
   I("variable_declarator", <<"os">>, <<C("identifier", None, "run")>>),
   I("variable_declarator", <<"os">>, <<C("shorthand", <<"system">>, NoAlias),
                                        C("pair_pattern", <<"run">>, "system"),
                                        C("pair_pattern", <<"os">>, NotIdentifier)>>),
   I("variable_declarator", None, <<C("identifier", None, "run")>>)}

(* What may stand in a file of a language, an import only as a leaf. *)
Fits(language, n, children) ==
  /\ language = "python" => n \notin JavaScriptImports
  /\ language = "javascript" => n \notin PythonImports
  /\ language \in {"go", "sql"} => n \in Calls
  /\ children # <<>> => n.kind \notin Imports

MCFiles ==
  LET contents == Calls \union PythonImports \union JavaScriptImports
      node(n, children) == [n EXCEPT !.children = children]
  IN  {[language |-> t[1],
        nodes |-> <<node(Blank, t[2][1]), node(t[3], t[2][2]), node(t[4], t[2][3]),
                    node(t[5], t[2][4])>>] :
         t \in {t \in Languages \X Shapes \X contents \X contents \X contents :
                 \A i \in 2..4 : Fits(t[1], t[i + 1], t[2][i])}}

R(id, severity, languages, callees, any, none) ==
  [id |-> id, severity |-> severity, well_formed |-> TRUE,
   languages |-> languages, callees |-> callees,
   args_any |-> any, args_none |-> none]

Shell == R(1, "high", {"python", "go"}, {<<"os", "system">>, <<"system">>}, {}, {})
Review ==
  R(2, "review", {"python", "javascript", "sql"}, {<<"os", "system">>, <<"os", "run">>},
    {"shell"}, {"safe"})

MCCatalogs ==
  {<<Shell, Review, R(3, "review", Languages, {<<"os", "system">>}, {}, {"safe"})>>,
   <<Review, [Shell EXCEPT !.id = 2]>>}

=============================================================================
