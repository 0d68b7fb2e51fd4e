----------------------------- MODULE RuleMatch -----------------------------
(***************************************************************************)
(* One parsed file: the aliases its imports make (src/src/imports.rs), the *)
(* calls that match a rule of the catalog (inspect_tree of                 *)
(* src/src/source.rs), and the catalog itself (src/src/core.rs).           *)
(*                                                                         *)
(* A dotted name is the sequence of its segments; a name that its reader   *)
(* refuses (relative, empty, too long, no identifier) is the empty one.    *)
(* Arguments are the needles they contain.  TypeScript and TSX are         *)
(* JavaScript; every language without aliases is Go, and SQL stands for    *)
(* those without calls.                                                    *)
(***************************************************************************)
EXTENDS Integers, Sequences, FiniteSets, SequencesExt

CONSTANTS Names,          \* identifiers and module specifiers
          NoAlias,        \* an import without `as`
          NotIdentifier,  \* a name or pattern that is_identifier refuses
          Needles,        \* argument texts that rules ask for
          Files,          \* syntax trees
          Catalogs        \* sequences of rules

Languages == {"python", "javascript", "go", "sql"}

None == <<>>

Imports == {"import_statement", "import_from_statement"}

ModuleForms == {"identifier", "namespace_import"}
MemberForms == {"dotted_name", "aliased_import", "shorthand", "pair_pattern", "import_specifier"}

Clause == [form : ModuleForms \union MemberForms \union {"other"},
           name : Seq(Names), alias : Names \union {NoAlias, NotIdentifier}]

(* The answer of TaintLite for the arguments of a call is in `tainted`.    *)
Node == [kind : Imports \union {"variable_declarator", "call", "other"},
         children : Seq(Nat), error : BOOLEAN,
         module : Seq(Names), clauses : Seq(Clause),
         callee : Seq(Names), args : SUBSET Needles, tainted : BOOLEAN]

(* well_formed: severity, CWE, needles and references are acceptable.      *)
Rule == [id : Nat, severity : {"high", "review"}, well_formed : BOOLEAN,
         languages : SUBSET Languages, callees : SUBSET Seq(Names),
         args_any : SUBSET Needles, args_none : SUBSET Needles]

Below(nodes, n) == ToSet(nodes[n].children)

(* Nodes are numbered in the order of the text, so arcs from a node to its *)
(* children go forward and do not cross.  Imports have no code below them. *)
Tree(nodes) ==
  /\ \A n \in DOMAIN nodes :
       /\ Below(nodes, n) \subseteq n + 1..Len(nodes)
       /\ \A i, j \in DOMAIN nodes[n].children :
            i < j => nodes[n].children[i] < nodes[n].children[j]
       /\ nodes[n].kind \in Imports => nodes[n].children = <<>>
  /\ \A n \in DOMAIN nodes \ {1} :
       \E p \in DOMAIN nodes : \A m \in DOMAIN nodes : n \in Below(nodes, m) <=> m = p
  /\ \A m, n \in DOMAIN nodes : \A c \in Below(nodes, m), d \in Below(nodes, n) :
       m < n /\ n < c => d < c

ASSUME ConstantsAssumption ==
  /\ {NoAlias, NotIdentifier} \intersect Names = {}
  /\ \A f \in Files :
       /\ f.nodes \in Seq(Node) /\ f.nodes # <<>> /\ Tree(f.nodes)
       /\ f.language \in Languages
  /\ Catalogs \subseteq Seq(Rule)

VARIABLES file, catalog, pc,
          stack,               \* nodes to visit, the next one last
          taken,               \* clauses or rules that are done at that one
          aliases,             \* local name -> canonical path
          syntax, security     \* findings

vars == <<file, catalog, pc, stack, taken, aliases, syntax, security>>

Init ==
  /\ file \in Files /\ catalog \in Catalogs
  /\ pc = "load"
  /\ stack = <<>> /\ taken = 0 /\ aliases = <<>>
  /\ syntax = <<>> /\ security = <<>>

Children(n) == file.nodes[n].children

-----------------------------------------------------------------------------
(* The catalog: one bad rule and nothing is scanned. *)

(* Bug: two rules may have one id. *)
ValidEach(rules) ==
  \A i \in DOMAIN rules :
    rules[i].well_formed /\ rules[i].languages # {} /\ rules[i].callees # {}

Valid(rules) ==
  /\ \A i, j \in DOMAIN rules : rules[i].id = rules[j].id => i = j
  /\ \A i \in DOMAIN rules :
       rules[i].well_formed /\ rules[i].languages # {} /\ rules[i].callees # {}

LoadAstRules ==
  /\ pc = "load"
  /\ \/ ~Valid(catalog) /\ pc' = "failed" /\ UNCHANGED stack
     \/ Valid(catalog) /\ pc' = "collect" /\ stack' = <<1>>
  /\ UNCHANGED <<file, catalog, taken, aliases, syntax, security>>

-----------------------------------------------------------------------------
(* collect_aliases *)

(* What an import clause binds its name to, if anything.  A declarator has *)
(* a module if its value is require('module').                             *)
Target(node, c) ==
  IF file.language = "python" /\ node.kind = "import_statement"
    THEN IF c.form = "aliased_import" THEN c.name ELSE None
  ELSE IF node.module = None THEN None
  ELSE IF c.form \in ModuleForms THEN node.module
  ELSE IF c.form \in MemberForms /\ c.name # None THEN node.module \o c.name
  ELSE None

Local(c) == IF c.alias = NoAlias THEN c.name[1] ELSE c.alias

Binds(node, c) == Target(node, c) # None /\ Local(c) # NotIdentifier

Importing ==
  IF file.language = "python" THEN Imports
  ELSE IF file.language = "javascript" THEN {"import_statement", "variable_declarator"}
  ELSE {}

Clauses(n) == IF file.nodes[n].kind \in Importing THEN file.nodes[n].clauses ELSE <<>>

Insert(map, name, path) ==
  [x \in DOMAIN map \union {name} |-> IF x = name THEN path ELSE map[x]]

BindClause ==
  /\ pc = "collect" /\ stack # <<>> /\ taken < Len(Clauses(Last(stack)))
  /\ LET node == file.nodes[Last(stack)]
         c == Clauses(Last(stack))[taken + 1]
     IN  aliases' = IF Binds(node, c) THEN Insert(aliases, Local(c), Target(node, c)) ELSE aliases
  /\ taken' = taken + 1
  /\ UNCHANGED <<file, catalog, pc, stack, syntax, security>>

(* Bug: children are pushed as they come, so that the last is visited      *)
(* first.                                                                  *)
CollectBackwards ==
  /\ pc = "collect" /\ stack # <<>> /\ taken = Len(Clauses(Last(stack)))
  /\ stack' = Front(stack) \o Children(Last(stack)) /\ taken' = 0
  /\ UNCHANGED <<file, catalog, pc, aliases, syntax, security>>

Collect ==
  /\ pc = "collect" /\ stack # <<>> /\ taken = Len(Clauses(Last(stack)))
  /\ stack' = Front(stack) \o Reverse(Children(Last(stack))) /\ taken' = 0
  /\ UNCHANGED <<file, catalog, pc, aliases, syntax, security>>

StartInspecting ==
  /\ pc = "collect" /\ stack = <<>>
  /\ pc' = "inspect" /\ stack' = <<1>>
  /\ UNCHANGED <<file, catalog, taken, aliases, syntax, security>>

-----------------------------------------------------------------------------
(* inspect_tree *)

IsCall(n) ==
  file.language # "sql" /\ file.nodes[n].kind = "call" /\ file.nodes[n].callee # None

Rules(n) == IF IsCall(n) THEN catalog ELSE <<>>

(* Only the head of a name is an alias. *)
ResolveCallee(name) ==
  IF Head(name) \in DOMAIN aliases
    THEN aliases[Head(name)] \o Tail(name)
    ELSE name

(* Bug: a safe spelling only counts if the rule asks for no other. *)
MatchesArgsAnyFirst(rule, args) ==
  IF rule.args_any = {} THEN rule.args_none \intersect args = {}
  ELSE rule.args_any \intersect args # {}

MatchesArgs(rule, args) ==
  /\ rule.args_any = {} \/ rule.args_any \intersect args # {}
  /\ rule.args_none \intersect args = {}

Matches(rule, n) ==
  /\ file.language \in rule.languages
  /\ ResolveCallee(file.nodes[n].callee) \in rule.callees
  /\ MatchesArgs(rule, file.nodes[n].args)

Confidence(rule, n) ==
  IF ~file.nodes[n].tainted /\ rule.severity = "review" THEN "low" ELSE "medium"

SecurityFinding(rule, n) ==
  [rule_id |-> rule.id, node |-> n, confidence |-> Confidence(rule, n),
   resolved_callee |-> ResolveCallee(file.nodes[n].callee)]

TryRule ==
  /\ pc = "inspect" /\ stack # <<>> /\ taken < Len(Rules(Last(stack)))
  /\ LET rule == catalog[taken + 1]
         n == Last(stack)
     IN  security' = IF Matches(rule, n) THEN Append(security, SecurityFinding(rule, n))
                     ELSE security
  /\ taken' = taken + 1
  /\ UNCHANGED <<file, catalog, pc, stack, aliases, syntax>>

(* The children come out of the stack in reverse order.  A syntax error is *)
(* reported before the rules are tried, in a list of its own.              *)
InspectNode ==
  /\ pc = "inspect" /\ stack # <<>> /\ taken = Len(Rules(Last(stack)))
  /\ syntax' = IF file.nodes[Last(stack)].error THEN Append(syntax, Last(stack)) ELSE syntax
  /\ stack' = Front(stack) \o Children(Last(stack)) /\ taken' = 0
  /\ UNCHANGED <<file, catalog, pc, aliases, security>>

EndFile ==
  /\ pc = "inspect" /\ stack = <<>>
  /\ pc' = "done"
  /\ UNCHANGED <<file, catalog, stack, taken, aliases, syntax, security>>

Next ==
  \/ LoadAstRules \/ BindClause \/ Collect \/ StartInspecting
  \/ TryRule \/ InspectNode \/ EndFile

Spec == Init /\ [][Next]_vars

-----------------------------------------------------------------------------
Nodes == DOMAIN file.nodes

(* Where a name is bound, in the order of the text. *)
Bindings(name) ==
  {b \in Nodes \X UNION {DOMAIN Clauses(n) : n \in Nodes} :
     LET c == Clauses(b[1])[b[2]] IN
     b[2] \in DOMAIN Clauses(b[1]) /\ Binds(file.nodes[b[1]], c) /\ Local(c) = name}

NotAfter(b, c) == b[1] < c[1] \/ (b[1] = c[1] /\ b[2] <= c[2])

LastBinding(name) ==
  CHOOSE b \in Bindings(name) : \A c \in Bindings(name) : NotAfter(c, b)

TargetAt(b) == Target(file.nodes[b[1]], Clauses(b[1])[b[2]])

(* What a name stands for, from the text alone. *)
Meaning(name) ==
  IF Bindings(name) = {} THEN <<name>>
  ELSE TargetAt(LastBinding(name))

(* "Last binding wins": whatever functions and blocks the imports stand    *)
(* in, each name ends up bound by the last import of the text that binds   *)
(* it, and no other name is bound.                                         *)
AliasesAreLastBindings ==
  pc \in {"inspect", "done"} =>
    \A name \in Names :
      /\ name \in DOMAIN aliases <=> Bindings(name) # {}
      /\ name \in DOMAIN aliases => aliases[name] = Meaning(name)

(* A file has one finding for each call and each rule of its language that *)
(* names what is called, unless the arguments rule it out, and one syntax  *)
(* finding for each error: none for text in strings or comments, none lost *)
(* in nested calls, and a review finding is only "medium" with a flow.     *)
FindingsAreExact ==
  pc = "done" =>
    LET called(n) ==
          LET name == file.nodes[n].callee IN Meaning(Head(name)) \o Tail(name)
        wrong(rule, n) ==
          /\ IsCall(n) /\ file.language \in rule.languages /\ called(n) \in rule.callees
          /\ \A needle \in rule.args_none : needle \notin file.nodes[n].args
          /\ rule.args_any # {} => \E needle \in rule.args_any : needle \in file.nodes[n].args
        expected ==
          {<<catalog[p[1]].id, p[2], ~file.nodes[p[2]].tainted /\ catalog[p[1]].severity = "review">> :
             p \in {p \in (DOMAIN catalog) \X Nodes : wrong(catalog[p[1]], p[2])}}
        reported ==
          {<<security[i].rule_id, security[i].node, security[i].confidence = "low">> :
             i \in DOMAIN security}
    IN  /\ reported = expected /\ Len(security) = Cardinality(expected)
        /\ ToSet(syntax) = {n \in Nodes : file.nodes[n].error}
        /\ Len(syntax) = Cardinality(ToSet(syntax))

(* One call is never reported twice under one rule id, whatever a catalog  *)
(* says: baselines and suppressions go by the id.                          *)
NoDoubleReport ==
  \A i, j \in DOMAIN security :
    security[i].node = security[j].node /\ security[i].rule_id = security[j].rule_id => i = j

=============================================================================
