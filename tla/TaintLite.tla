----------------------------- MODULE TaintLite -----------------------------
(***************************************************************************)
(* Taint-lite (src/src/taint.rs): for every function of a file, a bounded  *)
(* fixed point over its assignments says which variables get their value   *)
(* from a parameter or an input call, and through which chain; a sink is   *)
(* then answered from the smallest function around its line.               *)
(*                                                                         *)
(* A variable is its position in the order of names, in which maps and     *)
(* sets are walked.  Of a right-hand side only what the analysis looks for *)
(* is kept: the names in it, an input marker, `shlex.quote`.               *)
(***************************************************************************)
EXTENDS Integers, Sequences, FiniteSets

CONSTANTS Vars,          \* names that occur in files
          Receivers,     \* self, cls, this
          Clean,         \* no taint
          Files,         \* what may be analysed
          MaxVars,       \* MAX_VARS
          MaxPasses,     \* MAX_PASSES
          MaxFunctions   \* MAX_FUNCTIONS

(* A function, in the order in which the tree walk meets them: the one it  *)
(* is nested in (or 0), its first and last line, the names in its          *)
(* parameter list and the line of that.                                    *)
Function == [parent : Nat, first : Nat, last : Nat, line : Nat, names : SUBSET Vars]

(* An assignment in text order, with the innermost function around it; the *)
(* target is a plain name or something else (a.b, a[0], a destructuring).  *)
Assignment == [owner : Nat, plain : BOOLEAN, target : Vars, reads : SUBSET Vars,
               marker : BOOLEAN, sanitized : BOOLEAN, line : Nat]

File == [functions : Seq(Function), text : Seq(Assignment)]

ASSUME ConstantsAssumption ==
  /\ Vars \subseteq Nat /\ IsFiniteSet(Vars) /\ Receivers \subseteq Vars
  /\ MaxVars \in Nat /\ MaxPasses \in Nat \ {0} /\ MaxFunctions \in Nat \ {0}
  /\ Files \subseteq File

(* In a syntax tree a node is met before the nodes in it, which lie within *)
(* its lines.                                                              *)
ASSUME NestingAssumption ==
  \A f \in Files : \A i \in DOMAIN f.functions :
    LET inner == f.functions[i]
        outer == f.functions[inner.parent]
    IN  /\ inner.parent < i
        /\ inner.parent # 0 => outer.first <= inner.first /\ inner.last <= outer.last

Origin == [line : Nat, call : BOOLEAN, chain : Seq(Vars)]

ASSUME CleanAssumption == Clean \notin Origin

VARIABLES file,     \* the file under analysis
          scopes,   \* one map per function done: variable -> origin or Clean
          tainted,  \* the map of the function at work
          pass,     \* the pass over its assignments
          next,     \* the assignment that is looked at next
          changed,  \* this pass has found something
          pc

vars == <<file, scopes, tainted, pass, next, changed, pc>>

Init ==
  /\ file \in Files
  /\ scopes = <<>>
  /\ tainted = [v \in Vars |-> Clean]
  /\ pass = 0 /\ next = 0 /\ changed = FALSE
  /\ pc = "walk"

-----------------------------------------------------------------------------
Current == Len(scopes) + 1

Tainted == {v \in Vars : tainted[v] # Clean}

(* collect_params: the first MaxVars names, without the receiver. *)
Parameters(i) ==
  LET names == file.functions[i].names \ Receivers
  IN  {v \in names : Cardinality({w \in names : w < v}) < MaxVars}

(* collect_assignments: those of the function itself with a plain target,  *)
(* the first MaxVars of them.                                              *)
Collected(i) ==
  LET own == {k \in DOMAIN file.text : file.text[k].owner = i /\ file.text[k].plain}
  IN  {k \in own : Cardinality({j \in own : j < k}) < MaxVars}

StartFunction ==
  /\ pc = "walk"
  /\ Len(scopes) < MaxFunctions /\ Len(scopes) < Len(file.functions)
  /\ tainted' = [v \in Vars |->
                   IF v \in Parameters(Current)
                     THEN [line |-> file.functions[Current].line, call |-> FALSE,
                           chain |-> <<v>>]
                     ELSE Clean]
  /\ pass' = 1 /\ next' = 1 /\ changed' = FALSE
  /\ pc' = "pass"
  /\ UNCHANGED <<file, scopes>>

EndWalk ==
  /\ pc = "walk"
  /\ ~(Len(scopes) < MaxFunctions /\ Len(scopes) < Len(file.functions))
  /\ pc' = "done"
  /\ UNCHANGED <<file, scopes, tainted, pass, next, changed>>

(* Bug: a sanitizer only protects the names in its own right-hand side     *)
(* from propagating, not a marker beside it.                               *)
OpenMarkerFirst(k) ==
  LET a == file.text[k] IN
  /\ k \in Collected(Current)
  /\ tainted[a.target] = Clean /\ Cardinality(Tainted) < MaxVars
  /\ ~a.sanitized \/ a.marker

(* The assignment is looked into: its target is not tainted yet, there is  *)
(* room for it, and it does not sanitize.                                  *)
Open(k) ==
  LET a == file.text[k] IN
  /\ k \in Collected(Current)
  /\ tainted[a.target] = Clean /\ Cardinality(Tainted) < MaxVars
  /\ ~a.sanitized

AtAssignment == pc = "pass" /\ next \in DOMAIN file.text

Skip ==
  /\ AtAssignment
  /\ \/ ~Open(next)
     \/ ~file.text[next].marker /\ file.text[next].reads \intersect Tainted = {}
  /\ next' = next + 1
  /\ UNCHANGED <<file, scopes, tainted, pass, changed, pc>>

(* The right-hand side calls for input. *)
Introduce ==
  LET a == file.text[next] IN
  /\ AtAssignment
  /\ Open(next) /\ a.marker
  /\ tainted' = [tainted EXCEPT ![a.target] =
                   [line |-> a.line, call |-> TRUE, chain |-> <<a.target>>]]
  /\ changed' = TRUE /\ next' = next + 1
  /\ UNCHANGED <<file, scopes, pass, pc>>

(* Bugs: the pass ends with the first new variable; it is not noted. *)
PropagateOnce ==
  LET a == file.text[next] IN
  /\ AtAssignment
  /\ Open(next) /\ ~a.marker
  /\ \E v \in a.reads \intersect Tainted :
       /\ \A w \in a.reads \intersect Tainted : v <= w
       /\ tainted' = [tainted EXCEPT ![a.target] =
                        [tainted[v] EXCEPT !.chain = Append(@, a.target)]]
  /\ changed' = TRUE /\ next' = Len(file.text) + 1
  /\ UNCHANGED <<file, scopes, pass, pc>>

PropagateUnnoted ==
  LET a == file.text[next] IN
  /\ AtAssignment
  /\ Open(next) /\ ~a.marker
  /\ \E v \in a.reads \intersect Tainted :
       /\ \A w \in a.reads \intersect Tainted : v <= w
       /\ tainted' = [tainted EXCEPT ![a.target] =
                        [tainted[v] EXCEPT !.chain = Append(@, a.target)]]
  /\ next' = next + 1
  /\ UNCHANGED <<file, scopes, pass, changed, pc>>

(* It names a tainted variable; the first by name hands on its origin. *)
Propagate ==
  LET a == file.text[next] IN
  /\ AtAssignment
  /\ Open(next) /\ ~a.marker
  /\ \E v \in a.reads \intersect Tainted :
       /\ \A w \in a.reads \intersect Tainted : v <= w
       /\ tainted' = [tainted EXCEPT ![a.target] =
                        [tainted[v] EXCEPT !.chain = Append(@, a.target)]]
  /\ changed' = TRUE /\ next' = next + 1
  /\ UNCHANGED <<file, scopes, pass, pc>>

AtEndOfPass == pc = "pass" /\ next > Len(file.text)

(* Bugs: no bound on the passes; `changed` is not reset in a loop on it. *)
NextPassNoBound ==
  /\ AtEndOfPass
  /\ changed
  /\ pass' = pass + 1 /\ next' = 1 /\ changed' = FALSE
  /\ UNCHANGED <<file, scopes, tainted, pc>>

NextPassNoReset ==
  /\ AtEndOfPass
  /\ changed
  /\ next' = 1
  /\ UNCHANGED <<file, scopes, tainted, pass, changed, pc>>

NextPass ==
  /\ AtEndOfPass
  /\ changed /\ pass < MaxPasses
  /\ pass' = pass + 1 /\ next' = 1 /\ changed' = FALSE
  /\ UNCHANGED <<file, scopes, tainted, pc>>

EndFunction ==
  /\ AtEndOfPass
  /\ ~changed \/ pass = MaxPasses
  /\ scopes' = Append(scopes, tainted)
  /\ pc' = "walk"
  /\ UNCHANGED <<file, tainted, pass, next, changed>>

Next ==
  \/ StartFunction \/ EndWalk
  \/ Skip \/ Introduce \/ Propagate
  \/ NextPass \/ EndFunction

Spec == Init /\ [][Next]_vars /\ WF_vars(Next)

-----------------------------------------------------------------------------
(* flow_for_sink *)

Span(i) == file.functions[i].last - file.functions[i].first

Around(line) ==
  {i \in DOMAIN scopes : file.functions[i].first <= line /\ line <= file.functions[i].last}

(* Bug: the first function around the line for the smallest. *)
OutermostScopeFor(line) ==
  {i \in Around(line) : \A j \in Around(line) : i <= j}

(* min_by_key: the smallest span, of equal ones the first. *)
ScopeFor(line) ==
  {i \in Around(line) :
     \A j \in Around(line) : Span(i) < Span(j) \/ (Span(i) = Span(j) /\ i <= j)}

(* The trace of the first tainted name in the arguments, if any. *)
FlowForSink(line, args) ==
  LET known(i)   == {v \in args : scopes[i][v] # Clean}
      answers(i) == {[variable |-> v, origin |-> scopes[i][v]] :
                       v \in {v \in known(i) : \A w \in known(i) : v <= w}}
  IN  UNION {answers(i) : i \in ScopeFor(line)}

-----------------------------------------------------------------------------
TypeOK ==
  /\ file \in File
  /\ scopes \in Seq([Vars -> Origin \union {Clean}])
  /\ Len(scopes) <= Len(file.functions)
  /\ tainted \in [Vars -> Origin \union {Clean}]
  /\ pass \in 0..MaxPasses
  /\ next \in 0..Len(file.text) + 1
  /\ changed \in BOOLEAN
  /\ pc \in {"walk", "pass", "done"}
  /\ pc = "pass" => Len(scopes) < Len(file.functions) /\ next > 0

(* A step of a value from variable v to variable w in function i. *)
Step(i, v, w) ==
  \E k \in Collected(i) :
    LET a == file.text[k] IN a.target = w /\ v \in a.reads /\ ~a.sanitized

(* Where a value comes into function i. *)
Source(i, v, origin) ==
  IF origin.call
    THEN \E k \in Collected(i) :
           LET a == file.text[k]
           IN  a.target = v /\ a.marker /\ ~a.sanitized /\ a.line = origin.line
    ELSE v \in Parameters(i) /\ origin.line = file.functions[i].line

Real(i, v, origin) ==
  LET chain == origin.chain IN
  /\ chain # <<>>
  /\ Source(i, chain[1], origin)
  /\ \A k \in 2..Len(chain) : Step(i, chain[k - 1], chain[k])
  /\ chain[Len(chain)] = v
  /\ \A j, k \in DOMAIN chain : chain[j] = chain[k] => j = k

(* "never fabricates a variable that does not textually flow": each trace  *)
(* starts at a parameter or an input call of this very function, at the    *)
(* line it reports, goes from assignment to assignment without passing a   *)
(* sanitizer or visiting a variable twice, and ends in its variable.       *)
TraceIsReal ==
  /\ \A i \in DOMAIN scopes : \A v \in Vars :
       scopes[i][v] # Clean => Real(i, v, scopes[i][v])
  /\ pc = "pass" => \A v \in Tainted : Real(Current, v, tainted[v])

(* A set of variables that nothing in function i leads out of. *)
ClosedIn(i, S) ==
  /\ Parameters(i) \subseteq S
  /\ \A k \in Collected(i) :
       LET a == file.text[k]
       IN  ~a.sanitized /\ (a.marker \/ a.reads \intersect S # {}) => a.target \in S

(* What flows, without passes and in no order: the least closed set. *)
Flowing(i) == {v \in Vars : \A S \in SUBSET Vars : ClosedIn(i, S) => v \in S}

(* A pass that found nothing, in a function with room left, has found all: *)
(* whatever the order of the assignments, the early `break` loses nothing. *)
QuietMeansExact ==
  AtEndOfPass /\ ~changed /\ Cardinality(Tainted) < MaxVars => Tainted = Flowing(Current)

(* What is at most n assignments away from a parameter or an input call. *)
Within(i) ==
  LET layer[n \in 0..MaxPasses] ==
        IF n = 0 THEN Parameters(i)
        ELSE layer[n - 1] \union
             {file.text[k].target : k \in
                {k \in Collected(i) :
                   LET a == file.text[k]
                   IN  ~a.sanitized /\ (a.marker \/ a.reads \intersect layer[n - 1] # {})}}
  IN  layer

(* "longer ones are rare and still partially traced": each pass goes at    *)
(* least one assignment further, so that a flow of up to MaxPasses         *)
(* assignments is found even if they are written in the opposite order.    *)
ShortFlowsFound ==
  AtEndOfPass /\ Cardinality(Tainted) < MaxVars => Within(Current)[pass] \subseteq Tainted

(* The functions that function i is nested in, by the tree: the least set  *)
(* with the parents of i and of its members.                               *)
Outer(i) ==
  {j \in DOMAIN file.functions :
     \A S \in SUBSET DOMAIN file.functions :
       (\A k \in S \union {i} : file.functions[k].parent \in S \union {0}) => j \in S}

Lines(i) == file.functions[i].first..file.functions[i].last

(* Function i and those around it that have the same lines. *)
Sharing(i) == {j \in Outer(i) \union {i} : Lines(i) = Lines(j)}

(* Around the line are function i and those it is nested in. *)
Innermost(i, line) == line \in Lines(i) /\ Around(line) \subseteq Outer(i) \union {i}

(* A sink with these arguments gets the first of them that is tainted in   *)
(* function i, and nothing if none is, whatever other functions know.      *)
AnsweredBy(i, line) ==
  \A v, w \in Vars :
    v <= w =>
      FlowForSink(line, {v, w}) =
        IF scopes[i][v] # Clean THEN {[variable |-> v, origin |-> scopes[i][v]]}
        ELSE IF scopes[i][w] # Clean THEN {[variable |-> w, origin |-> scopes[i][w]]}
        ELSE {}

(* Spans stand in for the nesting.  Wherever a sink of a function is, one  *)
(* that the function is nested in answers only if it has the same lines.   *)
(* Where no other lines reach, the outermost one of those with the lines   *)
(* of the function answers: the function itself, "against its own locals", *)
(* unless one around it is on the same lines.                              *)
OwnScopeAnswers ==
  pc = "done" =>
    \A i \in DOMAIN scopes : \A line \in Lines(i) :
      /\ ScopeFor(line) \intersect Outer(i) \subseteq Sharing(i)
      /\ Innermost(i, line) =>
           \E j \in Sharing(i) : Sharing(i) \intersect Outer(j) = {} /\ AnsweredBy(j, line)

(* The analysis of any file ends. *)
AnalysisEnds == <>(pc = "done")

=============================================================================
