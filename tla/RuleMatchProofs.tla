-------------------------- MODULE RuleMatchProofs --------------------------
(***************************************************************************)
(* Proofs about RuleMatch, for any syntax trees and any catalogs: the two  *)
(* walks with a stack reach every node once, the first in the order of the *)
(* text, so that aliases are last bindings and findings are exact.         *)
(***************************************************************************)
EXTENDS RuleMatch, FiniteSetTheorems, SequenceTheorems, WellFoundedInduction, TLAPS

OnStack == ToSet(stack)

StateTypes ==
  /\ file \in Files /\ catalog \in Catalogs
  /\ stack \in Seq(Nodes) /\ taken \in Nat
  /\ stack = <<>> => taken = 0
  /\ pc \in {"load", "failed"} => stack = <<>>
  /\ pc = "load" => aliases = <<>>
  /\ pc = "collect" /\ stack # <<>> => taken <= Len(Clauses(Last(stack)))
  /\ pc \notin {"load", "failed"} => Valid(catalog)
  /\ pc = "inspect" /\ stack # <<>> => taken <= Len(Rules(Last(stack)))

-----------------------------------------------------------------------------
(* The walk for imports: it is at the first node that is not done, and the *)
(* stack holds the children that are still to come of the nodes before it. *)

At == IF stack = <<>> THEN Len(file.nodes) + 1 ELSE Last(stack)

ToCome(n) ==
  n >= At /\ (n = 1 \/ \E p \in Nodes : p < At /\ n \in Below(file.nodes, p))

TextOrder ==
  pc = "collect" =>
    /\ \A i, j \in DOMAIN stack : i < j => stack[i] > stack[j]
    /\ \A n \in Nodes : n \in OnStack <=> ToCome(n)

Passed(b) == b[1] < At \/ (b[1] = At /\ b[2] <= taken)

BoundSoFar ==
  pc = "collect" =>
    \A name \in Names :
      LET passed == {b \in Bindings(name) : Passed(b)} IN
      /\ name \in DOMAIN aliases <=> passed # {}
      /\ name \in DOMAIN aliases =>
           \E b \in passed : /\ aliases[name] = TargetAt(b)
                             /\ \A c \in passed : NotAfter(c, b)

-----------------------------------------------------------------------------
(* The walk for findings goes through the text in another order.  W are    *)
(* the nodes it has not been at: those on the stack and all below them.    *)

Findings ==
  {SecurityFinding(catalog[i], n) : i \in DOMAIN catalog, n \in {n \in Nodes : IsCall(n)}}

Lists == syntax \in Seq(Nodes) /\ security \in Seq(Findings)

NothingYet == pc \in {"load", "failed", "collect"} => syntax = <<>> /\ security = <<>>

Unvisited(W) ==
  /\ W \subseteq Nodes /\ OnStack \subseteq W
  /\ 1 \in W => 1 \in OnStack
  /\ \A p \in Nodes : \A c \in Below(file.nodes, p) : p \in W <=> (c \in W /\ c \notin OnStack)

Tried(W, i, n) ==
  /\ i \in DOMAIN Rules(n)
  /\ n \notin W \/ (stack # <<>> /\ n = Last(stack) /\ i <= taken)

Reported(W) ==
  /\ \A k \in DOMAIN security :
       \E n \in Nodes : \E i \in DOMAIN Rules(n) :
         /\ Tried(W, i, n) /\ Matches(catalog[i], n)
         /\ security[k] = SecurityFinding(catalog[i], n)
  /\ \A n \in Nodes : \A i \in DOMAIN Rules(n) :
       Tried(W, i, n) /\ Matches(catalog[i], n) =>
         \E k \in DOMAIN security : security[k] = SecurityFinding(catalog[i], n)
  /\ ToSet(syntax) = {n \in Nodes \ W : file.nodes[n].error}

Inspection ==
  pc = "inspect" =>
    /\ \A i, j \in DOMAIN stack : stack[i] = stack[j] => i = j
    /\ \E W \in SUBSET Nodes : Unvisited(W) /\ Reported(W)

Inspected == pc = "done" => stack = <<>> /\ Reported({})

NoErrorTwice == \A i, j \in DOMAIN syntax : syntax[i] = syntax[j] => i = j

CollectInv == StateTypes /\ TextOrder /\ BoundSoFar /\ AliasesAreLastBindings

InspectInv ==
  Lists /\ NothingYet /\ Inspection /\ Inspected /\ NoErrorTwice /\ NoDoubleReport

IInv == CollectInv /\ InspectInv

-----------------------------------------------------------------------------
(* What the stack operations return. *)

LEMMA PushedOn ==
  ASSUME NEW S, NEW s \in Seq(S), s # <<>>, NEW t \in Seq(S)
  PROVE  /\ Front(s) \o t \in Seq(S)
         /\ Len(Front(s) \o t) = (Len(s) - 1) + Len(t)
         /\ \A i \in 1..Len(s) - 1 : (Front(s) \o t)[i] = s[i]
         /\ \A i \in 1..Len(t) : (Front(s) \o t)[(Len(s) - 1) + i] = t[i]
<1>1. Len(s) \in Nat /\ Len(s) > 0
  BY EmptySeq
<1>2. /\ Front(s) \in Seq(S) /\ Len(Front(s)) = Len(s) - 1
      /\ \A i \in 1..Len(s) - 1 : Front(s)[i] = s[i]
  <2> DEFINE f == SubSeq(s, 1, Len(s) - 1)
  <2>1. f = [i \in 1..Len(s) - 1 |-> s[i]]
    BY <1>1
  <2>2. Len(s) - 1 \in Nat /\ \A i \in 1..Len(s) - 1 : s[i] \in S
    BY <1>1
  <2> HIDE DEF f
  <2>3. f \in [1..Len(s) - 1 -> S]
    BY <2>1, <2>2
  <2>4. f \in Seq(S) /\ Len(f) = Len(s) - 1
    BY <2>2, <2>3
  <2> QED BY <2>1, <2>4 DEF Front, f
<1>3. Len(t) \in Nat
  OBVIOUS
<1> HIDE DEF Front
<1> DEFINE f == Front(s)
<1> HIDE DEF f
<1>4. /\ f \o t \in Seq(S) /\ Len(f \o t) = Len(f) + Len(t)
      /\ \A i \in 1..Len(f) + Len(t) :
           (f \o t)[i] = IF i <= Len(f) THEN f[i] ELSE t[i - Len(f)]
  BY <1>2, ConcatProperties DEF f
<1> QED BY <1>1, <1>2, <1>3, <1>4, SMTT(30) DEF f

LEMMA Reversed ==
  ASSUME NEW S, NEW t \in Seq(S)
  PROVE  /\ Reverse(t) \in Seq(S) /\ Len(Reverse(t)) = Len(t)
         /\ \A i \in 1..Len(t) : Reverse(t)[i] = t[(Len(t) - i) + 1]
<1>1. Len(t) \in Nat /\ \A i \in 1..Len(t) : t[(Len(t) - i) + 1] \in S
  BY LenProperties, ElementOfSeq
<1>2. Reverse(t) \in [1..Len(t) -> S]
  BY <1>1 DEF Reverse
<1> QED BY <1>1, <1>2 DEF Reverse

LEMMA Elements ==
  ASSUME NEW S, NEW s \in Seq(S)
  PROVE  ToSet(s) = {s[i] : i \in 1..Len(s)} /\ ToSet(s) \subseteq S
BY LenProperties, ElementOfSeq DEF ToSet

-----------------------------------------------------------------------------
(* What a tree is. *)

Child(c, p) == c \in Below(file.nodes, p)

LEMMA NodesAre ==
  ASSUME StateTypes
  PROVE  /\ Len(file.nodes) \in Nat /\ Nodes = 1..Len(file.nodes) /\ 1 \in Nodes
         /\ Tree(file.nodes)
         /\ \A n \in Nodes : file.nodes[n] \in Node
<1>1. file.nodes \in Seq(Node) /\ file.nodes # <<>> /\ Tree(file.nodes)
  BY ConstantsAssumption DEF StateTypes
<1>2. Len(file.nodes) \in Nat \ {0}
  BY <1>1, EmptySeq
<1>3. DOMAIN file.nodes = 1..Len(file.nodes) /\ \A n \in DOMAIN file.nodes : file.nodes[n] \in Node
  BY <1>1, LenProperties, ElementOfSeq
<1> QED BY <1>1, <1>2, <1>3 DEF Nodes

LEMMA ChildrenAre ==
  ASSUME StateTypes, NEW n \in Nodes
  PROVE  /\ Children(n) \in Seq(Nodes)
         /\ Below(file.nodes, n) = {Children(n)[i] : i \in 1..Len(Children(n))}
         /\ \A c \in Below(file.nodes, n) : c \in Nodes /\ n < c
         /\ \A i, j \in 1..Len(Children(n)) : i < j => Children(n)[i] < Children(n)[j]
<1> DEFINE s == Children(n)
<1>1. /\ Nodes = 1..Len(file.nodes) /\ Len(file.nodes) \in Nat
      /\ Tree(file.nodes) /\ file.nodes[n] \in Node
  BY NodesAre
<1>2. s \in Seq(Nat)
  BY <1>1 DEF Node, Children
<1>3. Len(s) \in Nat /\ DOMAIN s = 1..Len(s)
  BY <1>2, LenProperties
<1>4. Below(file.nodes, n) = {s[i] : i \in 1..Len(s)}
  BY <1>3 DEF Below, ToSet, Children
<1>5. \A c \in Below(file.nodes, n) : c \in Nodes /\ n < c
  <2>1. Below(file.nodes, n) \subseteq n + 1..Len(file.nodes)
    BY <1>1 DEF Tree, Nodes
  <2> QED BY <1>1, <2>1
<1>6. \A i, j \in 1..Len(s) : i < j => s[i] < s[j]
  BY <1>1, <1>3 DEF Tree, Nodes, Children
<1> HIDE DEF s
<1>7. s \in [1..Len(s) -> Nodes]
  <2>1. s = [i \in 1..Len(s) |-> s[i]]
    BY <1>2
  <2>2. \A i \in 1..Len(s) : s[i] \in Nodes
    BY <1>4, <1>5
  <2> QED BY <2>1, <2>2
<1>8. s \in Seq(Nodes)
  BY <1>3, <1>7
<1> QED BY <1>4, <1>5, <1>6, <1>8 DEF s

LEMMA OneParent ==
  ASSUME StateTypes
  PROVE  /\ \A n \in Nodes \ {1} : \E p \in Nodes : Child(n, p) /\ p < n
         /\ \A p, q \in Nodes : \A c \in Nodes : Child(c, p) /\ Child(c, q) => p = q
         /\ \A p \in Nodes : ~Child(1, p)
<1>1. Tree(file.nodes) /\ Nodes = 1..Len(file.nodes) /\ Len(file.nodes) \in Nat
  BY NodesAre
<1>2. \A n \in Nodes \ {1} : \E p \in Nodes : \A m \in Nodes : Child(n, m) <=> m = p
  BY <1>1 DEF Tree, Nodes, Child
<1>3. \A p \in Nodes : \A c \in Nodes : Child(c, p) => p < c
  BY ChildrenAre DEF Child
<1>4. \A p \in Nodes : ~Child(1, p)
  <2>1. \A p \in Nodes : Child(1, p) => 1 \in Nodes /\ p < 1
    BY ChildrenAre DEF Child
  <2> QED BY <1>1, <2>1
<1> QED BY <1>2, <1>3, <1>4

LEMMA OfNode ==
  ASSUME StateTypes, NEW n \in Nodes
  PROVE  /\ Clauses(n) \in Seq(Clause) /\ Len(Clauses(n)) \in Nat
         /\ DOMAIN Clauses(n) = 1..Len(Clauses(n))
         /\ Rules(n) \in Seq(Rule) /\ Len(Rules(n)) \in Nat
         /\ DOMAIN Rules(n) = 1..Len(Rules(n))
<1>1. file.nodes[n].clauses \in Seq(Clause)
  BY NodesAre DEF Node
<1>2. catalog \in Seq(Rule)
  BY ConstantsAssumption DEF StateTypes
<1>3. Clauses(n) \in Seq(Clause) /\ Rules(n) \in Seq(Rule)
  <2>1. <<>> \in Seq(Clause) /\ <<>> \in Seq(Rule)
    OBVIOUS
  <2> QED BY <1>1, <1>2, <2>1, Zenon DEF Clauses, Rules
<1> QED BY <1>3, LenProperties

LEMMA Top ==
  ASSUME NEW S, NEW s \in Seq(S), s # <<>>
  PROVE  /\ Len(s) \in Nat /\ Len(s) > 0 /\ DOMAIN s = 1..Len(s)
         /\ Last(s) = s[Len(s)] /\ Last(s) \in S
<1>1. Len(s) \in Nat /\ Len(s) > 0
  BY EmptySeq
<1> QED BY <1>1, ElementOfSeq, LenProperties DEF Last

(* What both walks do when they leave a node. *)
LEMMA LeaveNode ==
  ASSUME StateTypes, stack # <<>>
  PROVE  /\ Front(stack) \o Children(Last(stack)) \in Seq(Nodes)
         /\ Front(stack) \o Reverse(Children(Last(stack))) \in Seq(Nodes)
<1>1. stack \in Seq(Nodes) /\ Last(stack) \in Nodes
  BY Top DEF StateTypes
<1>2. Children(Last(stack)) \in Seq(Nodes)
  BY <1>1, ChildrenAre
<1>3. Reverse(Children(Last(stack))) \in Seq(Nodes)
  BY <1>2, Reversed
<1> QED BY <1>1, <1>2, <1>3, PushedOn

LEMMA Start ==
  ASSUME StateTypes
  PROVE  <<1>> \in Seq(Nodes) /\ Last(<<1>>) = 1 /\ <<1>> # <<>>
BY NodesAre DEF Last

LEMMA Popped ==
  ASSUME NEW S, NEW s \in Seq(S), s # <<>>, NEW t \in Seq(S),
         \A i, j \in DOMAIN s : s[i] = s[j] => i = j
  PROVE  /\ ToSet(Front(s) \o t) = (ToSet(s) \ {Last(s)}) \union ToSet(t)
         /\ ToSet(Reverse(t)) = ToSet(t)
<1> DEFINE f == Front(s) \o t
<1>1. Len(s) \in Nat /\ Len(s) > 0 /\ Last(s) = s[Len(s)] /\ DOMAIN s = 1..Len(s)
  BY Top
<1>2. Len(t) \in Nat /\ ToSet(t) = {t[i] : i \in 1..Len(t)}
  BY LenProperties, Elements
<1>3. /\ f \in Seq(S) /\ Len(f) = (Len(s) - 1) + Len(t)
      /\ \A i \in 1..Len(s) - 1 : f[i] = s[i]
      /\ \A i \in 1..Len(t) : f[(Len(s) - 1) + i] = t[i]
  BY PushedOn, SMTT(30)
<1> HIDE DEF f
<1>4. ToSet(f) = {f[i] : i \in 1..Len(f)} /\ ToSet(s) = {s[i] : i \in 1..Len(s)}
  BY <1>3, Elements
<1>5. \A i \in 1..Len(s) - 1 : f[i] \in ToSet(s) \ {Last(s)}
  <2> TAKE i \in 1..Len(s) - 1
  <2> DEFINE l == Len(s)
  <2>1. l \in Nat /\ l > 0 /\ i \in 1..l - 1
    BY <1>1
  <2> HIDE DEF l
  <2>2. i \in 1..l /\ l \in 1..l /\ i # l
    BY <2>1
  <2>3. f[i] = s[i] /\ s[i] # s[l]
    BY <1>1, <1>3, <2>2 DEF l
  <2> QED BY <1>1, <1>4, <2>2, <2>3 DEF l
<1>6. \A i \in 1..Len(f) : i \in 1..Len(s) - 1 \/ f[i] \in ToSet(t)
  <2> TAKE i \in 1..Len(f)
  <2>1. CASE i > Len(s) - 1
    <3>1. i - (Len(s) - 1) \in 1..Len(t) /\ (Len(s) - 1) + (i - (Len(s) - 1)) = i
      BY <1>1, <1>2, <1>3, <2>1
    <3> QED BY <1>2, <1>3, <3>1
  <2> QED BY <1>1, <2>1
<1>7. \A x \in ToSet(s) \ {Last(s)} : x \in ToSet(f)
  <2> TAKE x \in ToSet(s) \ {Last(s)}
  <2>1. PICK i \in 1..Len(s) : x = s[i]
    BY <1>4
  <2>2. i \in 1..Len(s) - 1 /\ i \in 1..Len(f)
    BY <1>1, <1>2, <1>3, <2>1
  <2> QED BY <1>3, <1>4, <2>1, <2>2
<1>8. \A x \in ToSet(t) : x \in ToSet(f)
  <2> TAKE x \in ToSet(t)
  <2>1. PICK i \in 1..Len(t) : x = t[i]
    BY <1>2
  <2>2. (Len(s) - 1) + i \in 1..Len(f)
    BY <1>1, <1>2, <1>3
  <2> QED BY <1>3, <1>4, <2>1, <2>2
<1>9. ToSet(f) = (ToSet(s) \ {Last(s)}) \union ToSet(t)
  BY <1>4, <1>5, <1>6, <1>7, <1>8, ZenonT(30)
<1>10. ToSet(Reverse(t)) = ToSet(t)
  <2>1. /\ Reverse(t) \in Seq(S) /\ Len(Reverse(t)) = Len(t)
        /\ \A i \in 1..Len(t) : Reverse(t)[i] = t[(Len(t) - i) + 1]
    BY Reversed
  <2>2. ToSet(Reverse(t)) = {Reverse(t)[i] : i \in 1..Len(t)}
    BY <2>1, Elements
  <2>3. \A i \in 1..Len(t) : (Len(t) - i) + 1 \in 1..Len(t)
    BY <1>2
  <2>4. \A x \in ToSet(t) : x \in ToSet(Reverse(t))
    <3> TAKE x \in ToSet(t)
    <3>1. PICK i \in 1..Len(t) : x = t[i]
      BY <1>2
    <3> DEFINE j == (Len(t) - i) + 1
    <3>2. j \in 1..Len(t) /\ (Len(t) - j) + 1 = i
      BY <1>2
    <3> HIDE DEF j
    <3>3. Reverse(t)[j] = x
      BY <2>1, <3>1, <3>2
    <3> QED BY <2>1, <2>2, <3>2, <3>3
  <2>5. \A x \in ToSet(Reverse(t)) : x \in ToSet(t)
    BY <1>2, <2>1, <2>2, <2>3, SMTT(30)
  <2> QED BY <2>4, <2>5
<1> QED BY <1>9, <1>10 DEF f

-----------------------------------------------------------------------------
LEMMA TypesStep ==
  ASSUME StateTypes, [Next]_vars
  PROVE  StateTypes'
<1> USE DEF StateTypes
<1>1. CASE LoadAstRules
  <2>1. CASE Valid(catalog) /\ pc' = "collect" /\ stack' = <<1>>
    <3>1. stack' \in Seq(Nodes) /\ Last(stack') \in Nodes /\ stack' # <<>>
      BY <2>1, Start, NodesAre
    <3>2. Len(Clauses(Last(stack'))) \in Nat
      BY <3>1, OfNode
    <3> QED BY <1>1, <2>1, <3>1, <3>2 DEF LoadAstRules, Nodes, Clauses, Importing
  <2> QED BY <1>1, <2>1 DEF LoadAstRules, Nodes
<1>2. CASE BindClause
  <2>1. Last(stack) \in Nodes
    BY <1>2, Top DEF BindClause
  <2>2. Len(Clauses(Last(stack))) \in Nat
    BY <2>1, OfNode
  <2> QED BY <1>2, <2>2 DEF BindClause, Nodes, Clauses, Importing
<1>3. CASE Collect
  <2>1. stack' \in Seq(Nodes)
    BY <1>3, LeaveNode DEF Collect
  <2>2. stack' # <<>> => Len(Clauses(Last(stack'))) \in Nat
    BY <2>1, Top, OfNode
  <2> QED BY <1>3, <2>1, <2>2 DEF Collect, Nodes, Clauses, Importing
<1>4. CASE StartInspecting
  <2>1. stack' \in Seq(Nodes) /\ Last(stack') \in Nodes /\ stack' # <<>>
    BY <1>4, Start, NodesAre DEF StartInspecting
  <2>2. Len(Rules(Last(stack'))) \in Nat
    BY <2>1, OfNode
  <2> QED BY <1>4, <2>1, <2>2 DEF StartInspecting, Nodes, Rules, IsCall
<1>5. CASE TryRule
  <2>1. Last(stack) \in Nodes
    BY <1>5, Top DEF TryRule
  <2>2. Len(Rules(Last(stack))) \in Nat
    BY <2>1, OfNode
  <2> QED BY <1>5, <2>2 DEF TryRule, Nodes, Rules, IsCall
<1>6. CASE InspectNode
  <2>1. stack' \in Seq(Nodes)
    BY <1>6, LeaveNode DEF InspectNode
  <2>2. stack' # <<>> => Len(Rules(Last(stack'))) \in Nat
    BY <2>1, Top, OfNode
  <2> QED BY <1>6, <2>1, <2>2 DEF InspectNode, Nodes, Rules, IsCall
<1>7. CASE EndFile
  BY <1>7 DEF EndFile, Nodes
<1>8. CASE UNCHANGED vars
  BY <1>8 DEF vars, Nodes, Rules, IsCall, Clauses, Importing
<1> QED BY <1>1, <1>2, <1>3, <1>4, <1>5, <1>6, <1>7, <1>8 DEF Next

-----------------------------------------------------------------------------
(* The walk for imports goes from a node to the next one of the text. *)

LEMMA CollectNext ==
  ASSUME StateTypes, TextOrder, Collect
  PROVE  At = Last(stack) /\ At' = At + 1 /\ TextOrder'
<1> DEFINE n == Last(stack)
           s == Front(stack) \o Reverse(Children(n))
           L == Len(stack) - 1
           k == Len(Children(n))
<1>1. /\ pc = "collect" /\ stack # <<>> /\ stack' = s /\ file' = file
  BY DEF Collect
<1>2. /\ stack \in Seq(Nodes) /\ n \in Nodes /\ At = n
      /\ Len(stack) \in Nat /\ Len(stack) > 0 /\ L \in Nat
      /\ DOMAIN stack = 1..Len(stack) /\ n = stack[Len(stack)]
      /\ \A i \in 1..Len(stack) : stack[i] \in Nodes
  BY <1>1, Top, ElementOfSeq DEF StateTypes, At
<1>3. /\ Nodes = 1..Len(file.nodes) /\ Len(file.nodes) \in Nat /\ Tree(file.nodes)
  BY NodesAre
<1>4. /\ \A i, j \in 1..Len(stack) : i < j => stack[i] > stack[j]
      /\ \A m \in Nodes : m \in OnStack <=> ToCome(m)
  BY <1>1, <1>2 DEF TextOrder
<1>5. \A i, j \in 1..Len(stack) : stack[i] = stack[j] => i = j
  BY <1>2, <1>3, <1>4
<1>6. /\ Children(n) \in Seq(Nodes) /\ k \in Nat
      /\ Below(file.nodes, n) = {Children(n)[i] : i \in 1..k}
      /\ \A c \in Below(file.nodes, n) : c \in Nodes /\ n < c
      /\ \A i, j \in 1..k : i < j => Children(n)[i] < Children(n)[j]
  BY <1>2, ChildrenAre, LenProperties
<1>7. /\ Reverse(Children(n)) \in Seq(Nodes) /\ Len(Reverse(Children(n))) = k
      /\ \A i \in 1..k : Reverse(Children(n))[i] = Children(n)[(k - i) + 1]
  BY <1>6, Reversed
<1>8. /\ s \in Seq(Nodes) /\ Len(s) = L + k
      /\ \A i \in 1..L : s[i] = stack[i]
      /\ \A i \in 1..k : s[L + i] = Reverse(Children(n))[i]
  <2> DEFINE r == Reverse(Children(n))
  <2>1. r \in Seq(Nodes) /\ Len(r) = k
    BY <1>7
  <2> HIDE DEF r, k
  <2>2. /\ Front(stack) \o r \in Seq(Nodes)
        /\ Len(Front(stack) \o r) = L + Len(r)
        /\ \A i \in 1..L : (Front(stack) \o r)[i] = stack[i]
        /\ \A i \in 1..Len(r) : (Front(stack) \o r)[L + i] = r[i]
    <3>1. stack \in Seq(Nodes) /\ stack # <<>> /\ r \in Seq(Nodes)
      BY <1>1, <1>2, <2>1
    <3> QED BY ONLY <3>1, PushedOn DEF L
  <2> QED BY <2>1, <2>2 DEF r
<1>9. ToSet(s) = (OnStack \ {n}) \union Below(file.nodes, n)
  <2> HIDE DEF s
  <2>1. \A i, j \in DOMAIN stack : stack[i] = stack[j] => i = j
    BY <1>2, <1>5
  <2>2. ToSet(s) = (ToSet(stack) \ {n}) \union ToSet(Reverse(Children(n)))
    <3> DEFINE t == Reverse(Children(n))
    <3>1. /\ stack \in Seq(Nodes) /\ stack # <<>> /\ t \in Seq(Nodes)
          /\ n = Last(stack) /\ s = Front(stack) \o t
      BY <1>1, <1>2, <1>7 DEF s
    <3> HIDE DEF n, t
    <3>2. ToSet(Front(stack) \o t) = (ToSet(stack) \ {Last(stack)}) \union ToSet(t)
      BY ONLY <3>1, <2>1, Popped
    <3> QED BY <3>1, <3>2 DEF t
  <2>3. ToSet(Reverse(Children(n))) = ToSet(Children(n))
    BY <1>1, <1>2, <1>6, <2>1, Popped, Zenon
  <2> QED BY <2>2, <2>3, Zenon DEF OnStack, Below, Children
<1> HIDE DEF n, s, L, k
<1>10. \A m \in OnStack \ {n} : \A c \in Below(file.nodes, n) : c < m /\ n < m
  <2> TAKE m \in OnStack \ {n}
  <2> TAKE c \in Below(file.nodes, n)
  <2>1. m \in Nodes /\ ToCome(m)
    BY <1>2, <1>4, Elements DEF OnStack, StateTypes
  <2>2. m > n /\ m # 1
    BY <1>2, <1>3, <2>1 DEF ToCome
  <2>3. PICK p \in Nodes : p < n /\ m \in Below(file.nodes, p)
    BY <1>2, <2>1, <2>2 DEF ToCome
  <2> QED BY <1>2, <1>3, <2>2, <2>3 DEF Tree, Nodes
<1>11. \A i, j \in 1..L + k : i < j => s[i] > s[j]
  <2> SUFFICES ASSUME NEW i \in 1..L + k, NEW j \in 1..L + k, i < j
               PROVE  s[i] > s[j]
    OBVIOUS
  <2>1. \A x \in 1..L : x \in 1..Len(stack) /\ s[x] = stack[x] /\ stack[x] # n
    <3>1. Len(stack) = L + 1
      BY <1>2 DEF L
    <3>2. \A x \in 1..L : x \in 1..L + 1 /\ L + 1 \in 1..L + 1 /\ x # L + 1
      BY <1>2
    <3> QED BY <1>2, <1>5, <1>8, <3>1, <3>2
  <2>2. \A x \in 1..L : s[x] \in OnStack \ {n}
    BY <1>2, <2>1 DEF OnStack, ToSet
  <2>3. \A x \in L + 1..L + k : /\ x - L \in 1..k /\ (k - (x - L)) + 1 \in 1..k
                                /\ s[x] = Children(n)[(k - (x - L)) + 1]
    <3> TAKE x \in L + 1..L + k
    <3>1. x - L \in 1..k /\ (k - (x - L)) + 1 \in 1..k /\ L + (x - L) = x
      BY <1>2, <1>6, SMTT(30)
    <3> QED BY <1>7, <1>8, <3>1
  <2>4. CASE j <= L
    BY <1>2, <1>4, <1>6, <2>1, <2>4
  <2>5. CASE i <= L /\ j > L
    <3>1. s[i] \in OnStack \ {n} /\ s[j] \in Below(file.nodes, n)
      BY <1>2, <1>6, <2>2, <2>3, <2>5
    <3>2. s[j] < s[i]
      BY <1>10, <3>1
    <3>3. s[i] \in Nodes /\ s[j] \in Nodes
      BY <1>2, <1>6, <2>1, <2>5, <3>1
    <3> QED BY <1>3, <3>2, <3>3
  <2>6. CASE i > L
    <3> DEFINE a == (k - (i - L)) + 1
               b == (k - (j - L)) + 1
    <3>1. a \in 1..k /\ b \in 1..k /\ b < a /\ s[i] = Children(n)[a] /\ s[j] = Children(n)[b]
      BY <1>2, <1>6, <2>3, <2>6
    <3> HIDE DEF a, b
    <3>2. Children(n)[b] < Children(n)[a] /\ Children(n)[b] \in Nodes /\ Children(n)[a] \in Nodes
      BY <1>6, <3>1
    <3> QED BY <1>3, <3>1, <3>2
  <2> QED BY <1>2, <1>6, <2>4, <2>5, <2>6
<1>12. \A m \in Nodes : m \in ToSet(s) <=>
         m >= n + 1 /\ (m = 1 \/ \E p \in Nodes : p < n + 1 /\ m \in Below(file.nodes, p))
  <2> TAKE m \in Nodes
  <2>1. m \in OnStack <=> m >= n /\ (m = 1 \/ \E p \in Nodes : p < n /\ m \in Below(file.nodes, p))
    BY <1>2, <1>4 DEF ToCome
  <2>2. \A p \in Nodes : p < n + 1 <=> (p < n \/ p = n)
    BY <1>2, <1>3
  <2>3. m # 1 => (m >= n + 1 <=> m >= n /\ m # n)
    BY <1>2, <1>3
  <2>4. m = 1 => (m >= n + 1 <=> FALSE) /\ (m >= n => m = n)
    BY <1>2, <1>3
  <2>5. m \in Below(file.nodes, n) => m >= n + 1
    <3>1. n \in Nat /\ m \in Nat
      BY <1>2, <1>3
    <3>2. m \in Below(file.nodes, n) => n < m
      BY <1>6
    <3> QED BY <3>1, <3>2
  <2>6. m = 1 => m \notin Below(file.nodes, n)
    BY <1>2, OneParent DEF Child
  <2> QED BY <1>2, <1>9, <2>1, <2>2, <2>3, <2>4, <2>5, <2>6
<1>13. n + 1 \in Nodes => n + 1 \in ToSet(s)
  <2> SUFFICES ASSUME n + 1 \in Nodes
               PROVE  n + 1 \in ToSet(s)
    OBVIOUS
  <2>1. n + 1 \in Nodes \ {1}
    BY <1>2, <1>3
  <2>2. PICK p \in Nodes : Child(n + 1, p) /\ p < n + 1
    BY <2>1, OneParent
  <2> QED BY <1>2, <1>3, <1>12, <2>1, <2>2 DEF Child
<1>14. At' = n + 1
  <2>1. At' = IF s = <<>> THEN Len(file.nodes) + 1 ELSE Last(s)
    BY <1>1 DEF At
  <2>2. CASE s = <<>>
    <3>1. Len(s) = 0 /\ ToSet(s) = {s[i] : i \in 1..Len(s)}
      <4>1. ToSet(s) = {s[i] : i \in 1..Len(s)}
        BY <1>8, Elements
      <4> QED BY <2>2, <4>1
    <3>2. n + 1 \notin Nodes
      BY <1>13, <3>1
    <3> QED BY <1>2, <1>3, <2>1, <2>2, <3>2
  <2>3. CASE s # <<>>
    <3>1. Len(s) \in Nat /\ Len(s) > 0 /\ Last(s) = s[Len(s)] /\ Last(s) \in Nodes
      BY <1>8, <2>3, Top
    <3>2. ToSet(s) = {s[i] : i \in 1..Len(s)}
      BY <1>8, Elements
    <3>3. Last(s) >= n + 1
      BY <1>12, <3>1, <3>2
    <3>4. n + 1 \in Nodes
      BY <1>2, <1>3, <3>1, <3>3
    <3>5. PICK i \in 1..Len(s) : s[i] = n + 1
      BY <1>13, <3>2, <3>4
    <3>6. i = Len(s) \/ s[i] > s[Len(s)]
      BY <1>8, <1>11, <3>1
    <3> QED BY <1>2, <1>3, <2>1, <2>3, <3>1, <3>3, <3>5, <3>6
  <2> QED BY <2>2, <2>3
<1>15. TextOrder'
  <2>1. DOMAIN s = 1..L + k
    BY <1>8, LenProperties
  <2>2. \A i, j \in DOMAIN stack' : i < j => stack'[i] > stack'[j]
    BY <1>1, <1>11, <2>1
  <2>3. Nodes' = Nodes /\ OnStack' = ToSet(s)
    BY <1>1 DEF Nodes, OnStack
  <2>4. \A m \in Nodes : m \in OnStack' <=> ToCome(m)'
    BY <1>1, <1>12, <1>14, <2>3 DEF ToCome
  <2> QED BY <2>2, <2>3, <2>4 DEF TextOrder
<1> QED BY <1>2, <1>14, <1>15 DEF n

-----------------------------------------------------------------------------
(* What the walk has passed is bound. *)

LEMMA SameText ==
  ASSUME file' = file
  PROVE  /\ Nodes' = Nodes
         /\ \A name : Bindings(name)' = Bindings(name)
         /\ \A b : TargetAt(b)' = TargetAt(b)
BY DEF Nodes, Bindings, Clauses, Importing, Binds, Target, Local, TargetAt

LEMMA BindingsAre ==
  ASSUME StateTypes, NEW name
  PROVE  /\ \A b \in Bindings(name) :
              /\ b = <<b[1], b[2]>> /\ b[1] \in Nodes
              /\ b[2] \in 1..Len(Clauses(b[1])) /\ Len(Clauses(b[1])) \in Nat
         /\ \A n \in Nodes : \A i \in 1..Len(Clauses(n)) :
              <<n, i>> \in Bindings(name) <=>
                Binds(file.nodes[n], Clauses(n)[i]) /\ Local(Clauses(n)[i]) = name
<1>1. \A n \in Nodes : DOMAIN Clauses(n) = 1..Len(Clauses(n)) /\ Len(Clauses(n)) \in Nat
  BY OfNode
<1>2. \A b \in Bindings(name) : /\ b = <<b[1], b[2]>> /\ b[1] \in Nodes
                                /\ b[2] \in DOMAIN Clauses(b[1])
  BY DEF Bindings
<1>3. \A n \in Nodes : \A i \in DOMAIN Clauses(n) :
        <<n, i>> \in Bindings(name) <=>
          Binds(file.nodes[n], Clauses(n)[i]) /\ Local(Clauses(n)[i]) = name
  BY DEF Bindings
<1> QED BY <1>1, <1>2, <1>3

LEMMA NotAfterIsOrder ==
  ASSUME StateTypes, NEW name, NEW b \in Bindings(name), NEW c \in Bindings(name)
  PROVE  NotAfter(b, c) /\ NotAfter(c, b) => b = c
<1>1. /\ b = <<b[1], b[2]>> /\ c = <<c[1], c[2]>>
      /\ b[1] \in Nat /\ b[2] \in Nat /\ c[1] \in Nat /\ c[2] \in Nat
  BY BindingsAre, NodesAre
<1> DEFINE b1 == b[1]
           b2 == b[2]
           c1 == c[1]
           c2 == c[2]
<1> HIDE DEF b1, b2, c1, c2
<1>2. NotAfter(b, c) /\ NotAfter(c, b) => b1 = c1 /\ b2 = c2
  BY <1>1 DEF NotAfter, b1, b2, c1, c2
<1> QED BY <1>1, <1>2 DEF b1, b2, c1, c2

LEMMA BoundAtClause ==
  ASSUME StateTypes, BoundSoFar, BindClause
  PROVE  BoundSoFar'
<1> DEFINE n == Last(stack)
           c == Clauses(n)[taken + 1]
           b0 == <<n, taken + 1>>
<1>1. /\ pc = "collect" /\ stack # <<>> /\ taken < Len(Clauses(n))
      /\ aliases' = IF Binds(file.nodes[n], c) THEN Insert(aliases, Local(c), Target(file.nodes[n], c))
                    ELSE aliases
      /\ taken' = taken + 1 /\ file' = file /\ stack' = stack
  BY DEF BindClause
<1>2. n \in Nodes /\ taken \in Nat /\ At = n /\ At' = n
  BY <1>1, Top DEF StateTypes, At
<1>3. Len(Clauses(n)) \in Nat /\ n \in Nat /\ \A m \in Nodes : m \in Nat
  BY <1>2, OfNode, NodesAre
<1>4. taken + 1 \in 1..Len(Clauses(n))
  BY <1>1, <1>2, <1>3
<1> SUFFICES ASSUME NEW name \in Names
             PROVE  LET passed == {b \in Bindings(name) : Passed(b)'} IN
                    /\ name \in DOMAIN aliases' <=> passed # {}
                    /\ name \in DOMAIN aliases' =>
                         \E b \in passed : /\ aliases'[name] = TargetAt(b)
                                           /\ \A d \in passed : NotAfter(d, b)
  BY <1>1, SameText DEF BoundSoFar
<1> DEFINE before == {b \in Bindings(name) : Passed(b)}
           after == {b \in Bindings(name) : Passed(b)'}
<1>5. /\ name \in DOMAIN aliases <=> before # {}
      /\ name \in DOMAIN aliases =>
           \E b \in before : aliases[name] = TargetAt(b) /\ \A d \in before : NotAfter(d, b)
  BY <1>1 DEF BoundSoFar
<1>6. /\ \A b \in Bindings(name) : b = <<b[1], b[2]>> /\ b[1] \in Nodes /\ b[2] \in Nat
      /\ b0 \in Bindings(name) <=> Binds(file.nodes[n], c) /\ Local(c) = name
  BY <1>2, <1>3, <1>4, BindingsAre
<1>7. \A b \in Bindings(name) : Passed(b)' <=> Passed(b) \/ b = b0
  <2> TAKE b \in Bindings(name)
  <2>1. b[1] \in Nat /\ b[2] \in Nat /\ b = <<b[1], b[2]>>
    BY <1>3, <1>6
  <2>2. b = b0 <=> b[1] = n /\ b[2] = taken + 1
    BY <2>1
  <2>3. Passed(b)' <=> b[1] < n \/ (b[1] = n /\ b[2] <= taken + 1)
    BY <1>1, <1>2 DEF Passed
  <2>4. Passed(b) <=> b[1] < n \/ (b[1] = n /\ b[2] <= taken)
    BY <1>1, <1>2 DEF Passed
  <2> HIDE DEF n, b0
  <2>5. b[2] <= taken + 1 <=> b[2] <= taken \/ b[2] = taken + 1
    BY <1>2, <2>1
  <2> QED BY <2>2, <2>3, <2>4, <2>5
<1>8. CASE Binds(file.nodes[n], c) /\ Local(c) = name
  <2>1. /\ name \in DOMAIN aliases' /\ aliases'[name] = Target(file.nodes[n], c)
    BY <1>1, <1>8, Zenon DEF Insert
  <2>2. b0 \in after /\ TargetAt(b0) = Target(file.nodes[n], c)
    BY <1>6, <1>7, <1>8 DEF TargetAt
  <2>3. \A d \in after : NotAfter(d, b0)
    <3> TAKE d \in after
    <3>1. d[1] \in Nat /\ d[2] \in Nat /\ (d[1] < n \/ (d[1] = n /\ d[2] <= taken + 1))
      BY <1>1, <1>2, <1>3, <1>6 DEF Passed
    <3> QED BY <1>2, <3>1 DEF NotAfter
  <2> HIDE DEF after, b0
  <2> QED BY <2>1, <2>2, <2>3 DEF after
<1>9. CASE ~(Binds(file.nodes[n], c) /\ Local(c) = name)
  <2>1. after = before
    BY <1>6, <1>7, <1>9
  <2>2. /\ name \in DOMAIN aliases' <=> name \in DOMAIN aliases
        /\ name \in DOMAIN aliases => aliases'[name] = aliases[name]
    BY <1>1, <1>9, Zenon DEF Insert
  <2> HIDE DEF after, before
  <2> QED BY <1>5, <2>1, <2>2 DEF after
<1> QED BY <1>8, <1>9

LEMMA BoundAtNode ==
  ASSUME StateTypes, TextOrder, BoundSoFar, Collect
  PROVE  BoundSoFar'
<1> DEFINE n == Last(stack)
<1>1. /\ pc = "collect" /\ stack # <<>> /\ taken = Len(Clauses(n)) /\ taken' = 0
      /\ file' = file /\ aliases' = aliases
  BY DEF Collect
<1>2. n \in Nodes /\ At = n /\ At' = n + 1
  BY <1>1, Top, CollectNext DEF StateTypes
<1>3. \A m \in Nodes : m \in Nat
  BY NodesAre
<1>4. \A name : \A b \in Bindings(name) : Passed(b)' <=> Passed(b)
  <2> TAKE name
  <2> TAKE b \in Bindings(name)
  <2>1. b[1] \in Nat /\ b[2] \in 1..Len(Clauses(b[1])) /\ Len(Clauses(b[1])) \in Nat
    BY <1>3, BindingsAre
  <2>2. Passed(b)' <=> b[1] < n + 1 \/ (b[1] = n + 1 /\ b[2] <= 0)
    BY <1>1, <1>2 DEF Passed
  <2>3. Passed(b) <=> b[1] < n \/ (b[1] = n /\ b[2] <= taken)
    BY <1>1, <1>2 DEF Passed
  <2> HIDE DEF n
  <2>4. b[1] = n => b[2] <= taken
    BY <1>1, <2>1
  <2>5. ~(b[2] <= 0)
    BY <2>1
  <2>6. b[1] < n + 1 <=> b[1] < n \/ b[1] = n
    BY <1>2, <1>3, <2>1
  <2> QED BY <2>2, <2>3, <2>4, <2>5, <2>6
<1>5. \A name : {b \in Bindings(name) : Passed(b)'} = {b \in Bindings(name) : Passed(b)}
  BY <1>4
<1> QED BY <1>1, <1>5, SameText DEF BoundSoFar

LEMMA BoundAtStart ==
  ASSUME StateTypes, LoadAstRules
  PROVE  TextOrder' /\ BoundSoFar'
<1> SUFFICES ASSUME pc' = "collect"
             PROVE  TextOrder' /\ BoundSoFar'
  BY DEF TextOrder, BoundSoFar
<1>1. stack' = <<1>> /\ taken' = 0 /\ aliases' = <<>> /\ file' = file
  BY DEF LoadAstRules, StateTypes
<1>2. At' = 1 /\ ToSet(stack') = {1}
  BY <1>1 DEF At, Last, ToSet
<1>3. \A m \in Nodes : m \in Nat /\ m >= 1
  BY NodesAre
<1>4. TextOrder'
  <2>1. \A m \in Nodes : m \in OnStack' <=> ToCome(m)'
    BY <1>1, <1>2, <1>3 DEF OnStack, ToCome, Nodes
  <2> QED BY <1>1, <2>1 DEF TextOrder, Nodes
<1>5. \A name : \A b \in Bindings(name) : ~Passed(b)'
  <2> TAKE name
  <2> TAKE b \in Bindings(name)
  <2>1. b[1] \in Nat /\ b[1] >= 1 /\ b[2] \in Nat /\ b[2] >= 1
    BY <1>3, BindingsAre
  <2>2. Passed(b)' <=> b[1] < 1 \/ (b[1] = 1 /\ b[2] <= 0)
    BY <1>1, <1>2 DEF Passed
  <2> QED BY <2>1, <2>2
<1>6. DOMAIN aliases' = {}
  BY <1>1
<1> QED BY <1>1, <1>4, <1>5, <1>6, SameText DEF BoundSoFar

(* The walk ends behind the last node: everything has been passed. *)
LEMMA AllPassed ==
  ASSUME StateTypes, BoundSoFar, StartInspecting
  PROVE  AliasesAreLastBindings'
<1>1. pc = "collect" /\ stack = <<>> /\ file' = file /\ aliases' = aliases
  BY DEF StartInspecting
<1>2. \A name : \A b \in Bindings(name) : Passed(b)
  <2> TAKE name
  <2> TAKE b \in Bindings(name)
  <2>1. b[1] \in Nodes
    BY BindingsAre
  <2> QED BY <1>1, <2>1, NodesAre DEF Passed, At
<1> SUFFICES ASSUME NEW name \in Names
             PROVE  /\ name \in DOMAIN aliases <=> Bindings(name) # {}
                    /\ name \in DOMAIN aliases => aliases[name] = Meaning(name)
  BY <1>1, SameText DEF AliasesAreLastBindings, Meaning, LastBinding
<1>3. {b \in Bindings(name) : Passed(b)} = Bindings(name)
  BY <1>2
<1>4. name \in DOMAIN aliases <=> Bindings(name) # {}
  BY <1>1, <1>3 DEF BoundSoFar
<1>5. ASSUME name \in DOMAIN aliases
      PROVE  aliases[name] = Meaning(name)
  <2>1. PICK b \in Bindings(name) :
          aliases[name] = TargetAt(b) /\ \A c \in Bindings(name) : NotAfter(c, b)
    BY <1>1, <1>3, <1>5 DEF BoundSoFar
  <2> DEFINE d == LastBinding(name)
  <2>2. d \in Bindings(name) /\ \A c \in Bindings(name) : NotAfter(c, d)
    BY <2>1 DEF LastBinding
  <2> HIDE DEF d
  <2>3. b = d
    BY <2>1, <2>2, NotAfterIsOrder
  <2> QED BY <1>4, <1>5, <2>1, <2>3 DEF Meaning, d
<1> QED BY <1>4, <1>5

LEMMA CollectInit == Init => CollectInv
<1> SUFFICES ASSUME Init PROVE CollectInv
  OBVIOUS
<1>1. StateTypes
  BY DEF Init, StateTypes
<1> QED BY <1>1 DEF Init, CollectInv, TextOrder, BoundSoFar, AliasesAreLastBindings

LEMMA CollectStep ==
  ASSUME CollectInv, [Next]_vars
  PROVE  CollectInv'
<1>1. StateTypes /\ TextOrder /\ BoundSoFar /\ AliasesAreLastBindings
  BY DEF CollectInv
<1>2. StateTypes'
  BY <1>1, TypesStep
<1>3. ASSUME file' = file, aliases' = aliases, pc' \in {"inspect", "done"} => pc \in {"inspect", "done"}
      PROVE  AliasesAreLastBindings'
  BY <1>1, <1>3, SameText DEF AliasesAreLastBindings, Meaning, LastBinding
<1>4. CASE LoadAstRules
  BY <1>1, <1>2, <1>4, BoundAtStart DEF LoadAstRules, CollectInv, AliasesAreLastBindings
<1>5. CASE BindClause
  <2>1. TextOrder'
    BY <1>1, <1>5 DEF BindClause, TextOrder, OnStack, ToCome, At, Nodes
  <2> QED BY <1>1, <1>2, <1>5, <2>1, BoundAtClause
       DEF BindClause, CollectInv, AliasesAreLastBindings
<1>6. CASE Collect
  BY <1>1, <1>2, <1>6, CollectNext, BoundAtNode
     DEF Collect, CollectInv, AliasesAreLastBindings
<1>7. CASE StartInspecting
  BY <1>1, <1>2, <1>7, AllPassed DEF StartInspecting, CollectInv, TextOrder, BoundSoFar
<1>8. CASE TryRule \/ InspectNode \/ EndFile
  <2>1. pc' # "collect" /\ file' = file /\ aliases' = aliases
        /\ pc \in {"inspect", "done"}
    BY <1>8 DEF TryRule, InspectNode, EndFile
  <2> QED BY <1>1, <1>2, <1>3, <2>1 DEF CollectInv, TextOrder, BoundSoFar
<1>9. CASE UNCHANGED vars
  <2>1. TextOrder' /\ BoundSoFar'
    BY <1>1, <1>9, SameText
       DEF vars, TextOrder, BoundSoFar, OnStack, ToCome, At, Nodes, Passed
  <2> QED BY <1>1, <1>2, <1>3, <1>9, <2>1 DEF CollectInv, vars
<1> QED BY <1>4, <1>5, <1>6, <1>7, <1>8, <1>9 DEF Next

(* The walk binds each name by the last import of the text that binds it,  *)
(* for every tree: collect_aliases keeps its stack in the order of the     *)
(* text, so that insert overwrites an earlier binding with a later one.    *)
THEOREM AliasesAreLast == Spec => []AliasesAreLastBindings
<1>1. CollectInv => AliasesAreLastBindings
  BY DEF CollectInv
<1> QED BY <1>1, CollectInit, CollectStep, PTL DEF Spec

-----------------------------------------------------------------------------
(* The walk for findings. *)

LEMMA Appended ==
  ASSUME NEW S, NEW s \in Seq(S), NEW x \in S
  PROVE  /\ Append(s, x) \in Seq(S) /\ Len(s) \in Nat
         /\ DOMAIN s = 1..Len(s) /\ DOMAIN Append(s, x) = 1..Len(s) + 1
         /\ \A i \in 1..Len(s) : Append(s, x)[i] = s[i]
         /\ Append(s, x)[Len(s) + 1] = x
         /\ ToSet(Append(s, x)) = ToSet(s) \union {x}
<1> DEFINE t == Append(s, x)
<1>1. /\ Len(s) \in Nat /\ t \in Seq(S) /\ Len(t) = Len(s) + 1
      /\ \A i \in 1..Len(s) : t[i] = s[i]
      /\ t[Len(s) + 1] = x
  BY LenProperties, AppendProperties
<1> HIDE DEF t
<1>2. ToSet(t) = {t[i] : i \in 1..Len(s) + 1} /\ ToSet(s) = {s[i] : i \in 1..Len(s)}
  BY <1>1, Elements
<1>3. \A i : i \in 1..Len(s) + 1 <=> (i \in 1..Len(s) \/ i = Len(s) + 1)
  BY <1>1
<1>4. ToSet(t) = ToSet(s) \union {x}
  BY <1>1, <1>2, <1>3
<1>5. DOMAIN s = 1..Len(s) /\ DOMAIN t = 1..Len(s) + 1
  BY <1>1, LenProperties
<1> QED BY <1>1, <1>4, <1>5 DEF t

LEMMA FirstOf ==
  ASSUME NEW S \in SUBSET Nat, S # {}
  PROVE  \E m \in S : \A k \in S : m <= k
<1>1. PICK m \in S : \A k \in S : ~(<<k, m>> \in OpToRel(<, Nat))
  BY NatLessThanWellFounded, WFMin
<1>2. \A k \in S : m \in Nat /\ k \in Nat /\ ~(k < m)
  BY <1>1 DEF OpToRel
<1> QED BY <1>2

(* Leaving a node puts its children on the stack, which were below it.     *)
LEMMA InspectNext ==
  ASSUME StateTypes, InspectNode, NEW W \in SUBSET Nodes, Unvisited(W),
         NEW V, V = W \ {Last(stack)},
         \A i, j \in DOMAIN stack : stack[i] = stack[j] => i = j
  PROVE  /\ Last(stack) \in W
         /\ Unvisited(V)'
         /\ \A i, j \in DOMAIN stack' : stack'[i] = stack'[j] => i = j
<1> DEFINE n == Last(stack)
           t == Children(n)
           s == Front(stack) \o t
           L == Len(stack) - 1
           k == Len(t)
<1>1. /\ stack # <<>> /\ stack' = s /\ file' = file
  BY DEF InspectNode
<1>2. /\ stack \in Seq(Nodes) /\ n \in Nodes
      /\ Len(stack) \in Nat /\ Len(stack) > 0 /\ L \in Nat /\ Len(stack) = L + 1
      /\ DOMAIN stack = 1..Len(stack) /\ n = stack[Len(stack)]
  BY <1>1, Top DEF StateTypes
<1>3. /\ t \in Seq(Nodes) /\ k \in Nat
      /\ ToSet(t) = Below(file.nodes, n)
      /\ Below(file.nodes, n) = {t[i] : i \in 1..k}
      /\ \A c \in Below(file.nodes, n) : c \in Nodes /\ n < c
      /\ \A i, j \in 1..k : i < j => t[i] < t[j]
      /\ \A i \in 1..k : t[i] \in Nat
  <2>1. /\ t \in Seq(Nodes)
        /\ Below(file.nodes, n) = {t[i] : i \in 1..k}
        /\ \A c \in Below(file.nodes, n) : c \in Nodes /\ n < c
        /\ \A i, j \in 1..k : i < j => t[i] < t[j]
    BY <1>2, ChildrenAre
  <2>2. \A m \in Nodes : m \in Nat
    BY NodesAre
  <2> QED BY <2>1, <2>2, LenProperties DEF Below, Children
<1> HIDE DEF t, n
<1>4. ToSet(s) = (OnStack \ {n}) \union Below(file.nodes, n)
  <2>1. ToSet(Front(stack) \o t) = (ToSet(stack) \ {Last(stack)}) \union ToSet(t)
    <3>1. stack \in Seq(Nodes) /\ stack # <<>> /\ t \in Seq(Nodes)
      BY <1>1, <1>2, <1>3
    <3>2. \A i, j \in DOMAIN stack : stack[i] = stack[j] => i = j
      OBVIOUS
    <3> QED BY ONLY <3>1, <3>2, Popped
  <2> QED BY <1>3, <2>1 DEF OnStack, n
<1>5. /\ s \in Seq(Nodes) /\ Len(s) = L + k
      /\ \A i \in 1..L : s[i] = stack[i]
      /\ \A i \in 1..k : s[L + i] = t[i]
  <2>1. stack \in Seq(Nodes) /\ stack # <<>> /\ t \in Seq(Nodes)
    BY <1>1, <1>2, <1>3
  <2> HIDE DEF s, k
  <2>2. /\ Front(stack) \o t \in Seq(Nodes)
        /\ Len(Front(stack) \o t) = L + Len(t)
        /\ \A i \in 1..L : (Front(stack) \o t)[i] = stack[i]
        /\ \A i \in 1..Len(t) : (Front(stack) \o t)[L + i] = t[i]
    BY ONLY <2>1, PushedOn DEF L
  <2> QED BY <2>2 DEF s, k
<1> HIDE DEF s, L, k
<1>6. OnStack = {stack[i] : i \in 1..L + 1}
  BY <1>2, Elements DEF OnStack
<1>7. n \in OnStack /\ n \in W
  <2>1. L + 1 \in 1..L + 1
    BY <1>2
  <2> QED BY <1>2, <1>6, <2>1 DEF Unvisited
<1>8. \A c \in Below(file.nodes, n) : c \in W /\ c \notin OnStack /\ c # n
  BY <1>2, <1>3, <1>7, NodesAre DEF Unvisited
<1>9. \A p \in Nodes : \A c \in Nodes :
        c \in Below(file.nodes, p) /\ c \in Below(file.nodes, n) => p = n
  BY <1>2, OneParent DEF Child
<1>10. \A p \in Nodes : \A c \in Below(file.nodes, p) :
         p \in W \ {n} <=> (c \in W \ {n} /\ c \notin ToSet(s))
  <2> TAKE p \in Nodes
  <2> TAKE c \in Below(file.nodes, p)
  <2>1. c \in Nodes /\ (p \in W <=> c \in W /\ c \notin OnStack)
    BY ChildrenAre DEF Unvisited
  <2> QED BY <1>4, <1>7, <1>9, <2>1
<1>11. Unvisited(V)'
  <2>1. Nodes' = Nodes /\ OnStack' = ToSet(s)
    BY <1>1 DEF Nodes, OnStack
  <2>2. W \ {n} \subseteq Nodes /\ ToSet(s) \subseteq W \ {n}
    BY <1>4, <1>8 DEF Unvisited
  <2>3. 1 \in W \ {n} => 1 \in ToSet(s)
    BY <1>4 DEF Unvisited
  <2>4. V = W \ {n}
    BY DEF n
  <2> QED BY <1>1, <1>10, <2>1, <2>2, <2>3, <2>4 DEF Unvisited
<1>12. \A i, j \in DOMAIN stack' : stack'[i] = stack'[j] => i = j
  <2> SUFFICES ASSUME NEW i \in 1..L + k, NEW j \in 1..L + k, i < j
               PROVE  s[i] # s[j]
    <3>1. DOMAIN s = 1..L + k
      BY <1>5, LenProperties
    <3>2. \A i, j \in 1..L + k : i = j \/ i < j \/ j < i
      BY <1>2, <1>3
    <3> QED BY <1>1, <3>1, <3>2
  <2>1. \A x \in 1..L : x \in 1..L + 1 /\ s[x] = stack[x] /\ s[x] \in OnStack
    BY <1>2, <1>5, <1>6
  <2>2. \A x \in L + 1..L + k : x - L \in 1..k /\ s[x] = t[x - L] /\ s[x] \in Below(file.nodes, n)
    <3> TAKE x \in L + 1..L + k
    <3>1. x - L \in 1..k /\ L + (x - L) = x
      BY <1>2, <1>3
    <3> QED BY <1>3, <1>5, <3>1
  <2>3. CASE j <= L
    <3>1. i \in 1..L /\ j \in 1..L /\ i # j
      BY <1>2, <1>3, <2>3
    <3> QED BY <1>2, <2>1, <3>1
  <2>4. CASE i <= L /\ j > L
    <3>1. i \in 1..L /\ j \in L + 1..L + k
      BY <1>2, <1>3, <2>4
    <3> QED BY <1>8, <2>1, <2>2, <3>1
  <2>5. CASE i > L
    <3>1. i - L \in 1..k /\ j - L \in 1..k /\ i - L < j - L
      BY <1>2, <1>3, <2>5
    <3>2. s[i] = t[i - L] /\ s[j] = t[j - L]
      BY <1>2, <1>3, <2>2, <2>5
    <3>3. t[i - L] < t[j - L] /\ t[i - L] \in Nat /\ t[j - L] \in Nat
      BY <1>3, <3>1
    <3> QED BY <3>2, <3>3
  <2> QED BY <1>2, <1>3, <2>3, <2>4, <2>5
<1> QED BY <1>7, <1>11, <1>12 DEF n

(* What the walk reports, step by step. *)

LEMMA SameRules ==
  ASSUME file' = file, catalog' = catalog, aliases' = aliases
  PROVE  /\ Nodes' = Nodes /\ Findings' = Findings
         /\ \A n : Rules(n)' = Rules(n) /\ IsCall(n)' = IsCall(n)
         /\ \A rule, n : Matches(rule, n)' = Matches(rule, n)
         /\ \A rule, n : SecurityFinding(rule, n)' = SecurityFinding(rule, n)
BY DEF Nodes, Findings, Rules, IsCall, Matches, MatchesArgs, ResolveCallee, SecurityFinding,
       Confidence

LEMMA ReportedAtNode ==
  ASSUME StateTypes, Lists, InspectNode, NEW W \in SUBSET Nodes, Last(stack) \in W,
         NEW V, V = W \ {Last(stack)}, Reported(W)
  PROVE  Reported(V)'
<1> DEFINE n == Last(stack)
<1>1. /\ stack # <<>> /\ taken = Len(Rules(n)) /\ taken' = 0
      /\ file' = file /\ catalog' = catalog /\ aliases' = aliases /\ security' = security
      /\ syntax' = IF file.nodes[n].error THEN Append(syntax, n) ELSE syntax
  BY DEF InspectNode
<1>2. n \in Nodes /\ syntax \in Seq(Nodes) /\ V = W \ {n}
  BY <1>1, Top DEF StateTypes, Lists
<1>3. \A m \in Nodes : \A i \in DOMAIN Rules(m) : Tried(V, i, m)' <=> Tried(W, i, m)
  <2> TAKE m \in Nodes
  <2> TAKE i \in DOMAIN Rules(m)
  <2>1. i \in Nat /\ i > 0 /\ (m = n => i <= taken)
    BY <1>1, OfNode
  <2>2. Tried(V, i, m)' <=> m \notin V
    BY <1>1, <2>1, SameRules DEF Tried
  <2> QED BY <1>1, <1>2, <2>1, <2>2 DEF Tried
<1>4. ToSet(syntax)' = {m \in Nodes \ V : file.nodes[m].error}
  <2>1. ToSet(syntax) = {m \in Nodes \ W : file.nodes[m].error}
    BY DEF Reported
  <2>2. ToSet(Append(syntax, n)) = ToSet(syntax) \union {n}
    BY <1>2, Appended
  <2> HIDE DEF n
  <2> QED BY <1>1, <1>2, <2>1, <2>2
<1>5. /\ Nodes' = Nodes
      /\ \A m : Rules(m)' = Rules(m)
      /\ \A rule, m : Matches(rule, m)' = Matches(rule, m)
      /\ \A rule, m : SecurityFinding(rule, m)' = SecurityFinding(rule, m)
  BY <1>1, SameRules
<1>6. \A k \in DOMAIN security' :
        \E m \in Nodes : \E i \in DOMAIN Rules(m) :
          /\ Tried(V, i, m)' /\ Matches(catalog[i], m)
          /\ security'[k] = SecurityFinding(catalog[i], m)
  BY <1>1, <1>3 DEF Reported
<1>7. \A m \in Nodes : \A i \in DOMAIN Rules(m) :
        Tried(V, i, m)' /\ Matches(catalog[i], m) =>
          \E k \in DOMAIN security' : security'[k] = SecurityFinding(catalog[i], m)
  BY <1>1, <1>3 DEF Reported
<1>8. file' = file /\ catalog' = catalog
  BY <1>1
<1> QED BY ONLY <1>4, <1>5, <1>6, <1>7, <1>8 DEF Reported

LEMMA ReportedAtRule ==
  ASSUME StateTypes, Lists, TryRule, NEW W \in SUBSET Nodes, Unvisited(W), Reported(W),
         NoDoubleReport
  PROVE  Lists' /\ Reported(W)' /\ NoDoubleReport'
<1> DEFINE n == Last(stack)
           r == taken + 1
           x == SecurityFinding(catalog[r], n)
<1>1. /\ pc = "inspect" /\ stack # <<>> /\ stack' = stack /\ taken < Len(Rules(n)) /\ taken' = r
      /\ file' = file /\ catalog' = catalog /\ aliases' = aliases /\ syntax' = syntax
      /\ security' = IF Matches(catalog[r], n) THEN Append(security, x) ELSE security
  BY DEF TryRule
<1>2. /\ n \in Nodes /\ n \in W /\ taken \in Nat
      /\ \A m \in Nodes : DOMAIN Rules(m) = 1..Len(Rules(m)) /\ Len(Rules(m)) \in Nat
  <2>1. stack \in Seq(Nodes)
    BY DEF StateTypes
  <2>2. n \in Nodes /\ n \in OnStack
    BY <1>1, <2>1, Top, Elements DEF OnStack
  <2> QED BY <2>2, OfNode DEF Unvisited, StateTypes
<1>3. r \in DOMAIN Rules(n) /\ IsCall(n) /\ r \in DOMAIN catalog
  BY <1>1, <1>2 DEF Rules
<1>4. \A m \in Nodes : \A i \in DOMAIN Rules(m) :
        Tried(W, i, m)' <=> Tried(W, i, m) \/ (m = n /\ i = r)
  <2> TAKE m \in Nodes
  <2> TAKE i \in DOMAIN Rules(m)
  <2>1. i \in Nat
    BY <1>2
  <2>2. i <= r <=> i <= taken \/ i = r
    BY <1>2, <2>1
  <2> HIDE DEF r, n
  <2>3. Tried(W, i, m)' <=> m \notin W \/ (m = n /\ i <= r)
    BY <1>1, SameRules DEF Tried, n
  <2>4. Tried(W, i, m) <=> m \notin W \/ (m = n /\ i <= taken)
    BY <1>1 DEF Tried, n
  <2> QED BY <2>2, <2>3, <2>4
<1>5. ~Tried(W, r, n)
  BY <1>2 DEF Tried
<1>6. /\ security \in Seq(Findings) /\ x \in Findings
  BY <1>2, <1>3 DEF Lists, Findings
<1>7. /\ Append(security, x) \in Seq(Findings) /\ Len(security) \in Nat
      /\ DOMAIN security = 1..Len(security)
      /\ DOMAIN Append(security, x) = 1..Len(security) + 1
      /\ \A i \in 1..Len(security) : Append(security, x)[i] = security[i]
      /\ Append(security, x)[Len(security) + 1] = x
  BY <1>6, Appended
<1>8. /\ Nodes' = Nodes /\ Findings' = Findings
      /\ \A m : Rules(m)' = Rules(m)
      /\ \A rule, m : Matches(rule, m)' = Matches(rule, m)
      /\ \A rule, m : SecurityFinding(rule, m)' = SecurityFinding(rule, m)
  BY <1>1, SameRules
<1> DEFINE new == Append(security, x)
           K == Len(security)
<1> HIDE DEF new, K
<1>9. Lists'
  BY <1>1, <1>7, <1>8 DEF Lists
<1>10. \A k \in DOMAIN security' :
         \E m \in Nodes : \E i \in DOMAIN Rules(m) :
           /\ Tried(W, i, m)' /\ Matches(catalog[i], m)
           /\ security'[k] = SecurityFinding(catalog[i], m)
  <2> TAKE k \in DOMAIN security'
  <2>1. CASE k \in DOMAIN security /\ security'[k] = security[k]
    BY <1>4, <2>1 DEF Reported
  <2>2. CASE Matches(catalog[r], n) /\ security'[k] = x
    BY <1>2, <1>3, <1>4, <2>2
  <2>3. k \in 1..K + 1 => k \in 1..K \/ k = K + 1
    BY <1>7 DEF K
  <2> QED BY <1>1, <1>7, <2>1, <2>2, <2>3 DEF K
<1>11. \A m \in Nodes : \A i \in DOMAIN Rules(m) :
         Tried(W, i, m)' /\ Matches(catalog[i], m) =>
           \E k \in DOMAIN security' : security'[k] = SecurityFinding(catalog[i], m)
  <2> SUFFICES ASSUME NEW m \in Nodes, NEW i \in DOMAIN Rules(m),
                      Tried(W, i, m)', Matches(catalog[i], m)
               PROVE  \E k \in DOMAIN security' : security'[k] = SecurityFinding(catalog[i], m)
    OBVIOUS
  <2>1. \A k \in DOMAIN security : k \in DOMAIN security' /\ security'[k] = security[k]
    <3>1. 1..K \subseteq 1..K + 1
      BY <1>7 DEF K
    <3> QED BY <1>1, <1>7, <3>1 DEF K
  <2>2. CASE Tried(W, i, m)
    BY <2>1, <2>2 DEF Reported
  <2>3. CASE m = n /\ i = r
    <3>1. security' = Append(security, x) /\ K + 1 \in 1..K + 1
      BY <1>1, <1>7, <2>3 DEF K
    <3> QED BY <1>7, <2>3, <3>1 DEF K
  <2> QED BY <1>4, <2>2, <2>3
<1>12. Reported(W)'
  <2>1. ToSet(syntax)' = {m \in Nodes \ W : file.nodes[m].error}
    BY <1>1 DEF Reported
  <2> HIDE DEF x, r, n
  <2> QED BY <1>1, <1>8, <1>10, <1>11, <2>1 DEF Reported
<1>13. NoDoubleReport'
  <2> SUFFICES ASSUME Matches(catalog[r], n)
               PROVE  NoDoubleReport'
    BY <1>1 DEF NoDoubleReport
  <2>1. \A k \in 1..K : ~(security[k].node = n /\ security[k].rule_id = catalog[r].id)
    <3> SUFFICES ASSUME NEW k \in 1..K, security[k].node = n, security[k].rule_id = catalog[r].id
                 PROVE  FALSE
      OBVIOUS
    <3>9. PICK m \in Nodes : \E i \in DOMAIN Rules(m) :
            Tried(W, i, m) /\ security[k] = SecurityFinding(catalog[i], m)
      BY <1>7 DEF Reported, K
    <3>1. PICK i \in DOMAIN Rules(m) :
            Tried(W, i, m) /\ security[k] = SecurityFinding(catalog[i], m)
      BY <3>9
    <3>2. m = n /\ catalog[i].id = catalog[r].id
      BY <3>1 DEF SecurityFinding
    <3>3. i \in DOMAIN catalog /\ Valid(catalog)
      BY <1>1, <1>3, <3>1, <3>2 DEF Rules, StateTypes
    <3>4. i = r
      BY <1>3, <3>2, <3>3 DEF Valid
    <3> QED BY <1>5, <3>1, <3>2, <3>4
  <2>2. x.node = n /\ x.rule_id = catalog[r].id
    BY DEF SecurityFinding
  <2>3. \A i \in 1..K + 1 : i \in 1..K \/ i = K + 1
    BY <1>7 DEF K
  <2>4. \A i, j \in 1..K : security[i].node = security[j].node
                           /\ security[i].rule_id = security[j].rule_id => i = j
    BY <1>7 DEF NoDoubleReport, K
  <2> HIDE DEF x, n, r
  <2>5. DOMAIN new = 1..K + 1 /\ new[K + 1] = x /\ \A i \in 1..K : new[i] = security[i]
    BY <1>7 DEF new, K
  <2>6. \A i, j \in 1..K + 1 : new[i].node = new[j].node
                               /\ new[i].rule_id = new[j].rule_id => i = j
    BY <2>1, <2>2, <2>3, <2>4, <2>5
  <2>7. security' = new
    BY <1>1 DEF new
  <2> QED BY <2>5, <2>6, <2>7 DEF NoDoubleReport
<1> QED BY <1>9, <1>12, <1>13

(* With an empty stack there is nothing below it: the first node not       *)
(* visited would be the child of an earlier one that was not visited.      *)
LEMMA AllVisited ==
  ASSUME StateTypes, stack = <<>>, NEW W \in SUBSET Nodes, Unvisited(W)
  PROVE  W = {}
<1> SUFFICES ASSUME W # {}
             PROVE  FALSE
  OBVIOUS
<1>1. W \in SUBSET Nat /\ OnStack = {}
  BY NodesAre DEF OnStack, ToSet
<1>2. PICK m \in W : \A k \in W : m <= k
  BY <1>1, FirstOf
<1>3. m # 1
  BY <1>1, <1>2 DEF Unvisited
<1>4. PICK p \in Nodes : Child(m, p) /\ p < m
  BY <1>2, <1>3, OneParent
<1>5. p \in W
  BY <1>1, <1>2, <1>4 DEF Unvisited, Child
<1> QED BY <1>2, <1>4, <1>5, NodesAre

-----------------------------------------------------------------------------
LEMMA InspectInit == Init => InspectInv
BY DEF Init, InspectInv, Lists, NothingYet, Inspection, Inspected, NoErrorTwice, NoDoubleReport

LEMMA InspectStart ==
  ASSUME StateTypes, Lists, NothingYet, StartInspecting
  PROVE  InspectInv'
<1>1. /\ pc = "collect" /\ pc' = "inspect" /\ stack = <<>> /\ stack' = <<1>> /\ taken' = 0
      /\ file' = file /\ syntax' = <<>> /\ security' = <<>>
  BY DEF StartInspecting, NothingYet, StateTypes
<1>2. Nodes' = Nodes /\ OnStack' = {1} /\ 1 \in Nodes /\ \A m \in Nodes : m \in Nat /\ m >= 1
  BY <1>1, NodesAre DEF Nodes, OnStack, ToSet
<1>3. Unvisited(Nodes)'
  <2>1. \A p \in Nodes : \A c \in Below(file.nodes, p) : c \in Nodes /\ c # 1
    BY <1>2, ChildrenAre
  <2> QED BY <1>1, <1>2, <2>1 DEF Unvisited
<1>4. \A m \in Nodes : \A i \in DOMAIN Rules(m)' : ~Tried(Nodes, i, m)'
  <2>1. \A m \in Nodes : Rules(m)' = Rules(m)
    BY SameRules DEF StartInspecting
  <2>2. \A m \in Nodes : \A i \in DOMAIN Rules(m)' : i \in Nat /\ i > 0
    BY <2>1, OfNode
  <2> QED BY <1>1, <1>2, <2>2 DEF Tried
<1>5. Reported(Nodes)'
  <2>1. ToSet(syntax)' = {} /\ DOMAIN security' = {}
    BY <1>1 DEF ToSet
  <2> QED BY <1>2, <1>4, <2>1 DEF Reported
<1>6. Inspection'
  <2>1. \A i, j \in DOMAIN stack' : stack'[i] = stack'[j] => i = j
    BY <1>1
  <2>2. \E W \in SUBSET Nodes' : Unvisited(W)' /\ Reported(W)'
    BY <1>2, <1>3, <1>5
  <2> QED BY <2>1, <2>2 DEF Inspection
<1> QED BY <1>1, <1>6
     DEF InspectInv, Lists, NothingYet, Inspected, NoErrorTwice, NoDoubleReport

LEMMA InspectStep ==
  ASSUME StateTypes, InspectInv, [Next]_vars
  PROVE  InspectInv'
<1>1. Lists /\ NothingYet /\ Inspection /\ Inspected /\ NoErrorTwice /\ NoDoubleReport
  BY DEF InspectInv
<1>2. CASE LoadAstRules \/ BindClause \/ Collect
  <2>1. /\ pc' \in {"failed", "collect"} /\ syntax' = <<>> /\ security' = <<>>
    BY <1>1, <1>2 DEF LoadAstRules, BindClause, Collect, NothingYet
  <2> QED BY <2>1
       DEF InspectInv, Lists, NothingYet, Inspection, Inspected, NoErrorTwice, NoDoubleReport
<1>3. CASE StartInspecting
  BY <1>1, <1>3, InspectStart
<1>4. CASE TryRule
  <2>1. PICK W \in SUBSET Nodes : Unvisited(W) /\ Reported(W)
    BY <1>1, <1>4 DEF TryRule, Inspection
  <2>2. Lists' /\ Reported(W)' /\ NoDoubleReport'
    BY <1>1, <1>4, <2>1, ReportedAtRule
  <2>3. Unvisited(W)'
    BY <1>4, <2>1 DEF TryRule, Unvisited, Nodes, OnStack
  <2>4. pc = "inspect" /\ pc' = "inspect" /\ stack' = stack /\ syntax' = syntax /\ Nodes' = Nodes
    BY <1>4 DEF TryRule, Nodes
  <2>5. Inspection'
    BY <1>1, <2>1, <2>2, <2>3, <2>4 DEF Inspection
  <2> QED BY <1>1, <2>2, <2>4, <2>5 DEF InspectInv, NothingYet, Inspected, NoErrorTwice
<1>5. CASE InspectNode
  <2> DEFINE n == Last(stack)
  <2>1. PICK W \in SUBSET Nodes : Unvisited(W) /\ Reported(W)
    BY <1>1, <1>5 DEF InspectNode, Inspection
  <2>2. /\ pc = "inspect" /\ pc' = "inspect" /\ Nodes' = Nodes /\ Findings' = Findings
        /\ security' = security /\ stack # <<>>
        /\ syntax' = IF file.nodes[n].error THEN Append(syntax, n) ELSE syntax
    BY <1>5, SameRules DEF InspectNode
  <2>3. \A i, j \in DOMAIN stack : stack[i] = stack[j] => i = j
    BY <1>1, <2>2 DEF Inspection
  <2>4. PICK V \in SUBSET Nodes : V = W \ {n}
    OBVIOUS
  <2>5. /\ n \in W /\ Unvisited(V)'
        /\ \A i, j \in DOMAIN stack' : stack'[i] = stack'[j] => i = j
    BY <1>5, <2>1, <2>3, <2>4, InspectNext
  <2>6. Reported(V)'
    BY <1>1, <1>5, <2>1, <2>4, <2>5, ReportedAtNode
  <2>7. Inspection'
    BY <2>2, <2>5, <2>6 DEF Inspection
  <2>8. /\ syntax \in Seq(Nodes) /\ n \in Nodes /\ Len(syntax) \in Nat
        /\ DOMAIN syntax = 1..Len(syntax) /\ DOMAIN Append(syntax, n) = 1..Len(syntax) + 1
        /\ Append(syntax, n) \in Seq(Nodes)
        /\ \A i \in 1..Len(syntax) : Append(syntax, n)[i] = syntax[i]
        /\ Append(syntax, n)[Len(syntax) + 1] = n
    <3>1. syntax \in Seq(Nodes) /\ n \in Nodes
      BY <1>1, <2>1, <2>5 DEF Lists
    <3> HIDE DEF n
    <3> QED BY <3>1, Appended
  <2>9. Lists'
    BY <1>1, <2>2, <2>8 DEF Lists
  <2>10. \A i \in DOMAIN syntax : syntax[i] # n
    <3>1. n \notin ToSet(syntax)
      BY <2>1, <2>5 DEF Reported
    <3> QED BY <3>1 DEF ToSet
  <2>11. NoErrorTwice'
    <3> DEFINE l == Len(syntax)
               s == Append(syntax, n)
    <3> HIDE DEF l, s, n
    <3>1. \A i \in 1..l + 1 : i \in 1..l \/ i = l + 1
      BY <2>8 DEF l
    <3>2. /\ DOMAIN s = 1..l + 1 /\ s[l + 1] = n
          /\ \A i \in 1..l : s[i] = syntax[i] /\ syntax[i] # n
          /\ \A i, j \in 1..l : syntax[i] = syntax[j] => i = j
      BY <1>1, <2>8, <2>10 DEF s, l, NoErrorTwice
    <3>3. \A i, j \in 1..l + 1 : s[i] = s[j] => i = j
      BY <3>1, <3>2
    <3> QED BY <1>1, <2>2, <3>2, <3>3 DEF NoErrorTwice, s
  <2> QED BY <1>1, <2>2, <2>7, <2>9, <2>11
       DEF InspectInv, NothingYet, Inspected, NoDoubleReport
<1>6. CASE EndFile
  <2>1. /\ pc = "inspect" /\ pc' = "done" /\ stack = <<>>
        /\ UNCHANGED <<file, catalog, stack, taken, aliases, syntax, security>>
    BY <1>6 DEF EndFile
  <2>2. Reported({})
    <3>1. PICK W \in SUBSET Nodes : Unvisited(W) /\ Reported(W)
      BY <1>1, <2>1 DEF Inspection
    <3> QED BY <2>1, <3>1, AllVisited
  <2>3. Reported({})'
    BY <2>1, <2>2, SameRules DEF Reported, Tried
  <2> QED BY <1>1, <2>1, <2>3, SameRules
       DEF InspectInv, Lists, NothingYet, Inspection, Inspected, NoErrorTwice, NoDoubleReport
<1>7. CASE UNCHANGED vars
  <2>1. /\ UNCHANGED <<file, catalog, pc, stack, taken, aliases, syntax, security>>
        /\ Nodes' = Nodes /\ Findings' = Findings
    BY <1>7, SameRules DEF vars
  <2>2. \A W : Unvisited(W)' <=> Unvisited(W)
    BY <2>1 DEF Unvisited, OnStack
  <2>3. \A W : Reported(W)' <=> Reported(W)
    BY <2>1, SameRules DEF Reported, Tried
  <2>4. Inspection' /\ Inspected'
    BY <1>1, <2>1, <2>2, <2>3 DEF Inspection, Inspected
  <2> QED BY <1>1, <2>1, <2>4 DEF InspectInv, Lists, NothingYet, NoErrorTwice, NoDoubleReport
<1> QED BY <1>2, <1>3, <1>4, <1>5, <1>6, <1>7 DEF Next

LEMMA Invariant == Spec => []IInv
<1>1. Init => IInv
  BY CollectInit, InspectInit DEF IInv
<1>2. IInv /\ [Next]_vars => IInv'
  BY CollectStep, InspectStep DEF IInv, CollectInv
<1> QED BY <1>1, <1>2, PTL DEF Spec

(* A catalog that loads has one rule for each id, and the walk is at each  *)
(* node once: no rule id is reported twice for one call.                   *)
THEOREM NoCallReportedTwice == Spec => []NoDoubleReport
<1>1. IInv => NoDoubleReport
  BY DEF IInv, InspectInv
<1> QED BY <1>1, Invariant, PTL

-----------------------------------------------------------------------------
(* The findings of a whole file. *)

LEMMA Counted ==
  ASSUME NEW n \in Nat, NEW f, \A i, j \in 1..n : f[i] = f[j] => i = j
  PROVE  Cardinality({f[i] : i \in 1..n}) = n
<1> DEFINE T == {f[i] : i \in 1..n}
           g == [i \in 1..n |-> f[i]]
<1>1. g \in Bijection(1..n, T)
  <2>1. g \in [1..n -> T] /\ \A t \in T : \E i \in 1..n : g[i] = t
    OBVIOUS
  <2>2. \A i, j \in 1..n : g[i] = g[j] => i = j
    OBVIOUS
  <2> HIDE DEF T, g
  <2> QED BY <2>1, <2>2 DEF Bijection, Injection, Surjection, IsInjective
<1>2. IsFiniteSet(1..n) /\ Cardinality(1..n) = n
  BY FS_Interval
<1>3. ExistsBijection(1..n, T)
  BY <1>1 DEF ExistsBijection
<1> HIDE DEF T
<1> QED BY <1>2, <1>3, FS_Bijection DEF T

LEMMA HeadIsPut ==
  ASSUME NEW S, NEW s \in Seq(S), s # <<>>
  PROVE  Head(s) \in S /\ <<Head(s)>> \o Tail(s) = s
<1>1. Len(s) \in Nat /\ Len(s) > 0 /\ 1 \in 1..Len(s)
  BY EmptySeq
<1>2. s = SubSeq(s, 1, Len(s)) /\ Tail(s) = SubSeq(s, 2, Len(s)) /\ Head(s) = s[1]
  BY SubSeqFull, TailIsSubSeq
<1>3. SubSeq(s, 1, Len(s)) = <<s[1]>> \o SubSeq(s, 1 + 1, Len(s))
  BY <1>1, SubSeqRecursiveFirst
<1> QED BY <1>2, <1>3, HeadTailProperties

(* The map of the aliases answers what the text says. *)
LEMMA CalleeFromText ==
  ASSUME StateTypes, AliasesAreLastBindings, pc = "done", NEW n \in Nodes, IsCall(n)
  PROVE  ResolveCallee(file.nodes[n].callee)
           = Meaning(Head(file.nodes[n].callee)) \o Tail(file.nodes[n].callee)
<1> DEFINE name == file.nodes[n].callee
           h == Head(name)
<1>1. name \in Seq(Names) /\ name # <<>>
  BY NodesAre DEF Node, IsCall, None
<1>2. h \in Names /\ <<h>> \o Tail(name) = name
  BY <1>1, HeadIsPut
<1>3. /\ h \in DOMAIN aliases <=> Bindings(h) # {}
      /\ h \in DOMAIN aliases => aliases[h] = Meaning(h)
  BY <1>2 DEF AliasesAreLastBindings
<1> HIDE DEF h
<1>4. CASE h \in DOMAIN aliases
  BY <1>3, <1>4 DEF ResolveCallee, h
<1>5. CASE h \notin DOMAIN aliases
  <2>1. Meaning(h) = <<h>>
    BY <1>3, <1>5 DEF Meaning
  <2> QED BY <1>2, <1>5, <2>1 DEF ResolveCallee, h
<1> QED BY <1>4, <1>5

LEMMA FindingsOfFile ==
  ASSUME IInv, pc = "done"
  PROVE  FindingsAreExact
<1> DEFINE called(n) ==
             LET name == file.nodes[n].callee IN Meaning(Head(name)) \o Tail(name)
           wrong(rule, n) ==
             /\ IsCall(n) /\ file.language \in rule.languages /\ called(n) \in rule.callees
             /\ \A needle \in rule.args_none : needle \notin file.nodes[n].args
             /\ rule.args_any # {} => \E needle \in rule.args_any : needle \in file.nodes[n].args
           low(rule, n) == ~file.nodes[n].tainted /\ rule.severity = "review"
           Expected(i, n) == <<catalog[i].id, n, low(catalog[i], n)>>
           pairs == {p \in (DOMAIN catalog) \X Nodes : wrong(catalog[p[1]], p[2])}
           expected == {Expected(p[1], p[2]) : p \in pairs}
           f == [k \in 1..Len(security) |->
                  <<security[k].rule_id, security[k].node, security[k].confidence = "low">>]
           reported == {f[k] : k \in 1..Len(security)}
<1>1. /\ StateTypes /\ AliasesAreLastBindings /\ NoDoubleReport /\ NoErrorTwice
      /\ syntax \in Seq(Nodes) /\ security \in Seq(Findings) /\ Reported({})
  BY DEF IInv, CollectInv, InspectInv, Lists, Inspected
<1>2. \A i \in DOMAIN catalog : \A n \in Nodes :
        wrong(catalog[i], n) <=> IsCall(n) /\ Matches(catalog[i], n)
  <2> TAKE i \in DOMAIN catalog
  <2> TAKE n \in Nodes
  <2>1. IsCall(n) => ResolveCallee(file.nodes[n].callee) = called(n)
    BY <1>1, CalleeFromText
  <2> HIDE DEF called
  <2>2. CASE ~IsCall(n)
    BY <2>2
  <2>3. CASE IsCall(n)
    <3>1. ResolveCallee(file.nodes[n].callee) = called(n)
      BY <2>1, <2>3
    <3>2. MatchesArgs(catalog[i], file.nodes[n].args) <=>
            /\ \A needle \in catalog[i].args_none : needle \notin file.nodes[n].args
            /\ catalog[i].args_any # {} =>
                 \E needle \in catalog[i].args_any : needle \in file.nodes[n].args
      BY DEF MatchesArgs
    <3> QED BY <2>3, <3>1, <3>2 DEF Matches
  <2> QED BY <2>2, <2>3
<1>3. \A i \in DOMAIN catalog : \A n \in Nodes :
        LET x == SecurityFinding(catalog[i], n) IN
        <<x.rule_id, x.node, x.confidence = "low">> = Expected(i, n)
  <2> TAKE i \in DOMAIN catalog
  <2> TAKE n \in Nodes
  <2>1. (Confidence(catalog[i], n) = "low") = low(catalog[i], n)
    BY DEF Confidence
  <2> QED BY <2>1 DEF SecurityFinding
<1> HIDE DEF wrong, low
<1>4. \A n \in Nodes : /\ IsCall(n) => Rules(n) = catalog
                       /\ \A i \in DOMAIN Rules(n) : IsCall(n) /\ i \in DOMAIN catalog
                                                     /\ Tried({}, i, n)
  BY DEF Rules, Tried
<1>5. Len(security) \in Nat /\ DOMAIN security = 1..Len(security)
  BY <1>1, LenProperties
<1>6. ASSUME NEW k \in 1..Len(security)
      PROVE  f[k] \in expected
  <2>1. PICK n \in Nodes : \E i \in DOMAIN Rules(n) :
          Matches(catalog[i], n) /\ security[k] = SecurityFinding(catalog[i], n)
    BY <1>1, <1>5, <1>6 DEF Reported
  <2>2. PICK i \in DOMAIN Rules(n) :
          Matches(catalog[i], n) /\ security[k] = SecurityFinding(catalog[i], n)
    BY <2>1
  <2>3. i \in DOMAIN catalog /\ IsCall(n)
    BY <1>4, <2>2
  <2>4. f[k] = Expected(i, n)
    BY <1>3, <1>6, <2>2, <2>3
  <2>5. <<i, n>> \in pairs
    BY <1>2, <2>2, <2>3
  <2> HIDE DEF Expected, pairs, f
  <2>6. Expected(<<i, n>>[1], <<i, n>>[2]) \in expected
    BY <2>5
  <2> QED BY <2>4, <2>6
<1>7. ASSUME NEW p \in pairs
      PROVE  Expected(p[1], p[2]) \in reported
  <2> DEFINE i == p[1]
             n == p[2]
  <2>1. i \in DOMAIN catalog /\ n \in Nodes /\ IsCall(n) /\ Matches(catalog[i], n)
    BY <1>2, <1>7
  <2> HIDE DEF i, n, Expected
  <2>2. i \in DOMAIN Rules(n) /\ Tried({}, i, n)
    BY <1>4, <2>1
  <2>3. PICK k \in 1..Len(security) : security[k] = SecurityFinding(catalog[i], n)
    BY <1>1, <1>5, <2>1, <2>2 DEF Reported
  <2>4. f[k] = Expected(i, n)
    BY <1>3, <2>1, <2>3
  <2> HIDE DEF f
  <2> QED BY <2>4 DEF i, n
<1>8. reported = expected
  <2> HIDE DEF pairs, Expected, f
  <2> QED BY <1>6, <1>7
<1>9. Len(security) = Cardinality(expected)
  <2>1. \A k, l \in 1..Len(security) : f[k] = f[l] => k = l
    BY <1>1, <1>5 DEF NoDoubleReport
  <2>2. expected = {f[k] : k \in 1..Len(security)}
    BY <1>8
  <2>3. Len(security) \in Nat
    BY <1>5
  <2> DEFINE m == Len(security)
  <2> HIDE DEF f, m
  <2>4. Cardinality({f[i] : i \in 1..m}) = m
    <3>1. m \in Nat /\ \A i, j \in 1..m : f[i] = f[j] => i = j
      BY ONLY <2>1, <2>3 DEF m
    <3> QED BY ONLY <3>1, Counted
  <2> HIDE DEF expected
  <2> QED BY ONLY <2>2, <2>4 DEF m
<1>10. ToSet(syntax) = {n \in Nodes : file.nodes[n].error}
  BY <1>1 DEF Reported
<1>11. Len(syntax) = Cardinality(ToSet(syntax))
  <2>1. /\ Len(syntax) \in Nat /\ DOMAIN syntax = 1..Len(syntax)
        /\ ToSet(syntax) = {syntax[k] : k \in 1..Len(syntax)}
    BY <1>1, LenProperties, Elements
  <2>2. \A k, l \in 1..Len(syntax) : syntax[k] = syntax[l] => k = l
    BY <1>1, <2>1 DEF NoErrorTwice
  <2> QED BY <2>1, <2>2, Counted
<1>12. reported = {<<security[k].rule_id, security[k].node, security[k].confidence = "low">> :
                     k \in DOMAIN security}
  BY <1>5
<1> HIDE DEF reported
<1> QED BY <1>8, <1>9, <1>10, <1>11, <1>12, Zenon
     DEF FindingsAreExact, called, wrong, low, Expected, pairs, expected

(* A finished file has exactly the findings that its text and the catalog  *)
(* call for, each once, for every tree and every catalog that loads.       *)
THEOREM FileFindingsAreExact == Spec => []FindingsAreExact
<1>1. IInv => FindingsAreExact
  BY FindingsOfFile DEF FindingsAreExact
<1> QED BY <1>1, Invariant, PTL

=============================================================================
