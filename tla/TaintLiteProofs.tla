-------------------------- MODULE TaintLiteProofs --------------------------
(***************************************************************************)
(* Proofs about TaintLite, for any names, files and caps: types, real      *)
(* traces, and that an analysis that stops early has found the least       *)
(* closed set of variables, which no order of the assignments changes.     *)
(***************************************************************************)
EXTENDS TaintLite, FiniteSetTheorems, WellFoundedInduction, TLAPS

InPass == pc = "pass"

FileKnown == file \in Files

(* The chains of the function at work only visit tainted variables, so a   *)
(* chain that is extended by a clean one visits nothing twice.             *)
ChainsTainted ==
  InPass => \A v \in Tainted : \A k \in DOMAIN tainted[v].chain : tainted[v].chain[k] \in Tainted

(* Between the parameters and every closed set. *)
Seeded == InPass => Parameters(Current) \subseteq Tainted

Inside == InPass => \A S \in SUBSET Vars : ClosedIn(Current, S) => Tainted \subseteq S

(* Assignment k asks for nothing more. *)
Settled(k) ==
  LET a == file.text[k]
  IN  ~a.sanitized /\ (a.marker \/ a.reads \intersect Tainted # {}) => a.target \in Tainted

(* As long as a pass has found nothing, what it has seen is settled. *)
QuietPrefix ==
  InPass /\ ~changed /\ Cardinality(Tainted) < MaxVars =>
    \A k \in Collected(Current) : k < next => Settled(k)

IInv ==
  /\ FileKnown /\ TypeOK /\ TraceIsReal
  /\ ChainsTainted /\ Seeded /\ Inside /\ QuietPrefix

-----------------------------------------------------------------------------
(* What an assignment and a function of a file are. *)
LEMMA FileFacts ==
  ASSUME file \in File
  PROVE  /\ file.text \in Seq(Assignment)
         /\ file.functions \in Seq(Function)
         /\ \A k \in DOMAIN file.text : file.text[k] \in Assignment
         /\ \A i : Collected(i) \subseteq DOMAIN file.text
         /\ \A i \in DOMAIN file.functions : file.functions[i].line \in Nat
         /\ \A i \in DOMAIN file.functions : Parameters(i) \subseteq Vars
<1>1. file.text \in Seq(Assignment) /\ file.functions \in Seq(Function)
  BY DEF File
<1>2. \A k \in DOMAIN file.text : file.text[k] \in Assignment
  BY <1>1
<1>3. \A i : Collected(i) \subseteq DOMAIN file.text
  BY DEF Collected
<1>4. \A i \in DOMAIN file.functions : file.functions[i] \in Function
  BY <1>1
<1>5. \A i \in DOMAIN file.functions : Parameters(i) \subseteq Vars
  BY <1>4 DEF Function, Parameters
<1> QED BY <1>1, <1>2, <1>3, <1>4, <1>5 DEF Function

(* What only depends on the file stays as it is. *)
LEMMA Frame ==
  ASSUME file' = file
  PROVE  /\ \A i : Collected(i)' = Collected(i)
         /\ \A i : Parameters(i)' = Parameters(i)
         /\ \A i, v, o : Real(i, v, o)' = Real(i, v, o)
         /\ \A i, S : ClosedIn(i, S)' = ClosedIn(i, S)
<1>1. \A i : Collected(i)' = Collected(i) BY DEF Collected
<1>2. \A i : Parameters(i)' = Parameters(i) BY DEF Parameters
<1>3. \A i, v, o : Source(i, v, o)' = Source(i, v, o)
  BY <1>1, <1>2 DEF Source
<1>4. \A i, v, w : Step(i, v, w)' = Step(i, v, w)
  BY <1>1 DEF Step
<1>5. \A i, v, o : Real(i, v, o)' = Real(i, v, o)
  BY <1>3, <1>4 DEF Real
<1>6. \A i, S : ClosedIn(i, S)' = ClosedIn(i, S)
  BY <1>1, <1>2 DEF ClosedIn
<1> QED BY <1>1, <1>2, <1>5, <1>6

(* A chain of one variable, at its source. *)
LEMMA StartReal ==
  ASSUME NEW i, NEW v \in Vars, NEW line \in Nat, NEW call \in BOOLEAN,
         Source(i, v, [line |-> line, call |-> call, chain |-> <<v>>])
  PROVE  /\ [line |-> line, call |-> call, chain |-> <<v>>] \in Origin
         /\ Real(i, v, [line |-> line, call |-> call, chain |-> <<v>>])
BY DEF Real, Origin

LEMMA ExtendOrigin ==
  ASSUME NEW o \in Origin, NEW w \in Vars
  PROVE  [o EXCEPT !.chain = Append(@, w)] \in Origin
<1>1. o.chain \in Seq(Vars)
  BY DEF Origin
<1>2. Append(o.chain, w) \in Seq(Vars)
  BY <1>1
<1> QED BY <1>2 DEF Origin

(* One more step of a value to a variable it has not been in. *)
LEMMA ExtendReal ==
  ASSUME NEW i, NEW v \in Vars, NEW w \in Vars, NEW o \in Origin,
         Real(i, v, o), Step(i, v, w),
         \A k \in DOMAIN o.chain : o.chain[k] # w
  PROVE  /\ [o EXCEPT !.chain = Append(@, w)] \in Origin
         /\ Real(i, w, [o EXCEPT !.chain = Append(@, w)])
<1> DEFINE n == [o EXCEPT !.chain = Append(@, w)]
           c == o.chain
<1>1. c \in Seq(Vars) /\ Len(c) \in Nat
  BY DEF Origin
<1>2. n.chain = Append(c, w) /\ n.line = o.line /\ n.call = o.call
  BY DEF Origin
<1>3. n \in Origin
  BY ExtendOrigin
<1>4. Len(n.chain) = Len(c) + 1 /\ n.chain[Len(c) + 1] = w
      /\ \A k \in 1..Len(c) : n.chain[k] = c[k]
  BY <1>1, <1>2
<1>5. c # <<>> /\ Len(c) > 0
  BY <1>1 DEF Real
<1>6. Source(i, n.chain[1], n)
  BY <1>1, <1>2, <1>4, <1>5 DEF Real, Source
<1>7. \A k \in 2..Len(n.chain) : Step(i, n.chain[k - 1], n.chain[k])
  BY <1>1, <1>4, <1>5 DEF Real
<1>8. \A j, k \in DOMAIN n.chain : n.chain[j] = n.chain[k] => j = k
  BY <1>1, <1>2, <1>4 DEF Real
<1> QED BY <1>1, <1>2, <1>3, <1>4, <1>5, <1>6, <1>7, <1>8, SMTT(30) DEF Real

(* The function at work gets one more tainted variable, with an origin     *)
(* that is real, that has only been in tainted variables before, and that  *)
(* no closed set can do without.                                           *)
LEMMA Grow ==
  ASSUME IInv, AtAssignment, Open(next),
         NEW o \in Origin, Real(Current, file.text[next].target, o),
         \A k \in DOMAIN o.chain : o.chain[k] \in Tainted \union {file.text[next].target},
         \A S \in SUBSET Vars :
           ClosedIn(Current, S) /\ Tainted \subseteq S => file.text[next].target \in S,
         tainted' = [tainted EXCEPT ![file.text[next].target] = o],
         changed' = TRUE, next' = next + 1,
         UNCHANGED <<file, scopes, pass, pc>>
  PROVE  IInv'
<1> DEFINE t == file.text[next].target
<1>1. t \in Vars /\ next \in 1..Len(file.text) /\ Len(file.text) \in Nat
  BY FileFacts, SMTT(30) DEF IInv, TypeOK, AtAssignment, Assignment
<1>2. tainted \in [Vars -> Origin \union {Clean}]
  BY DEF IInv, TypeOK
<1>3. Tainted' = Tainted \union {t} /\ tainted'[t] = o
      /\ \A v \in Vars \ {t} : tainted'[v] = tainted[v]
  BY <1>1, <1>2, CleanAssumption DEF Tainted
<1>4. Current' = Current /\ (InPass' <=> InPass) /\ InPass
  BY DEF Current, InPass, AtAssignment
<1>5. FileKnown'
  BY DEF IInv, FileKnown
<1>6. TypeOK'
  BY <1>1, <1>2 DEF IInv, TypeOK
<1>7. TraceIsReal'
  <2>1. \A i \in DOMAIN scopes : \A v \in Vars :
          scopes[i][v] # Clean => Real(i, v, scopes[i][v])
    BY DEF IInv, TraceIsReal
  <2>2. \A v \in Tainted : Real(Current, v, tainted[v])
    BY <1>4 DEF IInv, TraceIsReal, InPass
  <2>3. \A v \in Tainted \union {t} : Real(Current, v, tainted'[v])
    BY <1>3, <2>2 DEF Tainted
  <2> QED BY <1>3, <1>4, <2>1, <2>3, Frame DEF TraceIsReal
<1>8. ChainsTainted'
  <2>1. \A v \in Tainted : \A k \in DOMAIN tainted[v].chain : tainted[v].chain[k] \in Tainted
    BY <1>4 DEF IInv, ChainsTainted
  <2>2. \A v \in Tainted \union {t} : \A k \in DOMAIN tainted'[v].chain :
          tainted'[v].chain[k] \in Tainted \union {t}
    BY <1>3, <2>1 DEF Tainted
  <2> QED BY <1>3, <2>2 DEF ChainsTainted
<1>9. Seeded'
  BY <1>3, <1>4, Frame DEF IInv, Seeded
<1>10. Inside'
  <2>1. \A S \in SUBSET Vars : ClosedIn(Current, S) => Tainted \union {t} \subseteq S
    BY <1>4 DEF IInv, Inside
  <2> QED BY <1>3, <1>4, <2>1, Frame DEF Inside
<1>11. QuietPrefix'
  BY DEF QuietPrefix
<1> QED BY <1>5, <1>6, <1>7, <1>8, <1>9, <1>10, <1>11 DEF IInv

(* Steps that leave the map, the function and the file alone. *)
LEMMA Same ==
  ASSUME IInv, TypeOK', UNCHANGED <<file, scopes, tainted, pc>>
  PROVE  FileKnown' /\ TraceIsReal' /\ ChainsTainted' /\ Seeded' /\ Inside'
<1>1. Current' = Current /\ Tainted' = Tainted /\ InPass' = InPass
  BY DEF Current, Tainted, InPass
<1>2. FileKnown' BY DEF IInv, FileKnown
<1>3. TraceIsReal' BY <1>1, Frame DEF IInv, TraceIsReal
<1>4. ChainsTainted' BY <1>1 DEF IInv, ChainsTainted
<1>5. Seeded' BY <1>1, Frame DEF IInv, Seeded
<1>6. Inside' BY <1>1, Frame DEF IInv, Inside
<1> QED BY <1>2, <1>3, <1>4, <1>5, <1>6

-----------------------------------------------------------------------------
LEMMA InitIInv == Init => IInv
<1> SUFFICES ASSUME Init PROVE IInv
  OBVIOUS
<1>1. FileKnown /\ file \in File
  BY ConstantsAssumption DEF Init, FileKnown
<1>2. TypeOK
  <2>1. MaxPasses \in Nat /\ Len(file.text) \in Nat /\ Len(file.functions) \in Nat
    BY <1>1, ConstantsAssumption, FileFacts
  <2>2. scopes \in Seq([Vars -> Origin \union {Clean}]) /\ Len(scopes) = 0
    BY DEF Init
  <2>3. tainted \in [Vars -> Origin \union {Clean}]
    BY DEF Init
  <2>4. pass \in 0..MaxPasses
    BY <2>1 DEF Init
  <2>5. next \in 0..Len(file.text) + 1
    BY <2>1 DEF Init
  <2>6. Len(scopes) <= Len(file.functions)
    BY <2>1, <2>2
  <2> QED BY <1>1, <2>2, <2>3, <2>4, <2>5, <2>6 DEF Init, TypeOK
<1>3. TraceIsReal /\ ChainsTainted /\ Seeded /\ Inside /\ QuietPrefix
  BY DEF Init, TraceIsReal, InPass, ChainsTainted, Seeded, Inside, QuietPrefix
<1> QED BY <1>1, <1>2, <1>3 DEF IInv

LEMMA NextIInv == IInv /\ [Next]_vars => IInv'
<1> SUFFICES ASSUME IInv, [Next]_vars PROVE IInv'
  OBVIOUS
<1>1. file \in File /\ Len(file.text) \in Nat /\ Len(file.functions) \in Nat
      /\ Len(scopes) \in Nat
  BY FileFacts DEF IInv, TypeOK
<1>2. CASE StartFunction
  <2> DEFINE start(v) == [line |-> file.functions[Current].line, call |-> FALSE, chain |-> <<v>>]
  <2>1. Current \in DOMAIN file.functions
    BY <1>1, <1>2 DEF StartFunction, Current, File
  <2>2. file.functions[Current].line \in Nat /\ Parameters(Current) \subseteq Vars
    BY <1>1, <2>1, FileFacts
  <2>3. \A v \in Parameters(Current) : start(v) \in Origin /\ Real(Current, v, start(v))
    <3> SUFFICES ASSUME NEW v \in Parameters(Current)
                 PROVE  start(v) \in Origin /\ Real(Current, v, start(v))
      OBVIOUS
    <3>1. Source(Current, v, start(v)) BY DEF Source
    <3> QED BY <2>2, <3>1, StartReal
  <2>4. tainted' = [v \in Vars |-> IF v \in Parameters(Current) THEN start(v) ELSE Clean]
    BY <1>2 DEF StartFunction
  <2>5. Tainted' = Parameters(Current)
    BY <2>2, <2>3, <2>4, CleanAssumption DEF Tainted
  <2>6. /\ file' = file /\ scopes' = scopes /\ Current' = Current
        /\ pass' = 1 /\ next' = 1 /\ changed' = FALSE /\ pc' = "pass"
        /\ Len(scopes) < Len(file.functions)
    BY <1>2 DEF StartFunction, Current
  <2>7. FileKnown'
    BY <2>6 DEF IInv, FileKnown
  <2>8. TypeOK'
    <3>1. tainted' \in [Vars -> Origin \union {Clean}]
      BY <2>3, <2>4
    <3>2. MaxPasses \in Nat /\ MaxPasses > 0
      BY ConstantsAssumption
    <3>3. pass' \in 0..MaxPasses
      BY <2>6, <3>2
    <3>4. next' \in 0..Len(file'.text) + 1 /\ next' > 0
      BY <1>1, <2>6
    <3> QED BY <1>1, <2>6, <3>1, <3>3, <3>4 DEF IInv, TypeOK
  <2>9. TraceIsReal'
    <3>1. \A i \in DOMAIN scopes : \A v \in Vars :
            scopes[i][v] # Clean => Real(i, v, scopes[i][v])
      BY DEF IInv, TraceIsReal
    <3>2. \A v \in Parameters(Current) : Real(Current, v, tainted'[v])
      BY <2>2, <2>3, <2>4
    <3> QED BY <2>5, <2>6, <3>1, <3>2, Frame DEF TraceIsReal
  <2>10. ChainsTainted'
    <3>1. \A v \in Parameters(Current) : tainted'[v].chain = <<v>>
      BY <2>2, <2>4
    <3> QED BY <2>5, <3>1 DEF ChainsTainted
  <2>11. Seeded'
    BY <2>5, <2>6, Frame DEF Seeded
  <2>12. Inside'
    BY <2>5, <2>6, Frame DEF Inside, ClosedIn
  <2>13. QuietPrefix'
    <3>1. \A k \in Collected(Current)' : k \in DOMAIN file.text
      BY <1>1, <2>6, FileFacts, Frame
    <3>2. DOMAIN file.text = 1..Len(file.text)
      BY <1>1, FileFacts
    <3> QED BY <1>1, <2>6, <3>1, <3>2 DEF QuietPrefix
  <2> QED BY <2>7, <2>8, <2>9, <2>10, <2>11, <2>12, <2>13 DEF IInv
<1>3. CASE EndWalk
  <2>1. TypeOK'
    BY <1>3 DEF EndWalk, IInv, TypeOK
  <2>2. FileKnown'
    BY <1>3 DEF EndWalk, IInv, FileKnown
  <2>3. ~InPass'
    BY <1>3 DEF EndWalk, InPass
  <2>4. TraceIsReal'
    BY <1>3, <2>3, Frame DEF EndWalk, IInv, TraceIsReal, InPass
  <2> QED BY <2>1, <2>2, <2>3, <2>4 DEF IInv, ChainsTainted, Seeded, Inside, QuietPrefix
<1>4. CASE Skip
  <2>1. next \in 1..Len(file.text)
    BY <1>1, <1>4, FileFacts DEF Skip, AtAssignment
  <2>2. TypeOK'
    BY <1>1, <1>4, <2>1 DEF Skip, IInv, TypeOK
  <2>3. FileKnown' /\ TraceIsReal' /\ ChainsTainted' /\ Seeded' /\ Inside'
    BY <1>4, <2>2, Same DEF Skip
  <2>4. Tainted' = Tainted /\ Current' = Current /\ InPass' = InPass
        /\ file' = file /\ changed' = changed /\ next' = next + 1
    BY <1>4 DEF Skip, Tainted, Current, InPass
  <2>5. QuietPrefix'
    <3> SUFFICES ASSUME InPass, ~changed, Cardinality(Tainted) < MaxVars,
                        NEW k \in Collected(Current), k < next + 1
                 PROVE  Settled(k)
      BY <2>4, Frame DEF QuietPrefix, Settled
    <3>1. k \in DOMAIN file.text /\ k \in Nat
      BY <1>1, FileFacts
    <3>2. CASE k < next
      BY <3>2 DEF IInv, QuietPrefix
    <3>3. CASE k = next
      BY <1>4, <3>3, FileFacts, <1>1, <3>1 DEF Skip, Open, Settled, Tainted, Assignment
    <3> QED BY <2>1, <3>1, <3>2, <3>3
  <2> QED BY <2>2, <2>3, <2>5 DEF IInv
<1>5. CASE Introduce
  <2> DEFINE a == file.text[next]
             o == [line |-> a.line, call |-> TRUE, chain |-> <<a.target>>]
  <2>1. a \in Assignment /\ next \in Collected(Current)
    BY <1>1, <1>5, FileFacts DEF Introduce, AtAssignment, Open
  <2>2. a.target \in Vars /\ a.line \in Nat /\ a.marker /\ ~a.sanitized
    BY <1>5, <2>1 DEF Assignment, Introduce, Open
  <2>3. Source(Current, a.target, o)
    BY <2>1, <2>2 DEF Source
  <2>4. o \in Origin /\ Real(Current, a.target, o)
    BY <2>2, <2>3, StartReal
  <2>5. \A k \in DOMAIN o.chain : o.chain[k] \in Tainted \union {a.target}
    OBVIOUS
  <2>6. \A S \in SUBSET Vars : ClosedIn(Current, S) => a.target \in S
    BY <2>1, <2>2 DEF ClosedIn
  <2>7. /\ AtAssignment /\ Open(next)
        /\ tainted' = [tainted EXCEPT ![a.target] = o]
        /\ changed' = TRUE /\ next' = next + 1
        /\ UNCHANGED <<file, scopes, pass, pc>>
    BY <1>5 DEF Introduce
  <2> QED BY <2>4, <2>5, <2>6, <2>7, Grow
<1>6. CASE Propagate
  <2> DEFINE a == file.text[next]
  <2>1. a \in Assignment /\ next \in Collected(Current) /\ InPass
    BY <1>1, <1>6, FileFacts DEF Propagate, AtAssignment, Open, InPass
  <2>2. a.target \in Vars /\ ~a.sanitized /\ a.target \notin Tainted
    BY <1>6, <2>1 DEF Assignment, Propagate, Open, Tainted
  <2>3. PICK v \in a.reads \intersect Tainted :
          tainted' = [tainted EXCEPT ![a.target] =
                        [tainted[v] EXCEPT !.chain = Append(@, a.target)]]
    BY <1>6 DEF Propagate
  <2> DEFINE o == [tainted[v] EXCEPT !.chain = Append(@, a.target)]
  <2>4. v \in Vars /\ tainted[v] \in Origin
    BY DEF Tainted, IInv, TypeOK
  <2>5. Step(Current, v, a.target)
    BY <2>1, <2>2 DEF Step
  <2>6. Real(Current, v, tainted[v])
    BY <2>1 DEF IInv, TraceIsReal, InPass
  <2>7. \A k \in DOMAIN tainted[v].chain : tainted[v].chain[k] \in Tainted
    BY <2>1 DEF IInv, ChainsTainted
  <2>8. o \in Origin /\ Real(Current, a.target, o)
    <3>1. \A k \in DOMAIN tainted[v].chain : tainted[v].chain[k] # a.target
      BY <2>2, <2>7
    <3> QED BY <2>2, <2>4, <2>5, <2>6, <3>1, ExtendReal
  <2>9. \A k \in DOMAIN o.chain : o.chain[k] \in Tainted \union {a.target}
    <3>1. o.chain = Append(tainted[v].chain, a.target)
      BY <2>4 DEF Origin
    <3>2. tainted[v].chain \in Seq(Vars)
      BY <2>4 DEF Origin
    <3> QED BY <2>7, <3>1, <3>2
  <2>10. \A S \in SUBSET Vars : ClosedIn(Current, S) /\ Tainted \subseteq S => a.target \in S
    BY <2>1, <2>2 DEF ClosedIn
  <2>11. /\ AtAssignment /\ Open(next)
         /\ tainted' = [tainted EXCEPT ![a.target] = o]
         /\ changed' = TRUE /\ next' = next + 1
         /\ UNCHANGED <<file, scopes, pass, pc>>
    BY <1>6, <2>3 DEF Propagate
  <2> HIDE DEF o
  <2> QED BY <2>8, <2>9, <2>10, <2>11, Grow
<1>7. CASE NextPass
  <2>1. TypeOK'
    <3>1. MaxPasses \in Nat
      BY ConstantsAssumption
    <3>2. pass' \in 0..MaxPasses
      BY <1>7, <3>1 DEF NextPass, IInv, TypeOK
    <3>3. next' \in 0..Len(file'.text) + 1 /\ next' > 0
      BY <1>1, <1>7 DEF NextPass
    <3> QED BY <1>1, <1>7, <3>2, <3>3 DEF NextPass, IInv, TypeOK
  <2>2. FileKnown' /\ TraceIsReal' /\ ChainsTainted' /\ Seeded' /\ Inside'
    BY <1>7, <2>1, Same DEF NextPass
  <2>3. QuietPrefix'
    <3>1. file' = file /\ next' = 1
      BY <1>7 DEF NextPass
    <3>2. \A k \in Collected(Current)' : k \in DOMAIN file.text
      BY <1>1, <3>1, FileFacts, Frame
    <3>3. DOMAIN file.text = 1..Len(file.text)
      BY <1>1, FileFacts
    <3> QED BY <1>1, <3>1, <3>2, <3>3 DEF QuietPrefix
  <2> QED BY <2>1, <2>2, <2>3 DEF IInv
<1>8. CASE EndFunction
  <2>1. /\ scopes' = Append(scopes, tainted) /\ file' = file /\ pc' = "walk"
        /\ UNCHANGED <<tainted, pass, next, changed>> /\ InPass
    BY <1>8 DEF EndFunction, AtEndOfPass, InPass
  <2>2. TypeOK'
    <3>1. scopes' \in Seq([Vars -> Origin \union {Clean}]) /\ Len(scopes') = Len(scopes) + 1
      BY <2>1 DEF IInv, TypeOK
    <3> QED BY <1>1, <2>1, <3>1 DEF IInv, TypeOK, InPass
  <2>3. FileKnown'
    BY <2>1 DEF IInv, FileKnown
  <2>4. TraceIsReal'
    <3>1. \A v \in Vars : tainted[v] # Clean => Real(Current, v, tainted[v])
      BY <2>1 DEF IInv, TraceIsReal, InPass, Tainted
    <3>2. DOMAIN scopes' = DOMAIN scopes \union {Current}
          /\ scopes'[Current] = tainted
          /\ \A i \in DOMAIN scopes : scopes'[i] = scopes[i]
      BY <1>1, <2>1 DEF IInv, TypeOK, Current
    <3>3. \A i \in DOMAIN scopes : \A v \in Vars :
            scopes[i][v] # Clean => Real(i, v, scopes[i][v])
      BY DEF IInv, TraceIsReal
    <3>4. \A i \in DOMAIN scopes' : \A v \in Vars :
            scopes'[i][v] # Clean => Real(i, v, scopes'[i][v])
      BY <3>1, <3>2, <3>3
    <3> QED BY <2>1, <3>4, Frame DEF TraceIsReal
  <2>5. ~InPass'
    BY <2>1 DEF InPass
  <2> QED BY <2>2, <2>3, <2>4, <2>5 DEF IInv, ChainsTainted, Seeded, Inside, QuietPrefix
<1>9. CASE UNCHANGED vars
  <2>1. TypeOK'
    BY <1>9 DEF vars, IInv, TypeOK
  <2>2. FileKnown' /\ TraceIsReal' /\ ChainsTainted' /\ Seeded' /\ Inside'
    BY <1>9, <2>1, Same DEF vars
  <2>3. QuietPrefix'
    BY <1>9, Frame DEF vars, IInv, QuietPrefix, InPass, Current, Tainted, Settled
  <2> QED BY <2>1, <2>2, <2>3 DEF IInv
<1> QED BY <1>2, <1>3, <1>4, <1>5, <1>6, <1>7, <1>8, <1>9 DEF Next

LEMMA AlwaysIInv == Spec => []IInv
BY InitIInv, NextIInv, PTL DEF Spec

-----------------------------------------------------------------------------
(* The state of the analysis is well-formed for every file: in particular  *)
(* the passes stay within MAX_PASSES.                                      *)
THEOREM TypeCorrect == Spec => []TypeOK
<1>1. IInv => TypeOK BY DEF IInv
<1> QED BY <1>1, AlwaysIInv, PTL

(* Every trace that the analysis reports is one of the text: it starts at  *)
(* a parameter or an input call, follows assignments, passes no sanitizer  *)
(* and visits no variable twice.                                           *)
THEOREM TracesAreReal == Spec => []TraceIsReal
<1>1. IInv => TraceIsReal BY DEF IInv
<1> QED BY <1>1, AlwaysIInv, PTL

(* A pass that changes nothing, with room left in the map, means that the  *)
(* map is the least closed set: nothing that flows is missing, nothing     *)
(* else is in it, and the order of the assignments does not matter.        *)
THEOREM QuietIsExact == Spec => []QuietMeansExact
<1>1. IInv => QuietMeansExact
  <2> SUFFICES ASSUME IInv, AtEndOfPass, ~changed, Cardinality(Tainted) < MaxVars
               PROVE  Tainted = Flowing(Current)
    BY DEF QuietMeansExact
  <2>1. InPass /\ Tainted \in SUBSET Vars
    BY DEF AtEndOfPass, InPass, Tainted
  <2>2. \A k \in Collected(Current) : k < next
    <3>1. file.text \in Seq(Assignment) /\ Collected(Current) \subseteq DOMAIN file.text
      BY FileFacts DEF IInv, TypeOK
    <3>2. \A k \in Collected(Current) : k \in 1..Len(file.text)
      BY <3>1
    <3> QED BY <3>1, <3>2 DEF AtEndOfPass, IInv, TypeOK
  <2>3. \A k \in Collected(Current) : Settled(k)
    BY <2>1, <2>2 DEF IInv, QuietPrefix
  <2>4. ClosedIn(Current, Tainted)
    BY <2>1, <2>3 DEF ClosedIn, Settled, IInv, Seeded
  <2>5. Flowing(Current) \subseteq Tainted
    BY <2>1, <2>4 DEF Flowing
  <2>6. Tainted \subseteq Flowing(Current)
    BY <2>1 DEF Flowing, IInv, Inside
  <2> QED BY <2>5, <2>6
<1> QED BY <1>1, AlwaysIInv, PTL

-----------------------------------------------------------------------------
(* How far a pass gets. *)

Reached(i, S) ==
  S \union {file.text[k].target : k \in
             {k \in Collected(i) :
                LET a == file.text[k]
                IN  ~a.sanitized /\ (a.marker \/ a.reads \intersect S # {})}}

(* The first pass is the first, and pass after pass one layer is inside:   *)
(* what its predecessor leads to has been seen to up to `next`.            *)
Layered ==
  InPass =>
    /\ pass > 0
    /\ Cardinality(Tainted) < MaxVars =>
         LET before == Within(Current)[pass - 1] IN
         /\ before \subseteq Tainted
         /\ \A k \in Collected(Current) :
              LET a == file.text[k] IN
              k < next /\ ~a.sanitized /\ (a.marker \/ a.reads \intersect before # {})
                => a.target \in Tainted

LEMMA FirstOf ==
  ASSUME NEW S \in SUBSET Nat, S # {}
  PROVE  \E m \in S : \A k \in S : m <= k
<1>1. PICK m \in S : \A k \in S : ~(<<k, m>> \in OpToRel(<, Nat))
  BY NatLessThanWellFounded, WFMin
<1>2. \A k \in S : m \in Nat /\ k \in Nat /\ ~(k < m)
  BY <1>1 DEF OpToRel
<1> QED BY <1>2

(* The layers exist: the least number of them that do not would have a     *)
(* predecessor that can be extended.                                       *)
LEMMA LayersExist ==
  ASSUME NEW i, NEW m \in Nat
  PROVE  \E g : g = [n \in 0..m |-> IF n = 0 THEN Parameters(i) ELSE Reached(i, g[n - 1])]
<1> DEFINE Layers(g, l) ==
             g = [n \in 0..l |-> IF n = 0 THEN Parameters(i) ELSE Reached(i, g[n - 1])]
           without == {l \in Nat : ~\E g : Layers(g, l)}
<1> SUFFICES ASSUME without # {}
             PROVE  FALSE
  OBVIOUS
<1>1. PICK l \in without : \A k \in without : l <= k
  BY FirstOf
<1> DEFINE P == Parameters(i)
           R(S) == Reached(i, S)
<1> HIDE DEF P, R
<1>2. l # 0
  <2> SUFFICES ASSUME l = 0
               PROVE  FALSE
    OBVIOUS
  <2> DEFINE g == [n \in 0..0 |-> P]
  <2>1. g = [n \in 0..0 |-> IF n = 0 THEN P ELSE R(g[n - 1])]
    OBVIOUS
  <2>2. Layers(g, 0)
    BY <2>1 DEF P, R
  <2> HIDE DEF g, Layers
  <2> QED BY <2>2
<1>3. l - 1 \in Nat /\ l \in Nat /\ l - 1 \notin without
  <2>1. l \in Nat
    BY <1>1
  <2>2. l - 1 \in Nat /\ ~(l <= l - 1)
    BY <1>2, <2>1
  <2> HIDE DEF without
  <2> QED BY <1>1, <2>1, <2>2
<1>4. PICK g : Layers(g, l - 1)
  BY <1>3
<1> DEFINE h == [n \in 0..l |-> IF n = l THEN R(g[l - 1]) ELSE g[n]]
<1>5. g = [n \in 0..l - 1 |-> IF n = 0 THEN P ELSE R(g[n - 1])]
  BY <1>4 DEF P, R
<1>6. \A n \in 0..l : h[n] = IF n = 0 THEN P ELSE R(h[n - 1])
  <2> TAKE n \in 0..l
  <2>1. CASE n = 0
    BY <1>2, <1>3, <1>5, <2>1
  <2>2. CASE n # 0 /\ n # l
    <3>1. n \in 0..l - 1 /\ n - 1 \in 0..l /\ n - 1 # l
      BY <1>3, <2>2
    <3>2. h[n] = g[n] /\ h[n - 1] = g[n - 1]
      BY <2>2, <3>1
    <3> HIDE DEF h
    <3> QED BY <1>5, <2>2, <3>1, <3>2
  <2>3. CASE n = l
    <3>1. l - 1 \in 0..l /\ l - 1 # l
      BY <1>3
    <3>2. h[l] = R(g[l - 1]) /\ h[l - 1] = g[l - 1]
      BY <2>3, <3>1
    <3> HIDE DEF h
    <3> QED BY <1>2, <2>3, <3>2
  <2> QED BY <2>1, <2>2, <2>3
<1>7. h = [n \in 0..l |-> h[n]]
  OBVIOUS
<1> HIDE DEF h
<1>8. h = [n \in 0..l |-> IF n = 0 THEN P ELSE R(h[n - 1])]
  BY <1>6, <1>7
<1>9. Layers(h, l)
  BY <1>8 DEF P, R
<1> HIDE DEF Layers
<1> QED BY <1>1, <1>9

LEMMA WithinIs ==
  ASSUME NEW i
  PROVE  /\ Within(i)[0] = Parameters(i)
         /\ \A n \in 1..MaxPasses : Within(i)[n] = Reached(i, Within(i)[n - 1])
<1> DEFINE L(g) ==
             g = [n \in 0..MaxPasses |-> IF n = 0 THEN Parameters(i) ELSE Reached(i, g[n - 1])]
<1>1. MaxPasses \in Nat
  BY ConstantsAssumption
<1>2. \E g : L(g)
  BY <1>1, LayersExist
<1>3. Within(i) = CHOOSE g : L(g)
  BY DEF Within, Reached
<1>4. L(Within(i))
  BY <1>2, <1>3
<1> HIDE DEF L
<1>5. Within(i) = [n \in 0..MaxPasses |->
                     IF n = 0 THEN Parameters(i) ELSE Reached(i, Within(i)[n - 1])]
  BY <1>4 DEF L
<1>6. 0 \in 0..MaxPasses /\ \A n \in 1..MaxPasses : n \in 0..MaxPasses /\ n # 0
  BY <1>1
<1> QED BY <1>5, <1>6

(* An assignment through which S flows on. *)
Leads(k, S) ==
  LET a == file.text[k] IN ~a.sanitized /\ (a.marker \/ a.reads \intersect S # {})

(* A pass that has seen all assignments is one layer further. *)
LEMMA FullPass ==
  ASSUME IInv, Layered, AtEndOfPass, Cardinality(Tainted) < MaxVars
  PROVE  pass \in 1..MaxPasses /\ Within(Current)[pass] \subseteq Tainted
<1> DEFINE before == Within(Current)[pass - 1]
<1>1. InPass
  BY DEF AtEndOfPass, InPass
<1>2. pass \in 1..MaxPasses
  BY <1>1, ConstantsAssumption DEF Layered, IInv, TypeOK
<1>3. \A k \in Collected(Current) : k < next
  <2>1. file.text \in Seq(Assignment) /\ Collected(Current) \subseteq DOMAIN file.text
    BY FileFacts DEF IInv, TypeOK
  <2>2. \A k \in Collected(Current) : k \in 1..Len(file.text)
    BY <2>1
  <2> QED BY <2>1, <2>2 DEF AtEndOfPass, IInv, TypeOK
<1>4. before \subseteq Tainted
  BY <1>1 DEF Layered
<1>5. \A k \in Collected(Current) : Leads(k, before) => file.text[k].target \in Tainted
  BY <1>1, <1>3 DEF Layered, Leads
<1>6. Within(Current)[pass] = Reached(Current, before)
  BY <1>2, WithinIs
<1> HIDE DEF before
<1>7. Reached(Current, before) \subseteq Tainted
  BY <1>4, <1>5 DEF Reached, Leads
<1> QED BY <1>2, <1>6, <1>7

LEMMA FileKept == [Next]_vars => file' = file
<1>1. StartFunction \/ EndWalk \/ Skip => file' = file
  BY DEF StartFunction, EndWalk, Skip
<1>2. Introduce \/ Propagate => file' = file
  BY DEF Introduce, Propagate
<1>3. NextPass \/ EndFunction => file' = file
  BY DEF NextPass, EndFunction
<1> QED BY <1>1, <1>2, <1>3 DEF Next, vars

LEMMA Layering == IInv /\ IInv' /\ Layered /\ [Next]_vars => Layered'
<1> SUFFICES ASSUME IInv, IInv', Layered, [Next]_vars, InPass'
             PROVE  Layered'
  BY DEF Layered
<1>1. file' = file
  BY FileKept
<1>2. \A i : Within(i)' = Within(i)
  BY <1>1, SMT DEF Within, Collected, Parameters
<1>3. /\ \A k \in Collected(Current)' : k \in 1..Len(file.text)
      /\ \A k \in Collected(Current) : k \in 1..Len(file.text)
      /\ next \in Nat /\ Len(file.text) \in Nat
      /\ tainted \in [Vars -> Origin \union {Clean}]
  <2>1. file.text \in Seq(Assignment)
    BY FileFacts DEF IInv, TypeOK
  <2>2. DOMAIN file.text = 1..Len(file.text) /\ Len(file.text) \in Nat
    BY <2>1
  <2>3. next \in Nat /\ tainted \in [Vars -> Origin \union {Clean}]
    BY <2>2 DEF IInv, TypeOK
  <2> QED BY <1>1, <2>2, <2>3, Frame DEF Collected
<1>4. CASE StartFunction
  <2>1. pass' = 1 /\ next' = 1 /\ Current' = Current
    BY <1>4 DEF StartFunction, Current
  <2>2. Within(Current)'[0] = Parameters(Current)'
    BY <1>1, <1>2, <2>1, WithinIs, Frame
  <2>3. Within(Current)'[0] \subseteq Tainted'
    BY <2>2 DEF IInv, Seeded
  <2> QED BY <1>3, <2>1, <2>3 DEF Layered
<1> DEFINE before == Within(Current)[pass - 1]
           seen(k) == Leads(k, before) => file.text[k].target \in Tainted
<1>5. CASE Skip
  <2>1. /\ pass' = pass /\ next' = next + 1 /\ Current' = Current /\ Tainted' = Tainted
        /\ InPass
    BY <1>5 DEF Skip, Current, Tainted, InPass
  <2> SUFFICES ASSUME Cardinality(Tainted) < MaxVars
               PROVE  /\ before \subseteq Tainted
                      /\ \A k \in Collected(Current) : k < next + 1 => seen(k)
    BY <1>1, <1>2, <2>1, Frame DEF Layered, Leads
  <2>2. before \subseteq Tainted /\ \A k \in Collected(Current) : k < next => seen(k)
    BY <2>1 DEF Layered, Leads
  <2> HIDE DEF before
  <2>3. next \in Collected(Current) => seen(next)
    <3> SUFFICES ASSUME next \in Collected(Current), Leads(next, before)
                 PROVE  file.text[next].target \in Tainted
      OBVIOUS
    <3>1. file.text[next].target \in Vars
      BY FileFacts DEF IInv, TypeOK, Assignment
    <3>2. file.text[next].marker \/ file.text[next].reads \intersect Tainted # {}
      BY <2>2 DEF Leads
    <3> QED BY <1>5, <3>1, <3>2 DEF Skip, Open, Tainted, Leads
  <2> HIDE DEF seen
  <2>4. \A k \in Collected(Current) : k < next + 1 => k < next \/ k = next
    BY <1>3
  <2> QED BY <2>2, <2>3, <2>4
<1>6. CASE Introduce \/ Propagate
  <2> DEFINE t == file.text[next].target
  <2>1. /\ pass' = pass /\ next' = next + 1 /\ Current' = Current
        /\ InPass /\ Open(next)
    BY <1>6 DEF Introduce, Propagate, AtAssignment, Current, InPass
  <2>2. /\ Cardinality(Tainted) < MaxVars
        /\ t \in Vars /\ file.text[next].line \in Nat
    BY <2>1, FileFacts DEF Open, IInv, TypeOK, Assignment
  <2>3. Tainted \union {t} \subseteq Tainted'
    <3>1. PICK o : o # Clean /\ tainted' = [tainted EXCEPT ![t] = o]
      <4>1. CASE Introduce
        <5> DEFINE o == [line |-> file.text[next].line, call |-> TRUE, chain |-> <<t>>]
        <5>1. o \in Origin
          BY <2>2 DEF Origin
        <5>2. tainted' = [tainted EXCEPT ![t] = o]
          BY <4>1 DEF Introduce
        <5> HIDE DEF o, t
        <5> QED BY <5>1, <5>2, CleanAssumption
      <4>2. CASE Propagate
        <5>1. PICK v \in file.text[next].reads \intersect Tainted :
                tainted' = [tainted EXCEPT ![t] = [tainted[v] EXCEPT !.chain = Append(@, t)]]
          BY <4>2 DEF Propagate
        <5> DEFINE o == [tainted[v] EXCEPT !.chain = Append(@, t)]
        <5>2. tainted[v] \in Origin
          BY <1>3 DEF Tainted
        <5>3. tainted' = [tainted EXCEPT ![t] = o]
          BY ONLY <5>1, Zenon
        <5> HIDE DEF t
        <5>4. o \in Origin
          BY <2>2, <5>2, ExtendOrigin
        <5> HIDE DEF o
        <5> QED BY <5>3, <5>4, CleanAssumption
      <4> QED BY <1>6, <4>1, <4>2
    <3>2. tainted'[t] = o /\ \A v \in Vars \ {t} : tainted'[v] = tainted[v]
      BY <1>3, <2>2, <3>1
    <3> QED BY <2>2, <3>1, <3>2 DEF Tainted
  <2>4. before \subseteq Tainted /\ \A k \in Collected(Current) : k < next => seen(k)
    BY <2>1, <2>2 DEF Layered, Leads
  <2> HIDE DEF before
  <2>5. /\ before \subseteq Tainted'
        /\ \A k \in Collected(Current) : k < next + 1 /\ Leads(k, before)
             => file.text[k].target \in Tainted'
    <3>1. \A k \in Collected(Current) : k < next + 1 => k < next \/ k = next
      BY <1>3
    <3> QED BY <2>3, <2>4, <3>1
  <2> QED BY <1>1, <1>2, <2>1, <2>5, Frame DEF Layered, Leads, before
<1>7. CASE NextPass
  <2>1. /\ pass' = pass + 1 /\ next' = 1 /\ Current' = Current /\ Tainted' = Tainted
        /\ InPass /\ AtEndOfPass
    BY <1>7 DEF NextPass, AtEndOfPass, Current, Tainted, InPass
  <2>2. pass \in Nat /\ pass > 0
    BY <2>1, ConstantsAssumption DEF Layered, IInv, TypeOK
  <2>3. pass' - 1 = pass /\ pass' > 0
    BY <2>1, <2>2
  <2>4. Cardinality(Tainted) < MaxVars => Within(Current)[pass] \subseteq Tainted
    BY <2>1, FullPass
  <2> QED BY <1>2, <1>3, <2>1, <2>3, <2>4 DEF Layered
<1>8. CASE EndWalk \/ EndFunction
  BY <1>8 DEF EndWalk, EndFunction, InPass
<1>9. CASE UNCHANGED vars
  BY <1>1, <1>2, <1>9, Frame DEF vars, Layered, InPass, Current, Tainted
<1> QED BY <1>4, <1>5, <1>6, <1>7, <1>8, <1>9 DEF Next

LEMMA AlwaysLayered == Spec => []Layered
<1>1. Init => Layered
  BY DEF Init, Layered, InPass
<1> QED BY <1>1, Layering, AlwaysIInv, PTL DEF Spec

(* "longer ones are rare and still partially traced": in whichever order   *)
(* the assignments are written, the pass numbered n has found, at its end  *)
(* and with room left in the map, every variable that a value reaches over *)
(* at most n assignments without a sanitizer.                              *)
THEOREM PassesReachLayers == Spec => []ShortFlowsFound
<1>1. IInv /\ Layered => ShortFlowsFound
  BY FullPass DEF ShortFlowsFound
<1> QED BY <1>1, AlwaysIInv, AlwaysLayered, PTL

-----------------------------------------------------------------------------
(* flow_for_sink *)

(* The lines of a function are numbers, and so is its place in the file.   *)
LEMMA ScopeFacts ==
  ASSUME TypeOK, NEW i \in DOMAIN scopes
  PROVE  /\ i \in DOMAIN file.functions /\ i \in Nat
         /\ file.functions[i].first \in Nat /\ file.functions[i].last \in Nat
         /\ Span(i) \in Int
<1>1. DOMAIN scopes \subseteq DOMAIN file.functions
  BY FileFacts DEF TypeOK
<1>2. file.functions[i] \in Function /\ i \in Nat
  BY <1>1, FileFacts DEF TypeOK
<1> QED BY <1>1, <1>2 DEF Span, Function

(* A function lies within the lines of each function that it is nested in. *)
LEMMA OuterLines ==
  ASSUME TypeOK, file \in Files, NEW i \in DOMAIN file.functions, NEW j \in Outer(i)
  PROVE  /\ file.functions[j].first <= file.functions[i].first
         /\ file.functions[i].last <= file.functions[j].last
<1> DEFINE F == file.functions
           S == {k \in DOMAIN F : F[k].first <= F[i].first /\ F[i].last <= F[k].last}
<1>1. \A k \in DOMAIN F : /\ F[k].first \in Nat /\ F[k].last \in Nat
                          /\ F[k].parent \in Nat /\ k \in 1..Len(F)
  <2>1. F \in Seq(Function)
    BY FileFacts DEF TypeOK
  <2>2. \A k \in DOMAIN F : k \in 1..Len(F) /\ F[k] \in Function
    <3> HIDE DEF F
    <3> QED BY <2>1
  <2> HIDE DEF F
  <2> QED BY <2>2 DEF Function
<1>2. \A k \in DOMAIN F :
        /\ F[k].parent < k
        /\ F[k].parent # 0 => F[F[k].parent].first <= F[k].first /\ F[k].last <= F[F[k].parent].last
  BY NestingAssumption
<1>3. DOMAIN F = 1..Len(F) /\ Len(F) \in Nat
  BY FileFacts DEF TypeOK
<1>4. \A k \in S \union {i} : F[k].parent \in S \union {0}
  <2> SUFFICES ASSUME NEW k \in S \union {i}, F[k].parent # 0
               PROVE  F[k].parent \in S
    OBVIOUS
  <2>1. k \in DOMAIN F /\ F[k].first <= F[i].first /\ F[i].last <= F[k].last
    BY <1>1
  <2> DEFINE p == F[k].parent
  <2>2. p \in DOMAIN F
    BY <1>1, <1>2, <1>3, <2>1
  <2>3. F[p].first <= F[k].first /\ F[k].last <= F[p].last
    BY <1>2, <2>1
  <2>4. F[p].first \in Nat /\ F[p].last \in Nat /\ F[k].first \in Nat /\ F[k].last \in Nat
    BY <1>1, <2>1, <2>2
  <2>5. F[p].first <= F[i].first /\ F[i].last <= F[p].last
    BY <1>1, <2>1, <2>3, <2>4
  <2> QED BY <2>2, <2>5
<1>5. S \in SUBSET DOMAIN F
  OBVIOUS
<1>6. j \in S
  BY <1>4, <1>5 DEF Outer
<1> QED BY <1>6

(* It stands behind each of them in the file.                              *)
LEMMA OuterBefore ==
  ASSUME TypeOK, file \in Files, NEW i \in DOMAIN file.functions, NEW j \in Outer(i)
  PROVE  j < i /\ j \in DOMAIN file.functions
<1> DEFINE F == file.functions
           S == {k \in DOMAIN F : k < i}
<1>1. DOMAIN F = 1..Len(F) /\ Len(F) \in Nat /\ \A k \in DOMAIN F : F[k].parent \in Nat
  <2>1. F \in Seq(Function)
    BY FileFacts DEF TypeOK
  <2>2. \A k \in DOMAIN F : F[k] \in Function
    <3> HIDE DEF F
    <3> QED BY <2>1
  <2>3. DOMAIN F = 1..Len(F) /\ Len(F) \in Nat
    <3> HIDE DEF F
    <3> QED BY <2>1
  <2> HIDE DEF F
  <2> QED BY <2>2, <2>3 DEF Function
<1>2. i \in DOMAIN F /\ \A k \in DOMAIN F : F[k].parent < k
  BY NestingAssumption
<1>3. \A k \in S \union {i} : F[k].parent \in S \union {0}
  <2> HIDE DEF F
  <2> QED BY <1>1, <1>2
<1>4. S \in SUBSET DOMAIN F
  OBVIOUS
<1> QED BY <1>3, <1>4 DEF Outer

(* The first one with the smallest span of the functions around a line     *)
(* answers.                                                                *)
LEMMA FirstAnswers ==
  ASSUME TypeOK, NEW line, NEW i \in Around(line),
         \A j \in Around(line) \ {i} : Span(i) < Span(j) \/ (Span(i) = Span(j) /\ i < j)
  PROVE  ScopeFor(line) = {i}
<1>1. \A j \in Around(line) : Span(j) \in Int /\ j \in Nat
  BY ScopeFacts DEF Around
<1>2. i \in ScopeFor(line)
  <2> SUFFICES ASSUME NEW j \in Around(line)
               PROVE  Span(i) < Span(j) \/ (Span(i) = Span(j) /\ i <= j)
    BY DEF ScopeFor
  <2>1. CASE j = i
    BY <1>1, <2>1
  <2>2. CASE j # i
    BY <1>1, <2>2
  <2> QED BY <2>1, <2>2
<1>3. \A j \in ScopeFor(line) : j = i
  <2> SUFFICES ASSUME NEW j \in ScopeFor(line), j # i
               PROVE  FALSE
    OBVIOUS
  <2>1. j \in Around(line) /\ (Span(j) < Span(i) \/ (Span(j) = Span(i) /\ j <= i))
    BY DEF ScopeFor
  <2>2. Span(i) < Span(j) \/ (Span(i) = Span(j) /\ i < j)
    BY <2>1
  <2> HIDE DEF Span
  <2> QED BY <1>1, <2>1, <2>2
<1> QED BY <1>2, <1>3

(* What the only function that answers for a line says of two arguments.   *)
LEMMA OneAnswers ==
  ASSUME NEW line, NEW i, ScopeFor(line) = {i}
  PROVE  AnsweredBy(i, line)
<1> SUFFICES ASSUME NEW v \in Vars, NEW w \in Vars, v <= w
             PROVE  FlowForSink(line, {v, w}) =
                      IF scopes[i][v] # Clean
                        THEN {[variable |-> v, origin |-> scopes[i][v]]}
                      ELSE IF scopes[i][w] # Clean
                        THEN {[variable |-> w, origin |-> scopes[i][w]]}
                      ELSE {}
  BY DEF AnsweredBy
<1> DEFINE known == {x \in {v, w} : scopes[i][x] # Clean}
           answers == {[variable |-> x, origin |-> scopes[i][x]] :
                         x \in {x \in known : \A y \in known : x <= y}}
<1>1. FlowForSink(line, {v, w}) = answers
  BY DEF FlowForSink
<1>2. v \in Nat /\ w \in Nat
  BY ConstantsAssumption
<1>3. CASE scopes[i][v] # Clean
  <2>1. {x \in known : \A y \in known : x <= y} = {v}
    BY <1>2, <1>3
  <2> QED BY <1>1, <1>3, <2>1
<1>4. CASE scopes[i][v] = Clean /\ scopes[i][w] # Clean
  <2>1. {x \in known : \A y \in known : x <= y} = {w}
    BY <1>2, <1>4
  <2> QED BY <1>1, <1>4, <2>1
<1>5. CASE scopes[i][v] = Clean /\ scopes[i][w] = Clean
  <2>1. known = {}
    BY <1>5
  <2> QED BY <1>1, <1>5, <2>1
<1> QED BY <1>3, <1>4, <1>5

(* Wherever a sink of a function is, a function around it that answers has *)
(* the same lines: the spans tell all others apart, because a function     *)
(* lies within those it is nested in.  Where no other lines reach, of all  *)
(* that have its lines the outermost one answers, with its own first       *)
(* tainted argument: it is the first of them in the file.                  *)
THEOREM SinksAskTheirFunction == Spec => []OwnScopeAnswers
<1>1. IInv /\ file \in Files => OwnScopeAnswers
  <2> SUFFICES ASSUME IInv, file \in Files,
                      NEW i \in DOMAIN scopes, NEW line \in Lines(i)
               PROVE  /\ ScopeFor(line) \intersect Outer(i) \subseteq Sharing(i)
                      /\ Innermost(i, line) =>
                           \E j \in Sharing(i) : /\ Sharing(i) \intersect Outer(j) = {}
                                                 /\ AnsweredBy(j, line)
    BY DEF OwnScopeAnswers
  <2>1. /\ TypeOK /\ i \in DOMAIN file.functions
        /\ file.functions[i].first \in Nat /\ file.functions[i].last \in Nat
        /\ Span(i) \in Int /\ i \in Nat
    BY ScopeFacts DEF IInv
  <2>2. i \in Around(line)
    BY <2>1 DEF Around, Lines
  (* An outer function has the same lines, or more of them. *)
  <2>3. ASSUME NEW j \in Around(line) \intersect Outer(i)
        PROVE  (j \in Sharing(i) /\ Span(j) = Span(i)) \/ Span(i) < Span(j)
    <3>1. file.functions[j].first \in Nat /\ file.functions[j].last \in Nat
      BY <2>1, ScopeFacts DEF Around
    <3>2. /\ file.functions[j].first <= file.functions[i].first
          /\ file.functions[i].last <= file.functions[j].last
      BY <2>1, OuterLines
    <3>3. CASE /\ file.functions[i].first = file.functions[j].first
               /\ file.functions[i].last = file.functions[j].last
      <4>1. Lines(i) = Lines(j) /\ Span(i) = Span(j)
        BY <3>3, Zenon DEF Lines, Span
      <4> QED BY <4>1 DEF Sharing
    <3>4. CASE \/ file.functions[i].first # file.functions[j].first
               \/ file.functions[i].last # file.functions[j].last
      <4>1. Span(i) < Span(j)
        BY <2>1, <3>1, <3>2, <3>4 DEF Span
      <4> QED BY <4>1
    <3> QED BY <3>3, <3>4
  <2>4. ASSUME NEW j \in ScopeFor(line) \intersect Outer(i)
        PROVE  j \in Sharing(i)
    <3>1. j \in Around(line) /\ (Span(j) < Span(i) \/ Span(j) = Span(i))
      <4>1. j = i \/ Span(j) < Span(i) \/ Span(j) = Span(i)
        BY <2>2, <2>4 DEF ScopeFor
      <4> QED BY <2>4, <4>1 DEF ScopeFor
    <3>2. Span(i) \in Int /\ Span(j) \in Int
      BY <2>1, <3>1, ScopeFacts DEF Around
    <3>3. ~(Span(i) < Span(j))
      BY <3>1, <3>2
    <3> QED BY <2>3, <2>4, <3>1, <3>3
  <2>5. ASSUME Innermost(i, line)
        PROVE  \E j \in Sharing(i) : /\ Sharing(i) \intersect Outer(j) = {}
                                     /\ AnsweredBy(j, line)
    <3>1. \A j \in Sharing(i) : /\ j \in DOMAIN file.functions /\ j \in Nat /\ j <= i
                                /\ j \in DOMAIN scopes
      <4>1. \A j \in Sharing(i) : j \in DOMAIN file.functions /\ (j < i \/ j = i)
        BY <2>1, OuterBefore DEF Sharing
      <4>2. DOMAIN file.functions \subseteq Nat \ {0}
        BY <2>1, FileFacts DEF TypeOK
      <4>3. DOMAIN scopes = 1..Len(scopes) /\ Len(scopes) \in Nat
        BY <2>1 DEF TypeOK
      <4> QED BY <2>1, <4>1, <4>2, <4>3
    <3>2. i \in Sharing(i)
      BY DEF Sharing
    <3>3. PICK j \in Sharing(i) : \A k \in Sharing(i) : j <= k
      BY <3>1, <3>2, FirstOf
    <3>4. Sharing(i) \intersect Outer(j) = {}
      <4> SUFFICES ASSUME NEW k \in Sharing(i), k \in Outer(j)
                   PROVE  FALSE
        OBVIOUS
      <4>1. k < j /\ j <= k /\ j \in Nat /\ k \in Nat
        BY <2>1, <3>1, <3>3, OuterBefore
      <4> QED BY <4>1
    <3>5. j \in Around(line) /\ Span(j) = Span(i)
      <4>1. j = i \/ j \in Outer(i)
        BY DEF Sharing
      <4>2. line \in Lines(j)
        BY DEF Sharing
      <4>3. file.functions[j].first \in Nat /\ file.functions[j].last \in Nat
        BY <2>1, <3>1, ScopeFacts
      <4>4. j \in Around(line)
        BY <2>1, <3>1, <4>2, <4>3 DEF Around, Lines
      <4>5. CASE j = i
        BY <4>4, <4>5
      <4>6. CASE j \in Outer(i)
        <5>1. /\ file.functions[j].first <= file.functions[i].first
              /\ file.functions[i].last <= file.functions[j].last
          BY <2>1, <4>6, OuterLines
        <5>2. Lines(i) = Lines(j)
          BY DEF Sharing
        <5>3. /\ file.functions[i].first = file.functions[j].first
              /\ file.functions[i].last = file.functions[j].last
          BY <2>1, <4>2, <4>3, <5>1, <5>2, SMTT(30) DEF Lines
        <5> QED BY <4>4, <5>3 DEF Span
      <4> QED BY <4>1, <4>5, <4>6
    <3>6. ASSUME NEW k \in Around(line) \ {j}
          PROVE  Span(j) < Span(k) \/ (Span(j) = Span(k) /\ j < k)
      <4>1. k = i \/ k \in Outer(i)
        BY <2>5 DEF Innermost
      <4>2. (k \in Sharing(i) /\ Span(k) = Span(i)) \/ Span(i) < Span(k)
        BY <2>3, <3>2, <4>1
      <4>3. CASE k \in Sharing(i) /\ Span(k) = Span(i)
        <5>1. j <= k /\ j # k /\ j \in Nat /\ k \in Nat
          BY <3>1, <3>3, <4>3
        <5> QED BY <3>5, <4>3, <5>1
      <4>4. CASE Span(i) < Span(k)
        BY <3>5, <4>4
      <4> QED BY <4>2, <4>3, <4>4
    <3>7. ScopeFor(line) = {j}
      BY <2>1, <3>5, <3>6, FirstAnswers
    <3> QED BY <3>4, <3>7, OneAnswers
  <2> QED BY <2>4, <2>5
<1>2. IInv => file \in Files
  BY DEF IInv, FileKnown
<1> QED BY <1>1, <1>2, AlwaysIInv, PTL

=============================================================================
