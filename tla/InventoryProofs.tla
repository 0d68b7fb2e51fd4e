-------------------------- MODULE InventoryProofs --------------------------
(***************************************************************************)
(* Proofs about Inventory, for any tree, any texts, any snapshots and any  *)
(* number of changes while it runs: a lockfile that is named as the target *)
(* is never a report of nothing, one that a walk finds is in a list, the   *)
(* packages are what the lockfiles pin, and the hits are those of them     *)
(* that an advisory enumerates.                                            *)
(***************************************************************************)
EXTENDS Inventory, FiniteSetTheorems, FunctionTheorems, WellFoundedInduction, TLAPS

Named == target # Tree

(* The file is at work, or about to be: nothing is reported yet. *)
AtWork ==
  Named /\ pc \in {"start", "check", "read", "lines"} =>
    errors = <<>> /\ lockfiles = <<>> /\ unsupported = <<>>

AtTarget == Named /\ pc \in {"check", "read", "lines"} => at = target

(* It was taken in, and is in one of the two lists. *)
TakenIn ==
  Named /\ pc \in {"sort", "advisories", "done"} =>
    /\ errors = <<>>
    /\ \/ lockfiles = <<target>> /\ unsupported = <<>>
       \/ lockfiles = <<>> /\ unsupported = <<target>>

(* No walk, whose error arm records and goes on. *)
NoWalk == Named => pc \notin {"walk", "lockfile"}

IInv == AtWork /\ AtTarget /\ TakenIn /\ NoWalk

LEMMA InitIInv == Init => IInv
BY DEF Init, IInv, AtWork, AtTarget, TakenIn, NoWalk, Named

(* The two ends of the parser, for a named file. *)
LEMMA BrokenKeeps ==
  ASSUME IInv, pc \in {"check", "read", "lines"}, Broken, target' = target, at' = at
  PROVE  IInv'
BY DEF Broken, IInv, AtWork, AtTarget, TakenIn, NoWalk, Named

LEMMA ParsedKeeps ==
  ASSUME IInv, pc \in {"check", "read", "lines"}, NEW found, Parsed(found),
         target' = target, at' = at
  PROVE  IInv'
<1>1. Named => lockfiles' = <<target>>
  <2> SUFFICES ASSUME Named PROVE lockfiles' = <<target>>
    OBVIOUS
  <2>1. lockfiles = <<>> /\ at = target
    BY DEF IInv, AtWork, AtTarget
  <2> QED BY <2>1 DEF Parsed
<1> QED BY <1>1 DEF Parsed, IInv, AtWork, AtTarget, TakenIn, NoWalk, Named

LEMMA NextIInv == IInv /\ [Next]_vars => IInv'
<1> SUFFICES ASSUME IInv, [Next]_vars PROVE IInv'
  OBVIOUS
<1> USE DEF IInv, AtWork, AtTarget, TakenIn, NoWalk, Named
<1>1. ASSUME NEW f \in Paths, Edit(f) PROVE IInv'
  BY <1>1 DEF Edit, walk, parser, report
<1>2. ASSUME NEW f \in Paths, Visit(f) PROVE IInv'
  BY <1>2 DEF Visit, surroundings, parser, report
<1>3. CASE MissingTarget
  BY <1>3 DEF MissingTarget, surroundings, walk, parser, report
<1>4. CASE SingleFile
  BY <1>4 DEF SingleFile, surroundings, walk
<1>5. CASE StartWalk \/ EndWalk \/ NextLockfile \/ EndLockfiles
  BY <1>5 DEF StartWalk, EndWalk, NextLockfile, EndLockfiles, surroundings, walk, parser, report
<1>6. CASE CheckLockfile
  <2>1. CASE Broken
    BY <1>6, <2>1, BrokenKeeps DEF CheckLockfile, surroundings, parser
  <2>2. CASE pc' = "read" /\ UNCHANGED report
    BY <1>6, <2>2 DEF CheckLockfile, surroundings, parser, report
  <2> QED BY <1>6, <2>1, <2>2 DEF CheckLockfile
<1>7. CASE ReadFails
  BY <1>7, BrokenKeeps DEF ReadFails, surroundings, parser
<1>8. CASE ReadCargoLock
  BY <1>8 DEF ReadCargoLock, Readable, surroundings, walk, report
<1>9. CASE ReadPackageLock
  <2>1. pc = "read" /\ target' = target /\ at' = at
    BY <1>9 DEF ReadPackageLock, Readable, surroundings, parser
  <2>2. Broken \/ \E found : Parsed(found)
    BY <1>9 DEF ReadPackageLock
  <2> QED BY <2>1, <2>2, BrokenKeeps, ParsedKeeps
<1>10. CASE PackageHeader \/ OtherTable \/ Key \/ OtherLine
  <2>1. pc = "lines" /\ target' = target /\ at' = at
    BY <1>10 DEF PackageHeader, OtherTable, Key, OtherLine, AtLine, surroundings
  <2>2. Broken \/ (pc' = pc /\ UNCHANGED report)
    BY <1>10 DEF PackageHeader, OtherTable, Key, OtherLine, BrokenLine
  <2>3. CASE Broken
    BY <2>1, <2>3, BrokenKeeps
  <2>4. CASE pc' = pc /\ UNCHANGED report
    BY <2>1, <2>4 DEF report
  <2> QED BY <2>2, <2>3, <2>4
<1>11. CASE EndOfText
  <2>1. pc = "lines" /\ target' = target /\ at' = at
    BY <1>11 DEF EndOfText, surroundings, parser
  <2>2. Broken \/ Parsed(Flushed)
    BY <1>11 DEF EndOfText
  <2> QED BY <2>1, <2>2, BrokenKeeps, ParsedKeeps
<1>12. CASE SortReport
  BY <1>12 DEF SortReport, surroundings, walk, parser
<1>13. CASE ApplyAdvisoryDb
  BY <1>13 DEF ApplyAdvisoryDb, surroundings, walk, parser
<1>14. CASE UNCHANGED vars
  BY <1>14 DEF vars, surroundings, parser, report
<1> QED
  BY <1>1, <1>2, <1>3, <1>4, <1>5, <1>6, <1>7, <1>8, <1>9, <1>10, <1>11, <1>12, <1>13, <1>14
  DEF Next

(* Whatever happens to the file between the look at it and the read, and   *)
(* wherever its text breaks off, a report of a named file lists it as a    *)
(* lockfile or as unsupported, and has no errors.                          *)
THEOREM NamedFile == Spec => []NamedFileFailsClosed
<1>1. IInv => NamedFileFailsClosed
  <2> SUFFICES ASSUME IInv, Done, target # Tree
               PROVE  errors = <<>> /\ lockfiles \o unsupported = <<target>>
    BY DEF NamedFileFailsClosed
  <2>1. errors = <<>> /\ (\/ lockfiles = <<target>> /\ unsupported = <<>>
                          \/ lockfiles = <<>> /\ unsupported = <<target>>)
    BY DEF IInv, TakenIn, Named, Done
  <2>2. <<target>> \o <<>> = <<target>> /\ <<>> \o <<target>> = <<target>>
    OBVIOUS
  <2> QED BY <2>1, <2>2
<1> QED BY InitIInv, NextIInv, <1>1, PTL DEF Spec

-----------------------------------------------------------------------------
(* Sequences of paths. *)

Increasing(s) == \A j, k \in DOMAIN s : j < k => s[j] < s[k]

LEMMA AppendOf ==
  ASSUME NEW S, NEW s \in Seq(S), NEW e \in S
  PROVE  /\ Append(s, e) \in Seq(S) /\ Append(s, e) # <<>>
         /\ ToSet(Append(s, e)) = ToSet(s) \union {e}
<1>1. /\ Append(s, e) \in Seq(S) /\ Len(Append(s, e)) = Len(s) + 1 /\ Len(s) \in Nat
      /\ Append(s, e)[Len(s) + 1] = e
      /\ \A k \in 1..Len(s) : Append(s, e)[k] = s[k]
      /\ DOMAIN s = 1..Len(s) /\ DOMAIN Append(s, e) = 1..Len(s) + 1
  OBVIOUS
<1> DEFINE a == Append(s, e)
<1> HIDE DEF a
<1>2. ToSet(a) \subseteq ToSet(s) \union {e}
  BY <1>1 DEF ToSet, a
<1>3. ToSet(s) \union {e} \subseteq ToSet(a)
  BY <1>1 DEF ToSet, a
<1> QED BY <1>1, <1>2, <1>3 DEF a

LEMMA AppendIncreasing ==
  ASSUME NEW s \in Seq(Nat), NEW e \in Nat, Increasing(s), \A f \in ToSet(s) : f < e
  PROVE  Increasing(Append(s, e))
<1>1. /\ Len(Append(s, e)) = Len(s) + 1 /\ Len(s) \in Nat
      /\ Append(s, e)[Len(s) + 1] = e
      /\ \A k \in 1..Len(s) : Append(s, e)[k] = s[k]
      /\ DOMAIN s = 1..Len(s) /\ DOMAIN Append(s, e) = 1..Len(s) + 1
  OBVIOUS
<1>2. \A k \in 1..Len(s) : s[k] < e
  BY <1>1 DEF ToSet
<1> QED BY <1>1, <1>2 DEF Increasing

LEMMA TailOf ==
  ASSUME NEW S, NEW s \in Seq(S), s # <<>>
  PROVE  /\ Tail(s) \in Seq(S) /\ Head(s) \in S
         /\ ToSet(s) = {Head(s)} \union ToSet(Tail(s))
         /\ Increasing(s) => Increasing(Tail(s)) /\ \A f \in ToSet(Tail(s)) : Head(s) < f
<1>1. /\ Tail(s) \in Seq(S) /\ Head(s) = s[1] /\ s[1] \in S
      /\ Len(s) \in Nat /\ Len(s) > 0 /\ Len(Tail(s)) = Len(s) - 1
      /\ DOMAIN s = 1..Len(s) /\ DOMAIN Tail(s) = 1..Len(s) - 1
      /\ \A k \in 1..Len(s) - 1 : Tail(s)[k] = s[k + 1]
  OBVIOUS
<1> DEFINE t == Tail(s)
           n == Len(s)
<1> HIDE DEF t, n
<1>2. /\ n \in Nat /\ n > 0
      /\ DOMAIN s = 1..n /\ DOMAIN t = 1..n - 1
      /\ \A k \in 1..n - 1 : t[k] = s[k + 1]
  BY <1>1 DEF t, n
<1>3. \A k \in 2..n : k - 1 \in DOMAIN t /\ s[k] = t[k - 1]
  BY <1>2
<1>4. ToSet(t) = {s[k] : k \in 2..n}
  <2>1. ToSet(t) \subseteq {s[k] : k \in 2..n}
    <3>1. \A k \in 1..n - 1 : k + 1 \in 2..n
      BY <1>2
    <3> QED BY <1>2, <3>1 DEF ToSet
  <2>2. {s[k] : k \in 2..n} \subseteq ToSet(t)
    BY <1>3 DEF ToSet
  <2> QED BY <2>1, <2>2
<1>5. 1..n = {1} \union 2..n
  BY <1>2
<1>6. ToSet(s) = {s[1]} \union ToSet(t)
  BY <1>2, <1>4, <1>5 DEF ToSet
<1>7. ASSUME Increasing(s)
      PROVE  Increasing(t) /\ \A f \in ToSet(t) : s[1] < f
  <2>1. \A j, k \in 1..n : j < k => s[j] < s[k]
    BY <1>2, <1>7 DEF Increasing
  <2>2. \A f \in ToSet(t) : s[1] < f
    BY <1>2, <1>4, <1>5, <2>1
  <2>3. \A j, k \in 1..n - 1 : j < k => j + 1 \in 1..n /\ k + 1 \in 1..n /\ j + 1 < k + 1
    BY <1>2
  <2> QED BY <1>2, <2>1, <2>2, <2>3 DEF Increasing
<1> QED BY <1>1, <1>6, <1>7 DEF t

LEMMA WiderSeq ==
  ASSUME NEW S, NEW T, S \subseteq T, NEW s \in Seq(S)
  PROVE  s \in Seq(T)
<1>1. Len(s) \in Nat /\ s \in [1..Len(s) -> S]
  OBVIOUS
<1>2. s \in [1..Len(s) -> T]
  BY <1>1
<1> QED BY <1>1, <1>2

LEMMA EmptyOf == /\ ToSet(<<>>) = {} /\ Increasing(<<>>)
                 /\ \A S : <<>> \in Seq(S)
BY DEF ToSet, Increasing

(* The sorted sequence holds the whole set. *)
LEMMA SortedOf ==
  ASSUME NEW S, IsFiniteSet(S), NEW s \in Sorted(S)
  PROVE  s \in Seq(S) /\ ToSet(s) = S /\ Increasing(s)
<1> DEFINE n == Cardinality(S)
<1>1. n \in Nat
  BY FS_CardinalityType
<1>2. s \in [1..n -> S] /\ \A i, j \in 1..n : i # j => s[i] # s[j]
  BY DEF Sorted, SetToSeqs
<1>3. s \in Injection(1..n, S)
  BY <1>2 DEF Injection, IsInjective
<1>4. Cardinality(1..n) = n
  <2> HIDE DEF n
  <2>1. Cardinality(1..n) = IF 1 > n THEN 0 ELSE n - 1 + 1
    BY <1>1, FS_Interval
  <2> QED BY <1>1, <2>1
<1>5. s \in Surjection(1..n, S)
  BY <1>3, <1>4, FS_Injection
<1>6. ToSet(s) = S
  BY <1>2, <1>5 DEF Surjection, ToSet
<1>7. s \in Seq(S)
  BY <1>1, <1>2
<1> QED BY <1>6, <1>7 DEF Sorted, Increasing

-----------------------------------------------------------------------------
(* A walk over a tree.  The files a walk finds, among those nothing has    *)
(* touched since the start, are the regular ones with a lockfile's name.   *)

Regular(f) == disk[f].state \notin {"gone", "link"}

Lockfile == (Supported \union Unsupported) \ Hidden

DiskTyped ==
  /\ target \in Targets /\ DOMAIN disk = Paths
  /\ \A f \in Paths : disk[f] \in [state : States, text : Text(f)]

Walked ==
  /\ discovered \subseteq Lockfile /\ unvisited \subseteq Paths \ Hidden
  /\ discovered \intersect unvisited = {}
  /\ pc = "start" => discovered = {}
  /\ pc # "walk" => unvisited = {}
  /\ target = Tree /\ pc # "start" =>
       \A f \in Lockfile \ (unvisited \union edited) : f \in discovered <=> Regular(f)

(* Behind the walk each file is reported, at work or to come, in this      *)
(* order and once.                                                         *)
Parsing == pc \in {"check", "read", "lines"}

Work == IF Parsing THEN {at} ELSE {}

Handled == ToSet(lockfiles) \union ToSet(unsupported) \union ToSet(errors)

Placed ==
  /\ {lockfiles, unsupported, errors, queue} \subseteq Seq(Paths)
  /\ Parsing => at \in Paths
  /\ target = Tree /\ pc \in {"start", "walk"} => Handled = {}
  /\ target = Tree /\ pc \notin {"start", "walk"} =>
       /\ Handled \union Work \union ToSet(queue) = discovered
       /\ Increasing(queue)
       /\ \A f \in Handled, g \in Work \union ToSet(queue) : f < g
       /\ \A f \in Work, g \in ToSet(queue) : f < g
       /\ Increasing(lockfiles) /\ Increasing(unsupported) /\ Increasing(errors)
       /\ ToSet(lockfiles) \intersect ToSet(unsupported) = {}
       /\ ToSet(lockfiles) \intersect ToSet(errors) = {}
       /\ ToSet(unsupported) \intersect ToSet(errors) = {}
  /\ target = Tree /\ pc \in {"sort", "advisories", "done"} => queue = <<>>

(* The verdicts on the files whose text was read. *)
Judged ==
  /\ \A f \in ToSet(lockfiles) : f \in read /\ WellFormed(f)
  /\ \A f \in ToSet(errors) \intersect read : ~WellFormed(f)
  /\ read \subseteq ToSet(lockfiles) \union ToSet(errors)
                      \union (IF pc = "lines" THEN {at} ELSE {})
                      \union (IF pc = "failed" THEN {target} ELSE {})

(* The parser of a Cargo.lock has seen the lines before `line`. *)
Refused == WithHash \union Unquotable

Seen == 1..line - 1

OpenSection(h) ==
  /\ h \in Sections(text) \intersect Seen
  /\ \A j \in h + 1..line - 1 : text[j].kind \notin {"package", "table"}

HasSeen(h, key) == \E k \in Seen : Belongs(text, h, k) /\ text[k].kind = key

LinesSeen ==
  pc = "lines" =>
    /\ at \in CargoLocks /\ text = disk[at].text /\ at \in read
    /\ line \in 1..Len(text) + 1
    /\ draft.open \/ parsed # <<>> <=> Sections(text) \intersect Seen # {}
    /\ draft.open <=> \E h \in Seen : OpenSection(h)
    /\ \A h \in Sections(text) \intersect Seen : \A key \in {"name", "version"} :
         IF OpenSection(h) THEN draft[key] # NoValue <=> HasSeen(h, key)
         ELSE HasSeen(h, key)
    /\ \A h \in Sections(text), k \in Seen :
         Belongs(text, h, k) /\ text[k].kind \in Keys => text[k].value \notin Refused

Maybe == Values \union {NoValue}

DraftTyped ==
  /\ draft \in [open : BOOLEAN, name : Maybe, version : Maybe, source : Maybe]
  /\ parsed \in Seq([ecosystem : {"cargo"}, name : Maybe, version : Maybe, source : Maybe,
                    lockfile : Paths])

TreeInv ==
  /\ DiskTyped /\ Walked /\ Placed /\ Judged /\ LinesSeen /\ DraftTyped

LEMMA Constants ==
  /\ Paths \subseteq Nat /\ IsFiniteSet(Paths) /\ Tree \notin Paths
  /\ Supported \subseteq Paths /\ Unsupported \subseteq Paths /\ Others \subseteq Paths
  /\ CargoLocks \subseteq Supported /\ NpmLocks \subseteq Supported
  /\ Supported = CargoLocks \union NpmLocks
  /\ CargoLocks \intersect NpmLocks = {}
  /\ Supported \intersect Unsupported = {}
  /\ Supported \intersect Others = {} /\ Unsupported \intersect Others = {}
  /\ Targets \subseteq Paths \union {Tree}
  /\ Lockfile \subseteq Paths /\ Lockfile \subseteq Supported \union Unsupported
BY ConstantsAssumption DEF Paths, Supported, Lockfile

(* Only somebody else changes a file, and then only what state it is in.   *)
LEMMA Surroundings ==
  [Next]_vars => \/ \E f \in Paths : Edit(f)
                 \/ UNCHANGED <<disk, target, edited>>
<1>1. \A f \in Paths : Visit(f) => UNCHANGED <<disk, target, edited>>
  BY DEF Visit, surroundings
<1>2. MissingTarget \/ SingleFile \/ StartWalk \/ EndWalk => UNCHANGED <<disk, target, edited>>
  BY DEF MissingTarget, SingleFile, StartWalk, EndWalk, surroundings
<1>3. NextLockfile \/ EndLockfiles \/ CheckLockfile => UNCHANGED <<disk, target, edited>>
  BY DEF NextLockfile, EndLockfiles, CheckLockfile, surroundings
<1>4. ReadFails \/ ReadCargoLock \/ ReadPackageLock => UNCHANGED <<disk, target, edited>>
  BY DEF ReadFails, ReadCargoLock, ReadPackageLock, surroundings
<1>5. PackageHeader \/ OtherTable \/ Key \/ OtherLine \/ EndOfText
        => UNCHANGED <<disk, target, edited>>
  BY DEF PackageHeader, OtherTable, Key, OtherLine, EndOfText, surroundings
<1>6. SortReport \/ ApplyAdvisoryDb => UNCHANGED <<disk, target, edited>>
  BY DEF SortReport, ApplyAdvisoryDb, surroundings
<1>7. UNCHANGED vars => UNCHANGED <<disk, target, edited>>
  BY DEF vars, surroundings
<1> QED BY <1>1, <1>2, <1>3, <1>4, <1>5, <1>6, <1>7 DEF Next

LEMMA TextKept ==
  ASSUME DiskTyped, [Next]_vars
  PROVE  /\ DiskTyped' /\ target' = target /\ edited \subseteq edited'
         /\ \A f \in Paths : disk'[f].text = disk[f].text
         /\ \A f \in Paths \ edited' : disk'[f] = disk[f]
<1>1. ASSUME NEW f \in Paths, Edit(f)
      PROVE  /\ DiskTyped' /\ target' = target /\ edited \subseteq edited'
             /\ \A g \in Paths : disk'[g].text = disk[g].text
             /\ \A g \in Paths \ edited' : disk'[g] = disk[g]
  <2>1. /\ target' = target /\ edited' = edited \union {f}
        /\ \E state \in States : disk' = [disk EXCEPT ![f].state = state]
    BY <1>1 DEF Edit
  <2>2. PICK state \in States : disk' = [disk EXCEPT ![f].state = state]
    BY <2>1
  <2>3. disk[f] \in [state : States, text : Text(f)] /\ DOMAIN disk = Paths
    BY DEF DiskTyped
  <2>4. DOMAIN disk' = Paths /\ disk'[f] = [disk[f] EXCEPT !.state = state]
        /\ \A g \in Paths \ {f} : disk'[g] = disk[g]
    BY <2>2, <2>3
  <2>5. disk'[f] \in [state : States, text : Text(f)] /\ disk'[f].text = disk[f].text
    BY <2>3, <2>4
  <2>6. DiskTyped'
    BY <2>1, <2>4, <2>5 DEF DiskTyped
  <2> QED BY <2>1, <2>4, <2>5, <2>6
<1>2. ASSUME UNCHANGED <<disk, target, edited>>
      PROVE  /\ DiskTyped' /\ target' = target /\ edited \subseteq edited'
             /\ \A g \in Paths : disk'[g].text = disk[g].text
             /\ \A g \in Paths \ edited' : disk'[g] = disk[g]
  BY <1>2 DEF DiskTyped
<1> QED BY <1>1, <1>2, Surroundings

(* So what was well-formed stays it. *)
LEMMA VerdictsKept ==
  ASSUME DiskTyped, [Next]_vars
  PROVE  \A f \in Paths : WellFormed(f)' <=> WellFormed(f)
<1> SUFFICES ASSUME NEW f \in Paths
             PROVE  WellFormed(f)' <=> WellFormed(f)
  OBVIOUS
<1>1. disk'[f].text = disk[f].text
  BY TextKept
<1> QED BY <1>1 DEF WellFormed

-----------------------------------------------------------------------------
(* Behind the walk nothing is found any more. *)
Later ==
  \/ NextLockfile \/ EndLockfiles \/ CheckLockfile \/ ReadFails
  \/ ReadCargoLock \/ ReadPackageLock \/ PackageHeader \/ OtherTable \/ Key \/ OtherLine
  \/ EndOfText \/ SortReport \/ ApplyAdvisoryDb

LEMMA Split ==
  [Next]_vars <=>
    \/ \E f \in Paths : Edit(f) \/ Visit(f)
    \/ MissingTarget \/ SingleFile \/ StartWalk \/ EndWalk
    \/ Later \/ UNCHANGED vars
BY DEF Next, Later

LEMMA LaterSteps ==
  ASSUME Later
  PROVE  /\ UNCHANGED <<disk, target, edited, unvisited, discovered>>
         /\ pc \notin {"start", "walk"} /\ pc' \notin {"start", "walk"}
<1> USE DEF surroundings, walk
<1>1. CASE NextLockfile \/ EndLockfiles
  BY <1>1 DEF NextLockfile, EndLockfiles
<1>2. CASE CheckLockfile \/ ReadFails
  BY <1>2 DEF CheckLockfile, ReadFails, Broken
<1>3. CASE ReadCargoLock \/ ReadPackageLock
  BY <1>3 DEF ReadCargoLock, ReadPackageLock, Readable, Broken, Parsed
<1>4. CASE PackageHeader \/ OtherTable
  BY <1>4 DEF PackageHeader, OtherTable, AtLine, BrokenLine, Broken
<1>5. CASE Key \/ OtherLine \/ EndOfText
  BY <1>5 DEF Key, OtherLine, EndOfText, AtLine, BrokenLine, Broken, Parsed
<1>6. CASE SortReport \/ ApplyAdvisoryDb
  BY <1>6 DEF SortReport, ApplyAdvisoryDb
<1> QED BY <1>1, <1>2, <1>3, <1>4, <1>5, <1>6 DEF Later

LEMMA WalkedKept == TreeInv /\ [Next]_vars => Walked'
<1> SUFFICES ASSUME TreeInv, [Next]_vars
             PROVE  Walked'
  OBVIOUS
<1>1. Walked /\ DiskTyped
  BY DEF TreeInv
<1>2. ASSUME NEW f \in Paths, Edit(f)
      PROVE  Walked'
  <2>1. /\ UNCHANGED <<unvisited, discovered, pc, target>> /\ edited' = edited \union {f}
        /\ \A g \in Paths \ edited' : disk'[g] = disk[g]
    BY <1>1, <1>2, TextKept DEF Edit, walk
  <2> QED BY <1>1, <2>1, Constants DEF Walked, Regular
<1>3. ASSUME NEW f \in Paths, Visit(f)
      PROVE  Walked'
  <2>1. /\ pc = "walk" /\ f \in unvisited /\ unvisited' = unvisited \ {f}
        /\ discovered' = IF ~Regular(f) \/ f \in Others THEN discovered
                         ELSE discovered \union {f}
        /\ UNCHANGED <<disk, target, edited, pc>>
    BY <1>3 DEF Visit, surroundings, Regular
  <2>2. f \in Others <=> f \notin Lockfile
    BY <1>1, <2>1, Constants DEF Walked, Lockfile, Paths
  <2> QED BY <1>1, <2>1, <2>2 DEF Walked, Regular
<1>4. CASE MissingTarget \/ SingleFile
  BY <1>1, <1>4 DEF MissingTarget, SingleFile, surroundings, walk, Walked
<1>5. CASE StartWalk
  BY <1>1, <1>5, Constants DEF StartWalk, surroundings, Walked, Lockfile
<1>6. CASE EndWalk
  BY <1>1, <1>6 DEF EndWalk, surroundings, Walked, Regular
<1>7. CASE Later
  BY <1>1, <1>7, LaterSteps DEF Walked, Regular
<1>8. CASE UNCHANGED vars
  BY <1>1, <1>8 DEF vars, surroundings, walk, Walked, Regular
<1> QED BY <1>2, <1>3, <1>4, <1>5, <1>6, <1>7, <1>8, Split

LEMMA DraftKept == TreeInv /\ [Next]_vars => DraftTyped'
<1> SUFFICES ASSUME TreeInv, [Next]_vars
             PROVE  DraftTyped'
  OBVIOUS
<1> DEFINE Drafts == [open : BOOLEAN, name : Maybe, version : Maybe, source : Maybe]
           Package == [ecosystem : {"cargo"}, name : Maybe, version : Maybe,
                       source : Maybe, lockfile : Paths]
<1>1. draft \in Drafts /\ parsed \in Seq(Package)
  BY DEF TreeInv, DraftTyped
<1>2. NoDraft \in Drafts /\ [NoDraft EXCEPT !.open = TRUE] \in Drafts
  BY DEF NoDraft, Maybe
<1>3. pc = "lines" => Flushed \in Seq(Package)
  <2> SUFFICES ASSUME pc = "lines", draft.open
               PROVE  Flushed \in Seq(Package)
    BY <1>1 DEF Flushed
  <2>1. at \in Paths
    BY DEF TreeInv, Placed, Parsing
  <2>2. [ecosystem |-> "cargo", name |-> draft.name, version |-> draft.version,
         source |-> draft.source, lockfile |-> at] \in Package
    BY <1>1, <2>1
  <2> HIDE DEF Package
  <2> QED BY <1>1, <2>2 DEF Flushed
<1>4. CASE UNCHANGED <<draft, parsed>>
  BY <1>1, <1>4 DEF DraftTyped
<1>5. CASE ReadCargoLock
  BY <1>2, <1>5 DEF ReadCargoLock, DraftTyped
<1>6. CASE PackageHeader \/ OtherTable
  <2>1. draft' \in Drafts /\ parsed' \in Seq(Package)
    BY <1>1, <1>2, <1>3, <1>6 DEF PackageHeader, OtherTable, BrokenLine, AtLine
  <2> QED BY <2>1 DEF DraftTyped
<1>7. CASE Key
  <2>1. CASE UNCHANGED draft
    BY <1>1, <1>7, <2>1 DEF Key, BrokenLine, DraftTyped
  <2>2. CASE draft' = [draft EXCEPT ![text[line].kind] = text[line].value]
    <3>1. text \in Seq(Line) /\ line \in 1..Len(text)
      <4>1. at \in CargoLocks /\ text = disk[at].text /\ line \in 1..Len(text) + 1
            /\ line <= Len(text)
        BY <1>7 DEF Key, AtLine, TreeInv, LinesSeen
      <4>2. disk[at].text \in Seq(Line)
        BY <4>1, Constants DEF TreeInv, DiskTyped, Text
      <4> QED BY <4>1, <4>2
    <3>2. text[line].value \in Maybe
      <4>1. text[line] \in Line
        BY <3>1
      <4> QED BY <4>1 DEF Line, Maybe
    <3>3. text[line].kind \in Keys
      BY <1>7 DEF Key, AtLine
    <3>4. draft' \in Drafts
      BY <1>1, <2>2, <3>2, <3>3 DEF Keys
    <3>5. parsed' = parsed
      BY <1>7 DEF Key, BrokenLine
    <3> QED BY <1>1, <3>4, <3>5 DEF DraftTyped
  <2> QED BY <1>7, <2>1, <2>2 DEF Key, BrokenLine
<1>8. \/ UNCHANGED <<draft, parsed>> \/ ReadCargoLock \/ PackageHeader \/ OtherTable \/ Key
  <2>1. \A f \in Paths : Edit(f) \/ Visit(f) => UNCHANGED <<draft, parsed>>
    BY DEF Edit, Visit, parser
  <2>2. MissingTarget \/ SingleFile \/ StartWalk \/ EndWalk => UNCHANGED <<draft, parsed>>
    BY DEF MissingTarget, SingleFile, StartWalk, EndWalk, parser
  <2>3. NextLockfile \/ EndLockfiles \/ CheckLockfile \/ ReadFails => UNCHANGED <<draft, parsed>>
    BY DEF NextLockfile, EndLockfiles, CheckLockfile, ReadFails, parser
  <2>4. ReadPackageLock \/ OtherLine \/ EndOfText => UNCHANGED <<draft, parsed>>
    BY DEF ReadPackageLock, OtherLine, EndOfText, parser
  <2>5. SortReport \/ ApplyAdvisoryDb \/ UNCHANGED vars => UNCHANGED <<draft, parsed>>
    BY DEF SortReport, ApplyAdvisoryDb, vars, parser
  <2> QED BY <2>1, <2>2, <2>3, <2>4, <2>5 DEF Next
<1> QED BY <1>4, <1>5, <1>6, <1>7, <1>8

-----------------------------------------------------------------------------
(* The three lists. *)

(* Nothing moves. *)
LEMMA QuietPlaced ==
  ASSUME Placed, UNCHANGED <<lockfiles, unsupported, errors, queue, discovered, target, at>>,
         Parsing' <=> Parsing,
         pc' \in {"start", "walk"} <=> pc \in {"start", "walk"},
         target = Tree /\ pc' \in {"sort", "advisories", "done"} => queue = <<>>
  PROVE  Placed'
<1>1. Work' = Work /\ Handled' = Handled
  BY DEF Work, Handled
<1> QED BY <1>1 DEF Placed, Increasing

(* The file at work becomes one of a list. *)
LEMMA Listing ==
  ASSUME Placed, Parsing, target = Tree, NEW s \in {lockfiles, unsupported, errors}
  PROVE  /\ Append(s, at) \in Seq(Paths)
         /\ ToSet(Append(s, at)) = ToSet(s) \union {at}
         /\ Increasing(Append(s, at))
         /\ at \notin Handled
<1>1. s \in Seq(Paths) /\ at \in Paths
  BY DEF Placed
<1>2. \A f \in Handled : f < at
  BY DEF Placed, Parsing, Work
<1>3. ToSet(s) \subseteq Handled /\ Increasing(s)
  BY DEF Handled, Placed, Parsing
<1>4. at \in Nat /\ s \in Seq(Nat)
  BY <1>1, Constants, WiderSeq
<1>5. at \notin Handled
  BY <1>2, <1>4
<1> QED BY <1>1, <1>2, <1>3, <1>4, <1>5, AppendOf, AppendIncreasing

LEMMA BrokenPlaced ==
  ASSUME Placed, Parsing, Broken, UNCHANGED <<queue, discovered, target, at>>
  PROVE  Placed'
<1>1. CASE target = Tree
  <2>1. /\ errors' = Append(errors, at) /\ pc' = "lockfile"
        /\ UNCHANGED <<lockfiles, unsupported>>
    BY <1>1 DEF Broken
  <2>2. /\ errors' \in Seq(Paths) /\ ToSet(errors') = ToSet(errors) \union {at}
        /\ Increasing(errors') /\ at \notin Handled
    BY <1>1, <2>1, Listing
  <2>3. Work = {at} /\ Work' = {} /\ ~Parsing' /\ Handled' = Handled \union {at}
    BY <2>1, <2>2 DEF Work, Parsing, Handled
  <2>4. Increasing(queue) => Increasing(queue)'
    BY DEF Increasing
  <2>5. Increasing(errors)' /\ Increasing(lockfiles)' /\ Increasing(unsupported)'
    BY <1>1, <2>1, <2>2 DEF Increasing, Placed, Parsing
  <2> QED BY <1>1, <2>1, <2>2, <2>3, <2>4, <2>5 DEF Placed, Parsing, Handled
<1>2. CASE target # Tree
  BY <1>2 DEF Broken, Placed, Parsing
<1> QED BY <1>1, <1>2

LEMMA ParsedPlaced ==
  ASSUME Placed, Parsing, NEW found, Parsed(found), UNCHANGED <<queue, discovered, target, at>>
  PROVE  Placed'
<1>0. lockfiles' = Append(lockfiles, at) /\ UNCHANGED <<unsupported, errors>>
  BY DEF Parsed
<1>1. CASE target = Tree
  <2>1. pc' = "lockfile"
    BY <1>1 DEF Parsed
  <2>2. /\ lockfiles' \in Seq(Paths) /\ ToSet(lockfiles') = ToSet(lockfiles) \union {at}
        /\ Increasing(lockfiles') /\ at \notin Handled
    BY <1>0, <1>1, Listing
  <2>3. Work = {at} /\ Work' = {} /\ ~Parsing' /\ Handled' = Handled \union {at}
    BY <1>0, <2>1, <2>2 DEF Work, Parsing, Handled
  <2>4. Increasing(queue) => Increasing(queue)'
    BY DEF Increasing
  <2>5. Increasing(errors)' /\ Increasing(lockfiles)' /\ Increasing(unsupported)'
    BY <1>0, <1>1, <2>2 DEF Increasing, Placed, Parsing
  <2> QED BY <1>0, <1>1, <2>1, <2>2, <2>3, <2>4, <2>5 DEF Placed, Parsing, Handled
<1>2. CASE target # Tree
  <2>1. lockfiles' \in Seq(Paths) /\ ~Parsing'
    BY <1>0, <1>2, AppendOf DEF Placed, Parsing, Parsed
  <2> QED BY <1>0, <1>2, <2>1 DEF Placed
<1> QED BY <1>1, <1>2

LEMMA NextPlaced ==
  ASSUME TreeInv, NextLockfile
  PROVE  Placed'
<1>1. /\ pc = "lockfile" /\ queue # <<>> /\ queue' = Tail(queue)
      /\ UNCHANGED <<lockfiles, errors, discovered, target>>
  BY DEF NextLockfile, surroundings
<1>2. Placed /\ queue \in Seq(Paths)
  BY DEF TreeInv, Placed
<1>3. /\ queue' \in Seq(Paths) /\ Head(queue) \in Paths
      /\ ToSet(queue) = {Head(queue)} \union ToSet(queue')
      /\ Increasing(queue) => Increasing(queue') /\ \A f \in ToSet(queue') : Head(queue) < f
  BY <1>1, <1>2, TailOf
<1> DEFINE h == Head(queue)
<1> HIDE DEF h
<1>4. /\ queue' \in Seq(Paths) /\ h \in Paths
      /\ ToSet(queue) = {h} \union ToSet(queue')
      /\ Increasing(queue) => Increasing(queue') /\ \A f \in ToSet(queue') : h < f
  BY <1>3 DEF h
<1>5. Work = {}
  BY <1>1 DEF Work, Parsing
<1>6. target = Tree => /\ Handled \union {h} \union ToSet(queue') = discovered
                       /\ Increasing(queue')
                       /\ \A f \in Handled, g \in {h} \union ToSet(queue') : f < g
                       /\ \A g \in ToSet(queue') : h < g
                       /\ h \notin Handled
  <2> SUFFICES ASSUME target = Tree
               PROVE  /\ Handled \union {h} \union ToSet(queue') = discovered
                      /\ Increasing(queue')
                      /\ \A f \in Handled, g \in {h} \union ToSet(queue') : f < g
                      /\ \A g \in ToSet(queue') : h < g
                      /\ h \notin Handled
    OBVIOUS
  <2>1. /\ Handled \union ToSet(queue) = discovered /\ Increasing(queue)
        /\ \A f \in Handled, g \in ToSet(queue) : f < g
    BY <1>1, <1>2, <1>5 DEF Placed
  <2>2. h \notin Handled
    <3>1. ~(h < h)
      BY <1>4, Constants
    <3> QED BY <1>4, <2>1, <3>1
  <2> QED BY ONLY <1>4, <2>1, <2>2
<1>7. CASE unsupported' = Append(unsupported, h) /\ UNCHANGED <<pc, at>>
  <2>1. /\ unsupported' \in Seq(Paths) /\ ToSet(unsupported') = ToSet(unsupported) \union {h}
    BY <1>2, <1>4, <1>7, AppendOf DEF Placed
  <2>2. Work' = {} /\ ~Parsing' /\ Handled' = Handled \union {h}
    BY <1>1, <1>7, <2>1 DEF Work, Parsing, Handled
  <2>3. target = Tree => Increasing(unsupported')
    <3>1. unsupported \in Seq(Nat) /\ h \in Nat
      BY <1>2, <1>4, Constants, WiderSeq DEF Placed
    <3>2. target = Tree => Increasing(unsupported) /\ \A f \in ToSet(unsupported) : f < h
      BY <1>1, <1>2, <1>6 DEF Placed, Handled
    <3> QED BY <1>7, <3>1, <3>2, AppendIncreasing
  <2>4. target = Tree =>
          Increasing(queue)' /\ Increasing(unsupported)' /\ Increasing(lockfiles)'
            /\ Increasing(errors)'
    BY <1>1, <1>2, <1>6, <2>3 DEF Increasing, Placed
  <2> QED BY <1>1, <1>2, <1>4, <1>6, <1>7, <2>1, <2>2, <2>4 DEF Placed, Handled
<1>8. CASE at' = h /\ pc' = "check" /\ UNCHANGED unsupported
  <2>1. Work' = {h} /\ Parsing' /\ Handled' = Handled
    BY <1>1, <1>8 DEF Work, Parsing, Handled
  <2>2. target = Tree =>
          Increasing(queue)' /\ Increasing(unsupported)' /\ Increasing(lockfiles)'
            /\ Increasing(errors)'
    BY <1>1, <1>2, <1>6, <1>8 DEF Increasing, Placed
  <2> QED BY <1>1, <1>2, <1>4, <1>6, <1>8, <2>1, <2>2 DEF Placed
<1> QED BY <1>7, <1>8 DEF NextLockfile, h

LEMMA PlacedKept == TreeInv /\ [Next]_vars => Placed'
<1> SUFFICES ASSUME TreeInv, [Next]_vars
             PROVE  Placed'
  OBVIOUS
<1>1. Placed /\ Walked
  BY DEF TreeInv
<1>2. ASSUME NEW f \in Paths, Edit(f)
      PROVE  Placed'
  <2>1. /\ UNCHANGED <<lockfiles, unsupported, errors, queue, discovered, target, at, pc>>
    BY <1>2 DEF Edit, walk, parser, report
  <2> QED BY <1>1, <2>1, QuietPlaced DEF Parsing, Placed
<1>3. ASSUME NEW f \in Paths, Visit(f)
      PROVE  Placed'
  <2>1. /\ UNCHANGED <<lockfiles, unsupported, errors, queue, target, at, pc>> /\ pc = "walk"
    BY <1>3 DEF Visit, surroundings, parser, report
  <2> QED BY <1>1, <2>1 DEF Parsing, Placed, Handled
<1>4. CASE MissingTarget
  BY <1>1, <1>4 DEF MissingTarget, surroundings, walk, parser, report, Placed, Parsing
<1>5. CASE SingleFile
  <2>1. target # Tree /\ UNCHANGED <<lockfiles, errors, queue, target>>
    BY <1>5 DEF SingleFile, surroundings, walk
  <2>2. target \in Paths
    BY <2>1, Constants DEF TreeInv, DiskTyped
  <2>3. unsupported' \in Seq(Paths)
    <3>1. <<target>> \in Seq(Paths)
      BY <2>2
    <3> QED BY <1>1, <1>5, <3>1 DEF SingleFile, Placed
  <2>4. Parsing' => at' \in Paths
    BY <1>5, <2>2 DEF SingleFile, Parsing
  <2> QED BY <1>1, <2>1, <2>3, <2>4 DEF Placed
<1>6. CASE StartWalk
  BY <1>1, <1>6 DEF StartWalk, surroundings, parser, report, Placed, Parsing, Handled
<1>7. CASE EndWalk
  <2>1. /\ pc = "walk" /\ pc' = "lockfile" /\ queue' \in Sorted(discovered)
        /\ UNCHANGED <<lockfiles, unsupported, errors, discovered, target, at>>
    BY <1>7 DEF EndWalk, surroundings, parser, report
  <2>2. IsFiniteSet(discovered) /\ discovered \subseteq Paths
    BY <1>1, Constants, FS_Subset DEF Walked
  <2>3. queue' \in Seq(discovered) /\ ToSet(queue') = discovered /\ Increasing(queue')
    BY <2>1, <2>2, SortedOf
  <2>4. queue' \in Seq(Paths)
    BY <2>2, <2>3
  <2>5. Work' = {} /\ ~Parsing' /\ Handled' = Handled
    BY <2>1 DEF Work, Parsing, Handled
  <2>6. target = Tree => /\ Handled = {} /\ ToSet(lockfiles) = {} /\ ToSet(unsupported) = {}
                         /\ ToSet(errors) = {}
    BY <1>1, <2>1 DEF Placed, Handled
  <2>7. target = Tree => Increasing(lockfiles)' /\ Increasing(unsupported)' /\ Increasing(errors)'
    BY <2>1, <2>6 DEF Increasing, ToSet
  <2>8. Increasing(queue)'
    BY <2>3 DEF Increasing
  <2> QED BY <1>1, <2>1, <2>3, <2>4, <2>5, <2>6, <2>7, <2>8 DEF Placed
<1>8. CASE NextLockfile
  BY <1>8, NextPlaced
<1>9. CASE EndLockfiles
  BY <1>1, <1>9, QuietPlaced DEF EndLockfiles, surroundings, walk, parser, report, Parsing
<1>10. CASE CheckLockfile \/ ReadFails \/ EndOfText \/ ReadPackageLock
  <2>1. Parsing /\ UNCHANGED <<queue, discovered, target, at>>
    BY <1>10 DEF CheckLockfile, ReadFails, EndOfText, ReadPackageLock, Readable, Parsing,
                 surroundings, walk, parser
  <2>2. CASE Broken
    BY <1>1, <2>1, <2>2, BrokenPlaced
  <2>3. CASE \E found : Parsed(found)
    BY <1>1, <2>1, <2>3, ParsedPlaced
  <2>4. CASE pc' = "read" /\ UNCHANGED report
    BY <1>1, <2>1, <2>4, QuietPlaced DEF report, Parsing
  <2> QED BY <1>10, <2>2, <2>3, <2>4 DEF CheckLockfile, ReadFails, EndOfText, ReadPackageLock
<1>11. CASE ReadCargoLock
  BY <1>1, <1>11, QuietPlaced
  DEF ReadCargoLock, Readable, surroundings, walk, report, Parsing
<1>12. CASE PackageHeader \/ OtherTable \/ Key \/ OtherLine
  <2>1. pc = "lines" /\ UNCHANGED <<queue, discovered, target, at>>
    BY <1>12 DEF PackageHeader, OtherTable, Key, OtherLine, AtLine, surroundings, walk
  <2>2. CASE Broken
    BY <1>1, <2>1, <2>2, BrokenPlaced DEF Parsing
  <2>3. CASE UNCHANGED <<pc, report>>
    BY <1>1, <2>1, <2>3, QuietPlaced DEF report, Parsing
  <2> QED BY <1>12, <2>2, <2>3
          DEF PackageHeader, OtherTable, Key, OtherLine, BrokenLine
<1>13. CASE SortReport
  BY <1>1, <1>13, QuietPlaced DEF SortReport, surroundings, walk, parser, Parsing, Placed
<1>14. CASE ApplyAdvisoryDb
  BY <1>1, <1>14, QuietPlaced DEF ApplyAdvisoryDb, surroundings, walk, parser, Parsing, Placed
<1>15. CASE UNCHANGED vars
  BY <1>1, <1>15, QuietPlaced DEF vars, surroundings, walk, parser, report, Parsing, Placed
<1> QED BY <1>2, <1>3, <1>4, <1>5, <1>6, <1>7, <1>8, <1>9, <1>10, <1>11, <1>12, <1>13,
           <1>14, <1>15 DEF Next

-----------------------------------------------------------------------------
(* The sections of a Cargo.lock. *)

Complete(h) == HasSeen(h, "name") /\ HasSeen(h, "version")

(* A set of positions has a last one. *)
LEMMA LastIn ==
  ASSUME NEW n \in Nat, NEW S \in SUBSET (1..n), S # {}
  PROVE  \E m \in S : \A k \in S : k <= m
<1> DEFINE T == {n - k : k \in S}
<1>1. T \in SUBSET Nat /\ T # {}
  <2>1. \A k \in S : n - k \in Nat
    OBVIOUS
  <2> QED BY <2>1
<1>2. PICK t \in T : \A u \in T : ~(<<u, t>> \in OpToRel(<, Nat))
  BY <1>1, NatLessThanWellFounded, WFMin
<1>3. PICK m \in S : t = n - m
  BY <1>2
<1>4. \A k \in S : ~(n - k < n - m)
  BY <1>1, <1>2, <1>3 DEF OpToRel
<1>5. \A k \in S : k \in Int /\ m \in Int
  OBVIOUS
<1> QED BY <1>4, <1>5

(* A key that belongs to a section has a last occurrence in it. *)
LEMMA LastKey ==
  ASSUME NEW t \in Seq(Line), NEW h \in Nat, NEW key
  PROVE  LastOf(t, h, key) # {} <=> \E k \in DOMAIN t : Belongs(t, h, k) /\ t[k].kind = key
<1>1. ASSUME NEW k \in DOMAIN t, Belongs(t, h, k), t[k].kind = key
      PROVE  LastOf(t, h, key) # {}
  <2> DEFINE S == {j \in DOMAIN t : Belongs(t, h, j) /\ t[j].kind = key}
  <2>1. Len(t) \in Nat /\ DOMAIN t = 1..Len(t)
    OBVIOUS
  <2>2. S \in SUBSET (1..Len(t)) /\ S # {}
    BY <1>1, <2>1
  <2>3. PICK m \in S : \A j \in S : j <= m
    BY <2>1, <2>2, LastIn
  <2>4. \A j \in m + 1..Len(t) : Belongs(t, h, j) => t[j].kind # key
    <3> SUFFICES ASSUME NEW j \in m + 1..Len(t), Belongs(t, h, j), t[j].kind = key
                 PROVE  FALSE
      OBVIOUS
    <3>1. m \in 1..Len(t)
      BY <2>1
    <3>2. j \in DOMAIN t
      BY <2>1, <3>1
    <3>3. j <= m
      BY <2>3, <3>2
    <3> QED BY <2>1, <3>1, <3>3
  <2> QED BY <2>3, <2>4 DEF LastOf
<1>2. LastOf(t, h, key) # {} => \E k \in DOMAIN t : Belongs(t, h, k) /\ t[k].kind = key
  BY DEF LastOf
<1> QED BY <1>1, <1>2

(* What the parser at a line knows. *)
LEMMA AtLineFacts ==
  ASSUME TreeInv, pc = "lines"
  PROVE  /\ at \in CargoLocks /\ text = disk[at].text /\ text \in Seq(Line)
         /\ Len(text) \in Nat /\ DOMAIN text = 1..Len(text)
         /\ line \in 1..Len(text) + 1 /\ Seen \subseteq DOMAIN text
         /\ WellFormed(at) <=> WellFormedCargo(text, Refused)
         /\ \A k \in DOMAIN text : text[k] \in Line
<1>1. at \in CargoLocks /\ text = disk[at].text /\ line \in 1..Len(text) + 1
  BY DEF TreeInv, LinesSeen
<1>2. disk[at].text \in Seq(Line)
  BY <1>1, Constants DEF TreeInv, DiskTyped, Text
<1>3. text \in Seq(Line) /\ Len(text) \in Nat /\ DOMAIN text = 1..Len(text)
  BY <1>1, <1>2
<1>4. Seen \subseteq DOMAIN text
  BY <1>1, <1>3 DEF Seen
<1>5. \A k \in DOMAIN text : text[k] \in Line
  BY <1>3
<1> QED BY <1>1, <1>3, <1>4, <1>5 DEF WellFormed, Refused

(* The section that is open is one that only lines of its own follow, and  *)
(* there is at most one.                                                   *)
LEMMA OpenIs ==
  ASSUME TreeInv, pc = "lines", NEW h, OpenSection(h)
  PROVE  /\ h \in Sections(text) /\ h \in Seen /\ h \in Nat /\ line \in Nat
         /\ \A k \in Seen : h < k => Belongs(text, h, k)
         /\ \A g : OpenSection(g) => g = h
<1>1. h \in Sections(text) /\ h \in Seen
      /\ \A j \in h + 1..line - 1 : text[j].kind \notin {"package", "table"}
  BY DEF OpenSection
<1>2. line \in Nat /\ Len(text) \in Nat /\ h \in Nat
  BY <1>1, AtLineFacts DEF Seen
<1>3. \A k \in Seen : h < k => Belongs(text, h, k)
  BY <1>1, <1>2 DEF Belongs, Seen
<1>4. ASSUME NEW g, OpenSection(g), g # h
      PROVE  FALSE
  <2>1. /\ g \in Seen /\ text[g].kind = "package" /\ text[h].kind = "package"
        /\ \A j \in g + 1..line - 1 : text[j].kind \notin {"package", "table"}
    BY <1>1, <1>4 DEF OpenSection, Sections
  <2>2. g \in h + 1..line - 1 \/ h \in g + 1..line - 1
    BY <1>1, <1>2, <1>4, <2>1 DEF Seen
  <2> QED BY <1>1, <2>1, <2>2
<1> QED BY <1>1, <1>2, <1>3, <1>4

(* Where a section ends without a key, the text is not well-formed. *)
LEMMA EndsWithout ==
  ASSUME TreeInv, pc = "lines", NEW h, OpenSection(h),
         line > Len(text) \/ text[line].kind \in {"package", "table"},
         NEW key \in {"name", "version"}, ~HasSeen(h, key)
  PROVE  ~WellFormed(at)
<1>1. h \in Sections(text) /\ h \in Nat /\ line \in Nat
  BY OpenIs
<1>2. \A k \in DOMAIN text : Belongs(text, h, k) => k \in Seen
  <2> SUFFICES ASSUME NEW k \in DOMAIN text, Belongs(text, h, k), k \notin Seen
               PROVE  FALSE
    OBVIOUS
  <2>1. k \in 1..Len(text) /\ k >= line /\ Len(text) \in Nat
    BY <1>1, AtLineFacts DEF Seen
  <2>2. line \in h + 1..k
    BY <1>1, <2>1, OpenIs DEF Seen
  <2> QED BY <2>1, <2>2 DEF Belongs
<1>3. LastOf(text, h, key) = {}
  BY <1>1, <1>2, LastKey, AtLineFacts DEF HasSeen
<1> QED BY <1>1, <1>3, AtLineFacts DEF WellFormedCargo

LEMMA BrokenSection ==
  ASSUME TreeInv, pc = "lines", Incomplete,
         line > Len(text) \/ text[line].kind \in {"package", "table"}
  PROVE  ~WellFormed(at)
<1>1. draft.open /\ (draft.name = NoValue \/ draft.version = NoValue)
  BY DEF Incomplete
<1>2. PICK h \in Seen : OpenSection(h)
  BY <1>1 DEF TreeInv, LinesSeen
<1>3. /\ h \in Sections(text)
      /\ draft.name # NoValue <=> HasSeen(h, "name")
      /\ draft.version # NoValue <=> HasSeen(h, "version")
  BY <1>2, OpenIs DEF TreeInv, LinesSeen
<1> QED BY <1>1, <1>2, <1>3, EndsWithout

LEMMA BrokenKey ==
  ASSUME TreeInv, AtLine(Keys), draft.open, ParseQuotedFails(text[line].value)
  PROVE  ~WellFormed(at)
<1>1. pc = "lines" /\ line <= Len(text) /\ text[line].kind \in Keys
  BY DEF AtLine
<1>2. PICK h \in Seen : OpenSection(h)
  BY <1>1 DEF TreeInv, LinesSeen
<1>3. /\ h \in Sections(text) /\ h \in 1..line - 1
      /\ \A j \in h + 1..line - 1 : text[j].kind \notin {"package", "table"}
  BY <1>2 DEF OpenSection, Seen
<1>4. line \in 1..Len(text) /\ line \in DOMAIN text
  BY <1>1, AtLineFacts
<1>5. Belongs(text, h, line)
  <2>1. \A j \in h + 1..line : j \in h + 1..line - 1 \/ j = line
    BY <1>3, <1>4
  <2> QED BY <1>1, <1>3, <1>4, <2>1 DEF Belongs, Keys
<1> QED BY <1>1, <1>3, <1>4, <1>5, AtLineFacts DEF WellFormedCargo, ParseQuotedFails, Refused

(* At the end all sections are known. *)
LEMMA VerdictAtEnd ==
  ASSUME TreeInv, pc = "lines", line > Len(text)
  PROVE  WellFormed(at) <=> ~Incomplete /\ (draft.open \/ parsed # <<>>)
<1>1. Seen = DOMAIN text /\ Sections(text) \subseteq Seen
  BY AtLineFacts DEF Seen, Sections
<1>2. draft.open \/ parsed # <<>> <=> Sections(text) # {}
  BY <1>1 DEF TreeInv, LinesSeen
<1>3. ASSUME ~Incomplete, Sections(text) # {}
      PROVE  WellFormed(at)
  <2>1. \A h \in Sections(text) : HasSeen(h, "name") /\ HasSeen(h, "version")
    <3> SUFFICES ASSUME NEW h \in Sections(text)
                 PROVE  HasSeen(h, "name") /\ HasSeen(h, "version")
      OBVIOUS
    <3>1. CASE OpenSection(h)
      <4>1. draft.open
        BY <1>1, <3>1 DEF TreeInv, LinesSeen
      <4>2. draft["name"] # NoValue /\ draft["version"] # NoValue
        BY <1>3, <4>1 DEF Incomplete
      <4> QED BY <1>1, <3>1, <4>2 DEF TreeInv, LinesSeen
    <3>2. CASE ~OpenSection(h)
      BY <1>1, <3>2 DEF TreeInv, LinesSeen
    <3> QED BY <3>1, <3>2
  <2>2. \A h \in Sections(text) : LastOf(text, h, "name") # {} /\ LastOf(text, h, "version") # {}
    <3> SUFFICES ASSUME NEW h \in Sections(text)
                 PROVE  LastOf(text, h, "name") # {} /\ LastOf(text, h, "version") # {}
      OBVIOUS
    <3>1. h \in Nat
      BY AtLineFacts DEF Sections
    <3>2. ASSUME NEW key, HasSeen(h, key)
          PROVE  LastOf(text, h, key) # {}
      <4>1. \E k \in DOMAIN text : Belongs(text, h, k) /\ text[k].kind = key
        BY <1>1, <3>2 DEF HasSeen
      <4> QED BY <3>1, <4>1, LastKey, AtLineFacts
    <3> QED BY <2>1, <3>2
  <2>3. \A h \in Sections(text), k \in DOMAIN text :
          Belongs(text, h, k) /\ text[k].kind \in Keys => text[k].value \notin Refused
    BY <1>1 DEF TreeInv, LinesSeen
  <2> QED BY <1>3, <2>2, <2>3, AtLineFacts DEF WellFormedCargo
<1>4. ASSUME Incomplete \/ Sections(text) = {}
      PROVE  ~WellFormed(at)
  BY <1>4, BrokenSection, AtLineFacts DEF WellFormedCargo
<1> QED BY <1>2, <1>3, <1>4

(* One line further. *)
LEMMA LineStep ==
  ASSUME TreeInv, pc = "lines", line <= Len(text), text' = text, line' = line + 1
  PROVE  /\ Seen' = Seen \union {line} /\ line \notin Seen
         /\ line \in DOMAIN text /\ line' \in 1..Len(text) + 1
         /\ text[line].kind = "package" => \A g : OpenSection(g)' <=> g = line
         /\ text[line].kind = "table" => \A g : ~OpenSection(g)'
         /\ text[line].kind \notin {"package", "table"} =>
              \A g : OpenSection(g)' <=> OpenSection(g)
         /\ \A h \in Sections(text) : Belongs(text, h, line) =>
              OpenSection(h) /\ text[line].kind \notin {"package", "table"}
         /\ \A h : OpenSection(h) /\ text[line].kind \notin {"package", "table"} =>
              Belongs(text, h, line)
         /\ \A h, key : HasSeen(h, key)' <=>
              HasSeen(h, key) \/ (Belongs(text, h, line) /\ text[line].kind = key)
         /\ \A h, key : h = line => ~HasSeen(h, key)'
<1>1. line \in 1..Len(text) /\ Len(text) \in Nat /\ line \in DOMAIN text /\ line \in Nat
  BY AtLineFacts
<1>2. Seen' = Seen \union {line} /\ line \notin Seen
  BY <1>1 DEF Seen
<1>3. line' \in 1..Len(text) + 1
  BY <1>1
<1>4. \A g : OpenSection(g)' <=>
        /\ g \in Sections(text) /\ (g \in Seen \/ g = line)
        /\ \A j \in g + 1..line : text[j].kind \notin {"package", "table"}
  BY <1>1, <1>2 DEF OpenSection, Sections
<1>5. ASSUME text[line].kind = "package", NEW g
      PROVE  OpenSection(g)' <=> g = line
  <2>1. g \in Seen => line \in g + 1..line
    BY <1>1 DEF Seen
  <2>2. line \in Sections(text)
    BY <1>1, <1>5 DEF Sections
  <2>3. line + 1..line = {}
    BY <1>1
  <2> QED BY <1>4, <1>5, <2>1, <2>2, <2>3
<1>6. ASSUME text[line].kind = "table", NEW g
      PROVE  ~OpenSection(g)'
  <2>1. g \in Seen => line \in g + 1..line
    BY <1>1 DEF Seen
  <2>2. line \notin Sections(text)
    BY <1>1, <1>6 DEF Sections
  <2> QED BY <1>4, <1>6, <2>1, <2>2
<1>7. ASSUME text[line].kind \notin {"package", "table"}, NEW g
      PROVE  OpenSection(g)' <=> OpenSection(g)
  <2>1. g \in Seen => g + 1..line = (g + 1..line - 1) \union {line}
    BY <1>1 DEF Seen
  <2>2. line \notin Sections(text)
    BY <1>1, <1>7 DEF Sections
  <2> QED BY <1>4, <1>7, <2>1, <2>2 DEF OpenSection
<1>8. ASSUME NEW h \in Sections(text), Belongs(text, h, line)
      PROVE  OpenSection(h) /\ text[line].kind \notin {"package", "table"}
  <2>1. h \in Nat /\ h > 0 /\ h < line
    BY <1>1, <1>8, AtLineFacts DEF Sections, Belongs
  <2>2. h \in Seen /\ line \in h + 1..line /\ h + 1..line - 1 \subseteq h + 1..line
    BY <1>1, <2>1 DEF Seen
  <2> QED BY <1>8, <2>2 DEF OpenSection, Belongs
<1>9. ASSUME NEW h, OpenSection(h), text[line].kind \notin {"package", "table"}
      PROVE  Belongs(text, h, line)
  <2>1. h \in Seen => h < line /\ h + 1..line = (h + 1..line - 1) \union {line}
    BY <1>1 DEF Seen
  <2> QED BY <1>9, <2>1 DEF OpenSection, Belongs
<1>10. \A h, key : HasSeen(h, key)' <=>
         HasSeen(h, key) \/ (Belongs(text, h, line) /\ text[line].kind = key)
  BY <1>2 DEF HasSeen, Belongs
<1>11. ASSUME NEW h, NEW key, h = line
       PROVE  ~HasSeen(h, key)'
  <2>1. \A k \in Seen \union {line} : ~(line < k)
    BY <1>1 DEF Seen
  <2>2. \A k \in Seen \union {line} : ~Belongs(text, h, k)
    BY <1>11, <2>1 DEF Belongs
  <2> QED BY <2>2, <1>10 DEF HasSeen
<1> QED BY <1>1, <1>2, <1>3, <1>5, <1>6, <1>7, <1>8, <1>9, <1>10, <1>11

(* What all steps from one line to the next have in common. *)
LEMMA LineKept ==
  ASSUME TreeInv, pc = "lines", line <= Len(text),
         line' = line + 1, UNCHANGED <<disk, pc, at, text, read>>,
         draft'.open \/ parsed' # <<>> <=>
           draft.open \/ parsed # <<>> \/ text[line].kind = "package",
         draft'.open <=> \E h \in Seen \union {line} : OpenSection(h)',
         \A h \in Sections(text) \intersect (Seen \union {line}) : \A key \in {"name", "version"} :
           IF OpenSection(h)' THEN draft'[key] # NoValue <=> HasSeen(h, key)'
           ELSE HasSeen(h, key)',
         \A h \in Sections(text) : Belongs(text, h, line) /\ text[line].kind \in Keys =>
           text[line].value \notin Refused
  PROVE  LinesSeen'
<1>1. /\ Seen' = Seen \union {line} /\ line' \in 1..Len(text) + 1 /\ line \in DOMAIN text
  BY LineStep
<1>2. Sections(text)' = Sections(text)
  BY DEF Sections
<1>3. line \in Sections(text) <=> text[line].kind = "package"
  BY <1>1 DEF Sections
<1>4. at \in CargoLocks /\ text = disk[at].text /\ at \in read
  BY DEF TreeInv, LinesSeen
<1>5. draft.open \/ parsed # <<>> <=> Sections(text) \intersect Seen # {}
  BY DEF TreeInv, LinesSeen
<1>6. draft'.open \/ parsed' # <<>> <=> Sections(text) \intersect (Seen \union {line}) # {}
  BY <1>3, <1>5
<1>7. \A h \in Sections(text), k \in Seen \union {line} :
        Belongs(text, h, k) /\ text[k].kind \in Keys => text[k].value \notin Refused
  BY DEF TreeInv, LinesSeen
<1>8. \A h, k : Belongs(text, h, k)' <=> Belongs(text, h, k)
  BY DEF Belongs
<1>9. (draft.open)' <=> \E h \in Seen' : OpenSection(h)'
  BY <1>1
<1>10. \A h \in Sections(text)' \intersect Seen' : \A key \in {"name", "version"} :
         IF OpenSection(h)' THEN (draft[key])' # NoValue <=> HasSeen(h, key)'
         ELSE HasSeen(h, key)'
  BY <1>1, <1>2
<1>11. \A h \in Sections(text)', k \in Seen' :
         Belongs(text, h, k)' /\ (text[k].kind)' \in Keys => (text[k].value)' \notin Refused
  BY <1>1, <1>2, <1>7, <1>8
<1>12. (draft.open \/ parsed # <<>>)' <=> Sections(text)' \intersect Seen' # {}
  BY <1>1, <1>2, <1>6
<1> QED BY <1>1, <1>4, <1>9, <1>10, <1>11, <1>12 DEF LinesSeen

(* A section that is closed in good order has what it needs. *)
LEMMA ClosedComplete ==
  ASSUME TreeInv, pc = "lines", ~Incomplete
  PROVE  \A h \in Sections(text) \intersect Seen : HasSeen(h, "name") /\ HasSeen(h, "version")
<1> SUFFICES ASSUME NEW h \in Sections(text) \intersect Seen
             PROVE  HasSeen(h, "name") /\ HasSeen(h, "version")
  OBVIOUS
<1>1. CASE OpenSection(h)
  <2>1. draft.open
    BY <1>1 DEF TreeInv, LinesSeen
  <2>2. draft["name"] # NoValue /\ draft["version"] # NoValue
    BY <2>1 DEF Incomplete
  <2> QED BY <1>1, <2>2 DEF TreeInv, LinesSeen
<1>2. CASE ~OpenSection(h)
  BY <1>2 DEF TreeInv, LinesSeen
<1> QED BY <1>1, <1>2

LEMMA FlushedSome ==
  ASSUME TreeInv, pc = "lines"
  PROVE  Flushed # <<>> <=> draft.open \/ parsed # <<>>
<1>1. at \in Paths
  BY DEF TreeInv, Placed, Parsing
<1>2. CASE draft.open
  <2> DEFINE Package == [ecosystem : {"cargo"}, name : Maybe, version : Maybe,
                         source : Maybe, lockfile : Paths]
             p == [ecosystem |-> "cargo", name |-> draft.name, version |-> draft.version,
                   source |-> draft.source, lockfile |-> at]
  <2>1. p \in Package /\ parsed \in Seq(Package)
    BY <1>1 DEF TreeInv, DraftTyped
  <2>2. Flushed = Append(parsed, p)
    BY <1>2 DEF Flushed
  <2> HIDE DEF p, Package
  <2> QED BY <1>2, <2>1, <2>2, AppendOf
<1>3. CASE ~draft.open
  BY <1>3 DEF Flushed
<1> QED BY <1>2, <1>3

LEMMA HeaderKept ==
  ASSUME TreeInv, PackageHeader, pc' = "lines"
  PROVE  LinesSeen'
<1>1. /\ pc = "lines" /\ line <= Len(text) /\ text[line].kind = "package"
      /\ UNCHANGED <<disk, at, text, read, pc>>
  BY DEF PackageHeader, AtLine, surroundings
<1>2. /\ ~Incomplete /\ parsed' = Flushed /\ draft' = [NoDraft EXCEPT !.open = TRUE]
      /\ line' = line + 1
  BY DEF PackageHeader, BrokenLine, Broken
<1>3. draft'.open /\ draft'["name"] = NoValue /\ draft'["version"] = NoValue
  BY <1>2 DEF NoDraft
<1>4. /\ \A g : OpenSection(g)' <=> g = line
      /\ \A h, key : HasSeen(h, key) => HasSeen(h, key)'
      /\ \A h, key : h = line => ~HasSeen(h, key)'
      /\ line \notin Seen
  BY <1>1, <1>2, LineStep
<1>5. \A h \in Sections(text) \intersect (Seen \union {line}) : \A key \in {"name", "version"} :
        IF OpenSection(h)' THEN draft'[key] # NoValue <=> HasSeen(h, key)'
        ELSE HasSeen(h, key)'
  <2>1. \A h \in Sections(text) \intersect Seen : HasSeen(h, "name") /\ HasSeen(h, "version")
    BY <1>1, <1>2, ClosedComplete
  <2>2. \A h \in Sections(text) \intersect Seen : \A key \in {"name", "version"} :
          ~OpenSection(h)' /\ HasSeen(h, key)'
    BY <1>4, <2>1
  <2>3. \A h, key : h = line => OpenSection(h)' /\ ~HasSeen(h, key)'
    BY <1>4
  <2> QED BY ONLY <1>3, <2>2, <2>3
<1>6. draft'.open <=> \E h \in Seen \union {line} : OpenSection(h)'
  BY <1>3, <1>4
<1>7. text[line].kind \notin Keys
  BY <1>1 DEF Keys
<1> QED BY <1>1, <1>2, <1>3, <1>5, <1>6, <1>7, LineKept

LEMMA TableKept ==
  ASSUME TreeInv, OtherTable, pc' = "lines"
  PROVE  LinesSeen'
<1>1. /\ pc = "lines" /\ line <= Len(text) /\ text[line].kind = "table"
      /\ UNCHANGED <<disk, at, text, read, pc>>
  BY DEF OtherTable, AtLine, surroundings
<1>2. ~Incomplete /\ parsed' = Flushed /\ draft' = NoDraft /\ line' = line + 1
  BY DEF OtherTable, BrokenLine, Broken
<1>3. ~draft'.open /\ (parsed' # <<>> <=> draft.open \/ parsed # <<>>)
  BY <1>1, <1>2, FlushedSome DEF NoDraft
<1>4. /\ \A g : ~OpenSection(g)'
      /\ \A h, key : HasSeen(h, key) => HasSeen(h, key)'
      /\ line \in DOMAIN text
  BY <1>1, <1>2, LineStep
<1>5. line \notin Sections(text)
  BY <1>1 DEF Sections
<1>6. \A h \in Sections(text) \intersect (Seen \union {line}) : \A key \in {"name", "version"} :
        IF OpenSection(h)' THEN draft'[key] # NoValue <=> HasSeen(h, key)'
        ELSE HasSeen(h, key)'
  BY <1>1, <1>2, <1>4, <1>5, ClosedComplete
<1>7. draft'.open <=> \E h \in Seen \union {line} : OpenSection(h)'
  BY <1>3, <1>4
<1>8. text[line].kind \notin Keys
  BY <1>1 DEF Keys
<1> QED BY <1>1, <1>2, <1>3, <1>6, <1>7, <1>8, LineKept

LEMMA KeyKept ==
  ASSUME TreeInv, Key, pc' = "lines"
  PROVE  LinesSeen'
<1> DEFINE kind == text[line].kind
           value == text[line].value
<1>1. /\ pc = "lines" /\ line <= Len(text) /\ kind \in Keys /\ draft.open
      /\ UNCHANGED <<disk, at, text, read, pc>>
  BY DEF Key, AtLine, surroundings
<1>2. /\ ~ParseQuotedFails(value) /\ draft' = [draft EXCEPT ![kind] = value]
      /\ parsed' = parsed /\ line' = line + 1
  BY DEF Key, BrokenLine, Broken
<1>3. /\ \A g : OpenSection(g)' <=> OpenSection(g)
      /\ \A h : OpenSection(h) => Belongs(text, h, line)
      /\ \A h \in Sections(text) : Belongs(text, h, line) => OpenSection(h)
      /\ \A h, key : HasSeen(h, key)' <=>
           HasSeen(h, key) \/ (Belongs(text, h, line) /\ kind = key)
      /\ line \in DOMAIN text /\ line \notin Seen
  BY <1>1, <1>2, LineStep DEF Keys
<1>4. value \in Values /\ value # NoValue /\ value \notin Refused
  <2>1. value \in Values
    BY <1>1, <1>3, AtLineFacts DEF Line
  <2> QED BY <1>2, <2>1, ConstantsAssumption DEF ParseQuotedFails, Refused
<1>5. draft'.open = draft.open /\ \A key \in {"name", "version"} :
        draft'[key] = IF kind = key THEN value ELSE draft[key]
  <2>1. draft \in [open : BOOLEAN, name : Maybe, version : Maybe, source : Maybe]
    BY DEF TreeInv, DraftTyped
  <2> HIDE DEF kind, value
  <2> QED BY <1>1, <1>2, <2>1 DEF Keys
<1>6. line \notin Sections(text)
  BY <1>1 DEF Sections, Keys
<1> HIDE DEF kind, value
<1>7. \A h \in Sections(text) \intersect Seen : \A key \in {"name", "version"} :
        IF OpenSection(h) THEN draft[key] # NoValue <=> HasSeen(h, key)
        ELSE HasSeen(h, key)
  BY <1>1 DEF TreeInv, LinesSeen
<1>8. \A h \in Sections(text) \intersect (Seen \union {line}) : \A key \in {"name", "version"} :
        IF OpenSection(h)' THEN draft'[key] # NoValue <=> HasSeen(h, key)'
        ELSE HasSeen(h, key)'
  BY <1>3, <1>4, <1>5, <1>6, <1>7
<1>9. draft.open <=> \E h \in Seen : OpenSection(h)
  BY <1>1 DEF TreeInv, LinesSeen
<1>10. \A h : OpenSection(h) => h \in Seen
  BY DEF OpenSection
<1>11. draft'.open <=> \E h \in Seen \union {line} : OpenSection(h)'
  BY <1>3, <1>5, <1>9, <1>10
<1>12. kind # "package"
  BY <1>1 DEF Keys
<1> QED BY <1>1, <1>2, <1>4, <1>5, <1>8, <1>11, <1>12, LineKept DEF kind, value

LEMMA OtherLineKept ==
  ASSUME TreeInv, OtherLine
  PROVE  LinesSeen'
<1> DEFINE kind == text[line].kind
<1>1. /\ pc = "lines" /\ line <= Len(text) /\ line' = line + 1
      /\ \/ kind = "other"
         \/ kind \in Keys /\ ~draft.open
      /\ UNCHANGED <<disk, at, text, read, pc, draft, parsed>>
  BY DEF OtherLine, AtLine, surroundings
<1>2. /\ \A g : OpenSection(g)' <=> OpenSection(g)
      /\ \A h \in Sections(text) : Belongs(text, h, line) => OpenSection(h)
      /\ \A h, key : HasSeen(h, key)' <=>
           HasSeen(h, key) \/ (Belongs(text, h, line) /\ kind = key)
      /\ line \in DOMAIN text /\ line \notin Seen
  BY <1>1, LineStep DEF Keys
<1>3. line \notin Sections(text)
  BY <1>1 DEF Sections, Keys
<1>4. kind # "package" /\ (kind = "other" => kind \notin Keys \union {"name", "version"})
  BY <1>1 DEF Keys
<1> HIDE DEF kind
<1>5. \A h \in Sections(text) \intersect Seen : \A key \in {"name", "version"} :
        IF OpenSection(h) THEN draft[key] # NoValue <=> HasSeen(h, key)
        ELSE HasSeen(h, key)
  BY <1>1 DEF TreeInv, LinesSeen
<1>6. \A h : OpenSection(h) => h \in Seen
  BY DEF OpenSection
<1>7. draft.open <=> \E h \in Seen : OpenSection(h)
  BY <1>1 DEF TreeInv, LinesSeen
<1>8. \A h \in Sections(text) : Belongs(text, h, line) => kind = "other"
  BY <1>1, <1>2, <1>6, <1>7
<1>9. \A h \in Sections(text) \intersect (Seen \union {line}) : \A key \in {"name", "version"} :
        IF OpenSection(h)' THEN draft'[key] # NoValue <=> HasSeen(h, key)'
        ELSE HasSeen(h, key)'
  BY <1>1, <1>2, <1>3, <1>4, <1>5, <1>8
<1>10. draft'.open <=> \E h \in Seen \union {line} : OpenSection(h)'
  BY <1>1, <1>2, <1>6, <1>7
<1> QED BY <1>1, <1>4, <1>8, <1>9, <1>10, LineKept DEF kind

(* Which steps end in the middle of a text. *)
LEMMA AmidLines ==
  ASSUME [Next]_vars, pc' = "lines"
  PROVE  \/ PackageHeader \/ OtherTable \/ Key \/ OtherLine \/ ReadCargoLock
         \/ pc = "lines" /\ UNCHANGED <<at, text, line, draft, parsed, read>>
<1>1. \A f \in Paths : Edit(f) => pc = "lines" /\ UNCHANGED <<at, text, line, draft, parsed, read>>
  BY DEF Edit, parser
<1>2. UNCHANGED vars => pc = "lines" /\ UNCHANGED <<at, text, line, draft, parsed, read>>
  BY DEF vars, parser
<1>3. \A f \in Paths : ~Visit(f)
  BY DEF Visit
<1>4. ~(MissingTarget \/ SingleFile \/ StartWalk \/ EndWalk \/ NextLockfile \/ EndLockfiles)
  BY DEF MissingTarget, SingleFile, StartWalk, EndWalk, NextLockfile, EndLockfiles
<1>5. ~(CheckLockfile \/ ReadFails \/ ReadPackageLock \/ EndOfText)
  BY DEF CheckLockfile, ReadFails, ReadPackageLock, EndOfText, Broken, Parsed
<1>6. ~(SortReport \/ ApplyAdvisoryDb)
  BY DEF SortReport, ApplyAdvisoryDb
<1> QED BY <1>1, <1>2, <1>3, <1>4, <1>5, <1>6 DEF Next

LEMMA LinesKept == TreeInv /\ [Next]_vars => LinesSeen'
<1> SUFFICES ASSUME TreeInv, [Next]_vars, pc' = "lines"
             PROVE  LinesSeen'
  BY DEF LinesSeen
<1>1. LinesSeen
  BY DEF TreeInv
<1>2. CASE PackageHeader \/ OtherTable \/ Key \/ OtherLine
  BY <1>2, HeaderKept, TableKept, KeyKept, OtherLineKept
<1>3. CASE ReadCargoLock
  <2>1. /\ at \in CargoLocks /\ text' = disk[at].text /\ line' = 1 /\ draft' = NoDraft
        /\ parsed' = <<>> /\ at \in read' /\ UNCHANGED <<at, disk>>
    BY <1>3 DEF ReadCargoLock, surroundings
  <2>2. disk[at].text \in Seq(Line)
    BY <2>1, Constants DEF TreeInv, DiskTyped, Text
  <2>3. line' \in 1..Len(text') + 1 /\ Seen' = {}
    BY <2>1, <2>2 DEF Seen
  <2>4. ~draft'.open
    BY <2>1 DEF NoDraft
  <2> QED BY <2>1, <2>3, <2>4 DEF LinesSeen
<1>4. CASE pc = "lines" /\ UNCHANGED <<at, text, line, draft, parsed, read>>
             /\ \A f \in Paths : disk'[f].text = disk[f].text
  <2>1. at \in Paths
    BY <1>1, <1>4, Constants DEF LinesSeen
  <2>2. /\ Sections(text)' = Sections(text) /\ Seen' = Seen
        /\ \A h, k : Belongs(text, h, k)' <=> Belongs(text, h, k)
    BY <1>4 DEF Sections, Seen, Belongs
  <2>3. /\ \A h : OpenSection(h)' <=> OpenSection(h)
        /\ \A h, key : HasSeen(h, key)' <=> HasSeen(h, key)
    BY <1>4, <2>2 DEF OpenSection, HasSeen
  <2> QED BY <1>1, <1>4, <2>1, <2>2, <2>3 DEF LinesSeen
<1>5. \/ PackageHeader \/ OtherTable \/ Key \/ OtherLine \/ ReadCargoLock
      \/ pc = "lines" /\ UNCHANGED <<at, text, line, draft, parsed, read>>
           /\ \A f \in Paths : disk'[f].text = disk[f].text
  <2>1. \A f \in Paths : disk'[f].text = disk[f].text
    BY TextKept DEF TreeInv
  <2> QED BY <2>1, AmidLines
<1> QED BY <1>2, <1>3, <1>4, <1>5

-----------------------------------------------------------------------------
(* The verdicts. *)

(* A file that is looked at has not been read before. *)
LEMMA NotYetRead ==
  ASSUME TreeInv, IInv, pc \in {"check", "read"}
  PROVE  at \notin read
<1>1. read \subseteq ToSet(lockfiles) \union ToSet(errors)
  BY DEF TreeInv, Judged
<1>2. CASE target = Tree
  <2>1. at \notin Handled
    BY <1>2, Listing DEF TreeInv, Parsing
  <2> QED BY <1>1, <2>1 DEF Handled
<1>3. CASE target # Tree
  <2>1. lockfiles = <<>> /\ errors = <<>>
    BY <1>3 DEF IInv, AtWork, Named
  <2> QED BY <1>1, <2>1, EmptyOf
<1> QED BY <1>2, <1>3

(* Lists of paths, so verdicts on their members do not change. *)
LEMMA ListedPaths ==
  ASSUME TreeInv
  PROVE  ToSet(lockfiles) \subseteq Paths /\ ToSet(errors) \subseteq Paths
<1>1. lockfiles \in Seq(Paths) /\ errors \in Seq(Paths)
  BY DEF TreeInv, Placed
<1> QED BY <1>1 DEF ToSet

LEMMA QuietJudged ==
  ASSUME TreeInv, [Next]_vars, UNCHANGED <<lockfiles, errors, read>>,
         pc = "lines" => pc' = "lines" /\ at' = at,
         pc = "failed" => pc' = "failed"
  PROVE  Judged'
<1>1. \A f \in Paths : WellFormed(f)' <=> WellFormed(f)
  BY VerdictsKept DEF TreeInv
<1>2. target' = target
  BY TextKept DEF TreeInv
<1>3. Judged
  BY DEF TreeInv
<1> QED BY <1>1, <1>2, <1>3, ListedPaths DEF Judged

(* The parser gives up, having read the text or not. *)
LEMMA BrokenJudged ==
  ASSUME TreeInv, IInv, [Next]_vars, Parsing, Broken, UNCHANGED at,
         read' \in {read, read \union {at}},
         at \in read' => ~WellFormed(at)
  PROVE  Judged'
<1>1. \A f \in Paths : WellFormed(f)' <=> WellFormed(f)
  BY VerdictsKept DEF TreeInv
<1>2. target' = target /\ lockfiles' = lockfiles
  BY TextKept DEF TreeInv, Broken
<1>3. Judged /\ at \in Paths
  BY DEF TreeInv, Placed
<1>4. CASE target = Tree
  <2>1. errors' = Append(errors, at) /\ pc' = "lockfile"
    BY <1>4 DEF Broken
  <2>2. ToSet(errors') = ToSet(errors) \union {at}
    BY <1>3, <2>1, AppendOf DEF TreeInv, Placed
  <2>3. \A f \in ToSet(lockfiles) : f \in read' /\ WellFormed(f)'
    BY <1>1, <1>3, ListedPaths DEF Judged
  <2>4. \A f \in ToSet(errors') \intersect read' : ~WellFormed(f)'
    BY <1>1, <1>3, <2>2, ListedPaths DEF Judged
  <2>5. read' \subseteq ToSet(lockfiles) \union ToSet(errors')
    BY <1>3, <2>2 DEF Judged, Parsing
  <2> QED BY <1>2, <2>1, <2>3, <2>4, <2>5 DEF Judged
<1>5. CASE target # Tree
  <2>1. errors' = errors /\ pc' = "failed" /\ at = target
    BY <1>5 DEF Broken, IInv, AtTarget, Named, Parsing
  <2>2. ToSet(lockfiles) = {} /\ ToSet(errors) = {}
    BY <1>5, EmptyOf DEF IInv, AtWork, Named, Parsing
  <2>3. read' \subseteq {target}
    BY <1>3, <2>1, <2>2 DEF Judged, Parsing
  <2> QED BY <1>2, <2>1, <2>2, <2>3 DEF Judged
<1> QED BY <1>4, <1>5

LEMMA ParsedJudged ==
  ASSUME TreeInv, IInv, [Next]_vars, Parsing, NEW found, Parsed(found), UNCHANGED at,
         read' \in {read, read \union {at}}, at \in read', WellFormed(at),
         at \notin ToSet(errors)
  PROVE  Judged'
<1>1. \A f \in Paths : WellFormed(f)' <=> WellFormed(f)
  BY VerdictsKept DEF TreeInv
<1>2. target' = target /\ errors' = errors /\ lockfiles' = Append(lockfiles, at)
  BY TextKept DEF TreeInv, Parsed
<1>3. Judged /\ at \in Paths
  BY DEF TreeInv, Placed
<1>4. ToSet(lockfiles') = ToSet(lockfiles) \union {at}
  BY <1>2, <1>3, AppendOf DEF TreeInv, Placed
<1>5. \A f \in ToSet(lockfiles') : f \in read' /\ WellFormed(f)'
  BY <1>1, <1>3, <1>4, ListedPaths DEF Judged
<1>6. \A f \in ToSet(errors) \intersect read' : ~WellFormed(f)'
  BY <1>1, <1>3, ListedPaths DEF Judged
<1>7. read' \subseteq ToSet(lockfiles') \union ToSet(errors)
  BY <1>3, <1>4 DEF Judged, Parsing
<1> QED BY <1>2, <1>5, <1>6, <1>7 DEF Judged

(* The file at work has no verdict yet. *)
LEMMA NoError ==
  ASSUME TreeInv, IInv, Parsing
  PROVE  at \notin ToSet(errors)
<1>1. CASE target = Tree
  BY <1>1, Listing DEF TreeInv, Handled
<1>2. CASE target # Tree
  BY <1>2, EmptyOf DEF IInv, AtWork, Named, Parsing
<1> QED BY <1>1, <1>2

LEMMA JudgedKept == TreeInv /\ IInv /\ [Next]_vars => Judged'
<1> SUFFICES ASSUME TreeInv, IInv, [Next]_vars
             PROVE  Judged'
  OBVIOUS
<1>1. CASE ReadFails
  <2>1. pc = "read" /\ Broken /\ UNCHANGED <<at, read>>
    BY <1>1 DEF ReadFails, parser
  <2> QED BY <2>1, NotYetRead, BrokenJudged DEF Parsing
<1>2. CASE CheckLockfile
  <2>1. pc = "check" /\ UNCHANGED <<at, read>>
    BY <1>2 DEF CheckLockfile, parser
  <2>2. CASE Broken
    BY <2>1, <2>2, NotYetRead, BrokenJudged DEF Parsing
  <2>3. CASE UNCHANGED report
    BY <2>1, <2>3, QuietJudged DEF report
  <2> QED BY <1>2, <2>2, <2>3 DEF CheckLockfile
<1>3. CASE ReadCargoLock
  <2>1. /\ pc = "read" /\ pc' = "lines" /\ read' = read \union {at}
        /\ UNCHANGED <<at, lockfiles, errors, target>> /\ at \in Paths
    BY <1>3 DEF ReadCargoLock, Readable, report, surroundings, TreeInv, Placed, Parsing
  <2>2. \A f \in Paths : WellFormed(f)' <=> WellFormed(f)
    BY VerdictsKept DEF TreeInv
  <2>3. Judged /\ at \notin ToSet(errors)
    BY <2>1, NoError DEF TreeInv, Parsing
  <2> QED BY <2>1, <2>2, <2>3, ListedPaths DEF Judged
<1>4. CASE ReadPackageLock
  <2>1. pc = "read" /\ read' = read \union {at} /\ UNCHANGED at /\ at \in NpmLocks
    BY <1>4 DEF ReadPackageLock, Readable, parser
  <2>2. WellFormed(at) <=> ~NpmBroken(disk[at].text)
    BY <2>1, Constants DEF WellFormed
  <2>3. CASE NpmBroken(disk[at].text) /\ Broken
    BY <2>1, <2>2, <2>3, BrokenJudged DEF Parsing
  <2>4. CASE ~NpmBroken(disk[at].text) /\ \E found : Parsed(found)
    BY <2>1, <2>2, <2>4, NoError, ParsedJudged DEF Parsing
  <2> QED BY <1>4, <2>3, <2>4 DEF ReadPackageLock
<1>5. CASE PackageHeader \/ OtherTable \/ Key \/ OtherLine
  <2>1. pc = "lines" /\ UNCHANGED <<at, read>>
    BY <1>5 DEF PackageHeader, OtherTable, Key, OtherLine, AtLine
  <2>2. CASE UNCHANGED <<pc, report>>
    BY <2>1, <2>2, QuietJudged DEF report
  <2>3. CASE Broken /\ ~WellFormed(at)
    BY <2>1, <2>3, BrokenJudged DEF Parsing
  <2>4. CASE Broken /\ Incomplete /\ text[line].kind \in {"package", "table"}
    BY <2>1, <2>3, <2>4, BrokenSection
  <2>5. CASE Broken /\ AtLine(Keys) /\ draft.open /\ ParseQuotedFails(text[line].value)
    BY <2>1, <2>3, <2>5, BrokenKey
  <2> QED BY <1>5, <2>2, <2>4, <2>5
          DEF PackageHeader, OtherTable, Key, OtherLine, BrokenLine, AtLine
<1>6. CASE EndOfText
  <2>1. pc = "lines" /\ line > Len(text) /\ UNCHANGED <<at, read>> /\ at \in read
    BY <1>6 DEF EndOfText, parser, TreeInv, LinesSeen
  <2>2. WellFormed(at) <=> ~Incomplete /\ (draft.open \/ parsed # <<>>)
    BY <2>1, VerdictAtEnd
  <2>3. CASE Broken /\ ~WellFormed(at)
    BY <2>1, <2>3, BrokenJudged DEF Parsing
  <2>4. CASE WellFormed(at) /\ Parsed(Flushed)
    BY <2>1, <2>4, NoError, ParsedJudged DEF Parsing
  <2> QED BY <1>6, <2>2, <2>3, <2>4 DEF EndOfText
<1>7. CASE UNCHANGED <<lockfiles, errors, read>> /\ (pc = "failed" => pc' = "failed")
           /\ (pc = "lines" => pc' = "lines" /\ at' = at)
  BY <1>7, QuietJudged
<1>8. \/ ReadFails \/ CheckLockfile \/ ReadCargoLock \/ ReadPackageLock
      \/ PackageHeader \/ OtherTable \/ Key \/ OtherLine \/ EndOfText
      \/ UNCHANGED <<lockfiles, errors, read>> /\ (pc = "failed" => pc' = "failed")
           /\ (pc = "lines" => pc' = "lines" /\ at' = at)
  <2> DEFINE Quiet == UNCHANGED <<lockfiles, errors, read>> /\ (pc = "failed" => pc' = "failed")
                      /\ (pc = "lines" => pc' = "lines" /\ at' = at)
  <2>1. \A f \in Paths : Edit(f) \/ Visit(f) => Quiet
    BY DEF Edit, Visit, parser, report
  <2>2. MissingTarget \/ SingleFile \/ StartWalk \/ EndWalk => Quiet
    BY DEF MissingTarget, SingleFile, StartWalk, EndWalk, report
  <2>3. NextLockfile \/ EndLockfiles => Quiet
    BY DEF NextLockfile, EndLockfiles, report
  <2>4. SortReport \/ ApplyAdvisoryDb => Quiet
    BY DEF SortReport, ApplyAdvisoryDb
  <2>5. UNCHANGED vars => Quiet
    BY DEF vars, parser, report
  <2> QED BY <2>1, <2>2, <2>3, <2>4, <2>5 DEF Next
<1> QED BY <1>1, <1>2, <1>3, <1>4, <1>5, <1>6, <1>7, <1>8

-----------------------------------------------------------------------------
LEMMA InitTreeInv == Init => TreeInv
<1> SUFFICES ASSUME Init
             PROVE  TreeInv
  OBVIOUS
<1>1. DiskTyped
  <2>1. PICK tree \in Trees : disk = tree.disk
    BY DEF Init
  <2>2. target \in Targets
    BY DEF Init
  <2> QED BY <2>1, <2>2, ConstantsAssumption DEF DiskTyped
<1>2. Walked
  BY DEF Init, Walked
<1>3. /\ lockfiles = <<>> /\ unsupported = <<>> /\ errors = <<>> /\ queue = <<>>
      /\ pc = "start" /\ read = {}
  BY DEF Init
<1>4. Placed
  BY <1>3, EmptyOf DEF Placed, Parsing, Handled
<1>5. Judged
  BY <1>3, EmptyOf DEF Judged
<1>6. LinesSeen
  BY <1>3 DEF LinesSeen
<1>7. DraftTyped
  BY EmptyOf DEF Init, DraftTyped, NoDraft, Maybe
<1> QED BY <1>1, <1>2, <1>4, <1>5, <1>6, <1>7 DEF TreeInv

LEMMA NextTreeInv == TreeInv /\ IInv /\ [Next]_vars => TreeInv'
<1>1. TreeInv /\ [Next]_vars => DiskTyped'
  BY TextKept DEF TreeInv
<1> QED BY <1>1, WalkedKept, PlacedKept, JudgedKept, LinesKept, DraftKept DEF TreeInv

(* `loop3r deps` on a tree: whatever the order of the walk, whatever texts *)
(* the files have and whatever changes meanwhile, each lockfile found ends *)
(* in exactly one of the three lists, in path order; a file nobody touched *)
(* is found iff it is there; and what a line-by-line reading of a          *)
(* Cargo.lock takes in or refuses is what reading it section by section    *)
(* takes in or refuses.                                                    *)
THEOREM LockfilesReported == Spec => []EveryLockfileReported
<1>1. TreeInv => EveryLockfileReported
  <2> SUFFICES ASSUME TreeInv, Done, target = Tree
               PROVE  EveryLockfileReported
    BY DEF EveryLockfileReported
  <2> DEFINE found == {f \in Supported \union Unsupported :
                         f \notin Hidden /\ disk[f].state \notin {"gone", "link"}}
             lists == <<lockfiles, unsupported, errors>>
  <2>1. pc = "done" /\ queue = <<>> /\ Work = {} /\ unvisited = {}
    BY DEF Done, TreeInv, Placed, Walked, Work, Parsing
  <2>2. Increasing(lockfiles) /\ Increasing(unsupported) /\ Increasing(errors)
    BY <2>1 DEF TreeInv, Placed
  <2>3. \A i \in 1..3 : \A j, k \in DOMAIN lists[i] : j < k => lists[i][j] < lists[i][k]
    BY <2>2 DEF Increasing
  <2>4. \A i, j \in 1..3 : i # j => ToSet(lists[i]) \intersect ToSet(lists[j]) = {}
    BY <2>1 DEF TreeInv, Placed
  <2>5. UNION {ToSet(lists[i]) : i \in 1..3} = discovered
    <3>1. Handled = discovered
      BY <2>1, EmptyOf DEF TreeInv, Placed
    <3> QED BY <3>1 DEF Handled
  <2>6. discovered \ edited = found \ edited
    <3>1. \A f \in Lockfile \ edited : f \in discovered <=> Regular(f)
      BY <2>1 DEF TreeInv, Walked
    <3>2. discovered \subseteq Lockfile
      BY DEF TreeInv, Walked
    <3> QED BY <3>1, <3>2 DEF Lockfile, Regular
  <2>7. /\ \A f \in ToSet(lockfiles) : f \in read /\ WellFormed(f)
        /\ \A f \in ToSet(errors) : f \in read => ~WellFormed(f)
    BY DEF TreeInv, Judged
  <2> QED BY <2>3, <2>4, <2>5, <2>6, <2>7 DEF EveryLockfileReported
<1> QED BY InitIInv, NextIInv, InitTreeInv, NextTreeInv, <1>1, PTL DEF Spec

-----------------------------------------------------------------------------
(* The packages.  What a lockfile pins is counted once the whole file has  *)
(* been read, and a Cargo.lock by the sections that are closed.            *)

Ecosystem(f) == IF f \in CargoLocks THEN "cargo" ELSE "npm"

PackagesOf(f) ==
  [ecosystem : {Ecosystem(f)}, name : Values, version : Values, source : Maybe, lockfile : {f}]

Package == UNION {PackagesOf(f) : f \in Supported}

Of(s, f, name, version) ==
  {i \in DOMAIN s : s[i].lockfile = f /\ s[i].name = name /\ s[i].version = version}

Count(s, f, name, version) == Cardinality(Of(s, f, name, version))

Counted ==
  /\ snapshot \in Snapshots \union {NoSnapshot}
  /\ packages \in Seq(Package) /\ ToSet(lockfiles) \subseteq Supported
  /\ \A f \in Supported, name, version \in Values :
       Count(packages, f, name, version) =
         IF f \in ToSet(lockfiles) THEN Pins(f, name, version) ELSE 0
  /\ pc \in {"advisories", "done"} =>
       \A i, j \in DOMAIN packages :
         i < j => ~Before(PackageKey(packages[j]), PackageKey(packages[i]))
  /\ pc = "advisories" => snapshot # NoSnapshot
  /\ pc # "done" => vulnerabilities = <<>>

(* A section pins a package with its last name and its last version. *)
SectionPins(t, h, name, version) ==
  name \in LastOf(t, h, "name") /\ version \in LastOf(t, h, "version")

Closed == {h \in Sections(text) \intersect Seen : ~OpenSection(h)}

(* What the draft has of a key is the last that the section said so far. *)
Drafted ==
  pc = "lines" =>
    /\ parsed \in Seq(PackagesOf(at))
    /\ \A name, version \in Values :
         Count(parsed, at, name, version) =
           Cardinality({h \in Closed : SectionPins(text, h, name, version)})
    /\ \A h \in Seen : OpenSection(h) => \A key \in {"name", "version"} : draft[key] # NoValue =>
         \E k \in Seen :
           /\ Belongs(text, h, k) /\ text[k].kind = key /\ text[k].value = draft[key]
           /\ \A j \in Seen : k < j => text[j].kind # key

LEMMA OfIs ==
  ASSUME NEW S, NEW s \in Seq(S), NEW f, NEW name, NEW version
  PROVE  /\ Of(s, f, name, version) \in SUBSET (1..Len(s)) /\ Len(s) \in Nat
         /\ IsFiniteSet(Of(s, f, name, version))
         /\ Count(s, f, name, version) \in Nat
         /\ Count(s, f, name, version) = 0 <=> Of(s, f, name, version) = {}
<1>1. Len(s) \in Nat /\ DOMAIN s = 1..Len(s)
  OBVIOUS
<1>2. Of(s, f, name, version) \in SUBSET (1..Len(s))
  BY <1>1 DEF Of
<1> DEFINE O == Of(s, f, name, version)
           n == Len(s)
<1> HIDE DEF O, n
<1>3. IsFiniteSet(1..n)
  BY <1>1, FS_Interval DEF n
<1>4. IsFiniteSet(O)
  BY <1>2, <1>3, FS_Subset DEF O, n
<1>5. Cardinality(O) \in Nat /\ (Cardinality(O) = 0 <=> O = {})
  BY <1>4, FS_CardinalityType, FS_EmptySet
<1> QED BY <1>1, <1>2, <1>4, <1>5 DEF O, n, Count

LEMMA CountNone ==
  ASSUME NEW f, NEW name, NEW version
  PROVE  Count(<<>>, f, name, version) = 0
<1>1. Of(<<>>, f, name, version) = {}
  BY DEF Of
<1> QED BY <1>1, FS_EmptySet DEF Count

LEMMA CountAppend ==
  ASSUME NEW S, NEW s \in Seq(S), NEW p \in S, NEW f, NEW name, NEW version
  PROVE  Count(Append(s, p), f, name, version) =
           Count(s, f, name, version)
             + (IF p.lockfile = f /\ p.name = name /\ p.version = version THEN 1 ELSE 0)
<1> DEFINE t == Append(s, p)
           n == Len(s)
           O == Of(s, f, name, version)
           is == p.lockfile = f /\ p.name = name /\ p.version = version
<1>1. /\ n \in Nat /\ DOMAIN s = 1..n /\ DOMAIN t = 1..n + 1 /\ t[n + 1] = p
      /\ \A i \in 1..n : t[i] = s[i]
  OBVIOUS
<1>2. O \in SUBSET (1..n) /\ IsFiniteSet(O) /\ Cardinality(O) \in Nat
  BY OfIs DEF Count
<1> HIDE DEF t, n
<1>3. Of(t, f, name, version) = O \union (IF is THEN {n + 1} ELSE {})
  <2>1. \A i : i \in 1..n + 1 <=> i \in 1..n \/ i = n + 1
    BY ONLY <1>1
  <2> QED BY <1>1, <2>1 DEF Of
<1>4. n + 1 \notin O
  BY <1>1, <1>2
<1> HIDE DEF O, is
<1>5. CASE is
  <2>1. Cardinality(O \union {n + 1}) = Cardinality(O) + 1
    BY <1>2, <1>4, FS_AddElement
  <2> QED BY <1>3, <1>5, <2>1 DEF Count, O, t, is
<1>6. CASE ~is
  <2>1. Of(t, f, name, version) = O
    BY <1>3, <1>6
  <2>2. Cardinality(O) = Cardinality(O) + 0
    BY <1>2
  <2> QED BY <1>6, <2>1, <2>2 DEF Count, O, t, is
<1> QED BY <1>5, <1>6

LEMMA CountConcat ==
  ASSUME NEW S, NEW s \in Seq(S), NEW t \in Seq(S), NEW f, NEW name, NEW version
  PROVE  Count(s \o t, f, name, version) = Count(s, f, name, version) + Count(t, f, name, version)
<1> DEFINE u == s \o t
           m == Len(s)
           n == Len(t)
           O == Of(s, f, name, version)
           P == Of(t, f, name, version)
           Q == {i \in m + 1..m + n : i - m \in P}
<1>1. /\ m \in Nat /\ n \in Nat /\ DOMAIN s = 1..m /\ DOMAIN t = 1..n /\ DOMAIN u = 1..m + n
      /\ \A i \in 1..m : u[i] = s[i]
      /\ \A i \in m + 1..m + n : u[i] = t[i - m]
  OBVIOUS
<1>2. /\ O \in SUBSET (1..m) /\ IsFiniteSet(O) /\ Cardinality(O) \in Nat
      /\ P \in SUBSET (1..n) /\ IsFiniteSet(P) /\ Cardinality(P) \in Nat
  BY OfIs DEF Count
<1> HIDE DEF u, m, n
<1>3. Of(u, f, name, version) = O \union Q
  <2>1. \A i : i \in 1..m + n <=> i \in 1..m \/ i \in m + 1..m + n
    BY ONLY <1>1
  <2>2. \A i \in m + 1..m + n : i - m \in 1..n
    BY ONLY <1>1
  <2> QED BY <1>1, <2>1, <2>2 DEF Of
<1> HIDE DEF O, P
<1>4. O \intersect Q = {}
  <2>1. \A i \in m + 1..m + n : i \notin 1..m
    BY ONLY <1>1
  <2> QED BY <1>2, <2>1
<1>5. IsFiniteSet(Q) /\ Cardinality(Q) = Cardinality(P)
  <2> DEFINE move == [i \in P |-> i + m]
  <2>1. \A i \in P : i + m \in m + 1..m + n /\ (i + m) - m = i
    BY <1>1, <1>2
  <2>2. move \in [P -> Q]
    <3>1. \A i \in P : i + m \in Q
      BY <2>1
    <3> HIDE DEF Q
    <3> QED BY <3>1
  <2>3. \A i, j \in P : move[i] = move[j] => i = j
    <3> SUFFICES ASSUME NEW i \in P, NEW j \in P, move[i] = move[j]
                 PROVE  i = j
      OBVIOUS
    <3>1. i + m = j + m
      OBVIOUS
    <3>2. i \in Nat /\ j \in Nat
      BY <1>1, <1>2
    <3> QED BY ONLY <1>1, <3>1, <3>2
  <2>4. \A q \in Q : \E i \in P : move[i] = q
    <3> SUFFICES ASSUME NEW q \in Q
                 PROVE  \E i \in P : move[i] = q
      OBVIOUS
    <3>1. q - m \in P /\ (q - m) + m = q
      BY <1>1
    <3> QED BY <3>1
  <2> HIDE DEF move, Q
  <2>5. move \in Bijection(P, Q)
    BY <2>2, <2>3, <2>4 DEF Bijection, Injection, Surjection, IsInjective
  <2> QED BY <1>2, <2>5, FS_Bijection DEF ExistsBijection
<1> HIDE DEF Q
<1>6. Cardinality(O \union Q) = Cardinality(O) + Cardinality(Q) - Cardinality(O \intersect Q)
  BY <1>2, <1>5, FS_Union
<1>7. Cardinality(O \union Q) = Cardinality(O) + Cardinality(P)
  <2>1. Cardinality(O \intersect Q) = 0
    BY <1>4, FS_EmptySet
  <2> QED BY ONLY <1>2, <1>5, <1>6, <2>1
<1> QED BY <1>3, <1>7 DEF Count, u, O, P

(* Counting does not depend on the order. *)
LEMMA CountMoved ==
  ASSUME NEW S, NEW s \in Seq(S), NEW p \in Bijection(DOMAIN s, DOMAIN s),
         NEW f, NEW name, NEW version
  PROVE  Count([k \in DOMAIN s |-> s[p[k]]], f, name, version) = Count(s, f, name, version)
<1> DEFINE t == [k \in DOMAIN s |-> s[p[k]]]
           O == Of(s, f, name, version)
           Q == Of(t, f, name, version)
           move == [k \in Q |-> p[k]]
<1>1. /\ p \in [DOMAIN s -> DOMAIN s]
      /\ \A k, l \in DOMAIN s : p[k] = p[l] => k = l
      /\ \A i \in DOMAIN s : \E k \in DOMAIN s : p[k] = i
  BY DEF Bijection, Injection, Surjection, IsInjective
<1>2. \A k : k \in Q <=> k \in DOMAIN s /\ p[k] \in O
  BY <1>1 DEF Of
<1>3. IsFiniteSet(O)
  BY OfIs
<1>4. O \subseteq DOMAIN s
  BY DEF Of
<1> HIDE DEF O, Q
<1>5. move \in Bijection(Q, O)
  <2>1. move \in [Q -> O] /\ \A k, l \in Q : move[k] = move[l] => k = l
    BY <1>1, <1>2
  <2>2. \A i \in O : \E k \in Q : move[k] = i
    BY <1>1, <1>2, <1>4
  <2> HIDE DEF move
  <2> QED BY <2>1, <2>2 DEF Bijection, Injection, Surjection, IsInjective
<1>6. ExistsBijection(O, Q)
  BY <1>5, Fun_ExistsBijSymmetric DEF ExistsBijection
<1> QED BY <1>3, <1>6, FS_Bijection DEF Count, O, Q

-----------------------------------------------------------------------------
(* Sorting. *)

FourNumbers == [1..4 -> Nat]

LEMMA BeforeIs ==
  ASSUME NEW a \in FourNumbers, NEW b \in FourNumbers
  PROVE  /\ Before(a, b) <=>
              \/ a[1] < b[1]
              \/ a[1] = b[1] /\ a[2] < b[2]
              \/ a[1] = b[1] /\ a[2] = b[2] /\ a[3] < b[3]
              \/ a[1] = b[1] /\ a[2] = b[2] /\ a[3] = b[3] /\ a[4] < b[4]
         /\ a = b <=> a[1] = b[1] /\ a[2] = b[2] /\ a[3] = b[3] /\ a[4] = b[4]
<1>1. DOMAIN a = {1, 2, 3, 4} /\ DOMAIN b = {1, 2, 3, 4}
  BY DEF FourNumbers
<1>2. 1..1 - 1 = {} /\ 1..2 - 1 = {1} /\ 1..3 - 1 = {1, 2} /\ 1..4 - 1 = {1, 2, 3}
  OBVIOUS
<1>3. Before(a, b) <=>
        \/ a[1] < b[1]
        \/ a[1] = b[1] /\ a[2] < b[2]
        \/ a[1] = b[1] /\ a[2] = b[2] /\ a[3] < b[3]
        \/ a[1] = b[1] /\ a[2] = b[2] /\ a[3] = b[3] /\ a[4] < b[4]
  BY <1>1, <1>2 DEF Before
<1>4. a = b <=> \A i \in DOMAIN a : a[i] = b[i]
  BY <1>1 DEF FourNumbers
<1> QED BY <1>1, <1>3, <1>4

LEMMA BeforeOrders ==
  ASSUME NEW a \in FourNumbers, NEW b \in FourNumbers, NEW c \in FourNumbers
  PROVE  /\ ~Before(a, a)
         /\ Before(a, b) \/ a = b \/ Before(b, a)
         /\ Before(a, b) => ~Before(b, a)
         /\ Before(a, b) /\ Before(b, c) => Before(a, c)
<1>1. \A i \in 1..4 : a[i] \in Nat /\ b[i] \in Nat /\ c[i] \in Nat
  BY DEF FourNumbers
<1>2. /\ a[1] \in Nat /\ a[2] \in Nat /\ a[3] \in Nat /\ a[4] \in Nat
      /\ b[1] \in Nat /\ b[2] \in Nat /\ b[3] \in Nat /\ b[4] \in Nat
      /\ c[1] \in Nat /\ c[2] \in Nat /\ c[3] \in Nat /\ c[4] \in Nat
  BY <1>1
<1>3. ~Before(a, a)
  BY <1>2, BeforeIs
<1>4. Before(a, b) \/ a = b \/ Before(b, a)
  BY <1>2, BeforeIs
<1>5. Before(a, b) => ~Before(b, a)
  BY <1>2, BeforeIs
<1>6. Before(a, b) /\ Before(b, c) => Before(a, c)
  BY <1>2, BeforeIs
<1> QED BY <1>3, <1>4, <1>5, <1>6

(* An item of a lesser key, or of the same key and earlier, has fewer      *)
(* items ahead.                                                            *)
LEMMA AheadGrows ==
  ASSUME NEW n \in Nat, NEW keys, keys \in [1..n -> FourNumbers],
         NEW i \in 1..n, NEW j \in 1..n, i # j
  PROVE  /\ Cardinality(Ahead(keys, i)) \in 1..n
         /\ Before(keys[i], keys[j]) \/ (keys[i] = keys[j] /\ i < j) =>
              Cardinality(Ahead(keys, i)) < Cardinality(Ahead(keys, j))
<1> DEFINE A(k) == Ahead(keys, k)
<1>1. DOMAIN keys = 1..n /\ \A k \in 1..n : keys[k] \in FourNumbers
  OBVIOUS
<1>2. \A k \in 1..n : A(k) \in SUBSET (1..n) /\ k \in A(k)
  BY <1>1 DEF Ahead
<1>3. IsFiniteSet(1..n) /\ Cardinality(1..n) = n
  <2>1. Cardinality(1..n) = IF 1 > n THEN 0 ELSE n - 1 + 1
    BY FS_Interval
  <2> QED BY <2>1, FS_Interval
<1>4. ASSUME Before(keys[i], keys[j]) \/ (keys[i] = keys[j] /\ i < j)
      PROVE  A(i) \subseteq A(j) /\ j \notin A(i)
  <2>1. ASSUME NEW k \in A(i)
        PROVE  k \in A(j)
    <3>1. k \in 1..n /\ (Before(keys[k], keys[i]) \/ (keys[k] = keys[i] /\ k <= i))
      BY <1>1, <2>1 DEF Ahead
    <3>2. Before(keys[k], keys[j]) \/ (keys[k] = keys[j] /\ k <= j)
      BY <1>1, <1>4, <3>1, BeforeOrders
    <3> QED BY <1>1, <3>1, <3>2 DEF Ahead
  <2>2. ~(Before(keys[j], keys[i]) \/ (keys[j] = keys[i] /\ j <= i))
    BY <1>1, <1>4, BeforeOrders
  <2> QED BY <2>1, <2>2 DEF Ahead
<1> HIDE DEF A
<1>5. /\ IsFiniteSet(A(i)) /\ IsFiniteSet(A(j)) /\ Cardinality(A(i)) <= n
      /\ Cardinality(A(i)) \in Nat /\ Cardinality(A(j)) \in Nat
  BY <1>2, <1>3, FS_Subset, FS_CardinalityType
<1>6. Cardinality(A(i)) # 0
  BY <1>2, <1>5, FS_EmptySet
<1>7. Cardinality(A(i)) \in 1..n
  BY ONLY <1>5, <1>6, n \in Nat
<1>8. ASSUME A(i) \subseteq A(j) /\ j \notin A(i)
      PROVE  Cardinality(A(i)) < Cardinality(A(j))
  <2>1. A(i) # A(j)
    BY <1>2, <1>8
  <2>2. Cardinality(A(i)) <= Cardinality(A(j)) /\ Cardinality(A(i)) # Cardinality(A(j))
    BY <1>5, <1>8, <2>1, FS_Subset
  <2> QED BY ONLY <1>5, <2>2
<1> QED BY <1>4, <1>7, <1>8 DEF A

(* So each place has one item, and what comes before comes first. *)
LEMMA SortedIs ==
  ASSUME NEW S, NEW s \in Seq(S), NEW keys, keys \in [DOMAIN s -> FourNumbers]
  PROVE  \E p \in Bijection(DOMAIN s, DOMAIN s) :
           /\ SortedBy(s, keys) = [k \in DOMAIN s |-> s[p[k]]]
           /\ \A k, l \in DOMAIN s : k < l => ~Before(keys[p[l]], keys[p[k]])
<1> DEFINE n == Len(s)
           G == [i \in 1..n |-> Cardinality(Ahead(keys, i))]
           p == [k \in DOMAIN s |-> CHOOSE i \in DOMAIN s : Cardinality(Ahead(keys, i)) = k]
<1>1. n \in Nat /\ DOMAIN s = 1..n
  OBVIOUS
<1> HIDE DEF n
<1>2. keys \in [1..n -> FourNumbers]
  BY <1>1
<1>3. \A i \in 1..n : keys[i] \in FourNumbers
  BY <1>2
<1>4. \A i, j \in 1..n : i # j =>
        /\ G[i] \in 1..n
        /\ Before(keys[i], keys[j]) \/ (keys[i] = keys[j] /\ i < j) => G[i] < G[j]
  BY <1>1, <1>2, AheadGrows
<1>5. \A i \in 1..n : G[i] \in 1..n
  <2> SUFFICES ASSUME NEW i \in 1..n
               PROVE  G[i] \in 1..n
    OBVIOUS
  <2>1. CASE \E j \in 1..n : i # j
    BY <1>4, <2>1
  <2>2. CASE \A j \in 1..n : i = j
    <3>1. n = 1 /\ i = 1
      BY <1>1, <2>2
    <3>2. Ahead(keys, 1) = {1}
      BY <1>2, <3>1 DEF Ahead
    <3>3. Cardinality(Ahead(keys, 1)) = 1
      BY <3>2, FS_Singleton
    <3> QED BY <3>1, <3>3
  <2> QED BY <2>1, <2>2
<1>6. \A i, j \in 1..n : i # j => G[i] # G[j]
  <2> SUFFICES ASSUME NEW i \in 1..n, NEW j \in 1..n, i # j
               PROVE  G[i] # G[j]
    OBVIOUS
  <2>1. \/ Before(keys[i], keys[j]) \/ (keys[i] = keys[j] /\ i < j)
        \/ Before(keys[j], keys[i]) \/ (keys[j] = keys[i] /\ j < i)
    <3>1. i < j \/ j < i
      BY <1>1
    <3> QED BY <1>3, <3>1, BeforeOrders
  <2> HIDE DEF G
  <2>2. G[i] < G[j] \/ G[j] < G[i]
    BY <1>4, <2>1
  <2> QED BY <1>1, <1>5, <2>2
<1>7. \A k \in 1..n : \E i \in 1..n : G[i] = k
  <2>1. G \in Injection(1..n, 1..n)
    <3>1. G \in [1..n -> 1..n]
      BY <1>5
    <3> QED BY <1>6, <3>1 DEF Injection, IsInjective
  <2>2. G \in Surjection(1..n, 1..n)
    BY <1>1, <2>1, FS_Injection, FS_Interval
  <2> QED BY <2>2 DEF Surjection
<1>8. SortedBy(s, keys) = [k \in DOMAIN s |-> s[p[k]]]
  BY DEF SortedBy
<1>9. \A k \in 1..n : p[k] \in 1..n /\ G[p[k]] = k
  BY <1>1, <1>7
<1> HIDE DEF G, p
<1>10. p \in Bijection(1..n, 1..n)
  <2>1. p \in [1..n -> 1..n]
    <3>1. p = [k \in 1..n |-> p[k]]
      BY <1>1 DEF p
    <3> QED BY <1>9, <3>1
  <2>2. \A k, l \in 1..n : p[k] = p[l] => k = l
    BY <1>9
  <2>3. \A i \in 1..n : \E k \in 1..n : p[k] = i
    <3> SUFFICES ASSUME NEW i \in 1..n
                 PROVE  \E k \in 1..n : p[k] = i
      OBVIOUS
    <3>1. G[i] \in 1..n /\ p[G[i]] \in 1..n /\ G[p[G[i]]] = G[i]
      BY <1>5, <1>9
    <3>2. p[G[i]] = i
      BY <1>6, <3>1
    <3> QED BY <3>1, <3>2
  <2> QED BY <2>1, <2>2, <2>3 DEF Bijection, Injection, Surjection, IsInjective
<1>11. \A k, l \in 1..n : k < l => ~Before(keys[p[l]], keys[p[k]])
  <2> SUFFICES ASSUME NEW k \in 1..n, NEW l \in 1..n, k < l, Before(keys[p[l]], keys[p[k]])
               PROVE  FALSE
    OBVIOUS
  <2>1. k # l /\ ~(l < k)
    BY <1>1
  <2>2. p[l] # p[k] /\ p[k] \in 1..n /\ p[l] \in 1..n
    BY <1>9, <2>1
  <2>3. G[p[l]] < G[p[k]]
    BY <1>4, <2>2
  <2> QED BY <1>9, <2>1, <2>3
<1> QED BY <1>1, <1>8, <1>10, <1>11

(* A finite set as a list. *)
LEMMA ListOf ==
  ASSUME NEW S, IsFiniteSet(S)
  PROVE  /\ SetToSeq(S) \in Seq(S) /\ ToSet(SetToSeq(S)) = S
         /\ \A i, j \in DOMAIN SetToSeq(S) : SetToSeq(S)[i] = SetToSeq(S)[j] => i = j
<1> DEFINE n == Cardinality(S)
           s == SetToSeq(S)
<1>1. n \in Nat /\ ExistsBijection(1..n, S)
  BY FS_CardinalityType
<1>2. PICK f \in Bijection(1..n, S) : TRUE
  BY <1>1 DEF ExistsBijection
<1>3. f \in [1..n -> S] /\ IsInjective(f)
  BY <1>2 DEF Bijection, Injection
<1>4. s \in [1..n -> S] /\ IsInjective(s)
  BY <1>3 DEF SetToSeq
<1> HIDE DEF s
<1>5. s \in Injection(1..n, S)
  BY <1>4 DEF Injection
<1>6. Cardinality(1..n) = n
  <2> HIDE DEF n
  <2>1. Cardinality(1..n) = IF 1 > n THEN 0 ELSE n - 1 + 1
    BY <1>1, FS_Interval
  <2> QED BY <1>1, <2>1
<1>7. s \in Surjection(1..n, S)
  BY <1>5, <1>6, FS_Injection
<1> HIDE DEF n
<1>8. s \in Seq(S)
  BY <1>1, <1>4
<1>9. ToSet(s) = S
  BY <1>4, <1>7 DEF Surjection, ToSet
<1>10. \A i, j \in DOMAIN s : s[i] = s[j] => i = j
  BY <1>4 DEF IsInjective
<1> QED BY <1>8, <1>9, <1>10 DEF s

-----------------------------------------------------------------------------
(* What a package-lock.json pins. *)

NpmPackages(f, map) ==
  {[ecosystem |-> "npm", name |-> e.name, version |-> e.version,
    source |-> NoValue, lockfile |-> f] : e \in Listed(map)}

NpmNames(map) == {<<e.name, e.version>> : e \in Listed(map)}

LEMMA NpmCounted ==
  ASSUME NEW f \in NpmLocks, NEW map \in Map, NEW found, found = SetToSeq(NpmPackages(f, map))
  PROVE  /\ found \in Seq(PackagesOf(f))
         /\ \A name, version \in Values :
              Count(found, f, name, version) =
                Cardinality(NpmNames(map) \intersect {<<name, version>>})
<1> DEFINE package(e) == [ecosystem |-> "npm", name |-> e.name, version |-> e.version,
                          source |-> NoValue, lockfile |-> f]
           L == Listed(map)
           P == {package(e) : e \in L}
<1>1. f \notin CargoLocks /\ f \in Supported
  BY Constants
<1>2. L \subseteq map.entries /\ IsFiniteSet(map.entries) /\ map.entries \subseteq Entry
      /\ \A e \in L : e.version # NoValue
  BY DEF Listed, Map
<1>3. IsFiniteSet(L) /\ \A e \in L : e.name \in Values /\ e.version \in Values
  <2>1. IsFiniteSet(L)
    BY <1>2, FS_Subset
  <2> QED BY <1>2, <2>1 DEF Entry
<1>4. P \subseteq PackagesOf(f)
  BY <1>1, <1>3 DEF PackagesOf, Ecosystem, Maybe
<1>5. IsFiniteSet(P)
  <2> DEFINE g == [e \in L |-> package(e)]
  <2>1. g \in Surjection(L, P)
    BY DEF Surjection
  <2> HIDE DEF g, P, L
  <2> QED BY <1>3, <2>1, FS_Surjection
<1>6. found = SetToSeq(P) /\ NpmNames(map) = {<<e.name, e.version>> : e \in L}
  BY DEF NpmPackages, NpmNames
<1>7. \A p \in P : \E e \in L : p.name = e.name /\ p.version = e.version
  OBVIOUS
<1>8. \A e \in L : \E p \in P : p.name = e.name /\ p.version = e.version
  <2> SUFFICES ASSUME NEW e \in L
               PROVE  \E p \in P : p.name = e.name /\ p.version = e.version
    OBVIOUS
  <2>1. package(e) \in P /\ package(e).name = e.name /\ package(e).version = e.version
    OBVIOUS
  <2> QED BY <2>1
<1>9. \A p \in P : p.lockfile = f
  OBVIOUS
<1>10. \A p, q \in P : p.name = q.name /\ p.version = q.version => p = q
  OBVIOUS
<1> HIDE DEF package, P, L
<1>11. /\ found \in Seq(P) /\ ToSet(found) = P
       /\ \A i, j \in DOMAIN found : found[i] = found[j] => i = j
  BY <1>5, <1>6, ListOf
<1>12. found \in Seq(PackagesOf(f))
  BY <1>4, <1>11, WiderSeq
<1>13. ASSUME NEW name \in Values, NEW version \in Values
       PROVE  Count(found, f, name, version) =
                Cardinality({<<e.name, e.version>> : e \in L} \intersect {<<name, version>>})
  <2> DEFINE O == Of(found, f, name, version)
             Q == {<<e.name, e.version>> : e \in L} \intersect {<<name, version>>}
  <2>1. \A i \in DOMAIN found : found[i] \in P
    BY <1>11 DEF ToSet
  <2>2. \A p \in P : \E i \in DOMAIN found : found[i] = p
    BY <1>11 DEF ToSet
  <2>3. \A i \in O : i \in DOMAIN found /\ found[i].name = name /\ found[i].version = version
    BY DEF Of
  <2>4. \A i \in DOMAIN found : found[i].name = name /\ found[i].version = version => i \in O
    BY <1>9, <2>1 DEF Of
  <2>5. \A i, j \in O : i = j
    BY <1>10, <1>11, <2>1, <2>3
  <2>6. O # {} <=> \E e \in L : e.name = name /\ e.version = version
    <3>1. ASSUME NEW i \in O
          PROVE  \E e \in L : e.name = name /\ e.version = version
      BY <1>7, <2>1, <2>3
    <3>2. ASSUME NEW e \in L, e.name = name, e.version = version
          PROVE  O # {}
      BY <1>8, <2>2, <2>4, <3>2
    <3> QED BY <3>1, <3>2
  <2>7. Q = IF \E e \in L : e.name = name /\ e.version = version THEN {<<name, version>>} ELSE {}
    OBVIOUS
  <2> HIDE DEF O, Q
  <2>8. CASE \E e \in L : e.name = name /\ e.version = version
    <3>1. PICK i : i \in O
      BY <2>6, <2>8
    <3>2. Cardinality(O) = 1
      <4>1. O = {i}
        BY <2>5, <3>1
      <4> QED BY <4>1, FS_Singleton
    <3>3. Cardinality(Q) = 1
      BY <2>7, <2>8, FS_Singleton
    <3> QED BY <3>2, <3>3 DEF Count, O, Q
  <2>9. CASE ~\E e \in L : e.name = name /\ e.version = version
    <3>1. O = {} /\ Q = {}
      BY <2>6, <2>7, <2>9
    <3> QED BY <3>1 DEF Count, O, Q
  <2> QED BY <2>8, <2>9
<1> QED BY <1>6, <1>12, <1>13

-----------------------------------------------------------------------------
(* What a Cargo.lock pins. *)

(* Where a section ends, the draft has the last of each of its keys. *)
LEMMA DraftIsLast ==
  ASSUME TreeInv, Drafted, pc = "lines", NEW h, OpenSection(h),
         line > Len(text) \/ text[line].kind \in {"package", "table"},
         NEW key \in {"name", "version"}, draft[key] # NoValue
  PROVE  LastOf(text, h, key) = {draft[key]}
<1>1. h \in Sections(text) /\ h \in Seen /\ h \in Nat /\ line \in Nat
  BY OpenIs
<1>2. \A k \in DOMAIN text : Belongs(text, h, k) => k \in Seen
  <2> SUFFICES ASSUME NEW k \in DOMAIN text, Belongs(text, h, k), k \notin Seen
               PROVE  FALSE
    OBVIOUS
  <2>1. k \in 1..Len(text) /\ k >= line /\ Len(text) \in Nat
    BY <1>1, AtLineFacts DEF Seen
  <2>2. line \in h + 1..k
    BY <1>1, <2>1, OpenIs DEF Seen
  <2> QED BY <2>1, <2>2 DEF Belongs
<1>3. PICK k \in Seen :
        /\ Belongs(text, h, k) /\ text[k].kind = key /\ text[k].value = draft[key]
        /\ \A j \in Seen : k < j => text[j].kind # key
  BY <1>1 DEF Drafted
<1>4. Seen \subseteq DOMAIN text /\ DOMAIN text = 1..Len(text) /\ Len(text) \in Nat
  BY AtLineFacts
<1>5. \A m \in DOMAIN text : \A j \in m + 1..Len(text) : j \in DOMAIN text /\ m < j
  BY ONLY <1>4
<1>6. \A m \in DOMAIN text : \A j \in DOMAIN text : m < j => j \in m + 1..Len(text)
  BY ONLY <1>4
<1>7. \A j \in k + 1..Len(text) : Belongs(text, h, j) => text[j].kind # key
  BY <1>2, <1>3, <1>4, <1>5
<1>8. draft[key] \in LastOf(text, h, key)
  BY <1>3, <1>4, <1>7 DEF LastOf
<1>9. ASSUME NEW m \in DOMAIN text, Belongs(text, h, m), text[m].kind = key,
             \A j \in m + 1..Len(text) : Belongs(text, h, j) => text[j].kind # key
      PROVE  m = k
  <2>1. ~(m < k)
    BY <1>3, <1>4, <1>6, <1>9
  <2>2. ~(k < m)
    BY <1>2, <1>3, <1>9
  <2> QED BY <1>4, <2>1, <2>2
<1>10. \A v \in LastOf(text, h, key) : v = draft[key]
  BY <1>3, <1>9 DEF LastOf
<1> QED BY <1>8, <1>10

(* Sections are few. *)
LEMMA FewSections ==
  ASSUME TreeInv, pc = "lines", NEW S, S \subseteq Sections(text)
  PROVE  IsFiniteSet(S)
<1>1. Sections(text) \subseteq 1..Len(text) /\ Len(text) \in Nat
  BY AtLineFacts DEF Sections
<1>2. IsFiniteSet(1..Len(text))
  BY <1>1, FS_Interval
<1> QED BY <1>1, <1>2, FS_Subset

(* Flushing a draft adds the section it was drafted for. *)
LEMMA FlushedCounts ==
  ASSUME TreeInv, Drafted, pc = "lines", ~Incomplete,
         line > Len(text) \/ text[line].kind \in {"package", "table"}
  PROVE  /\ Flushed \in Seq(PackagesOf(at))
         /\ \A name, version \in Values :
              Count(Flushed, at, name, version) =
                Cardinality({h \in Sections(text) \intersect Seen :
                                SectionPins(text, h, name, version)})
<1>1. parsed \in Seq(PackagesOf(at))
  BY DEF Drafted
<1>2. at \in CargoLocks
  BY AtLineFacts
<1> DEFINE All(name, version) ==
             {h \in Sections(text) \intersect Seen : SectionPins(text, h, name, version)}
           Old(name, version) == {h \in Closed : SectionPins(text, h, name, version)}
<1>3. \A name, version \in Values :
        Count(parsed, at, name, version) = Cardinality(Old(name, version))
  BY DEF Drafted
<1>4. CASE ~draft.open
  <2>1. \A h \in Sections(text) \intersect Seen : ~OpenSection(h)
    BY <1>4 DEF TreeInv, LinesSeen
  <2>2. \A name, version : All(name, version) = Old(name, version)
    BY <2>1 DEF Closed
  <2>3. Flushed = parsed
    BY <1>4 DEF Flushed
  <2> QED BY <1>1, <1>3, <2>2, <2>3
<1>5. CASE draft.open
  <2>1. PICK h \in Seen : OpenSection(h)
    BY <1>5 DEF TreeInv, LinesSeen
  <2>2. h \in Sections(text) /\ \A g : OpenSection(g) => g = h
    BY <2>1, OpenIs
  <2>3. draft.name # NoValue /\ draft.version # NoValue
    BY <1>5 DEF Incomplete
  <2>4. LastOf(text, h, "name") = {draft.name} /\ LastOf(text, h, "version") = {draft.version}
    BY <2>1, <2>3, DraftIsLast
  <2> DEFINE p == [ecosystem |-> "cargo", name |-> draft.name, version |-> draft.version,
                   source |-> draft.source, lockfile |-> at]
  <2>5. p \in PackagesOf(at)
    <3>1. draft.name \in Values /\ draft.version \in Values /\ draft.source \in Maybe
      BY <2>3 DEF TreeInv, DraftTyped, Maybe
    <3> QED BY <1>2, <3>1 DEF PackagesOf, Ecosystem
  <2>6. Flushed = Append(parsed, p)
    BY <1>5 DEF Flushed
  <2>7. Flushed \in Seq(PackagesOf(at))
    <3> HIDE DEF p
    <3> QED BY <1>1, <2>5, <2>6, AppendOf
  <2>8. ASSUME NEW name \in Values, NEW version \in Values
        PROVE  Count(Flushed, at, name, version) = Cardinality(All(name, version))
    <3> DEFINE pins == p.lockfile = at /\ p.name = name /\ p.version = version
    <3>1. pins <=> SectionPins(text, h, name, version)
      BY <2>4 DEF SectionPins
    <3>2. All(name, version) = Old(name, version) \union (IF pins THEN {h} ELSE {})
      BY <2>1, <2>2, <3>1 DEF Closed
    <3>3. h \notin Old(name, version)
      BY <2>1 DEF Closed
    <3>4. IsFiniteSet(Old(name, version))
      BY FewSections DEF Closed
    <3>5. Count(Flushed, at, name, version) =
            Count(parsed, at, name, version) + (IF pins THEN 1 ELSE 0)
      <4> HIDE DEF p
      <4> QED BY <1>1, <2>5, <2>6, CountAppend
    <3>6. Count(parsed, at, name, version) = Cardinality(Old(name, version))
      BY <1>3
    <3>7. Cardinality(Old(name, version)) \in Nat
      BY <3>4, FS_CardinalityType
    <3> HIDE DEF pins, All, Old
    <3>8. CASE pins
      <4>1. Cardinality(Old(name, version) \union {h}) = Cardinality(Old(name, version)) + 1
        BY <3>3, <3>4, FS_AddElement
      <4> QED BY <3>2, <3>5, <3>6, <3>8, <4>1
    <3>9. CASE ~pins
      <4>1. All(name, version) = Old(name, version)
        BY <3>2, <3>9
      <4> QED BY <3>5, <3>6, <3>7, <3>9, <4>1
    <3> QED BY <3>8, <3>9
  <2> QED BY <2>7, <2>8
<1> QED BY <1>4, <1>5

LEMMA DraftedByTable ==
  ASSUME TreeInv, Drafted, PackageHeader \/ OtherTable, pc' = "lines"
  PROVE  Drafted'
<1>1. /\ pc = "lines" /\ line <= Len(text) /\ text[line].kind \in {"package", "table"}
      /\ UNCHANGED <<at, text>> /\ line' = line + 1
  BY DEF PackageHeader, OtherTable, AtLine, BrokenLine, Broken
<1>2. /\ ~Incomplete /\ parsed' = Flushed
      /\ draft'["name"] = NoValue /\ draft'["version"] = NoValue
  BY <1>1 DEF PackageHeader, OtherTable, BrokenLine, Broken, NoDraft
<1>3. /\ Seen' = Seen \union {line} /\ line \notin Seen
      /\ text[line].kind = "package" => \A g : OpenSection(g)' <=> g = line
      /\ text[line].kind = "table" => \A g : ~OpenSection(g)'
  BY <1>1, LineStep
<1>4. line \in Sections(text) => text[line].kind = "package"
  BY DEF Sections
<1>5. Sections(text)' = Sections(text)
  BY <1>1 DEF Sections
<1>6. Closed' = Sections(text) \intersect Seen
  BY <1>1, <1>3, <1>4, <1>5 DEF Closed
<1>7. /\ Flushed \in Seq(PackagesOf(at))
      /\ \A name, version \in Values :
           Count(Flushed, at, name, version) =
             Cardinality({h \in Sections(text) \intersect Seen :
                             SectionPins(text, h, name, version)})
  BY <1>1, <1>2, FlushedCounts
<1>8. \A h, name, version : SectionPins(text, h, name, version)'
      <=> SectionPins(text, h, name, version)
  BY <1>1 DEF SectionPins, LastOf, Belongs
<1>9. \A name, version \in Values :
        {h \in Closed' : SectionPins(text, h, name, version)'} =
          {h \in Sections(text) \intersect Seen : SectionPins(text, h, name, version)}
  BY <1>6, <1>8
<1>10. parsed' \in Seq(PackagesOf(at'))
  BY <1>1, <1>2, <1>7
<1>11. \A name, version \in Values :
         Count(parsed', at', name, version) =
           Cardinality({h \in Closed' : SectionPins(text, h, name, version)'})
  BY <1>1, <1>2, <1>7, <1>9
<1>12. \A key \in {"name", "version"} : draft'[key] = NoValue
  BY <1>2
<1> QED BY <1>10, <1>11, <1>12 DEF Drafted

(* Within a section nothing is closed. *)
LEMMA ClosedKept ==
  ASSUME TreeInv, pc = "lines", line <= Len(text), UNCHANGED <<at, text>>, line' = line + 1,
         text[line].kind \notin {"package", "table"}, parsed' = parsed, Drafted
  PROVE  /\ parsed' \in Seq(PackagesOf(at))'
         /\ \A name, version \in Values :
              Count(parsed, at, name, version)' =
                Cardinality({h \in Closed : SectionPins(text, h, name, version)})'
<1>1. Seen' = Seen \union {line} /\ \A g : OpenSection(g)' <=> OpenSection(g)
  BY LineStep
<1>2. line \notin Sections(text) /\ Sections(text)' = Sections(text)
  BY DEF Sections
<1>3. Closed' = Closed
  BY <1>1, <1>2 DEF Closed
<1>4. \A h, name, version : SectionPins(text, h, name, version)'
      <=> SectionPins(text, h, name, version)
  BY DEF SectionPins, LastOf, Belongs
<1>5. \A name, version \in Values :
        {h \in Closed : SectionPins(text, h, name, version)}' =
          {h \in Closed : SectionPins(text, h, name, version)}
  BY <1>3, <1>4
<1>6. /\ parsed \in Seq(PackagesOf(at))
      /\ \A name, version \in Values :
           Count(parsed, at, name, version) =
             Cardinality({h \in Closed : SectionPins(text, h, name, version)})
  BY DEF Drafted
<1>7. PackagesOf(at)' = PackagesOf(at)
  BY DEF PackagesOf, Ecosystem
<1> QED BY <1>5, <1>6, <1>7 DEF Count, Of

LEMMA DraftedByKey ==
  ASSUME TreeInv, Drafted, Key, pc' = "lines"
  PROVE  Drafted'
<1> DEFINE kind == text[line].kind
           value == text[line].value
<1>1. /\ pc = "lines" /\ line <= Len(text) /\ kind \in Keys /\ draft.open
      /\ UNCHANGED <<at, text>> /\ line' = line + 1 /\ parsed' = parsed
      /\ draft' = [draft EXCEPT ![kind] = value]
  BY DEF Key, AtLine, BrokenLine, Broken
<1>2. kind \notin {"package", "table"}
  BY <1>1 DEF Keys
<1>3. /\ Seen' = Seen \union {line} /\ line \notin Seen
      /\ \A g : OpenSection(g)' <=> OpenSection(g)
      /\ \A g : OpenSection(g) => Belongs(text, g, line)
  BY <1>1, <1>2, LineStep
<1>4. \A key \in {"name", "version"} : draft'[key] = IF kind = key THEN value ELSE draft[key]
  <2>1. draft \in [open : BOOLEAN, name : Maybe, version : Maybe, source : Maybe]
    BY DEF TreeInv, DraftTyped
  <2> HIDE DEF kind, value
  <2> QED BY <1>1, <2>1 DEF Keys
<1>5. \A k \in Seen : k < line /\ k \in Nat /\ line \in Nat
  BY <1>1, AtLineFacts DEF Seen
<1>6. \A k \in Seen : ~(line < k)
  BY <1>5
<1>7. ~(line < line)
  BY <1>1, AtLineFacts
<1>8. ASSUME NEW h \in Seen', OpenSection(h)', NEW key \in {"name", "version"},
            draft'[key] # NoValue
      PROVE  \E k \in Seen' :
               /\ Belongs(text, h, k) /\ text[k].kind = key /\ text[k].value = draft'[key]
               /\ \A j \in Seen' : k < j => text[j].kind # key
  <2>1. OpenSection(h) /\ h \in Seen /\ Belongs(text, h, line)
    BY <1>3, <1>8 DEF OpenSection
  <2>2. CASE kind = key
    BY <1>3, <1>4, <1>6, <1>7, <2>1, <2>2
  <2>3. CASE kind # key
    <3>1. draft[key] # NoValue /\ draft'[key] = draft[key]
      BY <1>4, <1>8, <2>3
    <3>2. PICK k \in Seen :
            /\ Belongs(text, h, k) /\ text[k].kind = key /\ text[k].value = draft[key]
            /\ \A j \in Seen : k < j => text[j].kind # key
      BY <1>1, <2>1, <3>1 DEF Drafted
    <3> QED BY <1>3, <2>3, <3>1, <3>2
  <2> QED BY <2>2, <2>3
<1>9. \A h, k : Belongs(text, h, k)' <=> Belongs(text, h, k)
  BY <1>1 DEF Belongs
<1>10. \A k : text'[k].kind = text[k].kind /\ text'[k].value = text[k].value
  BY <1>1
<1>11. \A h \in Seen' : OpenSection(h)' => \A key \in {"name", "version"} : draft'[key] # NoValue =>
         \E k \in Seen' :
           /\ Belongs(text, h, k)' /\ text'[k].kind = key /\ text'[k].value = draft'[key]
           /\ \A j \in Seen' : k < j => text'[j].kind # key
  BY <1>8, <1>9, <1>10
<1> HIDE DEF kind, value
<1>12. /\ parsed' \in Seq(PackagesOf(at))'
       /\ \A name, version \in Values :
            Count(parsed, at, name, version)' =
              Cardinality({h \in Closed : SectionPins(text, h, name, version)})'
  BY <1>1, <1>2, ClosedKept DEF kind
<1> QED BY <1>11, <1>12 DEF Drafted

LEMMA DraftedByOther ==
  ASSUME TreeInv, Drafted, OtherLine
  PROVE  Drafted'
<1> DEFINE kind == text[line].kind
<1>1. /\ pc = "lines" /\ line <= Len(text) /\ line' = line + 1
      /\ \/ kind = "other"
         \/ kind \in Keys /\ ~draft.open
      /\ UNCHANGED <<at, text, draft, parsed>>
  BY DEF OtherLine, AtLine
<1>2. kind \notin {"package", "table"}
  BY <1>1 DEF Keys
<1>3. /\ Seen' = Seen \union {line} /\ line \notin Seen
      /\ \A g : OpenSection(g)' <=> OpenSection(g)
  BY <1>1, <1>2, LineStep
<1>4. \A h \in Seen : OpenSection(h) => kind = "other"
  BY <1>1 DEF TreeInv, LinesSeen
<1>5. \A h : OpenSection(h) => h \in Seen
  BY DEF OpenSection
<1>6. ASSUME NEW h \in Seen', OpenSection(h)', NEW key \in {"name", "version"}, draft[key] # NoValue
      PROVE  \E k \in Seen' :
               /\ Belongs(text, h, k) /\ text[k].kind = key /\ text[k].value = draft[key]
               /\ \A j \in Seen' : k < j => text[j].kind # key
  <2>1. OpenSection(h) /\ h \in Seen /\ kind = "other"
    BY <1>3, <1>4, <1>5, <1>6
  <2>2. PICK k \in Seen :
          /\ Belongs(text, h, k) /\ text[k].kind = key /\ text[k].value = draft[key]
          /\ \A j \in Seen : k < j => text[j].kind # key
    BY <1>1, <1>6, <2>1 DEF Drafted
  <2>3. kind # key
    BY <2>1
  <2> QED BY <1>3, <2>2, <2>3
<1>7. \A h, k : Belongs(text, h, k)' <=> Belongs(text, h, k)
  BY <1>1 DEF Belongs
<1>8. \A h \in Seen' : OpenSection(h)' => \A key \in {"name", "version"} : draft'[key] # NoValue =>
         \E k \in Seen' :
           /\ Belongs(text, h, k)' /\ text'[k].kind = key /\ text'[k].value = draft'[key]
           /\ \A j \in Seen' : k < j => text'[j].kind # key
  BY <1>1, <1>6, <1>7
<1> HIDE DEF kind
<1>9. /\ parsed' \in Seq(PackagesOf(at))'
      /\ \A name, version \in Values :
           Count(parsed, at, name, version)' =
             Cardinality({h \in Closed : SectionPins(text, h, name, version)})'
  BY <1>1, <1>2, ClosedKept DEF kind
<1> QED BY <1>8, <1>9 DEF Drafted

LEMMA DraftedKept == TreeInv /\ Drafted /\ [Next]_vars => Drafted'
<1> SUFFICES ASSUME TreeInv, Drafted, [Next]_vars, pc' = "lines"
             PROVE  Drafted'
  BY DEF Drafted
<1>1. CASE ReadCargoLock
  <2>1. line' = 1 /\ parsed' = <<>> /\ Seen' = {}
    BY <1>1 DEF ReadCargoLock, Seen
  <2>2. Closed' = {}
    BY <2>1 DEF Closed
  <2>3. \A name, version : {h \in Closed' : SectionPins(text, h, name, version)'} = {}
    BY <2>2
  <2>4. \A name, version : Count(parsed', at', name, version) = 0
    BY <2>1, CountNone
  <2>5. parsed' \in Seq(PackagesOf(at)')
    BY <2>1, EmptyOf
  <2> QED BY <2>1, <2>3, <2>4, <2>5, FS_EmptySet DEF Drafted
<1>2. CASE pc = "lines" /\ UNCHANGED <<at, text, line, draft, parsed, read>>
  <2>1. /\ Sections(text)' = Sections(text) /\ Seen' = Seen
        /\ \A h, k : Belongs(text, h, k)' <=> Belongs(text, h, k)
    BY <1>2 DEF Sections, Seen, Belongs
  <2>2. /\ \A h : OpenSection(h)' <=> OpenSection(h)
        /\ \A h, name, version :
             SectionPins(text, h, name, version)' <=> SectionPins(text, h, name, version)
    BY <1>2, <2>1 DEF OpenSection, SectionPins, LastOf, Belongs
  <2>3. Closed' = Closed
    BY <2>1, <2>2 DEF Closed
  <2>4. \A name, version : {h \in Closed' : SectionPins(text, h, name, version)'} =
                             {h \in Closed : SectionPins(text, h, name, version)}
    BY <2>2, <2>3
  <2>5. PackagesOf(at)' = PackagesOf(at)
    BY <1>2 DEF PackagesOf, Ecosystem
  <2>6. \A name, version : Count(parsed, at, name, version)' = Count(parsed, at, name, version)
    BY <1>2 DEF Count, Of
  <2>7. parsed' \in Seq(PackagesOf(at))'
    BY <1>2, <2>5 DEF Drafted
  <2>8. \A name, version \in Values :
          Count(parsed, at, name, version)' =
            Cardinality({h \in Closed' : SectionPins(text, h, name, version)'})
    BY <1>2, <2>4, <2>6 DEF Drafted
  <2>9. \A h \in Seen' : OpenSection(h)' => \A key \in {"name", "version"} :
          draft'[key] # NoValue =>
          \E k \in Seen' :
            /\ Belongs(text, h, k)' /\ text'[k].kind = key /\ text'[k].value = draft'[key]
            /\ \A j \in Seen' : k < j => text'[j].kind # key
    BY <1>2, <2>1, <2>2 DEF Drafted
  <2> QED BY <2>7, <2>8, <2>9 DEF Drafted
<1> QED BY <1>1, <1>2, AmidLines, DraftedByTable, DraftedByKey, DraftedByOther

-----------------------------------------------------------------------------
(* The list of packages. *)

LEMMA PinsKept ==
  ASSUME DiskTyped, [Next]_vars
  PROVE  \A f \in Supported : \A name, version : Pins(f, name, version)' = Pins(f, name, version)
<1> SUFFICES ASSUME NEW f \in Supported, NEW name, NEW version
             PROVE  Pins(f, name, version)' = Pins(f, name, version)
  OBVIOUS
<1>1. disk'[f].text = disk[f].text
  BY TextKept, Constants
<1> QED BY <1>1 DEF Pins

LEMMA SnapshotKept == [Next]_vars => snapshot' = snapshot
<1> USE DEF surroundings
<1>1. \A f \in Paths : Edit(f) \/ Visit(f) => snapshot' = snapshot
  BY DEF Edit, Visit
<1>2. MissingTarget \/ SingleFile \/ StartWalk \/ EndWalk => snapshot' = snapshot
  BY DEF MissingTarget, SingleFile, StartWalk, EndWalk
<1>3. NextLockfile \/ EndLockfiles \/ CheckLockfile => snapshot' = snapshot
  BY DEF NextLockfile, EndLockfiles, CheckLockfile
<1>4. ReadFails \/ ReadCargoLock \/ ReadPackageLock => snapshot' = snapshot
  BY DEF ReadFails, ReadCargoLock, ReadPackageLock
<1>5. PackageHeader \/ OtherTable \/ Key \/ OtherLine \/ EndOfText => snapshot' = snapshot
  BY DEF PackageHeader, OtherTable, Key, OtherLine, EndOfText
<1>6. SortReport \/ ApplyAdvisoryDb \/ UNCHANGED vars => snapshot' = snapshot
  BY DEF SortReport, ApplyAdvisoryDb, vars
<1> QED BY <1>1, <1>2, <1>3, <1>4, <1>5, <1>6 DEF Next

LEMMA QuietCounted ==
  ASSUME Counted, DiskTyped, [Next]_vars, UNCHANGED <<packages, lockfiles>>,
         pc' # "done" => UNCHANGED vulnerabilities /\ pc # "done",
         pc' \in {"advisories", "done"} => pc \in {"advisories", "done"}
  PROVE  Counted'
<1>1. snapshot' = snapshot
  BY SnapshotKept
<1>2. \A f \in Supported, name, version \in Values :
        Count(packages, f, name, version)' =
          IF f \in ToSet(lockfiles') THEN Pins(f, name, version)' ELSE 0
  BY PinsKept DEF Counted, Count, Of
<1>3. pc' \in {"advisories", "done"} =>
        \A i, j \in DOMAIN packages' :
          i < j => ~Before(PackageKey(packages'[j]), PackageKey(packages'[i]))
  BY DEF Counted
<1> QED BY <1>1, <1>2, <1>3 DEF Counted

(* What a lockfile adds is what it pins. *)
LEMMA ParsedCounted ==
  ASSUME TreeInv, IInv, Counted, [Next]_vars, Parsing, NEW found, Parsed(found),
         at \in Supported, found \in Seq(PackagesOf(at)),
         \A name, version \in Values : Count(found, at, name, version) = Pins(at, name, version)
  PROVE  Counted'
<1>1. /\ lockfiles' = Append(lockfiles, at) /\ packages' = packages \o found
      /\ pc' \notin {"advisories", "done"} /\ vulnerabilities' = <<>> /\ snapshot' = snapshot
  BY SnapshotKept DEF Parsed, Counted, Parsing
<1>2. at \notin ToSet(lockfiles)
  <2>1. CASE target = Tree
    BY <2>1, Listing DEF TreeInv, Handled
  <2>2. CASE target # Tree
    BY <2>2, EmptyOf DEF IInv, AtWork, Named, Parsing
  <2> QED BY <2>1, <2>2
<1>3. ToSet(lockfiles') = ToSet(lockfiles) \union {at}
  BY <1>1, AppendOf DEF TreeInv, Placed
<1>4. packages \in Seq(Package) /\ found \in Seq(Package)
  <2>1. PackagesOf(at) \subseteq Package
    BY DEF Package
  <2> QED BY <2>1, WiderSeq DEF Counted
<1>5. packages' \in Seq(Package)
  BY <1>1, <1>4
<1>6. ASSUME NEW f \in Supported, NEW name \in Values, NEW version \in Values
      PROVE  Count(packages', f, name, version) =
               IF f \in ToSet(lockfiles') THEN Pins(f, name, version)' ELSE 0
  <2>1. Count(packages', f, name, version) =
          Count(packages, f, name, version) + Count(found, f, name, version)
    BY <1>1, <1>4, CountConcat
  <2>2. Count(packages, f, name, version) =
          IF f \in ToSet(lockfiles) THEN Pins(f, name, version) ELSE 0
    BY DEF Counted
  <2>3. Count(packages, f, name, version) \in Nat /\ Count(found, f, name, version) \in Nat
    BY <1>4, OfIs
  <2>4. Pins(f, name, version)' = Pins(f, name, version)
    BY PinsKept DEF TreeInv
  <2>5. CASE f = at
    <3>1. Count(packages, f, name, version) = 0
      BY <1>2, <2>2, <2>5
    <3>2. Count(found, f, name, version) = Pins(f, name, version)
      BY <2>5
    <3> QED BY <1>3, <2>1, <2>3, <2>4, <2>5, <3>1, <3>2
  <2>6. CASE f # at
    <3>1. Of(found, f, name, version) = {}
      <4>1. \A i \in DOMAIN found : found[i] \in PackagesOf(at)
        OBVIOUS
      <4> QED BY <2>6, <4>1 DEF Of, PackagesOf
    <3>2. Count(found, f, name, version) = 0
      BY <3>1, FS_EmptySet DEF Count
    <3>3. f \in ToSet(lockfiles') <=> f \in ToSet(lockfiles)
      BY <1>3, <2>6
    <3> QED BY <2>1, <2>2, <2>3, <2>4, <3>2, <3>3
  <2> QED BY <2>5, <2>6
<1> QED BY <1>1, <1>3, <1>5, <1>6 DEF Counted

LEMMA NpmPins ==
  ASSUME NEW f \in NpmLocks, NEW name, NEW version
  PROVE  Pins(f, name, version) =
           Cardinality(NpmNames(disk[f].text) \intersect {<<name, version>>})
BY Constants DEF Pins, NpmNames

Pinning(t, name, version) == {h \in Sections(t) : SectionPins(t, h, name, version)}

LEMMA CargoPins ==
  ASSUME NEW f \in CargoLocks, NEW name, NEW version
  PROVE  Pins(f, name, version) = Cardinality(Pinning(disk[f].text, name, version))
BY DEF Pins, Pinning, SectionPins

LEMMA NpmLockCounted ==
  ASSUME TreeInv, IInv, Counted, [Next]_vars, ReadPackageLock, ~NpmBroken(disk[at].text)
  PROVE  Counted'
<1> DEFINE found == SetToSeq(NpmPackages(at, disk[at].text))
<1>1. pc = "read" /\ at \in NpmLocks /\ Parsed(found)
  BY DEF ReadPackageLock, Readable, NpmPackages
<1>2. at \in Supported /\ at \in Paths /\ at \notin CargoLocks
  BY <1>1, Constants
<1>3. disk[at].text \in Map
  BY <1>1, <1>2 DEF TreeInv, DiskTyped, Text
<1>4. /\ found \in Seq(PackagesOf(at))
      /\ \A name, version \in Values : Count(found, at, name, version) = Pins(at, name, version)
  <2>1. /\ found \in Seq(PackagesOf(at))
        /\ \A name, version \in Values :
             Count(found, at, name, version) =
               Cardinality(NpmNames(disk[at].text) \intersect {<<name, version>>})
    BY <1>1, <1>3, NpmCounted
  <2> HIDE DEF found
  <2> SUFFICES ASSUME NEW name \in Values, NEW version \in Values
               PROVE  Count(found, at, name, version) = Pins(at, name, version)
    BY <2>1
  <2>2. Pins(at, name, version) =
          Cardinality(NpmNames(disk[at].text) \intersect {<<name, version>>})
    BY <1>1, NpmPins, ZenonT(30)
  <2> QED BY <2>1, <2>2, ZenonT(30)
<1> HIDE DEF found
<1> QED BY <1>1, <1>2, <1>4, ParsedCounted DEF Parsing

LEMMA CargoLockCounted ==
  ASSUME TreeInv, IInv, Counted, Drafted, [Next]_vars, EndOfText, Parsed(Flushed), ~Incomplete
  PROVE  Counted'
<1>1. pc = "lines" /\ line > Len(text)
  BY DEF EndOfText
<1>2. at \in CargoLocks /\ text = disk[at].text /\ at \in Supported
  BY <1>1, AtLineFacts, Constants
<1>3. Sections(text) \intersect Seen = Sections(text)
  BY <1>1, AtLineFacts DEF Seen, Sections
<1>4. /\ Flushed \in Seq(PackagesOf(at))
      /\ \A name, version \in Values :
           Count(Flushed, at, name, version) =
             Cardinality(Pinning(text, name, version))
  BY <1>1, <1>3, FlushedCounts DEF Pinning
<1>5. \A name, version \in Values : Count(Flushed, at, name, version) = Pins(at, name, version)
  BY <1>2, <1>4, CargoPins
<1> QED BY <1>1, <1>2, <1>4, <1>5, ParsedCounted DEF Parsing

(* Keys are four numbers each. *)
LEMMA KeyOf ==
  ASSUME NEW p \in Package
  PROVE  /\ PackageKey(p) \in FourNumbers
         /\ p.lockfile \in Supported /\ p.ecosystem = Ecosystem(p.lockfile)
         /\ p.name \in Values /\ p.version \in Values
<1>1. PICK f \in Supported : p \in PackagesOf(f)
  BY DEF Package
<1>2. p.name \in Values /\ p.version \in Values /\ p.lockfile = f /\ p.ecosystem = Ecosystem(f)
  BY <1>1 DEF PackagesOf
<1>3. p.name \in Nat /\ p.version \in Nat /\ p.lockfile \in Nat
  BY <1>2, ConstantsAssumption, Constants
<1>4. PackageKey(p) \in FourNumbers
  BY <1>3 DEF PackageKey, FourNumbers
<1> QED BY <1>1, <1>2, <1>4

LEMMA SortCounted ==
  ASSUME TreeInv, Counted, [Next]_vars, SortReport
  PROVE  Counted'
<1> DEFINE keys == [i \in DOMAIN packages |-> PackageKey(packages[i])]
<1>1. /\ packages' = SortedBy(packages, keys) /\ UNCHANGED <<lockfiles, vulnerabilities>>
      /\ pc = "sort" /\ snapshot' = snapshot /\ (pc' = "advisories" => snapshot # NoSnapshot)
  BY SnapshotKept DEF SortReport
<1>2. packages \in Seq(Package) /\ vulnerabilities = <<>>
  BY <1>1 DEF Counted
<1>3. keys \in [DOMAIN packages -> FourNumbers]
  <2>1. \A i \in DOMAIN packages : packages[i] \in Package
    BY <1>2
  <2> QED BY <2>1, KeyOf
<1> HIDE DEF keys
<1>4. PICK p \in Bijection(DOMAIN packages, DOMAIN packages) :
        /\ SortedBy(packages, keys) = [k \in DOMAIN packages |-> packages[p[k]]]
        /\ \A k, l \in DOMAIN packages : k < l => ~Before(keys[p[l]], keys[p[k]])
  BY <1>2, <1>3, SortedIs
<1>5. packages' = [k \in DOMAIN packages |-> packages[p[k]]]
  BY <1>1, <1>4
<1>6. \A k \in DOMAIN packages : p[k] \in DOMAIN packages
  BY DEF Bijection, Injection
<1>7. packages' \in Seq(Package)
  <2>1. DOMAIN packages = 1..Len(packages) /\ Len(packages) \in Nat
    BY <1>2
  <2>2. \A k \in 1..Len(packages) : packages[p[k]] \in Package
    BY <1>2, <1>6
  <2>3. packages' \in [1..Len(packages) -> Package]
    BY <1>5, <2>1, <2>2
  <2> QED BY <2>1, <2>3
<1>8. \A i, j \in DOMAIN packages' :
        i < j => ~Before(PackageKey(packages'[j]), PackageKey(packages'[i]))
  <2> SUFFICES ASSUME NEW i \in DOMAIN packages, NEW j \in DOMAIN packages, i < j
               PROVE  ~Before(PackageKey(packages[p[j]]), PackageKey(packages[p[i]]))
    BY <1>5
  <2>1. keys[p[i]] = PackageKey(packages[p[i]]) /\ keys[p[j]] = PackageKey(packages[p[j]])
    BY <1>6 DEF keys
  <2> QED BY <1>4, <2>1
<1>9. \A f \in Supported, name, version \in Values :
        Count(packages', f, name, version) =
          IF f \in ToSet(lockfiles') THEN Pins(f, name, version)' ELSE 0
  <2> SUFFICES ASSUME NEW f \in Supported, NEW name \in Values, NEW version \in Values
               PROVE  Count(packages', f, name, version) =
                        IF f \in ToSet(lockfiles) THEN Pins(f, name, version)' ELSE 0
    BY <1>1
  <2>1. Count(packages', f, name, version) = Count(packages, f, name, version)
    BY <1>2, <1>5, CountMoved
  <2>2. Pins(f, name, version)' = Pins(f, name, version)
    BY PinsKept DEF TreeInv
  <2> QED BY <2>1, <2>2 DEF Counted
<1> QED BY <1>1, <1>2, <1>7, <1>8, <1>9 DEF Counted

LEMMA CountedKept == TreeInv /\ IInv /\ Counted /\ Drafted /\ [Next]_vars => Counted'
<1> SUFFICES ASSUME TreeInv, IInv, Counted, Drafted, [Next]_vars
             PROVE  Counted'
  OBVIOUS
<1>0. DiskTyped
  BY DEF TreeInv
<1> DEFINE Quiet == /\ UNCHANGED <<packages, lockfiles>>
                    /\ pc' # "done" => UNCHANGED vulnerabilities /\ pc # "done"
                    /\ pc' \in {"advisories", "done"} => pc \in {"advisories", "done"}
<1>1. Quiet => Counted'
  BY <1>0, QuietCounted
<1>2. \A f \in Paths : Edit(f) \/ Visit(f) => Quiet
  BY DEF Edit, Visit, report, Ended
<1>3. MissingTarget \/ SingleFile \/ StartWalk \/ EndWalk \/ NextLockfile \/ EndLockfiles => Quiet
  BY DEF MissingTarget, SingleFile, StartWalk, EndWalk, NextLockfile, EndLockfiles, report
<1>4. Broken /\ pc # "done" => Quiet
  BY DEF Broken
<1>5. CheckLockfile \/ ReadFails \/ ReadCargoLock => Quiet
  BY <1>4 DEF CheckLockfile, ReadFails, ReadCargoLock, Readable, report
<1>6. ReadPackageLock => Counted'
  <2>1. ReadPackageLock /\ NpmBroken(disk[at].text) => Quiet
    BY <1>4 DEF ReadPackageLock, Readable
  <2> QED BY <1>1, <2>1, NpmLockCounted
<1>7. PackageHeader \/ OtherTable \/ Key \/ OtherLine => Quiet
  BY <1>4 DEF PackageHeader, OtherTable, Key, OtherLine, BrokenLine, AtLine, report
<1>8. EndOfText => Counted'
  <2>1. EndOfText /\ Broken => Quiet
    BY <1>4 DEF EndOfText
  <2> QED BY <1>1, <2>1, CargoLockCounted DEF EndOfText
<1>9. ApplyAdvisoryDb => Quiet
  BY DEF ApplyAdvisoryDb
<1>10. UNCHANGED vars => Counted'
  <2>1. UNCHANGED vars => UNCHANGED <<packages, lockfiles, vulnerabilities, pc>>
    BY DEF vars, report
  <2>2. CASE UNCHANGED vars /\ pc # "done"
    BY <1>1, <2>1, <2>2
  <2>3. CASE UNCHANGED vars /\ pc = "done"
    BY <1>1, <2>1, <2>3
  <2> QED BY <2>2, <2>3
<1> HIDE DEF Quiet
<1> QED BY <1>1, <1>2, <1>3, <1>5, <1>6, <1>7, <1>8, <1>9, <1>10, SortCounted DEF Next

-----------------------------------------------------------------------------
(* The hits. *)

(* The report lists the matches, whatever their order. *)
LEMMA HitsListed ==
  ASSUME Counted, ApplyAdvisoryDb, pc' = "done"
  PROVE  /\ snapshot \in Snapshots /\ \A a \in snapshot.advisories : a.valid
         /\ \A v : v \in ToSet(vulnerabilities') <=>
              \E a \in snapshot.advisories, i \in DOMAIN packages :
                Matches(a, packages[i]) /\ v = Hit(a, packages[i])
<1> DEFINE M == Matching
           pairs == SetToSeq(M)
           hits == [k \in DOMAIN pairs |-> Hit(pairs[k][1], packages[pairs[k][2]])]
           keys == [k \in DOMAIN hits |-> HitKey(hits[k])]
<1>1. /\ pc = "advisories" /\ \A a \in snapshot.advisories : a.valid
      /\ vulnerabilities' = SortedBy(hits, keys)
  BY DEF ApplyAdvisoryDb
<1>2. snapshot \in Snapshots /\ packages \in Seq(Package)
  BY <1>1 DEF Counted
<1>3. snapshot.advisories \subseteq Advisory /\ IsFiniteSet(snapshot.advisories)
  BY <1>2, ConstantsAssumption DEF Snapshot
<1>4. IsFiniteSet(DOMAIN packages) /\ \A i \in DOMAIN packages : packages[i] \in Package
  <2>1. DOMAIN packages = 1..Len(packages) /\ Len(packages) \in Nat
    BY <1>2
  <2> QED BY <1>2, <2>1, FS_Interval
<1>5. IsFiniteSet(M)
  <2>1. IsFiniteSet(snapshot.advisories \X DOMAIN packages)
    BY <1>3, <1>4, FS_Product
  <2>2. M \subseteq snapshot.advisories \X DOMAIN packages
    BY DEF Matching
  <2> HIDE DEF M
  <2> QED BY <2>1, <2>2, FS_Subset
<1>6. \A m : m \in M <=> /\ m \in snapshot.advisories \X DOMAIN packages
                         /\ Matches(m[1], packages[m[2]])
  BY DEF Matching
<1> HIDE DEF M
<1>7. pairs \in Seq(M) /\ ToSet(pairs) = M
  BY <1>5, ListOf
<1>8. \A m \in M : /\ m[1] \in snapshot.advisories /\ m[2] \in DOMAIN packages
                   /\ Matches(m[1], packages[m[2]])
  BY <1>6
<1>9. \A a \in snapshot.advisories, i \in DOMAIN packages :
        Matches(a, packages[i]) => <<a, i>> \in M
  BY <1>6
<1>10. ASSUME NEW m \in M
       PROVE  HitKey(Hit(m[1], packages[m[2]])) \in FourNumbers
  <2>1. m[1] \in Advisory /\ packages[m[2]] \in Package
    BY <1>3, <1>4, <1>8
  <2>2. m[1].id \in Nat
    BY <2>1 DEF Advisory
  <2>3. /\ packages[m[2]].name \in Values /\ packages[m[2]].version \in Values
        /\ packages[m[2]].lockfile \in Supported
    BY <2>1, KeyOf
  <2>4. /\ packages[m[2]].name \in Nat /\ packages[m[2]].version \in Nat
        /\ packages[m[2]].lockfile \in Nat
    BY <2>3, ConstantsAssumption, Constants
  <2> DEFINE h == Hit(m[1], packages[m[2]])
  <2>5. /\ h.advisory_id = m[1].id /\ h.package = packages[m[2]].name
        /\ h.version = packages[m[2]].version /\ h.lockfile = packages[m[2]].lockfile
    BY DEF Hit
  <2> HIDE DEF h
  <2>6. HitKey(h) \in FourNumbers
    BY <2>2, <2>4, <2>5 DEF HitKey, FourNumbers
  <2> QED BY <2>6 DEF h
<1> HIDE DEF pairs
<1>11. \A k \in DOMAIN pairs : pairs[k] \in M
  BY <1>7 DEF ToSet
<1>12. \A m \in M : \E k \in DOMAIN pairs : pairs[k] = m
  BY <1>7 DEF ToSet
<1>13. hits \in Seq({hits[k] : k \in DOMAIN hits}) /\ DOMAIN hits = DOMAIN pairs
  <2>1. DOMAIN pairs = 1..Len(pairs) /\ Len(pairs) \in Nat
    BY <1>7
  <2>2. DOMAIN hits = 1..Len(pairs) /\ hits = [k \in 1..Len(pairs) |-> hits[k]]
    BY <2>1
  <2> HIDE DEF hits
  <2>3. hits \in [1..Len(pairs) -> {hits[k] : k \in DOMAIN hits}]
    BY <2>2
  <2> QED BY <2>1, <2>2, <2>3
<1>14. keys \in [DOMAIN hits -> FourNumbers]
  BY <1>10, <1>11, <1>13
<1>15. \A k \in DOMAIN hits : hits[k] = Hit(pairs[k][1], packages[pairs[k][2]])
  OBVIOUS
<1> HIDE DEF hits, keys
<1>16. PICK p \in Bijection(DOMAIN hits, DOMAIN hits) :
         /\ SortedBy(hits, keys) = [k \in DOMAIN hits |-> hits[p[k]]]
         /\ \A k, l \in DOMAIN hits : k < l => ~Before(keys[p[l]], keys[p[k]])
  BY <1>13, <1>14, SortedIs
<1>17. /\ \A k \in DOMAIN hits : p[k] \in DOMAIN hits
       /\ \A i \in DOMAIN hits : \E k \in DOMAIN hits : p[k] = i
  BY DEF Bijection, Injection, Surjection
<1>18. \A v : v \in ToSet(vulnerabilities') <=> \E k \in DOMAIN hits : v = hits[k]
  <2>1. vulnerabilities' = [k \in DOMAIN hits |-> hits[p[k]]]
    BY <1>1, <1>16
  <2> QED BY <1>17, <2>1 DEF ToSet
<1>19. ASSUME NEW a \in snapshot.advisories, NEW i \in DOMAIN packages, Matches(a, packages[i])
       PROVE  Hit(a, packages[i]) \in ToSet(vulnerabilities')
  <2>1. PICK k \in DOMAIN pairs : pairs[k] = <<a, i>>
    BY <1>9, <1>12, <1>19
  <2>2. hits[k] = Hit(a, packages[i])
    BY <1>13, <1>15, <2>1
  <2> QED BY <1>13, <1>18, <2>2
<1>20. ASSUME NEW v \in ToSet(vulnerabilities')
       PROVE  \E a \in snapshot.advisories, i \in DOMAIN packages :
                Matches(a, packages[i]) /\ v = Hit(a, packages[i])
  <2>1. PICK k \in DOMAIN hits : v = hits[k]
    BY <1>18
  <2> QED BY <1>8, <1>11, <1>13, <1>15, <2>1
<1> QED BY <1>1, <1>2, <1>19, <1>20

(* A package is listed if and only if a lockfile that is listed pins it. *)
LEMMA ListedIsPinned ==
  ASSUME Counted, NEW f \in Supported, NEW name \in Values, NEW version \in Values,
         \A g \in Supported, n, v \in Values : Pins(g, n, v) \in Nat
  PROVE  (\E i \in DOMAIN packages : /\ packages[i].lockfile = f /\ packages[i].name = name
                                     /\ packages[i].version = version)
           <=> f \in ToSet(lockfiles) /\ Pins(f, name, version) > 0
<1>1. Count(packages, f, name, version) =
        IF f \in ToSet(lockfiles) THEN Pins(f, name, version) ELSE 0
  BY DEF Counted
<1>2. Count(packages, f, name, version) = 0 <=> Of(packages, f, name, version) = {}
  BY OfIs DEF Counted
<1>3. Pins(f, name, version) \in Nat
  OBVIOUS
<1>4. Of(packages, f, name, version) # {} <=>
        \E i \in DOMAIN packages : /\ packages[i].lockfile = f /\ packages[i].name = name
                                   /\ packages[i].version = version
  BY DEF Of
<1> QED BY <1>1, <1>2, <1>3, <1>4

LEMMA PinsAreNumbers ==
  ASSUME DiskTyped
  PROVE  \A f \in Supported, name, version \in Values : Pins(f, name, version) \in Nat
<1> SUFFICES ASSUME NEW f \in Supported, NEW name \in Values, NEW version \in Values
             PROVE  Pins(f, name, version) \in Nat
  OBVIOUS
<1>1. f \in Paths
  BY Constants
<1>2. CASE f \in CargoLocks
  <2>1. disk[f].text \in Seq(Line)
    BY <1>1, <1>2 DEF DiskTyped, Text
  <2>2. Pinning(disk[f].text, name, version) \subseteq 1..Len(disk[f].text)
        /\ Len(disk[f].text) \in Nat
    BY <2>1 DEF Pinning, Sections
  <2>3. IsFiniteSet(1..Len(disk[f].text))
    BY <2>2, FS_Interval
  <2>4. Cardinality(Pinning(disk[f].text, name, version)) \in Nat
    BY <2>2, <2>3, FS_Subset, FS_CardinalityType
  <2> QED BY <1>2, <2>4, CargoPins
<1>3. CASE f \in NpmLocks
  <2> DEFINE S == NpmNames(disk[f].text) \intersect {<<name, version>>}
  <2>1. S \subseteq {<<name, version>>} /\ IsFiniteSet({<<name, version>>})
    BY FS_Singleton
  <2>2. Cardinality(S) \in Nat
    <3> HIDE DEF S
    <3> QED BY <2>1, FS_Subset, FS_CardinalityType
  <2>3. Pins(f, name, version) = Cardinality(S)
    BY <1>3, NpmPins, ZenonT(30)
  <2> QED BY <2>2, <2>3
<1> QED BY <1>2, <1>3, Constants

(* The pinned packages that advisories enumerate. *)
HitsIn(a, f) ==
  {[advisory_id |-> a.id, ecosystem |-> a.ecosystem,
    package |-> a.package, version |-> v, lockfile |-> f] :
     v \in {v \in a.vulnerable_versions : Pins(f, a.package, v) > 0}}

HitsOf(a) == UNION {HitsIn(a, f) : f \in {f \in ToSet(lockfiles) : a.ecosystem = Ecosystem(f)}}

Hits(advisories) == UNION {HitsOf(a) : a \in advisories}

LEMMA HitsAre ==
  ASSUME NEW advisories, NEW hit
  PROVE  hit \in Hits(advisories) <=>
           \E a \in advisories, f \in ToSet(lockfiles) : \E v \in a.vulnerable_versions :
             /\ a.ecosystem = Ecosystem(f) /\ Pins(f, a.package, v) > 0
             /\ hit = [advisory_id |-> a.id, ecosystem |-> a.ecosystem,
                       package |-> a.package, version |-> v, lockfile |-> f]
<1>1. \A a, f : hit \in HitsIn(a, f) <=>
        \E v \in a.vulnerable_versions :
          /\ Pins(f, a.package, v) > 0
          /\ hit = [advisory_id |-> a.id, ecosystem |-> a.ecosystem,
                    package |-> a.package, version |-> v, lockfile |-> f]
  BY DEF HitsIn
<1>2. \A a : hit \in HitsOf(a) <=>
        \E f \in ToSet(lockfiles) : a.ecosystem = Ecosystem(f) /\ hit \in HitsIn(a, f)
  BY DEF HitsOf
<1>3. hit \in Hits(advisories) <=> \E a \in advisories : hit \in HitsOf(a)
  BY DEF Hits
<1> QED BY <1>1, <1>2, <1>3

Advisories == IF snapshot = NoSnapshot THEN {} ELSE snapshot.advisories

HitsRight ==
  Done => (\A a \in Advisories : a.valid) /\ ToSet(vulnerabilities) = Hits(Advisories)

LEMMA ExactHits == HitsRight <=> HitsAreExact
BY DEF HitsAreExact, HitsRight, Advisories, Hits, HitsOf, HitsIn, Ecosystem

LEMMA HitsUnmoved ==
  ASSUME UNCHANGED <<disk, lockfiles>>
  PROVE  \A a : HitsOf(a)' = HitsOf(a)
<1>1. \A f, name, version : Pins(f, name, version)' = Pins(f, name, version)
  BY DEF Pins
<1>2. \A a, f : HitsIn(a, f)' = HitsIn(a, f)
  BY <1>1, ZenonT(30) DEF HitsIn
<1> QED BY <1>2, ZenonT(30) DEF HitsOf, Ecosystem

(* A hit of the nested loop is a pinned package, and the other way round. *)
LEMMA HitsKept ==
  ASSUME TreeInv, Counted, HitsRight, [Next]_vars
  PROVE  HitsRight'
<1>1. \A f \in Supported, n, v \in Values :
        Pins(f, n, v)' = Pins(f, n, v) /\ Pins(f, n, v) \in Nat
  BY PinsKept, PinsAreNumbers DEF TreeInv
<1>2. snapshot' = snapshot
  BY SnapshotKept
<1>3. CASE ApplyAdvisoryDb /\ pc' = "done"
  <2> DEFINE advisories == snapshot.advisories
  <2>1. /\ snapshot \in Snapshots /\ \A a \in advisories : a.valid
        /\ \A v : v \in ToSet(vulnerabilities') <=>
             \E a \in advisories, i \in DOMAIN packages :
               Matches(a, packages[i]) /\ v = Hit(a, packages[i])
    BY <1>3, HitsListed
  <2>2. snapshot' # NoSnapshot /\ UNCHANGED <<lockfiles, disk>>
    BY <1>2, <1>3, <2>1, ConstantsAssumption DEF ApplyAdvisoryDb, surroundings
  <2>3. advisories \subseteq Advisory
    BY <2>1, ConstantsAssumption DEF Snapshot
  <2>4. \A i \in DOMAIN packages : packages[i] \in Package
    BY DEF Counted
  <2>5. ToSet(lockfiles) \subseteq Supported
    BY DEF Counted
  <2> HIDE DEF advisories
  <2>6. ASSUME NEW a \in advisories, NEW i \in DOMAIN packages, Matches(a, packages[i])
        PROVE  Hit(a, packages[i]) \in Hits(advisories)
    <3> DEFINE p == packages[i]
    <3>1. /\ p.lockfile \in Supported /\ p.ecosystem = Ecosystem(p.lockfile)
          /\ p.name \in Values /\ p.version \in Values
      BY <2>4, KeyOf
    <3>2. a.ecosystem = p.ecosystem /\ a.package = p.name /\ p.version \in a.vulnerable_versions
      BY <2>6 DEF Matches
    <3>3. p.lockfile \in ToSet(lockfiles) /\ Pins(p.lockfile, p.name, p.version) > 0
      BY <1>1, <3>1, ListedIsPinned
    <3>4. Hit(a, p) = [advisory_id |-> a.id, ecosystem |-> a.ecosystem,
                       package |-> a.package, version |-> p.version, lockfile |-> p.lockfile]
      BY <3>2 DEF Hit
    <3> HIDE DEF p
    <3>5. Hit(a, p) \in Hits(advisories)
      BY <3>1, <3>2, <3>3, <3>4, HitsAre
    <3> QED BY <3>5 DEF p
  <2>7. ASSUME NEW hit \in Hits(advisories)
        PROVE  \E a \in advisories, i \in DOMAIN packages :
                 Matches(a, packages[i]) /\ hit = Hit(a, packages[i])
    <3>1. PICK a \in advisories, f \in ToSet(lockfiles) : \E v \in a.vulnerable_versions :
            /\ a.ecosystem = Ecosystem(f) /\ Pins(f, a.package, v) > 0
            /\ hit = [advisory_id |-> a.id, ecosystem |-> a.ecosystem,
                      package |-> a.package, version |-> v, lockfile |-> f]
      BY <2>7, HitsAre
    <3>2. PICK v \in a.vulnerable_versions :
            /\ a.ecosystem = Ecosystem(f) /\ Pins(f, a.package, v) > 0
            /\ hit = [advisory_id |-> a.id, ecosystem |-> a.ecosystem,
                      package |-> a.package, version |-> v, lockfile |-> f]
      BY <3>1
    <3>3. f \in Supported /\ a.package \in Values /\ v \in Values
      BY <2>3, <2>5 DEF Advisory
    <3>4. PICK i \in DOMAIN packages : /\ packages[i].lockfile = f /\ packages[i].name = a.package
                                       /\ packages[i].version = v
      BY <1>1, <3>2, <3>3, ListedIsPinned
    <3>5. packages[i].ecosystem = Ecosystem(f)
      BY <2>4, <3>4, KeyOf
    <3>6. Matches(a, packages[i]) /\ hit = Hit(a, packages[i])
      BY <3>2, <3>4, <3>5 DEF Matches, Hit
    <3> QED BY <3>6
  <2>8. ToSet(vulnerabilities') = Hits(advisories)
    BY <2>1, <2>6, <2>7 DEF advisories
  <2>9. \A a : HitsOf(a)' = HitsOf(a)
    BY <2>2, HitsUnmoved
  <2>10. advisories = Advisories'
    BY <1>2, <2>2 DEF Advisories, advisories
  <2>11. Hits(Advisories)' = Hits(advisories)
    BY <2>9, <2>10, ZenonT(30) DEF Hits
  <2> QED BY <2>1, <2>8, <2>10, <2>11 DEF HitsRight
<1>4. CASE SortReport /\ pc' = "done"
  <2>1. snapshot' = NoSnapshot /\ vulnerabilities' = <<>>
    BY <1>2, <1>4 DEF SortReport, Counted
  <2>2. Advisories' = {} /\ ToSet(vulnerabilities') = {}
    BY <2>1, EmptyOf DEF Advisories
  <2>3. Hits(Advisories)' = {}
    BY <2>2 DEF Hits
  <2> QED BY <2>2, <2>3 DEF HitsRight
<1>5. CASE UNCHANGED <<disk, snapshot, pc, lockfiles, vulnerabilities>>
  <2>1. \A a : HitsOf(a)' = HitsOf(a)
    BY <1>5, HitsUnmoved
  <2>2. Advisories' = Advisories
    BY <1>5 DEF Advisories
  <2>3. Hits(Advisories)' = Hits(Advisories)
    BY <2>1, <2>2, ZenonT(30) DEF Hits
  <2> QED BY <1>5, <2>2, <2>3 DEF HitsRight, Done
<1>6. CASE pc' # "done"
  BY <1>6 DEF HitsRight, Done
<1>7. \/ ApplyAdvisoryDb /\ pc' = "done"
      \/ SortReport /\ pc' = "done"
      \/ UNCHANGED <<disk, snapshot, pc, lockfiles, vulnerabilities>>
      \/ pc' # "done"
  <2>1. \A f \in Paths : Edit(f) \/ Visit(f) => pc' # "done"
    BY DEF Edit, Visit, Ended
  <2>2. MissingTarget \/ SingleFile \/ StartWalk \/ EndWalk => pc' # "done"
    BY DEF MissingTarget, SingleFile, StartWalk, EndWalk
  <2>3. NextLockfile \/ EndLockfiles => pc' # "done"
    BY DEF NextLockfile, EndLockfiles
  <2>4. CheckLockfile \/ ReadFails \/ ReadCargoLock \/ ReadPackageLock => pc' # "done"
    BY DEF CheckLockfile, ReadFails, ReadCargoLock, ReadPackageLock, Broken, Parsed
  <2>5. PackageHeader \/ OtherTable \/ Key \/ OtherLine \/ EndOfText => pc' # "done"
    BY DEF PackageHeader, OtherTable, Key, OtherLine, EndOfText, AtLine, BrokenLine, Broken, Parsed
  <2>6. UNCHANGED vars => UNCHANGED <<disk, snapshot, pc, lockfiles, vulnerabilities>>
    BY DEF vars, surroundings, report
  <2> QED BY <2>1, <2>2, <2>3, <2>4, <2>5, <2>6 DEF Next
<1> QED BY <1>3, <1>4, <1>5, <1>6, <1>7

LEMMA InitPackages == Init => Counted /\ Drafted /\ HitsRight
<1> SUFFICES ASSUME Init
             PROVE  Counted /\ Drafted /\ HitsRight
  OBVIOUS
<1>1. /\ packages = <<>> /\ lockfiles = <<>> /\ vulnerabilities = <<>> /\ pc = "start"
      /\ snapshot \in Snapshots \union {NoSnapshot}
  BY DEF Init
<1>2. ToSet(lockfiles) = {}
  BY <1>1, EmptyOf
<1>3. \A f, name, version : Of(packages, f, name, version) = {}
  BY <1>1 DEF Of
<1>4. \A f, name, version : Count(packages, f, name, version) = 0
  BY <1>3, FS_EmptySet DEF Count
<1>5. packages \in Seq(Package)
  BY <1>1
<1> QED BY <1>1, <1>2, <1>4, <1>5 DEF Counted, Drafted, HitsRight, Done

(* `loop3r deps`: a report lists, in order, exactly what its lockfiles pin *)
(* and as often, when a Cargo.lock is read section by section: neither the *)
(* drafts of the line parser, nor a file that broke off after some of its  *)
(* packages, nor the sort adds, drops or repeats one.                      *)
THEOREM PackagesExact == Spec => []PackagesAreExact
<1>1. Counted => PackagesAreExact
  BY DEF Counted, Count, Of, PackagesAreExact, Done
<1> QED BY InitIInv, NextIInv, InitTreeInv, NextTreeInv, InitPackages, CountedKept, DraftedKept,
           <1>1, PTL DEF Spec

(* The hits of a report are the packages that its lockfiles pin and that   *)
(* an advisory of their ecosystem enumerates, whatever database was given; *)
(* with an advisory that does not validate there is no report.             *)
THEOREM HitsExact == Spec => []HitsAreExact
<1>1. TreeInv /\ Counted /\ HitsRight /\ [Next]_vars => HitsRight'
  BY HitsKept
<1> QED BY InitIInv, NextIInv, InitTreeInv, NextTreeInv, InitPackages, CountedKept, DraftedKept,
           ExactHits, <1>1, PTL DEF Spec

=============================================================================
