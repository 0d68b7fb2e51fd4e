------------------------- MODULE ScanPipelineProofs -------------------------
(***************************************************************************)
(* Proofs about ScanPipeline, for any tree, any target, any seed and any   *)
(* changes meanwhile: the deadline binds in both loops alike, timed_out is *)
(* exact, a named file is never skipped; and of a tree nobody touches, a   *)
(* report says what is there, and the seed decides what a partial one says.*)
(***************************************************************************)
EXTENDS ScanPipeline, FiniteSetTheorems, WellFoundedInduction, TLAPS

Reading == {"read_source", "read_config"}

(* A file is only late if the budget ran out between the look at the clock *)
(* and the read; the next look sees it.                                    *)
Lateness ==
  /\ late \in {0, 1} /\ expired \in BOOLEAN
  /\ late = 1 => expired
  /\ pc \in Reading => late = 0

LEMMA InitLateness == Init => Lateness
<1> SUFFICES ASSUME Init PROVE Lateness
  OBVIOUS
<1>1. late = 0 /\ expired = FALSE /\ pc = "start"
  BY DEF Init
<1>2. late \in {0, 1} /\ expired \in BOOLEAN
  BY <1>1
<1>3. late = 1 => expired
  BY <1>1
<1>4. pc \in Reading => late = 0
  BY <1>1 DEF Reading
<1> QED BY <1>2, <1>3, <1>4 DEF Lateness

LEMMA NextLateness == Lateness /\ [Next]_vars => Lateness'
<1> SUFFICES ASSUME Lateness, [Next]_vars PROVE Lateness'
  OBVIOUS
<1> USE DEF Lateness, Reading
<1>1. ASSUME NEW f \in Paths, Edit(f) PROVE Lateness'
  BY <1>1 DEF Edit, progress
<1>2. CASE Expire
  BY <1>2 DEF Expire, progress
<1>3. CASE MissingTarget \/ StartWalk \/ EndWalk \/ EndShuffle
  BY <1>3 DEF MissingTarget, StartWalk, EndWalk, EndShuffle, surroundings, progress
<1>4. CASE SingleFile
  BY <1>4 DEF SingleFile, TakeNamedFile, NamedFile, surroundings, progress
<1>5. ASSUME NEW f \in Paths, Visit(f) \/ VisitError(f) PROVE Lateness'
  BY <1>5 DEF Visit, VisitError, surroundings, progress
<1>6. CASE StartScanning \/ ShuffleStep
  BY <1>6 DEF StartScanning, ShuffleStep, surroundings
<1>7. CASE CheckSource
  BY <1>7 DEF CheckSource, surroundings
<1>8. CASE ScanSource
  BY <1>8 DEF ScanSource, surroundings
<1>9. CASE CheckConfig
  BY <1>9 DEF CheckConfig, surroundings
<1>10. CASE ScanConfig
  BY <1>10 DEF ScanConfig, surroundings
<1>11. CASE ReadError
  BY <1>11 DEF ReadError, surroundings, progress
<1>12. CASE Finish
  BY <1>12 DEF Finish, surroundings, progress
<1>13. CASE UNCHANGED vars
  BY <1>13 DEF vars, surroundings, progress
<1> QED
  BY <1>1, <1>2, <1>3, <1>4, <1>5, <1>6, <1>7, <1>8, <1>9, <1>10, <1>11, <1>12, <1>13
  DEF Next, ScanStep

(* Whatever the tree, and however the clock runs, a scan reads at most one *)
(* file after its budget has run out.                                      *)
THEOREM Overrun == Spec => []OverrunAtMostOneFile
<1>1. Lateness => OverrunAtMostOneFile
  BY DEF Lateness, OverrunAtMostOneFile
<1> QED BY InitLateness, NextLateness, <1>1, PTL DEF Spec

-----------------------------------------------------------------------------
Looping == {"files", "read_source", "secret_files", "read_config"}
Finished == {"sort", "done"}
Discovering == {"start", "walk", "discovered"}

SourceCount == Cardinality(files)
ConfigCount == Cardinality(secret_files)

Lists == files \subseteq Sources /\ secret_files \subseteq Configs

(* The shuffle keeps every position. *)
Queued ==
  pc \in {"shuffle"} \union Looping => queue = [i \in 1..SourceCount |-> queue[i]]

(* How far each loop has come ... *)
Counted ==
  /\ files_parsed \in Nat /\ secret_files_scanned \in Nat
  /\ pc \in Discovering \union {"shuffle"} => files_parsed = 0 /\ secret_files_scanned = 0
  /\ pc \in Looping \union Finished =>
       files_parsed <= SourceCount /\ secret_files_scanned <= ConfigCount
  /\ pc \in {"files", "read_source"} => secret_files_scanned = 0
  /\ pc = "read_source" => files_parsed < SourceCount
  /\ pc = "read_config" => secret_files_scanned < ConfigCount

(* ... and what timed_out says of it. *)
SourcesLeft == files_parsed < SourceCount
ConfigsLeft == secret_files_scanned < ConfigCount

Told ==
  /\ timed_out \in BOOLEAN
  /\ pc \in Discovering \union {"shuffle", "files", "read_source"} => ~timed_out
  /\ pc \in {"secret_files", "read_config"} => (timed_out <=> SourcesLeft)
  /\ pc \in Finished => (timed_out <=> (SourcesLeft \/ ConfigsLeft))

(* What discovery has made of a named file. *)
Taken ==
  /\ given \in Scans
  /\ target # Tree =>
       /\ pc # "walk"
       /\ skipped_oversized = 0 /\ skipped_unsupported = 0
       /\ pc \notin {"start", "failed"} =>
            /\ target \in Sources \union Configs
            /\ files = {target} \intersect (Sources \ UnscopedName)
            /\ secret_files = {target} \intersect (Configs \ UnscopedName)

IInv == Lists /\ Queued /\ Counted /\ Told /\ Taken

LEMMA ListsAreFinite ==
  ASSUME Lists
  PROVE  SourceCount \in Nat /\ ConfigCount \in Nat
<1>1. IsFiniteSet(files) /\ IsFiniteSet(secret_files)
  BY ConstantsAssumption, FS_Subset DEF Lists, Paths
<1> QED BY <1>1, FS_CardinalityType DEF SourceCount, ConfigCount

LEMMA LengthOf ==
  ASSUME NEW n \in Nat, NEW q, q = [i \in 1..n |-> q[i]]
  PROVE  Len(q) = n
<1> DEFINE values == {q[i] : i \in 1..n}
<1>1. q \in [1..n -> values]
  OBVIOUS
<1> QED BY <1>1

LEMMA SortedHasEach ==
  ASSUME NEW S
  PROVE  Sorted(S) = [i \in 1..Cardinality(S) |-> Sorted(S)[i]]
<1> DEFINE Nth(i) == CHOOSE f \in S : Cardinality({g \in S : g <= f}) = i
<1>1. Sorted(S) = [i \in 1..Cardinality(S) |-> Nth(i)]
  BY DEF Sorted
<1> HIDE DEF Nth
<1> QED BY <1>1

LEMMA InitIInv == Init => IInv
<1> SUFFICES ASSUME Init PROVE IInv
  OBVIOUS
<1>1. /\ pc = "start" /\ files = {} /\ secret_files = {} /\ given \in Scans
      /\ files_parsed = 0 /\ secret_files_scanned = 0 /\ timed_out = FALSE
      /\ skipped_oversized = 0 /\ skipped_unsupported = 0
  BY DEF Init
<1>2. Lists /\ Queued /\ Taken
  BY <1>1 DEF Lists, Queued, Taken, Looping
<1>3. Counted /\ Told
  BY <1>1 DEF Counted, Told, Discovering, Looping, Finished
<1> QED BY <1>2, <1>3 DEF IInv

LEMMA NextIInv == IInv /\ [Next]_vars => IInv'
<1> SUFFICES ASSUME IInv, [Next]_vars PROVE IInv'
  OBVIOUS
<1>0. SourceCount \in Nat /\ ConfigCount \in Nat
  BY ListsAreFinite DEF IInv
<1> USE DEF IInv, Lists, Discovering, Looping, Finished
<1> USE DEF SourceCount, ConfigCount, SourcesLeft, ConfigsLeft
<1>1. ASSUME UNCHANGED <<given, pc, discovery, progress>> PROVE IInv'
  BY <1>1 DEF Queued, Counted, Told, Taken, target, discovery, progress, ordering
<1>2. CASE (\E f \in Paths : Edit(f)) \/ Expire \/ UNCHANGED vars
  BY <1>1, <1>2 DEF Edit, Expire, vars, surroundings
<1>3. ASSUME UNCHANGED <<given, discovery, progress>>, pc' = "failed" PROVE IInv'
  BY <1>3 DEF Queued, Counted, Told, Taken, target, discovery, progress, ordering
<1>4. CASE MissingTarget \/ ReadError \/ \E f \in Paths : VisitError(f)
  BY <1>3, <1>4 DEF MissingTarget, ReadError, VisitError, surroundings
<1>5. CASE StartWalk
  BY <1>5 DEF StartWalk, Queued, Counted, Told, Taken, target, surroundings, progress, ordering
<1>6. CASE SingleFile
  <2>1. UNCHANGED <<given, progress, skipped_oversized, skipped_unsupported>> /\ pc = "start"
    BY <1>6 DEF SingleFile, NamedFile, surroundings
  <2>2. \/ pc' = "failed" /\ UNCHANGED <<files, secret_files>>
        \/ pc' = "discovered" /\ target \notin Links \union Others /\ TakeNamedFile
    BY <1>6 DEF SingleFile, TakeNamedFile
  <2>3. Lists'
    BY <2>2 DEF TakeNamedFile
  <2>4. Queued' /\ Counted' /\ Told'
    BY <2>1, <2>2 DEF Queued, Counted, Told, TakeNamedFile, progress
  <2>5. target \in Paths \union {Tree} /\ target # Tree
    BY <1>6, ConstantsAssumption DEF Taken, target, SingleFile, NamedFile
  <2>6. Taken'
    BY <2>1, <2>2, <2>5 DEF Taken, target, TakeNamedFile, Paths
  <2> QED BY <2>3, <2>4, <2>6
<1>7. ASSUME NEW f \in Paths, Visit(f) PROVE IInv'
  <2>1. UNCHANGED <<given, pc, progress>> /\ pc = "walk"
    BY <1>7 DEF Visit, surroundings
  <2>2. Lists'
    BY <1>7 DEF Visit
  <2>3. Queued' /\ Counted' /\ Told'
    BY <2>1 DEF Queued, Counted, Told, progress
  <2>4. Taken'
    BY <2>1 DEF Taken, target
  <2> QED BY <2>2, <2>3, <2>4
<1>8. CASE EndWalk
  BY <1>8 DEF EndWalk, Queued, Counted, Told, Taken, target, surroundings, discovery, progress,
              ordering
<1>9. CASE StartScanning
  <2>1. /\ UNCHANGED <<given, discovery, files_parsed, secret_files_scanned, timed_out>>
        /\ pc = "discovered" /\ pc' = "shuffle" /\ queue' = Sorted(files)
    BY <1>9 DEF StartScanning, surroundings
  <2>2. Queued'
    BY <2>1, SortedHasEach DEF Queued, discovery
  <2>3. Lists' /\ Counted' /\ Told' /\ Taken'
    BY <2>1 DEF Counted, Told, Taken, target, discovery
  <2> QED BY <2>2, <2>3
<1>10. CASE ShuffleStep
  <2>1. /\ UNCHANGED <<given, pc, discovery, files_parsed, secret_files_scanned, timed_out>>
        /\ pc = "shuffle"
        /\ \E i, j : queue' = Swap(queue, i, j)
    BY <1>10 DEF ShuffleStep, surroundings
  <2>2. Queued'
    BY <2>1 DEF Queued, Swap, discovery
  <2>3. Lists' /\ Counted' /\ Told' /\ Taken'
    BY <2>1 DEF Counted, Told, Taken, target, discovery
  <2> QED BY <2>2, <2>3
<1>11. CASE EndShuffle
  <2>1. UNCHANGED <<given, discovery, progress>> /\ pc = "shuffle" /\ pc' = "files"
    BY <1>11 DEF EndShuffle, surroundings
  <2> QED BY <1>0, <2>1 DEF Queued, Counted, Told, Taken, target, discovery, progress, ordering
<1>12. CASE CheckSource
  <2>1. UNCHANGED <<given, discovery, queue, files_parsed, secret_files_scanned>> /\ pc = "files"
    BY <1>12 DEF CheckSource, surroundings, ordering
  <2>2. Len(queue) = SourceCount
    BY <1>0, <2>1, LengthOf DEF Queued
  <2>3. /\ pc' = IF SourcesLeft /\ ~expired THEN "read_source" ELSE "secret_files"
        /\ timed_out' = (timed_out \/ (SourcesLeft /\ expired))
    BY <1>12, <2>2 DEF CheckSource
  <2>4. Lists' /\ Queued' /\ Taken'
    BY <2>1, <2>3 DEF Queued, Taken, target, discovery
  <2>5. Counted'
    BY <1>0, <2>1, <2>3 DEF Counted, discovery
  <2>6. SourcesLeft' = SourcesLeft /\ ~timed_out
    BY <2>1 DEF Told, discovery
  <2> HIDE DEF SourcesLeft, ConfigsLeft
  <2>7. Told'
    BY <2>3, <2>6, Zenon DEF Told
  <2> QED BY <2>4, <2>5, <2>7
<1>13. CASE ScanSource
  <2>1. /\ UNCHANGED <<given, discovery, queue, secret_files_scanned, timed_out>>
        /\ files_parsed' = files_parsed + 1 /\ pc = "read_source" /\ pc' = "files"
    BY <1>13 DEF ScanSource, surroundings, ordering
  <2>2. Lists' /\ Queued' /\ Told' /\ Taken'
    BY <2>1 DEF Queued, Told, Taken, target, discovery
  <2>3. Counted'
    BY <1>0, <2>1 DEF Counted, discovery
  <2> QED BY <2>2, <2>3
<1>14. CASE CheckConfig
  <2>1. /\ UNCHANGED <<given, discovery, queue, files_parsed, secret_files_scanned>>
        /\ pc = "secret_files"
    BY <1>14 DEF CheckConfig, surroundings, ordering
  <2>2. /\ pc' = IF ConfigsLeft /\ ~expired THEN "read_config" ELSE "sort"
        /\ timed_out' = (timed_out \/ (ConfigsLeft /\ expired))
    BY <1>14 DEF CheckConfig
  <2>3. Lists' /\ Queued' /\ Taken'
    BY <2>1, <2>2 DEF Queued, Taken, target, discovery
  <2>4. Counted'
    BY <1>0, <2>1, <2>2 DEF Counted, discovery
  <2>5. /\ SourcesLeft' = SourcesLeft /\ ConfigsLeft' = ConfigsLeft
        /\ timed_out \in BOOLEAN /\ timed_out <=> SourcesLeft
    BY <2>1 DEF Told, discovery
  <2> HIDE DEF SourcesLeft, ConfigsLeft
  <2>6. Told'
    BY <2>2, <2>5, Zenon DEF Told
  <2> QED BY <2>3, <2>4, <2>6
<1>15. CASE ScanConfig
  <2>1. /\ UNCHANGED <<given, discovery, queue, files_parsed, timed_out>>
        /\ secret_files_scanned' = secret_files_scanned + 1
        /\ pc = "read_config" /\ pc' = "secret_files"
    BY <1>15 DEF ScanConfig, surroundings, ordering
  <2>2. Lists' /\ Queued' /\ Told' /\ Taken'
    BY <2>1 DEF Queued, Told, Taken, target, discovery
  <2>3. Counted'
    BY <1>0, <2>1 DEF Counted, discovery
  <2> QED BY <2>2, <2>3
<1>16. CASE Finish
  <2>1. UNCHANGED <<given, discovery, progress>> /\ pc = "sort" /\ pc' = "done"
    BY <1>16 DEF Finish, surroundings
  <2> QED BY <2>1 DEF Queued, Counted, Told, Taken, target, discovery, progress, ordering
<1> QED
  BY <1>2, <1>4, <1>5, <1>6, <1>7, <1>8, <1>9, <1>10, <1>11, <1>12, <1>13, <1>14, <1>15, <1>16
  DEF Next, ScanStep

(* A report that leaves out a file that discovery found says so, and no    *)
(* other report does.                                                      *)
THEOREM TimedOutIsExact == Spec => []TimedOutIffWorkLeft
<1>1. IInv => TimedOutIffWorkLeft
  <2> SUFFICES ASSUME IInv, pc = "done"
               PROVE  timed_out <=> files_parsed + secret_files_scanned
                                      < Cardinality(files) + Cardinality(secret_files)
    BY DEF TimedOutIffWorkLeft, Done
  <2>1. timed_out <=> (SourcesLeft \/ ConfigsLeft)
    BY DEF IInv, Told, Finished
  <2>2. (SourcesLeft \/ ConfigsLeft) <=>
          files_parsed + secret_files_scanned < Cardinality(files) + Cardinality(secret_files)
    BY ListsAreFinite
    DEF IInv, Counted, Looping, Finished, SourceCount, ConfigCount, SourcesLeft, ConfigsLeft
  <2> QED BY <2>1, <2>2
<1> QED BY InitIInv, NextIInv, <1>1, PTL DEF Spec

(* A named file is scanned, out of scope, timed out, or an error.          *)
THEOREM NamedFileNeverSkipped == Spec => []SingleTargetNeverSkipped
<1>1. IInv => SingleTargetNeverSkipped
  <2> SUFFICES ASSUME IInv, pc = "done", target # Tree, target \notin UnscopedName, ~timed_out
               PROVE  files_parsed + secret_files_scanned = 1
    BY DEF SingleTargetNeverSkipped, Done, IInv, Taken
  <2>1. files_parsed = SourceCount /\ secret_files_scanned = ConfigCount
    BY ListsAreFinite
    DEF IInv, Counted, Told, Looping, Finished, SourcesLeft, ConfigsLeft
  <2>2. \/ files = {target} /\ secret_files = {}
        \/ files = {} /\ secret_files = {target}
    <3>1. /\ target \in Sources \union Configs
          /\ files = {target} \intersect (Sources \ UnscopedName)
          /\ secret_files = {target} \intersect (Configs \ UnscopedName)
      BY DEF IInv, Taken
    <3>2. Sources \intersect Configs = {}
      BY ConstantsAssumption
    <3> QED BY <3>1, <3>2
  <2> QED BY <2>1, <2>2, FS_EmptySet, FS_Singleton DEF SourceCount, ConfigCount
<1> QED BY InitIInv, NextIInv, <1>1, PTL DEF Spec

-----------------------------------------------------------------------------
(* Ranks: in a finite set of paths each path has a place of its own.       *)

Rank(S, f) == Cardinality({g \in S : g <= f})

LEMMA Ranks ==
  ASSUME NEW S \in SUBSET Nat, IsFiniteSet(S)
  PROVE  /\ \A f \in S : Rank(S, f) \in 1..Cardinality(S)
         /\ \A f, g \in S : Rank(S, f) = Rank(S, g) => f = g
         /\ \A i \in 1..Cardinality(S) : \E f \in S : Rank(S, f) = i
<1> DEFINE n == Cardinality(S)
           UpTo(f) == {g \in S : g <= f}
<1>1. n \in Nat
  BY FS_CardinalityType
<1>2. ASSUME NEW f \in S
      PROVE  IsFiniteSet(UpTo(f)) /\ Rank(S, f) \in 1..n
  <2>1. UpTo(f) \in SUBSET S /\ f \in UpTo(f)
    OBVIOUS
  <2>2. IsFiniteSet(UpTo(f)) /\ Cardinality(UpTo(f)) <= n
    BY <2>1, FS_Subset
  <2>3. Cardinality(UpTo(f)) \in Nat /\ Cardinality(UpTo(f)) # 0
    BY <2>1, <2>2, FS_CardinalityType, FS_EmptySet
  <2>4. Rank(S, f) = Cardinality(UpTo(f))
    BY DEF Rank
  <2> HIDE DEF UpTo, n
  <2> QED BY <1>1, <2>2, <2>3, <2>4
<1>3. ASSUME NEW f \in S, NEW g \in S, f < g
      PROVE  Rank(S, f) # Rank(S, g)
  <2>1. UpTo(f) \in SUBSET UpTo(g) /\ g \in UpTo(g) /\ g \notin UpTo(f)
    <3>1. f \in Nat /\ g \in Nat /\ \A h \in S : h \in Nat
      OBVIOUS
    <3>2. g <= g /\ ~(g <= f) /\ \A h \in S : h <= f => h <= g
      BY <1>3, <3>1
    <3> QED BY <3>2
  <2>2. UpTo(f) # UpTo(g)
    BY <2>1
  <2>3. Rank(S, f) = Cardinality(UpTo(f)) /\ Rank(S, g) = Cardinality(UpTo(g))
    BY DEF Rank
  <2> HIDE DEF UpTo
  <2> QED BY <1>2, <2>1, <2>2, <2>3, FS_Subset
<1>4. \A f, g \in S : Rank(S, f) = Rank(S, g) => f = g
  <2>1. \A f, g \in S : f < g \/ g < f \/ f = g
    OBVIOUS
  <2> QED BY <1>3, <2>1
<1> DEFINE r == [f \in S |-> Rank(S, f)]
<1>5. r \in Injection(S, 1..n)
  BY <1>2, <1>4 DEF Injection, IsInjective
<1>6. Cardinality(1..n) = n /\ IsFiniteSet(1..n)
  <2> HIDE DEF n
  <2>1. Cardinality(1..n) = IF 1 > n THEN 0 ELSE n - 1 + 1
    BY <1>1, FS_Interval
  <2>2. IsFiniteSet(1..n)
    BY <1>1, FS_Interval
  <2> QED BY <1>1, <2>1, <2>2
<1>7. r \in Surjection(S, 1..n)
  <2> HIDE DEF r, n
  <2>1. Cardinality(S) = Cardinality(1..n)
    BY <1>6 DEF n
  <2> QED BY <1>5, <1>6, <2>1, FS_Injection
<1>8. \A i \in 1..n : \E f \in S : Rank(S, f) = i
  BY <1>7 DEF Surjection
<1> QED BY <1>2, <1>4, <1>8

LEMMA SortedIs ==
  ASSUME NEW S \in SUBSET Nat, IsFiniteSet(S), NEW i \in 1..Cardinality(S)
  PROVE  Sorted(S)[i] \in S /\ Rank(S, Sorted(S)[i]) = i
<1>1. Sorted(S)[i] = CHOOSE f \in S : Rank(S, f) = i
  BY DEF Sorted, Rank
<1>2. \E f \in S : Rank(S, f) = i
  BY Ranks
<1> HIDE DEF Rank
<1> QED BY <1>1, <1>2

LEMMA SortedBijection ==
  ASSUME NEW S \in SUBSET Nat, IsFiniteSet(S)
  PROVE  Sorted(S) \in Bijection(1..Cardinality(S), S)
<1> DEFINE n == Cardinality(S)
<1>1. \A i \in 1..n : Sorted(S)[i] \in S /\ Rank(S, Sorted(S)[i]) = i
  BY SortedIs
<1>2. Sorted(S) = [i \in 1..n |-> Sorted(S)[i]]
  BY SortedHasEach
<1>3. Sorted(S) \in [1..n -> S]
  BY <1>1, <1>2
<1>4. \A i, j \in 1..n : Sorted(S)[i] = Sorted(S)[j] => i = j
  BY <1>1
<1>5. \A f \in S : Rank(S, f) \in 1..n /\ Sorted(S)[Rank(S, f)] = f
  <2> TAKE f \in S
  <2>1. Rank(S, f) \in 1..n
    BY Ranks
  <2>2. Sorted(S)[Rank(S, f)] \in S /\ Rank(S, Sorted(S)[Rank(S, f)]) = Rank(S, f)
    BY <1>1, <2>1
  <2>3. \A g, h \in S : Rank(S, g) = Rank(S, h) => g = h
    BY Ranks
  <2> QED BY ONLY <2>1, <2>2, <2>3
<1> QED BY <1>3, <1>4, <1>5 DEF Bijection, Injection, Surjection, IsInjective

(* Findings of the files of S, each once and in whatever order, are sorted *)
(* to what the set says.                                                   *)
LEMMA SortsTo ==
  ASSUME NEW S \in SUBSET Nat, IsFiniteSet(S),
         NEW q \in Bijection(1..Cardinality(S), S), NEW list,
         list = [i \in 1..Cardinality(S) |-> <<q[i], 0>>]
  PROVE  InPathOrder(list) = [i \in 1..Cardinality(S) |-> <<Sorted(S)[i], 0>>]
<1> DEFINE n == Cardinality(S)
           D == 1..n
           upto(i) == {j \in DOMAIN list :
                         list[j][1] < list[i][1] \/ (list[j][1] = list[i][1] /\ j <= i)}
           place(i) == Cardinality(upto(i))
<1>1. /\ q \in [D -> S] /\ \A i, j \in D : q[i] = q[j] => i = j
      /\ \A f \in S : \E i \in D : q[i] = f
  BY DEF Bijection, Injection, Surjection, IsInjective
<1>2. DOMAIN list = D /\ \A i \in D : list[i] = <<q[i], 0>> /\ list[i][1] = q[i]
  OBVIOUS
<1>3. InPathOrder(list) = [m \in D |-> list[CHOOSE i \in D : place(i) = m]]
  <2>1. InPathOrder(list) =
          [m \in DOMAIN list |-> list[CHOOSE i \in DOMAIN list : place(i) = m]]
    BY DEF InPathOrder
  <2> HIDE DEF place
  <2> QED BY <1>2, <2>1
<1>4. ASSUME NEW i \in D
      PROVE  place(i) = Rank(S, q[i])
  <2> DEFINE below == {g \in S : g <= q[i]}
             h == [j \in upto(i) |-> q[j]]
  <2>1. upto(i) = {j \in D : q[j] <= q[i]}
    <3>1. \A j \in D : q[j] \in Nat /\ q[i] \in Nat
      BY <1>1
    <3>2. \A j \in D : j = i => j <= i
      OBVIOUS
    <3>3. \A j \in D : q[j] <= q[i] <=> (q[j] < q[i] \/ (q[j] = q[i] /\ j <= i))
      BY <1>1, <3>1, <3>2
    <3> QED BY <1>2, <3>3
  <2> HIDE DEF upto
  <2>2. h \in Bijection(upto(i), below)
    <3>1. h \in [upto(i) -> below]
      BY <1>1, <2>1
    <3>2. \A j, k \in upto(i) : h[j] = h[k] => j = k
      BY <1>1, <2>1
    <3>3. \A g \in below : \E j \in upto(i) : h[j] = g
      BY <1>1, <2>1
    <3> QED BY <3>1, <3>2, <3>3 DEF Bijection, Injection, Surjection, IsInjective
  <2>3. IsFiniteSet(upto(i))
    <3>1. n \in Nat
      BY FS_CardinalityType
    <3>2. IsFiniteSet(1..n)
      BY <3>1, FS_Interval
    <3> QED BY <2>1, <3>2, FS_Subset
  <2>4. Cardinality(below) = Cardinality(upto(i))
    <3>1. ExistsBijection(upto(i), below)
      BY <2>2 DEF ExistsBijection
    <3> HIDE DEF below
    <3> QED BY <2>3, <3>1, FS_Bijection
  <2> QED BY <2>4 DEF Rank
<1>5. ASSUME NEW m \in D
      PROVE  list[CHOOSE i \in D : place(i) = m] = <<Sorted(S)[m], 0>>
  <2>1. Sorted(S)[m] \in S /\ Rank(S, Sorted(S)[m]) = m
    BY SortedIs
  <2>2. PICK i \in D : q[i] = Sorted(S)[m]
    BY <1>1, <2>1
  <2>3. \E k \in D : place(k) = m
    BY <1>4, <2>1, <2>2
  <2> DEFINE c == CHOOSE k \in D : place(k) = m
  <2> HIDE DEF place
  <2>4. c \in D /\ place(c) = m
    BY <2>3
  <2> HIDE DEF c
  <2>5. Rank(S, q[c]) = Rank(S, Sorted(S)[m]) /\ q[c] \in S
    BY <1>1, <1>4, <2>1, <2>4
  <2>6. q[c] = Sorted(S)[m]
    <3>1. \A f, g \in S : Rank(S, f) = Rank(S, g) => f = g
      BY Ranks
    <3> QED BY ONLY <2>1, <2>5, <3>1
  <2> QED BY <1>2, <2>4, <2>6 DEF c
<1> HIDE DEF place
<1> QED BY <1>3, <1>5

-----------------------------------------------------------------------------
(* A tree nobody touches: what discovery has found among the paths it has  *)
(* met, in which order they are read, and what was found in them.          *)

Typed ==
  /\ edits \in Nat /\ (edits = 0 => \A f \in Paths : version[f] = 0)
  /\ disk \in [Paths -> {"small", "big", "gone"}]
  /\ seed \in Seeds

(* What a walk of the tree leaves when it still has these to meet. *)
Has(rest) ==
  /\ files = InScope(Sources) \ rest
  /\ secret_files = InScope(Configs) \ rest
  /\ skipped_oversized = Cardinality(Seen("big") \ rest)
  /\ skipped_unsupported = Cardinality((Seen("small") \intersect Others) \ rest)

Discovered ==
  /\ unvisited \subseteq Paths \ Hidden
  /\ pc \notin {"walk", "failed"} => unvisited = {}
  /\ pc = "start" => /\ files = {} /\ secret_files = {}
                     /\ skipped_oversized = 0 /\ skipped_unsupported = 0
  /\ target = Tree /\ edits = 0 /\ pc \notin {"start", "failed"} => Has(unvisited)

(* The shuffle only changes the order. *)
Ordered ==
  /\ pc = "shuffle" => unshuffled \in 0..SourceCount
  /\ pc \in {"shuffle", "sort"} \union Looping => queue \in Bijection(1..SourceCount, files)

(* The i-th file read. *)
ReadAt(i) == IF i <= files_parsed THEN queue[i] ELSE Sorted(secret_files)[i - files_parsed]

Noted ==
  /\ pc \in Discovering \union {"shuffle"} => security = <<>> /\ secrets = <<>>
  /\ edits = 0 /\ pc \in {"sort"} \union Looping =>
       /\ security = [i \in 1..files_parsed |-> <<queue[i], 0>>]
       /\ secrets = [i \in 1..files_parsed + secret_files_scanned |-> <<ReadAt(i), 0>>]

LEMMA InitTree == Init => Typed /\ Discovered /\ Ordered /\ Noted
<1> SUFFICES ASSUME Init PROVE Typed /\ Discovered /\ Ordered /\ Noted
  OBVIOUS
<1>1. /\ edits = 0 /\ \A f \in Paths : version[f] = 0
      /\ given \in Scans /\ disk = given.disk /\ seed \in Seeds /\ pc = "start"
      /\ unvisited = {} /\ files = {} /\ secret_files = {}
      /\ skipped_oversized = 0 /\ skipped_unsupported = 0
      /\ security = <<>> /\ secrets = <<>>
  BY DEF Init
<1>2. given.disk \in [Paths -> {"small", "big"}]
  BY <1>1, ConstantsAssumption
<1>3. disk \in [Paths -> {"small", "big", "gone"}]
  BY <1>1, <1>2
<1>4. Typed
  BY <1>1, <1>3 DEF Typed
<1>5. Discovered
  BY <1>1 DEF Discovered
<1>6. Ordered /\ Noted
  BY <1>1 DEF Ordered, Noted, Looping
<1> QED BY <1>4, <1>5, <1>6

LEMMA NextTyped == Typed /\ [Next]_vars => Typed'
<1> SUFFICES ASSUME Typed, [Next]_vars PROVE Typed'
  OBVIOUS
<1>1. ASSUME NEW f \in Paths, Edit(f) PROVE Typed'
  <2>1. edits' = edits + 1 /\ seed' = seed
    BY <1>1 DEF Edit
  <2>2. \/ disk' = [disk EXCEPT ![f] = "gone"]
        \/ \E size \in {"small", "big"} : disk' = [disk EXCEPT ![f] = size]
    BY <1>1 DEF Edit
  <2>3. disk' \in [Paths -> {"small", "big", "gone"}]
    BY <2>2 DEF Typed
  <2>4. edits' \in Nat /\ edits' # 0
    BY <2>1 DEF Typed
  <2> QED BY <2>1, <2>3, <2>4 DEF Typed
<1>2. CASE ~(\E f \in Paths : Edit(f))
  <2>1. UNCHANGED <<disk, version, edits, seed>>
    BY <1>2 DEF Next, ScanStep, Expire, MissingTarget, StartWalk, SingleFile, Visit, VisitError,
                EndWalk, StartScanning, ShuffleStep, EndShuffle, CheckSource, ScanSource,
                CheckConfig, ScanConfig, ReadError, Finish, vars, surroundings
  <2> QED BY <2>1 DEF Typed
<1> QED BY <1>1, <1>2

LEMMA ScopeIsFinite ==
  ASSUME NEW rest
  PROVE  /\ IsFiniteSet(Seen("big") \ rest)
         /\ IsFiniteSet((Seen("small") \intersect Others) \ rest)
<1>1. /\ Seen("big") \ rest \in SUBSET Paths
      /\ (Seen("small") \intersect Others) \ rest \in SUBSET Paths
  BY DEF Seen
<1> QED BY <1>1, ConstantsAssumption, FS_Subset

(* One path fewer to meet is one skipped more, or none. *)
LEMMA OneMet ==
  ASSUME NEW S, NEW rest, NEW f \in rest, IsFiniteSet(S \ rest)
  PROVE  Cardinality(S \ (rest \ {f})) = Cardinality(S \ rest) + IF f \in S THEN 1 ELSE 0
<1>1. Cardinality(S \ rest) \in Nat
  BY FS_CardinalityType
<1>2. CASE f \in S
  <2>1. S \ (rest \ {f}) = (S \ rest) \union {f} /\ f \notin S \ rest
    BY <1>2
  <2> QED BY <1>2, <2>1, FS_AddElement
<1>3. CASE f \notin S
  <2>1. S \ (rest \ {f}) = S \ rest
    BY <1>3
  <2> QED BY <1>1, <1>3, <2>1
<1> QED BY <1>2, <1>3

LEMMA VisitHas ==
  ASSUME Typed, Lists, Has(unvisited), unvisited \subseteq Paths \ Hidden,
         NEW f \in Paths, Visit(f)
  PROVE  Has(unvisited)'
<1> DEFINE regular == f \notin Links /\ disk[f] # "gone"
           small == regular /\ disk[f] = "small"
<1>1. /\ f \in unvisited /\ unvisited' = unvisited \ {f} /\ disk' = disk
      /\ skipped_oversized' = skipped_oversized + IF regular /\ ~small THEN 1 ELSE 0
      /\ skipped_unsupported' = skipped_unsupported + IF small /\ f \in Others THEN 1 ELSE 0
      /\ files' = IF small /\ f \in Sources \ Unscoped THEN files \union {f} ELSE files
      /\ secret_files' =
           IF small /\ f \in Configs \ Unscoped THEN secret_files \union {f} ELSE secret_files
  BY DEF Visit, surroundings
<1>2. disk[f] \in {"small", "big", "gone"} /\ f \in Paths \ Hidden
  BY <1>1 DEF Typed
<1>3. \A size : Seen(size)' = Seen(size)
  BY <1>1 DEF Seen
<1>4. (f \in Seen("big") <=> regular /\ ~small) /\ (f \in Seen("small") <=> small)
  BY <1>2 DEF Seen
<1> HIDE DEF regular, small
<1>5. files' = InScope(Sources)' \ unvisited'
  BY <1>1, <1>3, <1>4 DEF Has, InScope
<1>6. secret_files' = InScope(Configs)' \ unvisited'
  BY <1>1, <1>3, <1>4 DEF Has, InScope
<1>7. skipped_oversized' = Cardinality(Seen("big")' \ unvisited')
  <2>1. Cardinality(Seen("big") \ (unvisited \ {f})) =
          Cardinality(Seen("big") \ unvisited) + IF f \in Seen("big") THEN 1 ELSE 0
    BY <1>1, ScopeIsFinite, OneMet
  <2> QED BY <1>1, <1>3, <1>4, <2>1 DEF Has
<1>8. skipped_unsupported' = Cardinality((Seen("small")' \intersect Others) \ unvisited')
  <2>1. Cardinality((Seen("small") \intersect Others) \ (unvisited \ {f})) =
          Cardinality((Seen("small") \intersect Others) \ unvisited)
            + IF f \in Seen("small") \intersect Others THEN 1 ELSE 0
    BY <1>1, ScopeIsFinite, OneMet
  <2> QED BY <1>1, <1>3, <1>4, <2>1 DEF Has
<1> QED BY <1>5, <1>6, <1>7, <1>8 DEF Has

LEMMA NextDiscovered == Typed /\ Lists /\ Discovered /\ [Next]_vars => Discovered'
<1> SUFFICES ASSUME Typed, Lists, Discovered, [Next]_vars PROVE Discovered'
  OBVIOUS
<1> DEFINE Later == {"start", "walk", "failed"}
<1>1. ASSUME UNCHANGED <<given, disk, edits, discovery>>,
             pc' = pc \/ pc' = "failed" \/ (pc \notin Later /\ pc' \notin Later)
      PROVE  Discovered'
  BY <1>1 DEF Discovered, Has, target, discovery, InScope, Seen
<1>2. CASE MissingTarget \/ Expire \/ ReadError \/ (\E f \in Paths : VisitError(f))
           \/ UNCHANGED vars
  <2>1. UNCHANGED <<given, disk, edits, discovery>> /\ (pc' = pc \/ pc' = "failed")
    BY <1>2 DEF MissingTarget, Expire, ReadError, VisitError, vars, surroundings
  <2> QED BY <1>1, <2>1
<1>3. CASE StartScanning \/ ShuffleStep \/ EndShuffle \/ CheckSource \/ ScanSource \/ CheckConfig
           \/ ScanConfig \/ Finish
  <2>1. /\ UNCHANGED <<given, disk, edits, discovery>>
        /\ pc \notin Later /\ pc' \notin Later
    BY <1>3 DEF StartScanning, ShuffleStep, EndShuffle, CheckSource, ScanSource, CheckConfig,
                ScanConfig, Finish, surroundings
  <2> QED BY <1>1, <2>1
<1>4. ASSUME NEW f \in Paths, Edit(f) PROVE Discovered'
  <2>1. edits' = edits + 1 /\ UNCHANGED <<given, pc, discovery>>
    BY <1>4 DEF Edit
  <2>2. edits' # 0
    BY <2>1 DEF Typed
  <2>3. UNCHANGED <<given, pc, unvisited, files, secret_files, skipped_oversized,
                    skipped_unsupported>>
    BY <2>1 DEF discovery
  <2> QED BY <2>2, <2>3 DEF Discovered
<1>5. CASE StartWalk
  <2>1. /\ pc = "start" /\ pc' = "walk" /\ unvisited' = Paths \ Hidden
        /\ UNCHANGED <<files, secret_files, skipped_oversized, skipped_unsupported>>
    BY <1>5 DEF StartWalk
  <2>2. /\ Seen("big")' \ unvisited' = {} /\ (Seen("small")' \intersect Others) \ unvisited' = {}
        /\ InScope(Sources)' \ unvisited' = {} /\ InScope(Configs)' \ unvisited' = {}
    BY <2>1 DEF Seen, InScope
  <2>3. Has(unvisited)'
    BY <2>1, <2>2, FS_EmptySet DEF Has, Discovered
  <2> QED BY <2>1, <2>3 DEF Discovered
<1>6. CASE SingleFile
  <2>1. target # Tree /\ pc' \in {"failed", "discovered"} /\ pc = "start"
        /\ UNCHANGED <<given, unvisited>>
    BY <1>6 DEF SingleFile, NamedFile, TakeNamedFile, surroundings
  <2> QED BY <2>1 DEF Discovered, target
<1>7. ASSUME NEW f \in Paths, Visit(f) PROVE Discovered'
  <2>1. pc = "walk" /\ pc' = "walk" /\ unvisited' = unvisited \ {f} /\ UNCHANGED <<given, edits>>
    BY <1>7 DEF Visit, surroundings
  <2>2. ASSUME target = Tree, edits = 0 PROVE Has(unvisited)'
    BY <1>7, <2>1, <2>2, VisitHas DEF Discovered
  <2> QED BY <2>1, <2>2 DEF Discovered, target
<1>8. CASE EndWalk
  <2>1. pc = "walk" /\ pc' = "discovered" /\ unvisited = {}
        /\ UNCHANGED <<given, disk, edits, discovery>>
    BY <1>8 DEF EndWalk, surroundings
  <2> QED BY <2>1 DEF Discovered, Has, target, discovery, InScope, Seen
<1> QED BY <1>2, <1>3, <1>4, <1>5, <1>6, <1>7, <1>8 DEF Next, ScanStep

LEMMA ListsArePaths ==
  ASSUME Lists
  PROVE  /\ files \in SUBSET Nat /\ IsFiniteSet(files) /\ files \subseteq Paths
         /\ secret_files \in SUBSET Nat /\ IsFiniteSet(secret_files)
         /\ secret_files \subseteq Paths /\ files \intersect secret_files = {}
         /\ SourceCount <= Cardinality(Sources)
<1>1. files \subseteq Paths /\ secret_files \subseteq Paths /\ files \intersect secret_files = {}
  BY ConstantsAssumption DEF Lists, Paths
<1>2. IsFiniteSet(Sources) /\ SourceCount <= Cardinality(Sources)
  BY ConstantsAssumption, FS_Subset DEF Lists, Paths, SourceCount
<1> QED BY <1>1, <1>2, ConstantsAssumption, FS_Subset

LEMMA SwapBijection ==
  ASSUME NEW n \in Nat, NEW S, NEW q \in Bijection(1..n, S), NEW i \in 1..n, NEW j \in 1..n
  PROVE  Swap(q, i, j) \in Bijection(1..n, S)
<1> DEFINE to(k) == IF k = i THEN j ELSE IF k = j THEN i ELSE k
           r == Swap(q, i, j)
<1>1. /\ q \in [1..n -> S] /\ \A k, l \in 1..n : q[k] = q[l] => k = l
      /\ \A f \in S : \E k \in 1..n : q[k] = f
  BY DEF Bijection, Injection, Surjection, IsInjective
<1>2. /\ \A k \in 1..n : to(k) \in 1..n /\ to(to(k)) = k
      /\ r = [k \in 1..n |-> q[to(k)]]
  BY <1>1 DEF Swap
<1> HIDE DEF to, r
<1>3. r \in [1..n -> S]
  BY <1>1, <1>2
<1>4. \A k, l \in 1..n : r[k] = r[l] => k = l
  <2> TAKE k, l \in 1..n
  <2>1. r[k] = q[to(k)] /\ r[l] = q[to(l)] /\ to(k) \in 1..n /\ to(l) \in 1..n
    BY <1>2
  <2>2. r[k] = r[l] => to(k) = to(l)
    BY <1>1, <2>1
  <2> QED BY <1>2, <2>2
<1>5. \A f \in S : \E k \in 1..n : r[k] = f
  <2> TAKE f \in S
  <2>1. PICK k \in 1..n : q[k] = f
    BY <1>1
  <2>2. to(k) \in 1..n /\ r[to(k)] = q[to(to(k))] /\ to(to(k)) = k
    BY <1>2
  <2> QED BY <2>1, <2>2
<1> QED BY <1>3, <1>4, <1>5 DEF Bijection, Injection, Surjection, IsInjective, r

(* A stream is long enough for every draw of the shuffle. *)
LEMMA DrawIsInRange ==
  ASSUME Typed, Lists, unshuffled \in 2..SourceCount
  PROVE  (seed[(SourceCount - unshuffled) + 1] % unshuffled) + 1 \in 1..SourceCount
<1> DEFINE k == (SourceCount - unshuffled) + 1
<1>1. SourceCount \in Nat /\ Cardinality(Sources) \in Nat /\ SourceCount <= Cardinality(Sources)
  <2>1. IsFiniteSet(Sources)
    BY ConstantsAssumption, FS_Subset DEF Paths
  <2> QED BY <2>1, ListsAreFinite, ListsArePaths, FS_CardinalityType
<1>2. seed \in Seq(Nat) /\ Len(seed) >= Cardinality(Sources) - 1
  BY ConstantsAssumption DEF Typed
<1>3. unshuffled \in Int /\ 2 <= unshuffled /\ unshuffled <= SourceCount
  BY <1>1
<1>4. Len(seed) \in Nat /\ k \in 1..Len(seed)
  BY <1>1, <1>2, <1>3
<1>5. seed[k] \in Nat
  BY <1>2, <1>4
<1> HIDE DEF k
<1>6. seed[k] % unshuffled \in 0..unshuffled - 1
  BY <1>3, <1>5
<1>7. (seed[k] % unshuffled) + 1 \in 1..SourceCount
  BY <1>1, <1>3, <1>6
<1> QED BY <1>7 DEF k

LEMMA NextOrdered == Typed /\ IInv /\ Ordered /\ [Next]_vars => Ordered'
<1> SUFFICES ASSUME Typed, IInv, Ordered, [Next]_vars PROVE Ordered'
  OBVIOUS
<1> DEFINE Reads == {"shuffle", "sort"} \union Looping
<1>0. /\ SourceCount \in Nat /\ files \in SUBSET Nat /\ IsFiniteSet(files)
      /\ Lists /\ Queued
  BY ListsAreFinite, ListsArePaths DEF IInv
<1>1. ASSUME UNCHANGED <<files, queue, unshuffled>>, pc' = pc \/ pc' \notin Reads
      PROVE  Ordered'
  BY <1>1 DEF Ordered, SourceCount
<1>2. CASE MissingTarget \/ Expire \/ ReadError \/ (\E f \in Paths : VisitError(f) \/ Edit(f))
           \/ EndWalk \/ Finish \/ UNCHANGED vars
  <2>1. UNCHANGED <<files, queue, unshuffled>> /\ (pc' = pc \/ pc' \notin Reads)
    BY <1>2 DEF MissingTarget, Expire, ReadError, VisitError, Edit, EndWalk, Finish, vars,
                discovery, progress, ordering, Looping
  <2> QED BY <1>1, <2>1
<1>3. CASE StartWalk \/ SingleFile \/ \E f \in Paths : Visit(f)
  <2>1. pc' \notin Reads
    BY <1>3 DEF StartWalk, SingleFile, TakeNamedFile, Visit, Looping
  <2> QED BY <2>1 DEF Ordered
<1>4. CASE EndShuffle \/ CheckSource \/ ScanSource \/ CheckConfig \/ ScanConfig
  <2>1. UNCHANGED <<files, queue>> /\ pc \in Reads /\ pc' \in Reads \ {"shuffle"}
    BY <1>4 DEF EndShuffle, CheckSource, ScanSource, CheckConfig, ScanConfig,
                discovery, progress, ordering, Looping
  <2> QED BY <2>1 DEF Ordered, SourceCount
<1>5. CASE StartScanning
  <2>1. /\ queue' = Sorted(files) /\ unshuffled' = SourceCount /\ pc' = "shuffle"
        /\ files' = files
    BY <1>5 DEF StartScanning, discovery, SourceCount
  <2>2. Sorted(files) \in Bijection(1..SourceCount, files)
    BY <1>0, SortedBijection DEF SourceCount
  <2>3. SourceCount' = SourceCount
    BY <2>1 DEF SourceCount
  <2> QED BY <1>0, <2>1, <2>2, <2>3 DEF Ordered
<1>6. CASE ShuffleStep
  <2> DEFINE draw == seed[(Len(queue) - unshuffled) + 1]
             j == (draw % unshuffled) + 1
  <2>1. /\ pc = "shuffle" /\ pc' = "shuffle" /\ unshuffled > 1 /\ files' = files
        /\ queue' = Swap(queue, unshuffled, j) /\ unshuffled' = unshuffled - 1
    BY <1>6 DEF ShuffleStep, discovery
  <2>2. unshuffled \in 2..SourceCount /\ queue \in Bijection(1..SourceCount, files)
    BY <1>0, <2>1 DEF Ordered
  <2>3. Len(queue) = SourceCount
    BY <1>0, <2>1, LengthOf DEF Queued
  <2>4. j \in 1..SourceCount
    BY <1>0, <2>2, <2>3, DrawIsInRange
  <2> HIDE DEF j
  <2>5. unshuffled \in 1..SourceCount /\ unshuffled - 1 \in 0..SourceCount
    BY <1>0, <2>2
  <2>6. queue' \in Bijection(1..SourceCount, files)
    BY <1>0, <2>1, <2>2, <2>4, <2>5, SwapBijection
  <2>7. SourceCount' = SourceCount
    BY <2>1 DEF SourceCount
  <2> QED BY <2>1, <2>5, <2>6, <2>7 DEF Ordered
<1> QED BY <1>2, <1>3, <1>4, <1>5, <1>6 DEF Next, ScanStep

LEMMA AppendNext ==
  ASSUME NEW n \in Nat, NEW F, NEW s, s = [i \in 1..n |-> F[i]], NEW e, e = F[n + 1]
  PROVE  Append(s, e) = [i \in 1..n + 1 |-> F[i]]
<1> DEFINE T == {F[i] : i \in 1..n + 1}
<1>1. s \in Seq(T) /\ Len(s) = n /\ e \in T
  <2>1. \A i \in 1..n : F[i] \in T
    OBVIOUS
  <2>2. s \in [1..n -> T] /\ e \in T
    BY <2>1
  <2> HIDE DEF T
  <2> QED BY <2>2
<1> HIDE DEF T
<1>2. Append(s, e) = [i \in 1..n + 1 |-> IF i <= n THEN s[i] ELSE e]
  BY <1>1
<1>3. \A i \in 1..n + 1 : (IF i <= n THEN s[i] ELSE e) = F[i]
  OBVIOUS
<1> QED BY <1>2, <1>3

LEMMA NextNoted ==
  Typed /\ IInv /\ Ordered /\ Noted /\ [Next]_vars => Noted'
<1> SUFFICES ASSUME Typed, IInv, Ordered, Noted, [Next]_vars PROVE Noted'
  OBVIOUS
<1> DEFINE Early == Discovering \union {"shuffle"}
           Reads == {"sort"} \union Looping
           reads == files_parsed + secret_files_scanned
<1>0. /\ SourceCount \in Nat /\ ConfigCount \in Nat
      /\ files \subseteq Paths /\ secret_files \subseteq Paths
      /\ secret_files \in SUBSET Nat /\ IsFiniteSet(secret_files)
      /\ files_parsed \in Nat /\ secret_files_scanned \in Nat /\ Counted
  BY ListsAreFinite, ListsArePaths DEF IInv, Counted
<1>1. ASSUME UNCHANGED <<edits, queue, secret_files, files_parsed, secret_files_scanned, findings>>,
             \/ pc' = pc \/ pc' \in {"failed", "done"}
             \/ pc \in Early /\ pc' \in Early
             \/ pc \in Reads /\ pc' \in Reads
      PROVE  Noted'
  BY <1>1 DEF Noted, ReadAt, findings, Discovering, Looping
<1>2. CASE MissingTarget \/ Expire \/ ReadError \/ (\E f \in Paths : VisitError(f))
           \/ EndWalk \/ StartWalk \/ CheckSource \/ CheckConfig \/ UNCHANGED vars
  <2>1. /\ UNCHANGED <<edits, queue, files_parsed, secret_files_scanned, findings, secret_files>>
        /\ \/ pc' = pc \/ pc' \in {"failed", "done"}
           \/ pc \in Early /\ pc' \in Early
           \/ pc \in Reads /\ pc' \in Reads
    BY <1>2 DEF MissingTarget, Expire, ReadError, VisitError, EndWalk, StartWalk, CheckSource,
                CheckConfig, vars, surroundings, discovery, progress, ordering, Discovering, Looping
  <2> QED BY <1>1, <2>1
<1>3. CASE StartScanning \/ ShuffleStep \/ SingleFile \/ \E f \in Paths : Visit(f)
  <2>1. /\ UNCHANGED findings /\ pc \in Early /\ pc' \in Early \union {"failed"}
    BY <1>3 DEF StartScanning, ShuffleStep, SingleFile, NamedFile, TakeNamedFile, Visit,
                Discovering
  <2> QED BY <2>1 DEF Noted, findings, Discovering, Looping
<1>4. ASSUME NEW f \in Paths, Edit(f) PROVE Noted'
  <2>1. edits' = edits + 1 /\ UNCHANGED <<pc, findings>>
    BY <1>4 DEF Edit
  <2>2. edits' # 0
    BY <2>1 DEF Typed
  <2> QED BY <2>1, <2>2 DEF Noted, findings
<1>5. CASE EndShuffle
  <2>1. /\ pc = "shuffle" /\ pc' = "files" /\ security' = <<>> /\ secrets' = <<>>
        /\ files_parsed' = 0 /\ secret_files_scanned' = 0
    BY <1>0, <1>5 DEF EndShuffle, Noted, Counted, progress, findings
  <2> QED BY <2>1 DEF Noted, Discovering, Looping
<1>6. CASE ScanSource
  <2>1. /\ pc = "read_source" /\ pc' = "files" /\ files_parsed' = files_parsed + 1
        /\ secrets' = Append(secrets, <<SourceAt, version[SourceAt]>>)
        /\ security' = Append(security, <<SourceAt, version[SourceAt]>>)
        /\ UNCHANGED <<edits, queue, secret_files, secret_files_scanned>>
    BY <1>6 DEF ScanSource, surroundings, discovery, ordering
  <2>2. secret_files_scanned = 0 /\ files_parsed + 1 \in 1..SourceCount
    BY <1>0, <2>1 DEF Counted
  <2>3. SourceAt \in Paths
    BY <1>0, <2>1, <2>2 DEF SourceAt, Ordered, Looping, Bijection, Injection
  <2> DEFINE F == [i \in 1..files_parsed + 1 |-> <<queue[i], 0>>]
  <2>4. ASSUME edits = 0
        PROVE  /\ security' = [i \in 1..files_parsed + 1 |-> <<queue[i], 0>>]
               /\ secrets' = [i \in 1..files_parsed + 1 |-> <<queue[i], 0>>]
    <3>1. /\ security = [i \in 1..files_parsed |-> <<queue[i], 0>>]
          /\ secrets = [i \in 1..reads |-> <<ReadAt(i), 0>>]
      BY <2>1, <2>4 DEF Noted, Looping
    <3>2. reads = files_parsed /\ \A i \in 1..files_parsed : ReadAt(i) = queue[i]
      BY <1>0, <2>2 DEF ReadAt
    <3>3. security = [i \in 1..files_parsed |-> F[i]] /\ secrets = [i \in 1..files_parsed |-> F[i]]
      BY <1>0, <3>1, <3>2
    <3>4. <<SourceAt, version[SourceAt]>> = F[files_parsed + 1]
      <4>1. version[SourceAt] = 0
        BY <2>3, <2>4 DEF Typed
      <4>2. files_parsed + 1 \in 1..files_parsed + 1
        BY <1>0
      <4> QED BY <4>1, <4>2 DEF SourceAt
    <3>5. F = [i \in 1..files_parsed + 1 |-> F[i]]
      OBVIOUS
    <3> HIDE DEF F
    <3>6. security' = [i \in 1..files_parsed + 1 |-> F[i]]
          /\ secrets' = [i \in 1..files_parsed + 1 |-> F[i]]
      BY <1>0, <2>1, <3>3, <3>4, AppendNext
    <3> QED BY <3>5, <3>6 DEF F
  <2>5. files_parsed' + secret_files_scanned' = files_parsed + 1
        /\ \A i \in 1..files_parsed + 1 : ReadAt(i)' = queue[i]
    BY <1>0, <2>1, <2>2 DEF ReadAt
  <2>6. edits' = 0 =>
          /\ security' = [i \in 1..files_parsed' |-> <<queue'[i], 0>>]
          /\ secrets' = [i \in 1..files_parsed' + secret_files_scanned' |-> <<ReadAt(i)', 0>>]
    BY <2>1, <2>4, <2>5
  <2> QED BY <2>1, <2>6 DEF Noted, Discovering
<1>7. CASE ScanConfig
  <2>1. /\ pc = "read_config" /\ pc' = "secret_files"
        /\ secret_files_scanned' = secret_files_scanned + 1
        /\ secrets' = Append(secrets, <<ConfigAt, version[ConfigAt]>>)
        /\ UNCHANGED <<edits, queue, secret_files, files_parsed, security>>
    BY <1>7 DEF ScanConfig, surroundings, discovery, ordering
  <2>2. secret_files_scanned + 1 \in 1..ConfigCount
    BY <1>0, <2>1 DEF Counted
  <2>3. ConfigAt \in Paths
    <3>1. Sorted(secret_files) \in Bijection(1..ConfigCount, secret_files)
      BY <1>0, SortedBijection DEF ConfigCount
    <3> QED BY <1>0, <2>2, <3>1 DEF ConfigAt, Bijection, Injection
  <2> DEFINE F == [i \in 1..reads + 1 |-> <<ReadAt(i), 0>>]
  <2>4. ReadAt(reads + 1) = ConfigAt
    BY <1>0 DEF ReadAt, ConfigAt
  <2>5. ASSUME edits = 0
        PROVE  /\ security = [i \in 1..files_parsed |-> <<queue[i], 0>>]
               /\ secrets' = [i \in 1..reads + 1 |-> <<ReadAt(i), 0>>]
    <3>1. /\ security = [i \in 1..files_parsed |-> <<queue[i], 0>>]
          /\ secrets = [i \in 1..reads |-> <<ReadAt(i), 0>>]
      BY <2>1, <2>5 DEF Noted, Looping
    <3>2. reads \in Nat
      BY <1>0
    <3>3. secrets = [i \in 1..reads |-> F[i]]
      BY <3>1, <3>2
    <3>4. <<ConfigAt, version[ConfigAt]>> = F[reads + 1]
      BY <2>3, <2>4, <2>5, <3>2 DEF Typed
    <3>5. F = [i \in 1..reads + 1 |-> F[i]]
      OBVIOUS
    <3> HIDE DEF F, reads
    <3>6. secrets' = [i \in 1..reads + 1 |-> F[i]]
      BY <2>1, <3>2, <3>3, <3>4, AppendNext
    <3> QED BY <3>1, <3>5, <3>6 DEF F
  <2>6. files_parsed' + secret_files_scanned' = reads + 1
        /\ \A i \in 1..reads + 1 : ReadAt(i)' = ReadAt(i)
    BY <1>0, <2>1 DEF ReadAt
  <2>7. edits' = 0 =>
          /\ security' = [i \in 1..files_parsed' |-> <<queue'[i], 0>>]
          /\ secrets' = [i \in 1..files_parsed' + secret_files_scanned' |-> <<ReadAt(i)', 0>>]
    BY <2>1, <2>5, <2>6
  <2> QED BY <2>1, <2>7 DEF Noted, Discovering
<1>8. CASE Finish
  BY <1>8 DEF Finish, Noted, Discovering, Looping
<1> QED BY <1>2, <1>3, <1>4, <1>5, <1>6, <1>7, <1>8 DEF Next, ScanStep

(* Both loops together read every file that discovery found once.          *)
LEMMA JoinedBijection ==
  ASSUME NEW A, NEW B, IsFiniteSet(A), IsFiniteSet(B), A \intersect B = {},
         NEW a \in Nat, a = Cardinality(A), NEW b \in Nat, b = Cardinality(B),
         NEW qa \in Bijection(1..a, A), NEW qb \in Bijection(1..b, B),
         NEW q, q = [i \in 1..a + b |-> IF i <= a THEN qa[i] ELSE qb[i - a]]
  PROVE  Cardinality(A \union B) = a + b /\ q \in Bijection(1..a + b, A \union B)
<1>1. Cardinality(A \union B) = a + b
  <2>1. Cardinality(A \union B) = Cardinality(A) + Cardinality(B) - Cardinality(A \intersect B)
    BY FS_Union
  <2>2. Cardinality(A \intersect B) = 0
    BY FS_EmptySet
  <2> QED BY <2>1, <2>2
<1>2. /\ qa \in [1..a -> A] /\ \A i, j \in 1..a : qa[i] = qa[j] => i = j
      /\ \A f \in A : \E i \in 1..a : qa[i] = f
  BY DEF Bijection, Injection, Surjection, IsInjective
<1>3. /\ qb \in [1..b -> B] /\ \A i, j \in 1..b : qb[i] = qb[j] => i = j
      /\ \A f \in B : \E i \in 1..b : qb[i] = f
  BY DEF Bijection, Injection, Surjection, IsInjective
<1>4. \A i \in 1..a + b : \/ i \in 1..a /\ q[i] = qa[i] /\ q[i] \in A
                          \/ i - a \in 1..b /\ q[i] = qb[i - a] /\ q[i] \in B
  <2> TAKE i \in 1..a + b
  <2>1. q[i] = IF i <= a THEN qa[i] ELSE qb[i - a]
    OBVIOUS
  <2>2. CASE i <= a
    <3>1. i \in 1..a
      BY <2>2
    <3> QED BY <1>2, <2>1, <2>2, <3>1
  <2>3. CASE ~(i <= a)
    <3>1. i - a \in 1..b
      BY <2>3
    <3> QED BY <1>3, <2>1, <2>3, <3>1
  <2> QED BY <2>2, <2>3
<1>5. q \in [1..a + b -> A \union B]
  BY <1>4
<1>6. \A i, j \in 1..a + b : q[i] = q[j] => i = j
  <2> SUFFICES ASSUME NEW i \in 1..a + b, NEW j \in 1..a + b, q[i] = q[j] PROVE i = j
    OBVIOUS
  <2>1. CASE i \in 1..a /\ j \in 1..a /\ q[i] = qa[i] /\ q[j] = qa[j]
    BY <1>2, <2>1
  <2>2. CASE i - a \in 1..b /\ j - a \in 1..b /\ q[i] = qb[i - a] /\ q[j] = qb[j - a]
    <3>1. i - a = j - a
      BY <1>3, <2>2
    <3> QED BY <3>1
  <2> QED BY <1>4, <2>1, <2>2
<1>7. \A f \in A \union B : \E i \in 1..a + b : q[i] = f
  <2> TAKE f \in A \union B
  <2>1. CASE f \in A
    <3>1. PICK i \in 1..a : qa[i] = f
      BY <1>2, <2>1
    <3>2. i \in 1..a + b /\ q[i] = f
      BY <3>1
    <3> QED BY <3>2
  <2>2. CASE f \in B
    <3>1. PICK i \in 1..b : qb[i] = f
      BY <1>3, <2>2
    <3>2. a + i \in 1..a + b /\ ~(a + i <= a) /\ (a + i) - a = i
      OBVIOUS
    <3>3. q[a + i] = f
      BY <3>1, <3>2
    <3> QED BY <3>2, <3>3
  <2> QED BY <2>1, <2>2
<1>8. q \in Bijection(1..a + b, A \union B)
  BY ONLY <1>5, <1>6, <1>7 DEF Bijection, Injection, Surjection, IsInjective
<1> QED BY <1>1, <1>8

Both ==
  [i \in 1..SourceCount + ConfigCount |->
     IF i <= SourceCount THEN queue[i] ELSE Sorted(secret_files)[i - SourceCount]]

LEMMA BothLoops ==
  ASSUME Lists, queue \in Bijection(1..SourceCount, files)
  PROVE  /\ Cardinality(files \union secret_files) = SourceCount + ConfigCount
         /\ Both \in Bijection(1..SourceCount + ConfigCount, files \union secret_files)
<1>1. /\ SourceCount \in Nat /\ ConfigCount \in Nat
      /\ IsFiniteSet(files) /\ IsFiniteSet(secret_files)
      /\ files \intersect secret_files = {}
  BY ListsAreFinite, ListsArePaths
<1>2. Sorted(secret_files) \in Bijection(1..ConfigCount, secret_files)
  BY ListsArePaths, SortedBijection DEF ConfigCount
<1>3. SourceCount = Cardinality(files) /\ ConfigCount = Cardinality(secret_files)
  BY DEF SourceCount, ConfigCount
<1>4. Both = [i \in 1..SourceCount + ConfigCount |->
                IF i <= SourceCount THEN queue[i] ELSE Sorted(secret_files)[i - SourceCount]]
  BY DEF Both
<1>5. queue \in Bijection(1..SourceCount, files)
  OBVIOUS
<1> QED BY ONLY <1>1, <1>2, <1>3, <1>4, <1>5, JoinedBijection

LEMMA FinishIsComplete ==
  ASSUME Typed, IInv, Discovered, Ordered, Noted, Finish,
         target = Tree, ~timed_out, edits = 0
  PROVE  /\ security' = [i \in 1..Cardinality(InScope(Sources)) |->
                          <<Sorted(InScope(Sources))[i], 0>>]
         /\ secrets' = [i \in 1..Cardinality(InScope(Sources \union Configs)) |->
                          <<Sorted(InScope(Sources \union Configs))[i], 0>>]
         /\ skipped_oversized = Cardinality(Seen("big"))
         /\ skipped_unsupported = Cardinality(Seen("small") \intersect Others)
<1> DEFINE all == files \union secret_files
<1>1. /\ pc = "sort"
      /\ security' = InPathOrder(security) /\ secrets' = InPathOrder(secrets)
  BY DEF Finish
<1>2. /\ SourceCount \in Nat /\ ConfigCount \in Nat
      /\ files \in SUBSET Nat /\ IsFiniteSet(files)
      /\ secret_files \in SUBSET Nat /\ IsFiniteSet(secret_files)
      /\ files \intersect secret_files = {}
  BY ListsAreFinite, ListsArePaths DEF IInv
<1>3. files_parsed = SourceCount /\ secret_files_scanned = ConfigCount
  BY <1>1, <1>2 DEF IInv, Counted, Told, Looping, Finished, SourcesLeft, ConfigsLeft
<1>4. Has({})
  BY <1>1 DEF Discovered
<1>5. /\ files = InScope(Sources) /\ secret_files = InScope(Configs)
      /\ skipped_oversized = Cardinality(Seen("big"))
      /\ skipped_unsupported = Cardinality(Seen("small") \intersect Others)
  <2>1. \A S : S \ {} = S
    OBVIOUS
  <2> QED BY <1>4, <2>1 DEF Has
<1>6. all = InScope(Sources \union Configs)
  BY <1>5 DEF InScope
<1>7. queue \in Bijection(1..SourceCount, files)
  BY <1>1 DEF Ordered
<1>8. security = [i \in 1..SourceCount |-> <<queue[i], 0>>]
  BY <1>1, <1>3 DEF Noted
<1>9. security' = [i \in 1..Cardinality(files) |-> <<Sorted(files)[i], 0>>]
  <2>1. SourceCount = Cardinality(files)
    BY DEF SourceCount
  <2> QED BY ONLY <1>1, <1>2, <1>7, <1>8, <2>1, SortsTo
<1>10. /\ Cardinality(all) = SourceCount + ConfigCount
       /\ Both \in Bijection(1..SourceCount + ConfigCount, all)
  BY <1>7, BothLoops DEF IInv
<1>11. all \in SUBSET Nat /\ IsFiniteSet(all)
  BY <1>2, FS_Union
<1>12. secrets = [i \in 1..SourceCount + ConfigCount |-> <<Both[i], 0>>]
  <2>1. secrets = [i \in 1..SourceCount + ConfigCount |-> <<ReadAt(i), 0>>]
    BY <1>1, <1>3 DEF Noted
  <2>2. \A i \in 1..SourceCount + ConfigCount : ReadAt(i) = Both[i]
    BY <1>3 DEF ReadAt, Both
  <2> QED BY <2>1, <2>2
<1>13. secrets' = [i \in 1..Cardinality(all) |-> <<Sorted(all)[i], 0>>]
  <2>1. /\ Both \in Bijection(1..Cardinality(all), all)
        /\ secrets = [i \in 1..Cardinality(all) |-> <<Both[i], 0>>]
    BY <1>10, <1>12
  <2> HIDE DEF all
  <2> QED BY ONLY <1>1, <1>11, <2>1, SortsTo
<1> HIDE DEF all
<1> QED BY <1>5, <1>6, <1>9, <1>13

LEMMA NextComplete ==
  /\ Typed /\ IInv /\ Discovered /\ Ordered /\ Noted
  /\ CompleteReportIsTheTree /\ [Next]_vars
  => CompleteReportIsTheTree'
<1> SUFFICES ASSUME Typed, IInv, Discovered, Ordered, Noted, CompleteReportIsTheTree, [Next]_vars
             PROVE  CompleteReportIsTheTree'
  OBVIOUS
<1>1. ASSUME NEW f \in Paths, Edit(f) PROVE CompleteReportIsTheTree'
  <2>1. edits' = edits + 1
    BY <1>1 DEF Edit
  <2>2. edits' # 0
    BY <2>1 DEF Typed
  <2> QED BY <2>2 DEF CompleteReportIsTheTree
<1>2. CASE Expire \/ UNCHANGED vars
  <2>1. UNCHANGED <<given, disk, edits, pc, timed_out, skipped_oversized, skipped_unsupported,
                    findings>>
    BY <1>2 DEF Expire, vars, surroundings, discovery, progress
  <2> QED BY <2>1 DEF CompleteReportIsTheTree, Done, target, findings, InScope, Seen
<1>3. CASE Finish
  <2>1. UNCHANGED <<given, disk, edits, timed_out, skipped_oversized, skipped_unsupported>>
    BY <1>3 DEF Finish, surroundings, discovery, progress
  <2>2. /\ target' = target /\ Seen("big")' = Seen("big") /\ Seen("small")' = Seen("small")
        /\ InScope(Sources)' = InScope(Sources)
        /\ InScope(Sources \union Configs)' = InScope(Sources \union Configs)
    BY <2>1 DEF target, InScope, Seen
  <2> QED BY <1>3, <2>1, <2>2, FinishIsComplete DEF CompleteReportIsTheTree
<1>4. CASE ScanStep /\ ~Finish
  <2>1. pc' # "done"
    BY <1>4 DEF ScanStep, MissingTarget, StartWalk, SingleFile, TakeNamedFile, Visit, VisitError,
                EndWalk, StartScanning, ShuffleStep, EndShuffle, CheckSource, ScanSource,
                CheckConfig, ScanConfig, ReadError
  <2> QED BY <2>1 DEF CompleteReportIsTheTree, Done
<1> QED BY <1>1, <1>2, <1>3, <1>4 DEF Next

(* Whatever the order a walk meets the paths in and whatever the seed, the *)
(* report of a tree nobody touched, if it was not cut off, is the tree's.  *)
THEOREM CompleteReport == Spec => []CompleteReportIsTheTree
<1> DEFINE TreeInv == /\ Typed /\ IInv /\ Discovered /\ Ordered /\ Noted
                      /\ CompleteReportIsTheTree
<1>1. Init => TreeInv
  <2>1. Init => CompleteReportIsTheTree
    BY DEF Init, CompleteReportIsTheTree, Done
  <2> QED BY InitTree, InitIInv, <2>1
<1>2. TreeInv /\ [Next]_vars => TreeInv'
  <2>1. IInv => Lists
    BY DEF IInv
  <2> QED BY <2>1, NextTyped, NextIInv, NextDiscovered, NextOrdered, NextNoted, NextComplete
<1>3. TreeInv => CompleteReportIsTheTree
  OBVIOUS
<1> HIDE DEF TreeInv
<1> QED BY <1>1, <1>2, <1>3, PTL DEF Spec

-----------------------------------------------------------------------------
(* The order that a seed stands for.  It exists: of the numbers of draws   *)
(* that lead nowhere the least would have a predecessor.                   *)

LEMMA FirstOf ==
  ASSUME NEW S \in SUBSET Nat, S # {}
  PROVE  \E m \in S : \A k \in S : m <= k
<1>1. PICK m \in S : \A k \in S : ~(<<k, m>> \in OpToRel(<, Nat))
  BY NatLessThanWellFounded, WFMin
<1>2. \A k \in S : m \in Nat /\ k \in Nat /\ ~(k < m)
  BY <1>1 DEF OpToRel
<1> QED BY <1>2

(* What the k-th draw makes of p, a list of n.                             *)
Drawn(p, draws, n, k) ==
  Swap(p, n - k + 1, (draws[k] % (n - k + 1)) + 1)

Draws(g, q, draws, n, m) ==
  g = [k \in 0..m |-> IF k = 0 THEN q ELSE Drawn(g[k - 1], draws, n, k)]

LEMMA DrawsExist ==
  ASSUME NEW q, NEW draws, NEW n, NEW m \in Nat
  PROVE  \E g : Draws(g, q, draws, n, m)
<1> DEFINE R(p, k) == Drawn(p, draws, n, k)
           After(g, l) == g = [k \in 0..l |-> IF k = 0 THEN q ELSE R(g[k - 1], k)]
           without == {l \in Nat : ~\E g : After(g, l)}
<1> SUFFICES ASSUME without # {}
             PROVE  FALSE
  BY DEF Draws
<1>1. PICK l \in without : \A k \in without : l <= k
  BY FirstOf
<1> HIDE DEF R
<1>2. l # 0
  <2> SUFFICES ASSUME l = 0
               PROVE  FALSE
    OBVIOUS
  <2> DEFINE g == [k \in 0..0 |-> q]
  <2>1. g = [k \in 0..0 |-> IF k = 0 THEN q ELSE R(g[k - 1], k)]
    OBVIOUS
  <2>2. After(g, 0)
    BY <2>1
  <2> HIDE DEF g, After
  <2> QED BY <2>2
<1>3. l - 1 \in Nat /\ l \in Nat /\ l - 1 \notin without
  <2>1. l \in Nat
    BY <1>1
  <2>2. l - 1 \in Nat /\ ~(l <= l - 1)
    BY <1>2, <2>1
  <2> HIDE DEF without
  <2> QED BY <1>1, <2>1, <2>2
<1>4. PICK h : After(h, l - 1)
  BY <1>3
<1> DEFINE g == [k \in 0..l |-> IF k = l THEN R(h[l - 1], l) ELSE h[k]]
<1>5. ASSUME NEW k \in 0..l
      PROVE  g[k] = IF k = 0 THEN q ELSE R(g[k - 1], k)
  <2>1. CASE k = l
    <3>1. l # 0 /\ l - 1 \in 0..l /\ l - 1 # l /\ l \in 0..l
      BY <1>2, <1>3
    <3>2. g[l - 1] = h[l - 1] /\ g[l] = R(h[l - 1], l)
      BY <3>1
    <3> HIDE DEF g
    <3> QED BY <2>1, <3>1, <3>2
  <2>2. CASE k # l
    <3>1. k \in 0..l - 1 /\ g[k] = h[k]
      BY <1>3, <2>2
    <3>2. h[k] = IF k = 0 THEN q ELSE R(h[k - 1], k)
      BY <1>4, <3>1
    <3>3. k # 0 => k - 1 \in 0..l /\ k - 1 # l
      BY <1>3, <3>1
    <3>4. k # 0 => g[k - 1] = h[k - 1]
      BY <3>3
    <3> HIDE DEF g
    <3> QED BY <3>1, <3>2, <3>4
  <2> QED BY <2>1, <2>2
<1>6. After(g, l)
  BY <1>5
<1> HIDE DEF g
<1>7. ~\E p : After(p, l)
  BY <1>1
<1> HIDE DEF After
<1> QED BY <1>6, <1>7

LEMMA DrawsAre ==
  ASSUME NEW q, NEW draws, NEW n \in Nat \ {0}, Len(q) = n
  PROVE  /\ AfterDraws(q, draws)[0] = q
         /\ \A k \in 1..n - 1 :
              AfterDraws(q, draws)[k] = Drawn(AfterDraws(q, draws)[k - 1], draws, n, k)
         /\ Shuffle(q, draws) = AfterDraws(q, draws)[n - 1]
<1> DEFINE A == AfterDraws(q, draws)
<1>1. n - 1 \in Nat
  OBVIOUS
<1>2. \E g : Draws(g, q, draws, n, n - 1)
  BY <1>1, DrawsExist
<1>3. A = CHOOSE g : Draws(g, q, draws, n, n - 1)
  BY DEF AfterDraws, Draws, Drawn
<1>4. Draws(A, q, draws, n, n - 1)
  BY <1>2, <1>3
<1>5. A = [k \in 0..n - 1 |-> IF k = 0 THEN q ELSE Drawn(A[k - 1], draws, n, k)]
  BY <1>4 DEF Draws
<1>6. 0 \in 0..n - 1 /\ \A k \in 1..n - 1 : k \in 0..n - 1 /\ k # 0
  BY <1>1
<1>7. Shuffle(q, draws) = A[n - 1]
  BY DEF Shuffle
<1> HIDE DEF A
<1>8. A[0] = q /\ \A k \in 1..n - 1 : A[k] = Drawn(A[k - 1], draws, n, k)
  BY <1>5, <1>6
<1> QED BY <1>7, <1>8 DEF A

(* How far the shuffle has come. *)
Shuffled ==
  /\ pc = "shuffle" /\ SourceCount # 0 =>
       /\ unshuffled # 0
       /\ queue = AfterDraws(Sorted(files), seed)[SourceCount - unshuffled]
  /\ pc \in {"sort"} \union Looping => queue = Shuffle(Sorted(files), seed)

(* Once a source is left, no config is read. *)
OneCut ==
  pc \in Looping \union Finished =>
    /\ secret_files_scanned # 0 => ~SourcesLeft
    /\ pc = "read_config" => ~SourcesLeft
    /\ pc = "secret_files" /\ SourcesLeft => expired

LEMMA NextShuffled == Typed /\ IInv /\ Ordered /\ Shuffled /\ [Next]_vars => Shuffled'
<1> SUFFICES ASSUME Typed, IInv, Ordered, Shuffled, [Next]_vars PROVE Shuffled'
  OBVIOUS
<1> DEFINE Reads == {"sort"} \union Looping
<1>0. /\ SourceCount \in Nat /\ files \in SUBSET Nat /\ IsFiniteSet(files)
      /\ Lists /\ Queued
  BY ListsAreFinite, ListsArePaths DEF IInv
<1>1. ASSUME UNCHANGED <<files, queue, unshuffled, seed>>,
             pc' = pc \/ pc' \notin Reads \union {"shuffle"} \/ (pc \in Reads /\ pc' \in Reads)
      PROVE  Shuffled'
  <2>1. Sorted(files)' = Sorted(files) /\ SourceCount' = SourceCount
    BY <1>1 DEF SourceCount
  <2> HIDE DEF Reads
  <2>2. pc' = "shuffle" => pc = "shuffle"
    BY <1>1 DEF Reads, Looping
  <2>3. pc' \in Reads => pc \in Reads
    BY <1>1
  <2> QED BY <1>1, <2>1, <2>2, <2>3 DEF Shuffled, Reads
<1>2. CASE MissingTarget \/ Expire \/ ReadError \/ (\E f \in Paths : VisitError(f) \/ Edit(f))
           \/ EndWalk \/ Finish \/ UNCHANGED vars
  <2>1. /\ UNCHANGED <<files, queue, unshuffled, seed>>
        /\ pc' = pc \/ pc' \notin Reads \union {"shuffle"}
    BY <1>2 DEF MissingTarget, Expire, ReadError, VisitError, Edit, EndWalk, Finish, vars,
                surroundings, discovery, progress, ordering, Looping
  <2> QED BY <1>1, <2>1
<1>3. CASE StartWalk \/ SingleFile \/ \E f \in Paths : Visit(f)
  <2>1. pc' \notin Reads \union {"shuffle"}
    BY <1>3 DEF StartWalk, SingleFile, TakeNamedFile, Visit, Looping
  <2> QED BY <2>1 DEF Shuffled
<1>4. CASE CheckSource \/ ScanSource \/ CheckConfig \/ ScanConfig
  <2>1. UNCHANGED <<files, queue, unshuffled, seed>> /\ pc \in Reads /\ pc' \in Reads
    BY <1>4 DEF CheckSource, ScanSource, CheckConfig, ScanConfig,
                surroundings, discovery, progress, ordering, Looping
  <2> QED BY <1>1, <2>1
<1>5. Len(Sorted(files)) = SourceCount
  BY <1>0, SortedHasEach, LengthOf DEF SourceCount
<1>6. CASE StartScanning
  <2>1. /\ queue' = Sorted(files) /\ unshuffled' = SourceCount /\ pc' = "shuffle"
        /\ UNCHANGED <<files, seed>>
    BY <1>6 DEF StartScanning, surroundings, discovery, SourceCount
  <2>2. SourceCount' = SourceCount /\ Sorted(files)' = Sorted(files)
    BY <2>1 DEF SourceCount
  <2>3. SourceCount # 0 => AfterDraws(Sorted(files), seed)[0] = Sorted(files)
    BY <1>0, <1>5, DrawsAre
  <2>4. SourceCount - SourceCount = 0
    BY <1>0
  <2> QED BY <2>1, <2>2, <2>3, <2>4 DEF Shuffled, Looping
<1>7. CASE ShuffleStep
  <2> DEFINE k == (SourceCount - unshuffled) + 1
             A == AfterDraws(Sorted(files), seed)
  <2>1. /\ pc = "shuffle" /\ pc' = "shuffle" /\ unshuffled > 1
        /\ queue' = Swap(queue, unshuffled, (seed[(Len(queue) - unshuffled) + 1] % unshuffled) + 1)
        /\ unshuffled' = unshuffled - 1 /\ UNCHANGED <<files, seed>>
    BY <1>7 DEF ShuffleStep, surroundings, discovery
  <2>2. unshuffled \in 2..SourceCount
    BY <1>0, <2>1 DEF Ordered
  <2>3. Len(queue) = SourceCount
    BY <1>0, <2>1, LengthOf DEF Queued
  <2>4. /\ k \in 1..SourceCount - 1 /\ SourceCount - k + 1 = unshuffled
        /\ k - 1 = SourceCount - unshuffled /\ SourceCount - (unshuffled - 1) = k
        /\ SourceCount \in Nat \ {0} /\ unshuffled - 1 # 0
    BY <1>0, <2>2
  <2>5. queue = A[k - 1]
    BY <2>1, <2>4 DEF Shuffled
  <2>6. A[k] = Drawn(A[k - 1], seed, SourceCount, k)
    BY <1>5, <2>4, DrawsAre
  <2>7. queue' = A[k]
    <3>1. queue' = Swap(queue, unshuffled, (seed[k] % unshuffled) + 1)
      BY <2>1, <2>3
    <3> HIDE DEF A, k
    <3> QED BY <2>4, <2>5, <2>6, <3>1 DEF Drawn
  <2>8. SourceCount' = SourceCount /\ AfterDraws(Sorted(files), seed)' = A
    BY <2>1 DEF SourceCount
  <2> HIDE DEF A, k
  <2>9. queue' = A[SourceCount - unshuffled'] /\ unshuffled' # 0
    BY <2>1, <2>4, <2>7
  <2> QED BY <2>1, <2>8, <2>9 DEF Shuffled, Looping
<1>8. CASE EndShuffle
  <2>1. /\ pc = "shuffle" /\ pc' = "files" /\ unshuffled <= 1
        /\ UNCHANGED <<files, seed, queue>>
    BY <1>8 DEF EndShuffle, surroundings, discovery, progress, ordering
  <2>2. queue = Shuffle(Sorted(files), seed)
    <3>1. CASE SourceCount = 0
      <4>1. queue = [i \in 1..0 |-> queue[i]] /\ Sorted(files) = [i \in 1..0 |-> Sorted(files)[i]]
        BY <2>1, <3>1, SortedHasEach DEF IInv, Queued, SourceCount
      <4>2. queue = Sorted(files)
        BY <4>1
      <4> QED BY <1>5, <3>1, <4>2 DEF Shuffle
    <3>2. CASE SourceCount # 0
      <4>1. unshuffled = 1 /\ SourceCount \in Nat \ {0}
        BY <1>0, <2>1, <3>2 DEF Shuffled, Ordered
      <4>2. queue = AfterDraws(Sorted(files), seed)[SourceCount - 1]
        BY <2>1, <3>2, <4>1 DEF Shuffled
      <4> QED BY <1>5, <4>1, <4>2, DrawsAre
    <3> QED BY <3>1, <3>2
  <2>3. Shuffle(Sorted(files), seed)' = Shuffle(Sorted(files), seed)
    BY <2>1
  <2> QED BY <2>1, <2>2, <2>3 DEF Shuffled
<1> QED BY <1>2, <1>3, <1>4, <1>6, <1>7, <1>8 DEF Next, ScanStep

LEMMA NextOneCut == IInv /\ OneCut /\ [Next]_vars => OneCut'
<1> SUFFICES ASSUME IInv, OneCut, [Next]_vars PROVE OneCut'
  OBVIOUS
<1>0. Counted /\ Queued /\ SourceCount \in Nat
  BY ListsAreFinite DEF IInv
<1>1. ASSUME UNCHANGED <<files, files_parsed, secret_files_scanned>>, expired => expired',
             \/ pc' = pc
             \/ pc' \notin Looping \union Finished
             \/ pc \in Looping \union Finished /\ pc' \in Finished
      PROVE  OneCut'
  BY <1>1 DEF OneCut, SourcesLeft, SourceCount, Looping, Finished
<1>2. CASE MissingTarget \/ Expire \/ ReadError \/ (\E f \in Paths : VisitError(f) \/ Edit(f))
           \/ EndWalk \/ Finish \/ UNCHANGED vars
  <2>1. /\ UNCHANGED <<files, files_parsed, secret_files_scanned>>
        /\ expired => expired'
        /\ \/ pc' = pc
           \/ pc' \notin Looping \union Finished
           \/ pc \in Looping \union Finished /\ pc' \in Finished
    BY <1>2 DEF MissingTarget, Expire, ReadError, VisitError, Edit, EndWalk, Finish, vars,
                surroundings, discovery, progress, Looping, Finished
  <2> QED BY <1>1, <2>1
<1>3. CASE StartWalk \/ SingleFile \/ StartScanning \/ ShuffleStep \/ \E f \in Paths : Visit(f)
  <2>1. pc' \notin Looping \union Finished
    BY <1>3 DEF StartWalk, SingleFile, TakeNamedFile, StartScanning, ShuffleStep, Visit, Looping,
                Finished
  <2> QED BY <2>1 DEF OneCut
<1>4. CASE EndShuffle
  <2>1. pc' = "files" /\ secret_files_scanned' = 0
    BY <1>0, <1>4 DEF EndShuffle, Counted, progress
  <2> QED BY <2>1 DEF OneCut
<1>5. CASE CheckSource
  <2>1. /\ pc = "files" /\ secret_files_scanned' = 0 /\ pc' \in {"read_source", "secret_files"}
        /\ UNCHANGED <<files, queue, files_parsed>> /\ expired' = expired
        /\ pc' = "secret_files" => ~(files_parsed < Len(queue)) \/ expired
    BY <1>0, <1>5 DEF CheckSource, Counted, surroundings, discovery, ordering
  <2>2. Len(queue) = SourceCount
    BY <1>0, <2>1, LengthOf DEF Queued, Looping
  <2> QED BY <2>1, <2>2 DEF OneCut, SourcesLeft, SourceCount
<1>6. CASE ScanSource
  <2>1. pc' = "files" /\ secret_files_scanned' = 0
    BY <1>0, <1>6 DEF ScanSource, Counted
  <2> QED BY <2>1 DEF OneCut
<1>7. CASE CheckConfig
  <2>1. /\ pc = "secret_files" /\ pc' = "read_config" => ~expired
        /\ pc' \in {"read_config", "sort"}
        /\ UNCHANGED <<files, files_parsed, secret_files_scanned>>
    BY <1>7 DEF CheckConfig, discovery
  <2> QED BY <1>0, <1>7, <2>1 DEF OneCut, SourcesLeft, SourceCount, Looping, Finished, CheckConfig
<1>8. CASE ScanConfig
  <2>1. pc = "read_config" /\ pc' = "secret_files" /\ UNCHANGED <<files, files_parsed>>
    BY <1>8 DEF ScanConfig, discovery
  <2> QED BY <2>1 DEF OneCut, SourcesLeft, SourceCount, Looping
<1> QED BY <1>2, <1>3, <1>4, <1>5, <1>6, <1>7, <1>8 DEF Next, ScanStep

(* What is sorted is still of the same files.                              *)
FindingsOf(q, n) == [i \in 1..n |-> <<q[i], 0>>]

FilesOf(list) == {list[i][1] : i \in DOMAIN list}

LEMMA SortKeepsFiles ==
  ASSUME NEW n \in Nat, NEW q, NEW T \in SUBSET Nat, q \in Injection(1..n, T)
  PROVE  \A f : f \in FilesOf(InPathOrder(FindingsOf(q, n))) <=> \E i \in 1..n : f = q[i]
<1> DEFINE S == {q[i] : i \in 1..n}
           list == FindingsOf(q, n)
<1>0. list = [i \in 1..n |-> <<q[i], 0>>]
  BY DEF FindingsOf
<1> HIDE DEF list
<1>1. q \in [1..n -> T] /\ \A i, j \in 1..n : q[i] = q[j] => i = j
  BY DEF Injection, IsInjective
<1>2. q \in Bijection(1..n, S)
  BY <1>1 DEF Bijection, Injection, Surjection, IsInjective
<1>3. S \in SUBSET Nat
  BY <1>1
<1> HIDE DEF S
<1>4. IsFiniteSet(1..n) /\ Cardinality(1..n) = n
  <2>1. Cardinality(1..n) = IF 1 > n THEN 0 ELSE n - 1 + 1
    BY FS_Interval
  <2>2. IsFiniteSet(1..n)
    BY FS_Interval
  <2> QED BY <2>1, <2>2
<1>5. IsFiniteSet(S) /\ Cardinality(S) = n
  <2>1. ExistsBijection(1..n, S)
    BY <1>2 DEF ExistsBijection
  <2> QED BY <1>4, <2>1, FS_Bijection
<1>6. InPathOrder(list) = [i \in 1..n |-> <<Sorted(S)[i], 0>>]
  <2>1. q \in Bijection(1..Cardinality(S), S) /\ list = [i \in 1..Cardinality(S) |-> <<q[i], 0>>]
    BY <1>0, <1>2, <1>5
  <2>2. InPathOrder(list) = [i \in 1..Cardinality(S) |-> <<Sorted(S)[i], 0>>]
    BY ONLY <1>3, <1>5, <2>1, SortsTo
  <2> QED BY <1>5, <2>2
<1>7. {Sorted(S)[i] : i \in 1..n} = S
  <2>1. Sorted(S) \in Bijection(1..n, S)
    BY <1>3, <1>5, SortedBijection
  <2> QED BY <2>1 DEF Bijection, Injection, Surjection
<1>8. DOMAIN InPathOrder(list) = 1..n /\ \A i \in 1..n : InPathOrder(list)[i][1] = Sorted(S)[i]
  <2> DEFINE after == InPathOrder(list)
             sorted == Sorted(S)
  <2>1. after = [i \in 1..n |-> <<sorted[i], 0>>]
    BY <1>6
  <2> HIDE DEF after, sorted
  <2>2. DOMAIN after = 1..n /\ \A i \in 1..n : after[i][1] = sorted[i]
    BY ONLY <2>1
  <2> QED BY <2>2 DEF after, sorted
<1>9. FilesOf(InPathOrder(list)) = {Sorted(S)[i] : i \in 1..n}
  BY <1>8 DEF FilesOf
<1>10. \A f : f \in S <=> \E i \in 1..n : f = q[i]
  BY DEF S
<1> QED BY <1>7, <1>9, <1>10 DEF list

LEMMA FinishFollowsSeed ==
  ASSUME Typed, IInv, Discovered, Ordered, Noted, Shuffled, OneCut, Finish,
         target = Tree, edits = 0
  PROVE  FilesOf(secrets') =
           {(Shuffle(Sorted(InScope(Sources)), seed) \o Sorted(InScope(Configs)))[i] :
               i \in 1..files_parsed + secret_files_scanned}
<1> DEFINE m == files_parsed + secret_files_scanned
           q == [i \in 1..m |-> ReadAt(i)]
           all == files \union secret_files
           order == Shuffle(Sorted(InScope(Sources)), seed) \o Sorted(InScope(Configs))
<1>1. pc = "sort" /\ secrets' = InPathOrder(secrets)
  BY DEF Finish
<1>2. /\ SourceCount \in Nat /\ ConfigCount \in Nat
      /\ files \in SUBSET Nat /\ IsFiniteSet(files)
      /\ secret_files \in SUBSET Nat /\ IsFiniteSet(secret_files)
      /\ files \intersect secret_files = {}
  BY ListsAreFinite, ListsArePaths DEF IInv
<1>3. /\ files_parsed \in Nat /\ secret_files_scanned \in Nat
      /\ files_parsed <= SourceCount /\ secret_files_scanned <= ConfigCount
      /\ secret_files_scanned # 0 => ~SourcesLeft
  BY <1>1 DEF IInv, Counted, OneCut, Looping, Finished
<1>4. m \in Nat /\ m <= SourceCount + ConfigCount
      /\ (secret_files_scanned = 0 \/ files_parsed = SourceCount)
  BY <1>2, <1>3 DEF SourcesLeft
<1>5. files = InScope(Sources) /\ secret_files = InScope(Configs)
  <2>1. Has({})
    BY <1>1 DEF Discovered
  <2> QED BY <2>1 DEF Has
<1>6. queue \in Bijection(1..SourceCount, files) /\ queue = Shuffle(Sorted(files), seed)
  BY <1>1 DEF Ordered, Shuffled
<1>7. Sorted(secret_files) \in Bijection(1..ConfigCount, secret_files)
  BY <1>2, SortedBijection DEF ConfigCount
<1>8. Both \in Bijection(1..SourceCount + ConfigCount, all)
  BY <1>6, BothLoops DEF IInv
<1>9. \A i \in 1..m : i \in 1..SourceCount + ConfigCount /\ ReadAt(i) = Both[i]
  BY <1>2, <1>3, <1>4 DEF ReadAt, Both
<1>10. all \in SUBSET Nat
  BY <1>2
<1>11. secrets = [i \in 1..m |-> <<ReadAt(i), 0>>]
  BY <1>1 DEF Noted
<1>12. \A i \in 1..m : order[i] = Both[i]
  <2>1. Shuffle(Sorted(files), seed) \in Seq(files) /\ Sorted(secret_files) \in Seq(secret_files)
        /\ Len(Shuffle(Sorted(files), seed)) = SourceCount
        /\ Len(Sorted(secret_files)) = ConfigCount
    <3>1. queue \in [1..SourceCount -> files]
          /\ Sorted(secret_files) \in [1..ConfigCount -> secret_files]
      BY <1>6, <1>7 DEF Bijection, Injection
    <3>2. queue \in Seq(files) /\ Len(queue) = SourceCount
          /\ Sorted(secret_files) \in Seq(secret_files) /\ Len(Sorted(secret_files)) = ConfigCount
      BY <1>2, <3>1
    <3> QED BY <1>6, <3>2
  <2>2. \A i \in 1..SourceCount + ConfigCount :
          (queue \o Sorted(secret_files))[i] =
            IF i <= SourceCount THEN queue[i] ELSE Sorted(secret_files)[i - SourceCount]
    BY <1>2, <1>6, <2>1
  <2>3. order = queue \o Sorted(secret_files)
    BY <1>5, <1>6
  <2> HIDE DEF order
  <2>4. \A i \in 1..m : order[i] = Both[i]
    BY <1>9, <2>2, <2>3 DEF Both
  <2> QED BY <2>4
<1> HIDE DEF all, order, m
<1>13. q \in Injection(1..m, all)
  <2>1. /\ \A i \in 1..SourceCount + ConfigCount : Both[i] \in all
        /\ \A i, j \in 1..SourceCount + ConfigCount : Both[i] = Both[j] => i = j
    BY <1>8 DEF Bijection, Injection, IsInjective
  <2>2. q \in [1..m -> all] /\ \A i, j \in 1..m : q[i] = q[j] => i = j
    BY <1>9, <2>1
  <2> QED BY <2>2 DEF Injection, IsInjective
<1>14. secrets = FindingsOf(q, m) /\ \A i \in 1..m : q[i] = order[i]
  BY <1>9, <1>11, <1>12 DEF FindingsOf
<1> HIDE DEF q
<1>15. \A f : f \in FilesOf(InPathOrder(FindingsOf(q, m))) <=> \E i \in 1..m : f = q[i]
  BY <1>4, <1>10, <1>13, SortKeepsFiles
<1>16. \A f : f \in FilesOf(secrets') <=> f \in {order[i] : i \in 1..m}
  BY <1>1, <1>14, <1>15
<1>17. FilesOf(secrets') = {order[i] : i \in 1..m}
  <2>1. FilesOf(secrets') \subseteq {order[i] : i \in 1..m}
    BY <1>16
  <2>2. {order[i] : i \in 1..m} \subseteq FilesOf(secrets')
    BY <1>16
  <2> QED BY <2>1, <2>2
<1> QED BY <1>17 DEF order, m

LEMMA NextSeeded ==
  /\ Typed /\ IInv /\ Discovered /\ Ordered /\ Noted /\ Shuffled /\ OneCut
  /\ SeedDecidesOrder /\ [Next]_vars
  => SeedDecidesOrder'
<1> SUFFICES ASSUME Typed, IInv, Discovered, Ordered, Noted, Shuffled, OneCut,
                    SeedDecidesOrder, [Next]_vars
             PROVE  SeedDecidesOrder'
  OBVIOUS
<1>1. ASSUME NEW f \in Paths, Edit(f) PROVE SeedDecidesOrder'
  <2>1. edits' = edits + 1
    BY <1>1 DEF Edit
  <2>2. edits' # 0
    BY <2>1 DEF Typed
  <2> QED BY <2>2 DEF SeedDecidesOrder
<1>2. CASE Expire \/ UNCHANGED vars
  <2>1. UNCHANGED <<given, disk, edits, seed, pc, files_parsed, secret_files_scanned, secrets>>
    BY <1>2 DEF Expire, vars, surroundings, progress, findings
  <2>2. /\ target' = target
        /\ InScope(Sources)' = InScope(Sources) /\ InScope(Configs)' = InScope(Configs)
    BY <2>1 DEF target, InScope, Seen
  <2>3. FilesOf(secrets)' = FilesOf(secrets)
    BY <2>1
  <2> DEFINE order == Shuffle(Sorted(InScope(Sources)), seed) \o Sorted(InScope(Configs))
             first == {order[i] : i \in 1..files_parsed + secret_files_scanned}
  <2>4. order' = order
    BY <2>1, <2>2
  <2> HIDE DEF order
  <2>5. first' = first
    BY <2>1, <2>4
  <2>6. SeedDecidesOrder <=> (Done /\ target = Tree /\ edits = 0 => FilesOf(secrets) = first)
    BY DEF SeedDecidesOrder, FilesOf, order
  <2>7. SeedDecidesOrder' <=>
          (Done' /\ target' = Tree /\ edits' = 0 => FilesOf(secrets)' = first')
    BY DEF SeedDecidesOrder, FilesOf, order
  <2> HIDE DEF first
  <2> QED BY <2>1, <2>2, <2>3, <2>5, <2>6, <2>7 DEF Done
<1>3. CASE Finish
  <2>1. UNCHANGED <<given, disk, edits, seed, files_parsed, secret_files_scanned>>
    BY <1>3 DEF Finish, surroundings, progress
  <2>2. /\ target' = target
        /\ InScope(Sources)' = InScope(Sources) /\ InScope(Configs)' = InScope(Configs)
    BY <2>1 DEF target, InScope, Seen
  <2> QED BY <1>3, <2>1, <2>2, FinishFollowsSeed DEF SeedDecidesOrder, FilesOf
<1>4. CASE ScanStep /\ ~Finish
  <2>1. pc' # "done"
    BY <1>4 DEF ScanStep, MissingTarget, StartWalk, SingleFile, TakeNamedFile, Visit, VisitError,
                EndWalk, StartScanning, ShuffleStep, EndShuffle, CheckSource, ScanSource,
                CheckConfig, ScanConfig, ReadError
  <2> QED BY <2>1 DEF SeedDecidesOrder, Done
<1> QED BY <1>1, <1>2, <1>3, <1>4 DEF Next

(* Cut off or not, the report of a tree nobody touched is of the first     *)
(* files of one order, which the tree and the seed decide.                 *)
THEOREM SeedDecides == Spec => []SeedDecidesOrder
<1> DEFINE SeedInv == /\ Typed /\ IInv /\ Discovered /\ Ordered /\ Noted
                      /\ Shuffled /\ OneCut /\ SeedDecidesOrder
<1>1. Init => SeedInv
  <2>1. Init => SeedDecidesOrder /\ Shuffled /\ OneCut
    BY DEF Init, SeedDecidesOrder, Done, Shuffled, OneCut, Looping, Finished
  <2> QED BY InitTree, InitIInv, <2>1
<1>2. SeedInv /\ [Next]_vars => SeedInv'
  <2>1. IInv => Lists
    BY DEF IInv
  <2> QED BY <2>1, NextTyped, NextIInv, NextDiscovered, NextOrdered, NextNoted, NextShuffled,
             NextOneCut, NextSeeded
<1>3. SeedInv => SeedDecidesOrder
  OBVIOUS
<1> HIDE DEF SeedInv
<1> QED BY <1>1, <1>2, <1>3, PTL DEF Spec

=============================================================================
