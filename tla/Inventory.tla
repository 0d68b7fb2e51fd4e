----------------------------- MODULE Inventory -----------------------------
(***************************************************************************)
(* `loop3r deps`: the walk for lockfiles, their two parsers                *)
(* (src/src/deps.rs) and the match with a snapshot of advisories           *)
(* (src/src/advisory.rs), in a tree that may change meanwhile.             *)
(*                                                                         *)
(* A file is its position in the path order; names, versions and sources   *)
(* are values in their string order.  A text is what its parser sees: the  *)
(* lines of a Cargo.lock, or the map of a package-lock.json.  It is read   *)
(* once, so a text that changes is the text of another tree; that a file   *)
(* vanishes, grows or becomes a link between two looks at it is not.       *)
(***************************************************************************)
EXTENDS Integers, Sequences, FiniteSets, SequencesExt

CONSTANTS CargoLocks, NpmLocks,  \* files with a parser
          Unsupported,           \* yarn.lock, go.sum, ...
          Others,                \* files that are no lockfiles
          Hidden,                \* paths below an ignored directory
          Tree,                  \* the directory itself, as a target
          Targets,               \* what may be inventoried
          Values,                \* names, versions, sources
          WithHash,              \* those with a `#` in them
          Unquotable,            \* those parse_quoted refuses
          NoValue,
          Trees,                 \* what is there, and how often it changes
          Snapshots,             \* advisory databases that may be given
          NoSnapshot

Supported == CargoLocks \union NpmLocks
Paths == Supported \union Unsupported \union Others

States == {"ok", "big", "binary", "link", "gone"}

Keys == {"name", "version", "source"}

Line == [kind : Keys \union {"package", "table", "other"}, value : Values]

(* An entry of the map, with what its key says: "" or node_modules/x or    *)
(* one below another package or one outside node_modules.                  *)
Entry == [place : {"root", "top", "nested", "workspace"}, name : Values,
          version : Values \union {NoValue}, link : BOOLEAN, object : BOOLEAN]

Map == [shape : {"packages", "dependencies", "neither", "invalid"},
        entries : {S \in SUBSET Entry : IsFiniteSet(S)}]

(* Of a file without a parser the text is left out. *)
Text(f) ==
  IF f \in CargoLocks THEN Seq(Line) ELSE IF f \in NpmLocks THEN Map ELSE {<<>>}

Advisory == [id : Nat, ecosystem : {"cargo", "npm"}, package : Values,
             vulnerable_versions : SUBSET Values, valid : BOOLEAN]

Snapshot == [readable : BOOLEAN, advisories : {S \in SUBSET Advisory : IsFiniteSet(S)}]

ASSUME ConstantsAssumption ==
  /\ Paths \subseteq Nat /\ IsFiniteSet(Paths) /\ Hidden \subseteq Paths
  /\ CargoLocks \intersect NpmLocks = {}
  /\ Supported \intersect Unsupported = {}
  /\ (Supported \union Unsupported) \intersect Others = {}
  /\ Tree \notin Paths /\ Targets \subseteq Paths \union {Tree}
  /\ Values \subseteq Nat /\ WithHash \subseteq Values /\ Unquotable \subseteq Values
  /\ NoValue \notin Values
  /\ \A tree \in Trees :
       /\ tree.edits \in Nat
       /\ DOMAIN tree.disk = Paths
       /\ \A f \in Paths : tree.disk[f] \in [state : States, text : Text(f)]
  /\ Snapshots \subseteq Snapshot /\ NoSnapshot \notin Snapshots

VARIABLES disk, target, snapshot,               \* the surroundings
          edits,                                \* bound: changes to come
          edited,                               \* history: files changed
          pc, unvisited, discovered, queue,     \* inventory
          at, text, line, draft, parsed,        \* the parser at work
          lockfiles, packages, unsupported, errors, vulnerabilities,
          read                                  \* history: texts read

surroundings == <<disk, target, snapshot, edits, edited>>
walk == <<unvisited, discovered, queue>>
parser == <<at, text, line, draft, parsed>>
report == <<lockfiles, packages, unsupported, errors, vulnerabilities>>
vars == <<surroundings, pc, walk, parser, report, read>>

NoDraft == [open |-> FALSE, name |-> NoValue, version |-> NoValue, source |-> NoValue]

Init ==
  /\ \E tree \in Trees : disk = tree.disk /\ edits = tree.edits
  /\ edited = {}
  /\ target \in Targets
  /\ snapshot \in Snapshots \union {NoSnapshot}
  /\ pc = "start"
  /\ unvisited = {} /\ discovered = {} /\ queue = <<>>
  /\ at = Tree /\ text = <<>> /\ line = 0 /\ draft = NoDraft /\ parsed = <<>>
  /\ lockfiles = <<>> /\ packages = <<>> /\ unsupported = <<>> /\ errors = <<>>
  /\ vulnerabilities = <<>>
  /\ read = {}

Ended == {"done", "failed"}

Edit(f) ==
  /\ pc \notin Ended /\ edits > 0
  /\ edits' = edits - 1 /\ edited' = edited \union {f}
  /\ \E state \in States \ {disk[f].state} : disk' = [disk EXCEPT ![f].state = state]
  /\ UNCHANGED <<target, snapshot, pc, walk, parser, report, read>>

-----------------------------------------------------------------------------
(* inventory: one file, or a walk *)

MissingTarget ==
  /\ pc = "start" /\ target # Tree
  /\ disk[target].state = "gone"
  /\ pc' = "failed"
  /\ UNCHANGED <<surroundings, walk, parser, report, read>>

SingleFile ==
  /\ pc = "start" /\ target # Tree
  /\ disk[target].state # "gone"
  /\ \/ /\ target \in Unsupported
        /\ unsupported' = <<target>> /\ pc' = "sort"
        /\ UNCHANGED at
     \/ /\ target \notin Unsupported
        /\ at' = target /\ pc' = "check"
        /\ UNCHANGED unsupported
  /\ UNCHANGED <<surroundings, walk, text, line, draft, parsed,
                 lockfiles, packages, errors, vulnerabilities, read>>

StartWalk ==
  /\ pc = "start" /\ target = Tree
  /\ unvisited' = Paths \ Hidden
  /\ pc' = "walk"
  /\ UNCHANGED <<surroundings, discovered, queue, parser, report, read>>

(* Entries come in no particular order; only a regular file counts. *)
Visit(f) ==
  /\ pc = "walk" /\ f \in unvisited
  /\ unvisited' = unvisited \ {f}
  /\ discovered' = IF disk[f].state \in {"gone", "link"} \/ f \in Others THEN discovered
                   ELSE discovered \union {f}
  /\ UNCHANGED <<surroundings, pc, queue, parser, report, read>>

(* The members of a set of paths, each once, in order (there is one such   *)
(* sequence).                                                              *)
Sorted(S) == {s \in SetToSeqs(S) : \A i, j \in DOMAIN s : i < j => s[i] < s[j]}

EndWalk ==
  /\ pc = "walk" /\ unvisited = {}
  /\ queue' \in Sorted(discovered)
  /\ pc' = "lockfile"
  /\ UNCHANGED <<surroundings, unvisited, discovered, parser, report, read>>

NextLockfile ==
  /\ pc = "lockfile" /\ queue # <<>>
  /\ queue' = Tail(queue)
  /\ \/ /\ Head(queue) \in Unsupported
        /\ unsupported' = Append(unsupported, Head(queue))
        /\ UNCHANGED <<pc, at>>
     \/ /\ Head(queue) \in Supported
        /\ at' = Head(queue) /\ pc' = "check"
        /\ UNCHANGED unsupported
  /\ UNCHANGED <<surroundings, unvisited, discovered, text, line, draft, parsed,
                 lockfiles, packages, errors, vulnerabilities, read>>

EndLockfiles ==
  /\ pc = "lockfile" /\ queue = <<>>
  /\ pc' = "sort"
  /\ UNCHANGED <<surroundings, walk, parser, report, read>>

-----------------------------------------------------------------------------
(* The two ends of parse_lockfile.  What was parsed only counts when the   *)
(* whole file is. *)

(* Bugs: the error of a file in a tree is dropped; the error of a named    *)
(* file is recorded like any other.                                        *)
BrokenSilently ==
  /\ pc' = IF target = Tree THEN "lockfile" ELSE "failed"
  /\ UNCHANGED <<lockfiles, packages, unsupported, errors, vulnerabilities>>

BrokenRecorded ==
  /\ errors' = Append(errors, at) /\ pc' = "lockfile"
  /\ UNCHANGED <<lockfiles, packages, unsupported, vulnerabilities>>

Broken ==
  /\ \/ target = Tree /\ errors' = Append(errors, at) /\ pc' = "lockfile"
     \/ target # Tree /\ UNCHANGED errors /\ pc' = "failed"
  /\ UNCHANGED <<lockfiles, packages, unsupported, vulnerabilities>>

Parsed(found) ==
  /\ lockfiles' = Append(lockfiles, at)
  /\ packages' = packages \o found
  /\ pc' = IF target = Tree THEN "lockfile" ELSE "sort"
  /\ UNCHANGED <<unsupported, errors, vulnerabilities>>

(* symlink_metadata *)
CheckLockfile ==
  /\ pc = "check"
  /\ \/ /\ disk[at].state \in {"gone", "link", "big"}
        /\ Broken
     \/ /\ disk[at].state \in {"ok", "binary"}
        /\ pc' = "read"
        /\ UNCHANGED report
  /\ UNCHANGED <<surroundings, walk, parser, read>>

(* read_to_string, which looks again, and follows a link *)
ReadFails ==
  /\ pc = "read"
  /\ disk[at].state \in {"gone", "binary"} \/ at \in Others
  /\ Broken
  /\ UNCHANGED <<surroundings, walk, parser, read>>

Readable == pc = "read" /\ disk[at].state \notin {"gone", "binary"}

ReadCargoLock ==
  /\ Readable /\ at \in CargoLocks
  /\ text' = disk[at].text
  /\ line' = 1 /\ draft' = NoDraft /\ parsed' = <<>>
  /\ read' = read \union {at}
  /\ pc' = "lines"
  /\ UNCHANGED <<surroundings, walk, at, report>>

-----------------------------------------------------------------------------
(* parse_package_lock *)

Listed(map) ==
  {e \in map.entries :
     /\ e.object /\ e.version # NoValue
     /\ map.shape = "packages" => e.place = "top" /\ ~e.link}

NpmBroken(map) ==
  \/ map.shape \in {"neither", "invalid"}
  \/ map.shape = "packages" /\ \E e \in map.entries : e.place = "top" /\ ~e.object

ReadPackageLock ==
  LET map == disk[at].text
      package(e) == [ecosystem |-> "npm", name |-> e.name, version |-> e.version,
                     source |-> NoValue, lockfile |-> at]
  IN
  /\ Readable /\ at \in NpmLocks
  /\ read' = read \union {at}
  /\ \/ NpmBroken(map) /\ Broken
     \/ ~NpmBroken(map) /\ Parsed(SetToSeq({package(e) : e \in Listed(map)}))
  /\ UNCHANGED <<surroundings, walk, parser>>

-----------------------------------------------------------------------------
(* parse_cargo_lock, line by line *)

AtLine(kinds) == pc = "lines" /\ line <= Len(text) /\ text[line].kind \in kinds

(* A comment is cut off before a value is read, and with it the closing    *)
(* quote of a value that has a # in it.                                    *)
ParseQuotedFails(value) == value \in WithHash \union Unquotable

(* flush_draft *)
Incomplete == draft.open /\ NoValue \in {draft.name, draft.version}

Flushed ==
  IF ~draft.open THEN parsed
  ELSE Append(parsed, [ecosystem |-> "cargo", name |-> draft.name, version |-> draft.version,
                       source |-> draft.source, lockfile |-> at])

BrokenLine ==
  /\ Broken
  /\ UNCHANGED <<line, draft, parsed>>

PackageHeader ==
  /\ AtLine({"package"})
  /\ \/ Incomplete /\ BrokenLine
     \/ /\ ~Incomplete
        /\ parsed' = Flushed /\ draft' = [NoDraft EXCEPT !.open = TRUE]
        /\ line' = line + 1
        /\ UNCHANGED <<pc, report>>
  /\ UNCHANGED <<surroundings, walk, at, text, read>>

(* Bug: only a package ends a package. *)
OtherTableIgnored ==
  /\ AtLine({"table"})
  /\ line' = line + 1
  /\ UNCHANGED <<surroundings, pc, walk, at, text, draft, parsed, report, read>>

OtherTable ==
  /\ AtLine({"table"})
  /\ \/ Incomplete /\ BrokenLine
     \/ /\ ~Incomplete
        /\ parsed' = Flushed /\ draft' = NoDraft
        /\ line' = line + 1
        /\ UNCHANGED <<pc, report>>
  /\ UNCHANGED <<surroundings, walk, at, text, read>>

Key ==
  LET value == text[line].value IN
  /\ AtLine(Keys) /\ draft.open
  /\ \/ ParseQuotedFails(value) /\ BrokenLine
     \/ /\ ~ParseQuotedFails(value)
        /\ draft' = [draft EXCEPT ![text[line].kind] = value]
        /\ line' = line + 1
        /\ UNCHANGED <<pc, parsed, report>>
  /\ UNCHANGED <<surroundings, walk, at, text, read>>

OtherLine ==
  /\ \/ AtLine({"other"})
     \/ AtLine(Keys) /\ ~draft.open
  /\ line' = line + 1
  /\ UNCHANGED <<surroundings, pc, walk, at, text, draft, parsed, report, read>>

(* A text without a package is no lockfile. *)
EndOfText ==
  LET saw_section == draft.open \/ parsed # <<>> IN
  /\ pc = "lines" /\ line > Len(text)
  /\ \/ (Incomplete \/ ~saw_section) /\ Broken
     \/ ~Incomplete /\ saw_section /\ Parsed(Flushed)
  /\ UNCHANGED <<surroundings, walk, parser, read>>

-----------------------------------------------------------------------------
(* The report: sorted, and matched with the advisories.  (The errors are   *)
(* sorted too, but come in path order: EveryLockfileReported.)             *)

Before(a, b) == \E i \in DOMAIN a : a[i] < b[i] /\ \A j \in 1..i - 1 : a[j] = b[j]

(* sort_by, which is stable: an item goes behind those of a lesser key and *)
(* those of its own key that came first.                                   *)
Ahead(keys, i) ==
  {j \in DOMAIN keys : Before(keys[j], keys[i]) \/ (keys[j] = keys[i] /\ j <= i)}

SortedBy(items, keys) ==
  [k \in DOMAIN items |-> items[CHOOSE i \in DOMAIN items : Cardinality(Ahead(keys, i)) = k]]

PackageKey(p) ==
  <<IF p.ecosystem = "cargo" THEN 0 ELSE 1, p.name, p.version, p.lockfile>>

SortReport ==
  /\ pc = "sort"
  /\ packages' = SortedBy(packages, [i \in DOMAIN packages |-> PackageKey(packages[i])])
  /\ pc' = IF snapshot = NoSnapshot THEN "done" ELSE "advisories"
  /\ UNCHANGED <<surroundings, walk, parser, lockfiles, unsupported, errors,
                 vulnerabilities, read>>

(* Bug: a package of the same name in the other ecosystem. *)
MatchesAnyEcosystem(advisory, p) ==
  advisory.package = p.name /\ p.version \in advisory.vulnerable_versions

Matches(advisory, p) ==
  /\ advisory.ecosystem = p.ecosystem
  /\ advisory.package = p.name /\ p.version \in advisory.vulnerable_versions

Hit(advisory, p) ==
  [advisory_id |-> advisory.id, ecosystem |-> p.ecosystem, package |-> p.name,
   version |-> p.version, lockfile |-> p.lockfile]

HitKey(v) == <<v.advisory_id, v.package, v.version, v.lockfile>>

(* The two loops of the match.  Their order is left to SetToSeq: of what   *)
(* has one HitKey, the ecosystem is that of the lockfile.                  *)
Matching ==
  {pair \in snapshot.advisories \X DOMAIN packages : Matches(pair[1], packages[pair[2]])}

(* apply_advisory_db: all of the snapshot is validated before any of it. *)
ApplyAdvisoryDb ==
  LET usable == snapshot.readable /\ \A a \in snapshot.advisories : a.valid
      pairs == SetToSeq(Matching)
      hits == [k \in DOMAIN pairs |-> Hit(pairs[k][1], packages[pairs[k][2]])]
  IN
  /\ pc = "advisories"
  /\ \/ ~usable /\ pc' = "failed" /\ UNCHANGED vulnerabilities
     \/ /\ usable /\ pc' = "done"
        /\ vulnerabilities' = SortedBy(hits, [k \in DOMAIN hits |-> HitKey(hits[k])])
  /\ UNCHANGED <<surroundings, walk, parser, lockfiles, packages, unsupported, errors, read>>

Next ==
  \/ \E f \in Paths : Edit(f) \/ Visit(f)
  \/ MissingTarget \/ SingleFile
  \/ StartWalk \/ EndWalk \/ NextLockfile \/ EndLockfiles
  \/ CheckLockfile \/ ReadFails \/ ReadCargoLock \/ ReadPackageLock
  \/ PackageHeader \/ OtherTable \/ Key \/ OtherLine \/ EndOfText
  \/ SortReport \/ ApplyAdvisoryDb

Spec == Init /\ [][Next]_vars

-----------------------------------------------------------------------------
Done == pc = "done"

(* What a Cargo.lock says, read as a whole: the sections, the keys that    *)
(* belong to one, and of each key the last.                                *)
Sections(t) == {h \in DOMAIN t : t[h].kind = "package"}

Belongs(t, h, k) == h < k /\ \A j \in h + 1..k : t[j].kind \notin {"package", "table"}

LastOf(t, h, key) ==
  {t[k].value : k \in {k \in DOMAIN t :
     /\ Belongs(t, h, k) /\ t[k].kind = key
     /\ \A j \in k + 1..Len(t) : Belongs(t, h, j) => t[j].kind # key}}

WellFormedCargo(t, refused) ==
  /\ Sections(t) # {}
  /\ \A h \in Sections(t) :
       /\ LastOf(t, h, "name") # {} /\ LastOf(t, h, "version") # {}
       /\ \A k \in DOMAIN t : Belongs(t, h, k) /\ t[k].kind \in Keys => t[k].value \notin refused

WellFormed(f) ==
  IF f \in CargoLocks THEN WellFormedCargo(disk[f].text, WithHash \union Unquotable)
  ELSE ~NpmBroken(disk[f].text)

(* How often a lockfile pins a version of a package. *)
Pins(f, name, version) ==
  Cardinality(
    IF f \in CargoLocks
      THEN {h \in Sections(disk[f].text) :
              /\ name \in LastOf(disk[f].text, h, "name")
              /\ version \in LastOf(disk[f].text, h, "version")}
      ELSE {<<e.name, e.version>> : e \in Listed(disk[f].text)} \intersect {<<name, version>>})

(* Of a tree, every lockfile is in exactly one of the three lists, each in *)
(* path order: one broken file hides no other and is not hidden itself.    *)
(* An error is a file that could not be read or is not well-formed.        *)
EveryLockfileReported ==
  Done /\ target = Tree =>
    LET found == {f \in Supported \union Unsupported :
                    f \notin Hidden /\ disk[f].state \notin {"gone", "link"}}
        lists == <<lockfiles, unsupported, errors>>
    IN  /\ \A i \in 1..3 : \A j, k \in DOMAIN lists[i] : j < k => lists[i][j] < lists[i][k]
        /\ \A i, j \in 1..3 : i # j => ToSet(lists[i]) \intersect ToSet(lists[j]) = {}
        /\ UNION {ToSet(lists[i]) : i \in 1..3} = discovered
        /\ discovered \ edited = found \ edited
        /\ \A f \in ToSet(lockfiles) : f \in read /\ WellFormed(f)
        /\ \A f \in ToSet(errors) : f \in read => ~WellFormed(f)

(* The package list is what the lockfiles pin when each is read section by *)
(* section, in order and as often as pinned, and holds nothing of a file   *)
(* that turned out to be broken after some of its packages.                *)
PackagesAreExact ==
  Done =>
    /\ \A i, j \in DOMAIN packages :
         i < j => ~Before(PackageKey(packages[j]), PackageKey(packages[i]))
    /\ \A f \in Supported, name, version \in Values :
         Cardinality({i \in DOMAIN packages :
                        /\ packages[i].lockfile = f
                        /\ packages[i].name = name /\ packages[i].version = version})
           = IF f \in ToSet(lockfiles) THEN Pins(f, name, version) ELSE 0

(* A lockfile named as the target is parsed, listed as unsupported, or the *)
(* command fails: a report of it never says "no packages, one error".      *)
NamedFileFailsClosed ==
  Done /\ target # Tree =>
    errors = <<>> /\ lockfiles \o unsupported = <<target>>

(* The hits are the pinned packages that an advisory of the same ecosystem *)
(* enumerates, for every lockfile that pins them; a snapshot with one bad  *)
(* entry never gives a report at all.                                      *)
HitsAreExact ==
  Done =>
    LET advisories == IF snapshot = NoSnapshot THEN {} ELSE snapshot.advisories
        ecosystem(f) == IF f \in CargoLocks THEN "cargo" ELSE "npm"
    IN  /\ \A a \in advisories : a.valid
        /\ ToSet(vulnerabilities) =
             UNION {UNION {{[advisory_id |-> a.id, ecosystem |-> a.ecosystem,
                             package |-> a.package, version |-> v, lockfile |-> f] :
                              v \in {v \in a.vulnerable_versions : Pins(f, a.package, v) > 0}} :
                           f \in {f \in ToSet(lockfiles) : a.ecosystem = ecosystem(f)}} :
                    a \in advisories}

-----------------------------------------------------------------------------
(* What comments of the code say and the code does not do. *)

(* "Cargo.lock has no `#` inside quoted values we read (names, versions,   *)
(* registry URLs), so comment-stripping before parsing is safe."           *)
StrippingIsSafe ==
  Done => \A f \in ToSet(errors) \intersect CargoLocks :
            f \in read => ~WellFormedCargo(disk[f].text, Unquotable)

(* "Nested paths (containing a second `node_modules/`) are transitive      *)
(* duplicates of some top-level entry."                                    *)
NestedAreDuplicates ==
  Done => \A f \in ToSet(lockfiles) \intersect NpmLocks :
    LET map == disk[f].text IN
    \A e \in map.entries :
      map.shape = "packages" /\ e.place = "nested" /\ e.version # NoValue =>
        \E p \in ToSet(packages) :
          p.lockfile = f /\ p.name = e.name /\ p.version = e.version

=============================================================================
