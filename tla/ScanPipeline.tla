---------------------------- MODULE ScanPipeline ----------------------------
(***************************************************************************)
(* `loop3r scan`: discovery (src/src/scope.rs) and the scanning loop       *)
(* (src/src/source.rs).  A scan is sequential, but it shares the tree with *)
(* editors, builds and checkouts that change it while it runs, and it      *)
(* races a deadline.                                                       *)
(*                                                                         *)
(* A file is its position in the path order.  What a file is never changes *)
(* here (its name decides); whether it exists, whether it is over the byte *)
(* cap and what it contains do.  Each file read gives one finding, of the  *)
(* version read; per-language counts, syntax findings and the parser's     *)
(* refusals (ReadError) carry no more detail than that.                    *)
(***************************************************************************)
EXTENDS Integers, Sequences, FiniteSets, SequencesExt

CONSTANTS Sources,     \* files a grammar parses
          Configs,     \* files that are only searched for secrets
          Others,      \* files with an extension the scanner does not know
          Links,       \* symbolic links
          Hidden,      \* paths below an ignored directory (.git, target, ...)
          Unscoped,    \* paths --include, --exclude or --language reject
          UnscopedName,\* the same, matched by the bare file name
          Tree,        \* the directory itself, as a target
          Scans,       \* a target, how the files are at first, and how many changes
                       \*   are made to them meanwhile (a bound)
          Seeds        \* a seed is the stream its generator produces

Paths == Sources \union Configs \union Others \union Links

ASSUME ConstantsAssumption ==
  /\ Paths \subseteq Nat /\ IsFiniteSet(Paths)
  /\ Sources \intersect Configs = {} /\ Others \intersect Links = {}
  /\ (Sources \union Configs) \intersect (Others \union Links) = {}
  /\ Hidden \subseteq Paths /\ Unscoped \subseteq Paths /\ UnscopedName \subseteq Paths
  /\ Tree \notin Paths
  /\ \A s \in Scans : /\ s.target \in Paths \union {Tree}
                      /\ s.disk \in [Paths -> {"small", "big"}]
                      /\ s.edits \in Nat
  /\ Seeds \subseteq Seq(Nat)
  /\ \A stream \in Seeds : Len(stream) >= Cardinality(Sources) - 1

VARIABLES given,     \* the scan, from Scans
          disk,      \* path -> "small", "big" (over the cap) or "gone"
          version,   \* path -> how often its content changed
          edits,     \* changes to the tree so far
          seed,
          expired,   \* the budget has run out
          pc,
          unvisited, files, secret_files,          \* discovery
          skipped_oversized, skipped_unsupported,
          queue, unshuffled,       \* the sources in scanning order, and how many
                                   \*   positions have not got theirs yet
          files_parsed, secret_files_scanned, timed_out,
          security, secrets,                       \* findings
          late       \* history: files read after the budget ran out

target == given.target

surroundings == <<given, disk, version, edits, seed, expired>>
discovery == <<unvisited, files, secret_files, skipped_oversized, skipped_unsupported>>
ordering == <<queue, unshuffled>>
progress == <<ordering, files_parsed, secret_files_scanned, timed_out, late>>
findings == <<security, secrets>>
vars == <<surroundings, pc, discovery, progress, findings>>

Ended == {"done", "failed"}

Init ==
  /\ given \in Scans /\ disk = given.disk
  /\ version = [f \in Paths |-> 0]
  /\ edits = 0
  /\ seed \in Seeds
  /\ expired = FALSE
  /\ pc = "start"
  /\ unvisited = {} /\ files = {} /\ secret_files = {}
  /\ skipped_oversized = 0 /\ skipped_unsupported = 0
  /\ queue = <<>> /\ unshuffled = 0 /\ files_parsed = 0 /\ secret_files_scanned = 0
  /\ timed_out = FALSE /\ late = 0
  /\ security = <<>> /\ secrets = <<>>

-----------------------------------------------------------------------------
(* The tree changes under the scan. *)

Edit(f) ==
  /\ edits < given.edits
  /\ edits' = edits + 1
  /\ disk[f] # "gone"
  /\ \/ disk' = [disk EXCEPT ![f] = "gone"] /\ UNCHANGED version
     \/ /\ \E size \in {"small", "big"} : disk' = [disk EXCEPT ![f] = size]
        /\ version' = [version EXCEPT ![f] = @ + 1]
  /\ UNCHANGED <<given, seed, expired, pc, discovery, progress, findings>>

(* Instant::elapsed passes the budget, once and for good. *)
Expire ==
  /\ pc \notin Ended \union {"start"}
  /\ ~expired
  /\ expired' = TRUE
  /\ UNCHANGED <<given, disk, version, edits, seed, pc, discovery, progress, findings>>

-----------------------------------------------------------------------------
(* Discovery. *)

(* target.exists() fails. *)
MissingTarget ==
  /\ pc = "start"
  /\ target # Tree /\ disk[target] = "gone"
  /\ pc' = "failed"
  /\ UNCHANGED <<surroundings, discovery, progress, findings>>

(* A directory: the walk prunes ignored directories before it enters them. *)
StartWalk ==
  /\ pc = "start"
  /\ target = Tree
  /\ pc' = "walk" /\ unvisited' = Paths \ Hidden
  /\ UNCHANGED <<surroundings, files, secret_files, skipped_oversized, skipped_unsupported,
                 progress, findings>>

NamedFile == pc = "start" /\ target # Tree /\ disk[target] # "gone"

TakeNamedFile ==
  /\ pc' = "discovered"
  /\ files' = {target} \intersect (Sources \ UnscopedName)
  /\ secret_files' = {target} \intersect (Configs \ UnscopedName)

(* Bug: a named file over the cap is skipped as a walk would skip it. *)
SingleFileSkipped ==
  /\ NamedFile
  /\ \/ target \in Links \union Others /\ pc' = "failed"
        /\ UNCHANGED <<files, secret_files, skipped_oversized>>
     \/ target \notin Links \union Others /\ disk[target] = "big" /\ pc' = "discovered"
        /\ skipped_oversized' = 1 /\ UNCHANGED <<files, secret_files>>
     \/ target \notin Links \union Others /\ disk[target] = "small" /\ TakeNamedFile
        /\ UNCHANGED skipped_oversized
  /\ UNCHANGED <<surroundings, unvisited, skipped_unsupported, progress, findings>>

(* A file named as the target is refused where a walk would skip it. *)
SingleFile ==
  LET refused == target \in Links \union Others \/ disk[target] = "big" IN
  /\ NamedFile
  /\ \/ refused /\ pc' = "failed" /\ UNCHANGED <<files, secret_files>>
     \/ ~refused /\ TakeNamedFile
  /\ UNCHANGED <<surroundings, unvisited, skipped_oversized, skipped_unsupported,
                 progress, findings>>

(* The walk meets the entries of a directory in no particular order.  Of a *)
(* regular file it asks for the size first, then for the kind and scope.   *)
Visit(f) ==
  LET regular == f \notin Links /\ disk[f] # "gone"
      small == regular /\ disk[f] = "small"
  IN
  /\ pc = "walk" /\ f \in unvisited
  /\ unvisited' = unvisited \ {f}
  /\ skipped_oversized' = skipped_oversized + IF regular /\ ~small THEN 1 ELSE 0
  /\ skipped_unsupported' = skipped_unsupported + IF small /\ f \in Others THEN 1 ELSE 0
  /\ files' = IF small /\ f \in Sources \ Unscoped THEN files \union {f} ELSE files
  /\ secret_files' =
       IF small /\ f \in Configs \ Unscoped THEN secret_files \union {f} ELSE secret_files
  /\ UNCHANGED <<surroundings, pc, progress, findings>>

(* A file that vanished is not listed any more, or metadata() fails. *)
VisitError(f) ==
  /\ pc = "walk" /\ f \in unvisited
  /\ f \notin Links /\ disk[f] = "gone"
  /\ pc' = "failed"
  /\ UNCHANGED <<surroundings, discovery, progress, findings>>

EndWalk ==
  /\ pc = "walk" /\ unvisited = {}
  /\ pc' = "discovered"
  /\ UNCHANGED <<surroundings, discovery, progress, findings>>

-----------------------------------------------------------------------------
(* The scanning loop. *)

(* By path. *)
Sorted(S) ==
  [i \in 1..Cardinality(S) |-> CHOOSE f \in S : Cardinality({g \in S : g <= f}) = i]

Swap(q, i, j) ==
  [k \in DOMAIN q |-> q[IF k = i THEN j ELSE IF k = j THEN i ELSE k]]

(* Bug: discovery does not sort. *)
StartScanningUnsorted ==
  /\ pc = "discovered"
  /\ queue' \in SetToSeqs(files) /\ unshuffled' = Cardinality(files)
  /\ pc' = "shuffle"
  /\ UNCHANGED <<surroundings, discovery, files_parsed, secret_files_scanned, timed_out,
                 late, findings>>

StartScanning ==
  /\ pc = "discovered"
  /\ queue' = Sorted(files) /\ unshuffled' = Cardinality(files)
  /\ pc' = "shuffle"
  /\ UNCHANGED <<surroundings, discovery, files_parsed, secret_files_scanned, timed_out,
                 late, findings>>

(* Fisher-Yates from the last position down; the draws are the generator's *)
(* successive states.                                                      *)
ShuffleStep ==
  LET draw == seed[(Len(queue) - unshuffled) + 1] IN
  /\ pc = "shuffle" /\ unshuffled > 1
  /\ queue' = Swap(queue, unshuffled, (draw % unshuffled) + 1)
  /\ unshuffled' = unshuffled - 1
  /\ UNCHANGED <<surroundings, pc, discovery, files_parsed, secret_files_scanned, timed_out,
                 late, findings>>

EndShuffle ==
  /\ pc = "shuffle" /\ unshuffled <= 1
  /\ pc' = "files"
  /\ UNCHANGED <<surroundings, discovery, progress, findings>>

(* Bug: the deadline is only looked at before the configs. *)
CheckSourceNoDeadline ==
  /\ pc = "files"
  /\ pc' = IF files_parsed = Len(queue) THEN "secret_files" ELSE "read_source"
  /\ UNCHANGED <<surroundings, discovery, progress, findings>>

(* Before each source: the deadline, then the read. *)
CheckSource ==
  LET left == files_parsed < Len(queue) IN
  /\ pc = "files"
  /\ pc' = IF left /\ ~expired THEN "read_source" ELSE "secret_files"
  /\ timed_out' = (timed_out \/ (left /\ expired))
  /\ UNCHANGED <<surroundings, discovery, ordering, files_parsed, secret_files_scanned, late,
                 findings>>

SourceAt == queue[files_parsed + 1]

ConfigAt == Sorted(secret_files)[secret_files_scanned + 1]

(* Secrets come from the raw bytes before the parse. *)
ScanSource ==
  LET finding == <<SourceAt, version[SourceAt]>> IN
  /\ pc = "read_source"
  /\ disk[SourceAt] # "gone"
  /\ files_parsed' = files_parsed + 1
  /\ secrets' = Append(secrets, finding) /\ security' = Append(security, finding)
  /\ late' = late + IF expired THEN 1 ELSE 0
  /\ pc' = "files"
  /\ UNCHANGED <<surroundings, discovery, ordering, secret_files_scanned, timed_out>>

(* Bug: the second loop ends without saying so. *)
CheckConfigSilent ==
  /\ pc = "secret_files"
  /\ pc' = IF secret_files_scanned < Cardinality(secret_files) /\ ~expired
             THEN "read_config" ELSE "sort"
  /\ UNCHANGED <<surroundings, discovery, progress, findings>>

CheckConfig ==
  LET left == secret_files_scanned < Cardinality(secret_files) IN
  /\ pc = "secret_files"
  /\ pc' = IF left /\ ~expired THEN "read_config" ELSE "sort"
  /\ timed_out' = (timed_out \/ (left /\ expired))
  /\ UNCHANGED <<surroundings, discovery, ordering, files_parsed, secret_files_scanned, late,
                 findings>>

ScanConfig ==
  /\ pc = "read_config"
  /\ disk[ConfigAt] # "gone"
  /\ secret_files_scanned' = secret_files_scanned + 1
  /\ secrets' = Append(secrets, <<ConfigAt, version[ConfigAt]>>)
  /\ late' = late + IF expired THEN 1 ELSE 0
  /\ pc' = "secret_files"
  /\ UNCHANGED <<surroundings, discovery, ordering, files_parsed, timed_out, security>>

Unreadable ==
  \/ pc = "read_source" /\ disk[SourceAt] = "gone"
  \/ pc = "read_config" /\ disk[ConfigAt] = "gone"

(* Bug: the read is tried again. *)
ReadErrorRetried ==
  /\ Unreadable
  /\ pc' = IF pc = "read_source" THEN "files" ELSE "secret_files"
  /\ UNCHANGED <<surroundings, discovery, progress, findings>>

(* A file that cannot be read (or a grammar that will not load) aborts the *)
(* scan: no report.                                                        *)
ReadError ==
  /\ Unreadable
  /\ pc' = "failed"
  /\ UNCHANGED <<surroundings, discovery, progress, findings>>

(* By path, of equal ones the first: each stands behind as many as come    *)
(* before it.                                                              *)
InPathOrder(list) ==
  LET upto(i) == {j \in DOMAIN list :
                    list[j][1] < list[i][1] \/ (list[j][1] = list[i][1] /\ j <= i)}
      place(i) == Cardinality(upto(i))
  IN  [n \in DOMAIN list |-> list[CHOOSE i \in DOMAIN list : place(i) = n]]

(* Bug: findings stay in the order the files were shuffled to. *)
FinishUnsorted ==
  /\ pc = "sort"
  /\ pc' = "done"
  /\ UNCHANGED <<surroundings, discovery, progress, findings>>

Finish ==
  /\ pc = "sort"
  /\ security' = InPathOrder(security) /\ secrets' = InPathOrder(secrets)
  /\ pc' = "done"
  /\ UNCHANGED <<surroundings, discovery, progress>>

ScanStep ==
  \/ MissingTarget \/ StartWalk \/ SingleFile
  \/ \E f \in Paths : Visit(f) \/ VisitError(f)
  \/ EndWalk \/ StartScanning \/ ShuffleStep \/ EndShuffle
  \/ CheckSource \/ ScanSource \/ CheckConfig \/ ScanConfig
  \/ ReadError \/ Finish

Next == ScanStep \/ Expire \/ \E f \in Paths : Edit(f)

(* A scan is one thread with nothing to wait for. *)
Spec == Init /\ [][Next]_vars /\ WF_vars(ScanStep)

-----------------------------------------------------------------------------
Done == pc = "done"

(* What a walk of the tree as it is now has to find. *)
Seen(size) == {f \in Paths \ (Hidden \union Links) : disk[f] = size}

InScope(kind) == (Seen("small") \intersect kind) \ Unscoped

(* A report of an unchanged tree that did not time out says the same       *)
(* whatever the seed and the order the directory was listed in: the        *)
(* findings of every in-scope source and config under the cap, each once,  *)
(* by path, and the number of files skipped for size and for extension.    *)
CompleteReportIsTheTree ==
  Done /\ target = Tree /\ ~timed_out /\ edits = 0 =>
    LET Findings(S) == [i \in 1..Cardinality(S) |-> <<Sorted(S)[i], 0>>]
    IN  /\ security = Findings(InScope(Sources))
        /\ secrets = Findings(InScope(Sources \union Configs))
        /\ skipped_oversized = Cardinality(Seen("big"))
        /\ skipped_unsupported = Cardinality(Seen("small") \intersect Others)

(* The order a seed stands for: position by position, from the last one     *)
(* down, each takes what stands where the draw says.                       *)
AfterDraws(q, draws) ==
  LET last(k) == Len(q) - k + 1
      after[k \in 0..Len(q) - 1] ==
        IF k = 0 THEN q ELSE Swap(after[k - 1], last(k), (draws[k] % last(k)) + 1)
  IN  after

Shuffle(q, draws) == IF Len(q) = 0 THEN q ELSE AfterDraws(q, draws)[Len(q) - 1]

(* "Fixed seeds reproduce" the order: a report of an unchanged tree, when  *)
(* ever it was cut off, has the findings of the first files of one order   *)
(* that the tree and the seed decide, and the walk does not.               *)
SeedDecidesOrder ==
  Done /\ target = Tree /\ edits = 0 =>
    LET order == Shuffle(Sorted(InScope(Sources)), seed) \o Sorted(InScope(Configs))
        read == {secrets[i][1] : i \in DOMAIN secrets}
    IN  read = {order[i] : i \in 1..files_parsed + secret_files_scanned}

(* A report says timed_out exactly when it left out a file that discovery  *)
(* found: a file is never dropped in silence, not because it vanished and  *)
(* not because the budget ran out between the two loops, and a scan that   *)
(* finished late but finished is not called partial.                       *)
TimedOutIffWorkLeft ==
  Done =>
    (timed_out <=>
       files_parsed + secret_files_scanned < Cardinality(files) + Cardinality(secret_files))

(* The deadline is looked at before each file, so a scan overruns its      *)
(* budget by at most the file that was about to be read.                   *)
OverrunAtMostOneFile == late <= 1

(* A file named as the target is scanned, refused, out of scope, or timed  *)
(* out: it never becomes a skip count in a report of success.              *)
SingleTargetNeverSkipped ==
  Done /\ target # Tree =>
    /\ skipped_oversized = 0 /\ skipped_unsupported = 0
    /\ \/ files_parsed + secret_files_scanned = 1
       \/ target \in UnscopedName
       \/ timed_out

(* A scan ends, with a report or with an error, whatever happens to the    *)
(* tree and to the clock.                                                  *)
ScanEnds == <>(pc \in Ended)

=============================================================================
