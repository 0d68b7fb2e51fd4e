# loop3r: models, checks and proofs

loop3r audits a source tree: it parses files with embedded grammars, matches
calls against rules, looks for secrets, compares with a baseline, and writes one
report. It also lists the packages of lockfiles, probes a local web server,
compares two reports, and checks a report against its schema. This directory
holds TLA+ models of all of it, the TLC configurations that check them on small
instances, and proofs that TLAPS checks for every instance.

    tlc -config PrivateWrite_calls.cfg PrivateWrite.tla     # one run
    tlapm PrivateWriteProofs.tla                            # one proof module

## The system

One process, one thread, one command per start. Nothing in the process runs
concurrently; what makes the system hard is what it shares with others: the
tree it reads, the report path it writes, the reports and suppression files that
later runs read, the clock.

| Part (src/src) | State | Operations | Talks to |
|---|---|---|---|
| `main.rs` | none between runs | five subcommands; order of suppress, baseline, output; exit code | all |
| `scope.rs` | three file lists, two skip counts | discovery for a file or a directory | file system |
| `source.rs` | file queue, findings, counters, `timed_out` | shuffle, source loop, config loop, sort | scope, secrets, imports, taint, clock |
| `core.rs`, `imports.rs`, `taint.rs`, `language.rs` | per file: aliases, taint scopes | rule catalog, callee resolution, fixed point over assignments | source |
| `secrets.rs` | a cursor into the bytes | one validator per kind of secret | source |
| `suppress.rs` | entries, `expired` set, `applied` | load, apply | clock, report |
| `diff.rs`, `fingerprint.rs` | fingerprint sets | load, baseline summary, gate, compare | earlier reports |
| `report.rs` | a temp file | `write_private` | file system, other calls |
| `deps.rs`, `advisory.rs`, `sbom.rs` | package list, draft of one package | lockfile parsers, matching, mapping | file system |
| `web.rs` | none | loopback check, one GET, header and cookie findings | a server |
| `sarif.rs`, `schema.rs` | none | mapping to SARIF, schema check | reports |

What is hard, and what correctness means there:

- **The report path.** Calls race each other and readers, I/O fails, the process
  is killed, the power goes off. The path must hold a whole report throughout.
- **A tree that changes, a deadline that passes.** A report must say that it is
  partial exactly when it is, and be the same for every order of the files.
- **Many runs.** The exit code of a run depends on what was committed, accepted,
  baselined and how late it is. It must be explained by these and nothing else.
- **Commands that read what others wrote.** A scan, a diff and a validation take
  files that any command, or a person, has written, and that may change between
  two reads. A wrong file must be refused and a failed command must leave nothing.
- **Bounded analysis.** Taint and secrets work under caps and cursors.
- **Parsers.** Lockfiles end where they like.
- **Arithmetic.** Dates are computed from a day count by hand.

## The modules

| Module | Models | Composition |
|---|---|---|
| `AtomicReport` | what `write_private` promises: a path that changes in one step | abstract |
| `PrivateWrite` | `write_private`, readers of the path, the file system | implements `AtomicReport` |
| `ScanPipeline` | `source_files`, `shuffle`, `scan` | one file read is one finding; what is in a file is `RuleMatch` and `Secrets` |
| `RuleMatch` | `load_ast_rules`, `collect_aliases`, `resolve_callee`, `inspect_tree` | takes the answer of `TaintLite` for a call as a field of the call |
| `TaintLite` | `taint::analyze` and `flow_for_sink` | |
| `Secrets` | `scan_secrets` and its validators | |
| `Calendar` | `today_iso`, `valid_expiry`, and the calendar they are about | used by `Gate` and `Sarif` |
| `Gate` | repeated `scan` commands: suppressions, baseline, exit code, clock | takes the outcome of a scan as the set of files it read |
| `Inventory` | `deps`: the walk, both lockfile parsers, advisory matching | |
| `Json` | JSON values | |
| `SchemaCheck` | `check_value` of `schema.rs` | extends `Json`; `MCCli` ties its recursion and takes it for `Conforms` |
| `Documents` | the reports as JSON, the four schemas | extends `Json` |
| `ReportDiff` | `diff.rs` and `fingerprint.rs` on JSON | extends `Documents` |
| `Sarif` | `sarif.rs` and `sbom.rs` | extends `Documents`, `Calendar` |
| `WebProbe` | `web.rs`: what is refused, what a response means | |
| `Cli` | `main.rs`: sessions of all five subcommands over shared files | composes `ReportDiff`, `Sarif`, `WebProbe` |
| `..Proofs` | theorems | `PrivateWriteProofs`, `ScanPipelineProofs`, `RuleMatchProofs`, `TaintLiteProofs`, `InventoryProofs`, `SecretsProofs`, `GateProofs` and `CliProofs` extend the module they are named after; `GateProofs` has the calendar too |
| `MC..` | instances for TLC | extend the module they are named after |

Some definitions carry a `Bug:` comment. Each is a plausible mistake in one
definition of the model and is used nowhere; putting it in place of the
definition that follows makes the property named in `PROJECT.json` fail, which is
how we know that the property can fail.

### PrivateWrite

`pc[p]` is the place of call `p` in `write_private`: `idle`, `write`
(write_all), `sync` (sync_all), `cleanup` (remove_file), `commit` (rename), then
`done` or one of four errors, or `dead`. Each system call is one action and each
has an error action, as in the code. The file system exists twice: what running
programs see (`dir`, `size`) and what is on the disk (`diskDir`, `diskSize`).
The kernel writes back either at any time (`WriteBack`, `FlushDir`), in any
order relative to each other; `sync_all` forces the data of one file. Directory
updates reach the disk in order, as in a journal: the code never syncs the
directory, so after a power loss an older report may be back. That is what
`Outage` of `AtomicReport` says. The temp name is any of `TempNames`: pid and
clock do not make it unique for certain, and the model shows that `create_new`
is what excludes sharing.

`AtomicReport` has no temp files and no chunks. The refinement mapping takes
the file linked to `Dest` to `report` if it has all chunks, and to `Torn`
otherwise: no abstract step ever produces `Torn`.

### ScanPipeline

A file is its position in path order. Its class (source, config, other, link,
hidden, out of scope) is decided by its name and is a constant; its size class
and content change (`Edit`) while the scan runs. `given` is the scan: a target,
the files at first and how many edits there may be. The other variables are what
`scan` holds: the discovery lists, the queue, counters, findings. `Visit` is
one turn of the WalkDir loop, in any order. `ShuffleStep` is one exchange of
`shuffle`, from the last position down, and `unshuffled` says how far it has
come; `Shuffle`, which does it at once, is only the reference in
`SeedDecidesOrder`. The stable sort at the end (`InPathOrder`) is stated by rank:
each finding stands behind as many as come before it. `CheckSource` and `CheckConfig` are the deadline tests,
`ScanSource` and `ScanConfig` the reads that follow, so that the tree and the
clock may change in between. A seed is the stream of numbers that its generator
produces, and every stream of the needed length is checked. One read gives one
finding per list, which carries the version of the file that was read. `late` is
a history variable: the files read after the budget ran out.

### RuleMatch

One syntax tree, with its nodes numbered in the order of the text. The stack loops
of `collect_python`, `collect_javascript` and `inspect_tree` are at the last node
of `stack`. `BindClause` is one clause of an import there, `TryRule` one rule for a
call there, and `taken` counts them; `Collect` and `InspectNode` take the node off
and push its children. An import is one node with its clauses, and `Target` says
what a clause of each form binds. A dotted name is a sequence of
segments; what `is_identifier`, `dotted_name` and `module_string` refuse is the
empty sequence or `NotIdentifier`. Of the arguments only the needles they
contain are kept, compacted and within the cap. A rule is `well_formed` or not;
that ids are unique and lists are not empty is modelled.

### TaintLite

A file is a sequence of functions in the order the tree walk meets them and a
text of assignments. An assignment comes with what the analysis looks for in it:
the names it reads, an input marker, a sanitizer. `StartFunction` is
`collect_params` and the start of the loop, `Skip`, `Introduce` and `Propagate`
are one assignment of one pass, `NextPass` and `EndFunction` the end of a pass.
Functions are nested as in the tree: `parent` is the innermost function around one,
which comes before it and has its lines within its own (`NestingAssumption`); the
code does not keep it, and only properties speak of it (`Outer`). The caps `MAX_VARS`, `MAX_PASSES` and `MAX_FUNCTIONS` are constants. Left out:
the tokenizer, its cap of 64 identifiers per text, the marker list, and the cap
of 2000 tree nodes per function.

### Secrets

A text is a sequence of symbols. One symbol stands for a class of bytes that the
validators do not tell apart, and one for a word they look for as a whole (a
prefix, a PEM mark, a deny word). The validators run one after the other, each
with its own cursor `from`. `scan_pem` is a machine of three places: `pem` looks
for a header, `footer` for the first footer within the cap, `lines` judges the
lines between. The others share one machine, `search`, `body`, `context`, and
differ in a record of what they look for: `scan_aws` takes a body of fixed
length, `scan_github_token` and `scan_prefixed` a run of bytes, `scan_jwt` and
`scan_slack_webhook` three segments. Where the cursor goes after a match differs:
behind a PEM block, one byte behind the start of a token. The limits of the code
are constants that the instance scales down: `HeaderCap` (160 bytes) to 4,
`BlockCap` to 7, `LineCap` (256) to 2, the contexts (100, 500) and the shown tail
(4) to 1, with bodies of one or two symbols at least.

### Calendar and Gate

`Calendar` has both the arithmetic of `today_iso` (`CivilDate`) and the Gregorian
calendar it should agree with (`IsDay`, from the lengths of months and the leap
year rule). A zero-padded date is a triple, compared like the strings.

`Scan(scanned)` of `Gate` is one `loop3r scan --suppress .. --baseline ..` that
read the files at `scanned` (all of them, or fewer because of the deadline).
`Commit`, `EditSuppressions`, `BreakBaseline`, `SaveBaseline`, `NextDay` and
`ClockFails` are what people, time and machines do between scans. `clock` is the
day, or `NoClock` when it is before the epoch. A suppression file is a sequence of
entries, and `Loads` says when the file is accepted. `last` keeps the inputs and
the outcome of the last scan. An issue is its own fingerprint, and the paths of
an entry are the set its glob matches.

### Inventory

The walk and the loop over what it found as in `inventory`; `CheckLockfile` is
the look at size and link, `ReadFails`, `ReadCargoLock` and `ReadPackageLock` the
read that follows it, and a file may vanish, grow, or become a link or binary in
between. `PackageHeader`, `OtherTable`, `Key`, `OtherLine` and `EndOfText` are the
lines of a Cargo.lock as `parse_cargo_lock` takes them, with `draft` for its
`current`. A package-lock.json is a map already parsed. `EndWalk` sorts what
was found (`discovered.sort()`); `ApplyAdvisoryDb` is one step because the snapshot
is read once. Names, versions and sources are numbers
in their string order; `WithHash` are those with a `#`.

### Json, SchemaCheck, Documents, ReportDiff, Sarif, WebProbe

These have no state of their own. `Json` says what a JSON value is, and
`SchemaCheck` what one call of `check_value` asks of a value under a schema, with
`Check` for the calls it makes on the parts (`CheckKeywords`). The recursion is tied
where the checker is used: in `MCCli` as a `RECURSIVE` operator that TLC evaluates, in
`CliProofs` as an equation. `Documents` takes each report struct to
the JSON that serde writes and each file of `src/schema` to the record that
`check_value` reads, field by field; a string or number that nothing depends on is
`Text` or `Count`. `ReportDiff` reads JSON back as `load_findings` does, which
takes what it finds: a missing field is `""` or 0, a list that is no array is
empty. A fingerprint is the tuple that the code joins and hashes.
`Picked` is the filter of an iterator: the items at some places, in order. `Sarif` has the
two exports. `WebProbe` has what is refused before a socket opens, how a
`Set-Cookie` header is read, and the findings of one response.

### Cli

A behaviour is a session: a sequence of command lines, each chosen from a set,
over named files and one tree. A command goes from `Invoke` through the steps of
its handler in `main.rs` to an exit code: for `scan` that is `Scan`, `Suppress`,
`Baseline`, `Render`, `Write`, `Emit`. Each step that can fail has its refusal,
which ends the command with 2; `EmitFails` is the panic of `println!` on a closed
stdout, with 101. Between any two steps `Others` may replace a file or the tree.
`before` is what the files would hold had the command not run, and `known` what the
command has read to compare or to validate: for a `diff` both sides, the old one first.
The seed, the byte cap and the budget of a scan are any numbers; what a report says of
them is what the options were. `CommandLine` is a command line as clap admits it, `Conforms` the answer of the schema checker. What a scan finds
in the tree and what a server answers is given; the other modules say where it
comes from, and `Write` is one step because of `Refinement`.

## The runs

| Run | Bounds | Shows |
|---|---|---|
| `report_calls` | 2 calls, 2 temp names, 1 reader, 2 chunks, 1 power loss | all properties of `PrivateWrite`, the refinement, and that calls return |
| `scan_trees` | 3 sources, 3 configs, 1 other, 1 link; one hidden, two out of scope; at rest with every size and every stream; each file as the target with 2 edits, the tree with 1 | a complete report is exactly the tree; a partial one is the start of the order that the seed decides; timed_out is exact; at most one file is late; a named file is never skipped; scans end |
| `rule_files` | every tree of 4 nodes, 17 contents, 4 languages, 3 rules; a catalog with a duplicate id | each name means its last import; findings are exact; no double report |
| `secret_texts` | every text of up to 6 symbols around each prefix; segments and key blocks put together from sound and broken parts, two keys that begin on their header line; two tokens in one text | exactly the tokens and blocks are reported, redacted, none within another of its rule |
| `secret_header` | the same | a key that begins on its header line is shown (finding) |
| `taint_files` | every function of 3 assignments over 4 names; functions nested on some or all of the lines of the outer one, or behind it; 3 variables, 2 passes, 2 functions | traces are real, early stops lose nothing, each pass goes one assignment further, the outermost function with the lines of a sink's own answers for it, the analysis ends |
| `gate_history` | 3 issues in 2 files, 3 days, 3 suppression files, 2 changes | the exit code and the expiry list over histories; time never turns a build green |
| `gate_clock` | the same, 1 change | a lost clock turns a build green (finding) |
| `inventory_trees` | Cargo.lock of up to 7 lines, package maps of up to 2 entries of 7 kinds, 6 files in every state, 1 change at any moment, 3 snapshots | lockfiles are accounted for, packages and hits are exact, a named file fails closed |
| `inventory_git` | the same | a git source breaks its Cargo.lock (finding) |
| `inventory_nested` | the same | a nested npm version is lost (finding) |
| `cli_commands` | 3 commands in turn over 2 files and 3 trees, 1 change by others; 2 commands of which the first has an option beyond i64; the web probe alone on some hundred responses | a refused command leaves nothing, the gate agrees with `diff`, both sides of a comparison are source reports, `validate` knows each report, exports keep findings, cookies are graded one by one, commands end |

Why the bounds are enough. Two calls suffice for every pairwise race on a name
and a report of two chunks can be partial at one place, and the safety properties
and the refinement are proved for all values anyway. Three sources give all
permutations that a Fisher-Yates step with a wrong index or range would confuse,
and every class of path occurs beside a class it could be mistaken for. Two
edits allow a named file to change before it is looked at and again before it is
read. Trees
of four nodes have siblings, nesting, and nesting beside siblings: what a stack
that is filled in the wrong order confuses. Three assignments with two passes
give chains that need one pass more than there is, and three variables of four
fill the map; the proofs cover the rest. The texts of `Secrets` reach every limit
and go one symbol beyond it, and end at every place of every validator. In `Gate`,
an entry can be live, expired today, or expired yesterday; files have two entries,
so that each can stand before the other; two changes between scans allow a commit
and a new suppression file. Seven lines are two whole packages with another table
between them, and every two lines are tried alone, behind a package, and inside a
second one. Three commands are enough for one to write what the second reads and
the third reads both; the first may write each of the seven forms of document,
and files written by hand are a suppression file, a snapshot, a short report, one
whose lists are no lists, and no JSON. `MaxInteger` is 999, so 999 and 1000 stand for
the last i64 and the first number beyond it.

`CHECK_DEADLOCK` is off everywhere because programs end and people may stop
changing things. `TypeOK` is an invariant of the runs whose module has a theorem
for it; in the other modules types follow from the assumptions, or are part of
the inductive invariant, and the runs spend their time on what could be wrong.

Fairness: `write_private`, `scan` and `analyze` have no wait in them, so a started
call, scan or analysis keeps taking steps (`WF` on its own steps). A command of
`Cli` waits only for a server, and the client has a timeout (`web.rs:135`), which
is the step `NoAnswer`; so `WF` on the steps of the program is justified there as
well. Neither the kernel's write-back, readers, edits, kills, other people nor
the clock are fair. `CallReturns` excuses calls that are killed; `ScanEnds`,
`AnalysisEnds` and `CommandsEnd` need no excuse. The other modules state no
liveness and assume no fairness.

## Where the code and its documentation differ

Shown by a run:

1. `suppress.rs:66`: clock failures only make "expiries MORE likely to be treated
   as expired". Day zero is before every real expiry, so every expired entry
   suppresses again (`ClockFailureIsSafe`).
2. `deps.rs:210`: no value that is read has a `#`. The source of a git dependency
   has, and the whole Cargo.lock becomes an error (`StrippingIsSafe`).
3. `deps.rs:257`: nested npm entries are duplicates of a top-level one. npm nests
   a package when its version differs; that version is in no list and is not
   matched with advisories (`NestedAreDuplicates`).
4. `secrets.rs:11`: evidence is always redacted, to "shape + at most 4 trailing
   chars"; `secrets.rs:46`: "The full secret MUST never appear here". The evidence of a
   key is the text from its BEGIN to the first line break, up to 160 bytes. A key that
   begins on that line is shown from there on, and one that is written on one line as a
   whole (`KeyStaysHidden`). `EvidenceIsRedacted` says what holds: of every other
   secret, and of such a key behind that line, at most the tail is shown.

Described exactly by a property of a passing run:

- `report.rs:353`: "on any failure the temp file is removed". Not when the rename
  fails; `LeftoverExplained` lists that as one of the causes.
- `taint.rs:69`: "the innermost match wins at query time"; `taint.rs:436`: nested
  functions "resolve against their own locals". Spans are all that is compared, the
  first of the smallest wins, and the outer function comes first: if both are on the
  same lines, it answers for the inner one, as `OwnScopeAnswers` says.
- `schema.rs:129`: `validate` "can never disagree with the emitting code". For the
  checker an integer fits an i64, but `--seed`, `--max-file-bytes` and
  `--budget-seconds` are u64 and a scan writes them as they are. There is a second
  way: `load_findings` takes a report whose findings are any JSON (`diff.rs:72`: "what
  makes cross-version diffing and minimal hand-written fixtures work") and `diff`
  copies them, but the schema of a diff wants a `rule_id` in each; the file `Odd` of
  `MCCli` is such a report. `ValidateKnowsItsOwn` has both as its exceptions and says
  that there is no third, and that no report passes under the schema of another
  command.

Noticed while modelling, without a run of their own:

- `main.rs:140`: "Fixed seeds reproduce budget-expiry partial scans exactly." The
  seed decides the order (`SeedDecidesOrder`), the wall clock where it stops.
- `main.rs:125`, `scope.rs:230`: the byte cap is compared in discovery only; a file
  that grows after that is read whole.
- `report.rs:156`: "Baseline security findings no longer present." A partial or
  narrower scan counts what it did not reach as fixed.
- `docs/architecture.md:178`: "Timeouts and skips are reported, never hidden." The
  console summary of `scan` (`main.rs:285`) does not show a timeout; the JSON does.
- `docs/rules.md:53`: "matching runtime rebinding". One alias map serves a whole
  file, so a call above a rebinding is resolved with the later import, and a
  plain `import os` does not undo an earlier `from x import os`.
- `suppress.rs:165`: expired entries that would have matched are collected, but
  not behind a live entry for the same finding. What holds is `LapsedEntriesListed`.
- `docs/usage.md:122`: malformed suppression files fail closed. Any JSON object
  without `suppressions`, a report included, loads as an empty list.
- A report whose paths are not UTF-8 fails with 2 even if only a summary is to be
  printed, while SARIF passes. With a closed stdout the report is written and the
  exit code is 101, which no document lists.
- `secrets.rs`: a key whose header is on the line of the previous key's footer is
  skipped; the limit of a token is one byte more than its constant; a rule whose
  body may contain `-` can report the end of a token again.
- `sbom.rs:20`: the timestamp reads the clock twice, around midnight of two days.
  Two lockfiles that pin one package give one `bom-ref` twice.
- `suppress.rs:190` compares dates as strings, of which `Calendar` says what they
  stand for; from the year 10000 on the two differ.
- `--baseline f --output f` takes the findings of this run into the baseline of the
  next, and a suppressed finding in a baseline outlives the expiry of its entry.

## The proofs

All but the calendar follow one plan: an inductive invariant, `Init` implies it,
`[Next]_vars` keeps it, one step per action, and the theorem from it.

**`PrivateWriteProofs`** proves, for any sets of calls, readers and temp names,
any number of chunks and any number of power losses: `TypeOK`, `DestWhole`,
`ReaderNeverTorn`, `TempExclusive`, `LeftoverExplained`, and
`ImplementsAtomicReport`. The only assumption is `ConstantsAssumption` (the
sentinels differ from each other and from the calls). The safety invariants are
not inductive by themselves. `IInv` adds: a call that has not opened its file is
linked nowhere (`NoFileYet`); a running call's temp name is linked to its file
and to nobody else's (`OwnsTemp`); a file that is being synced is fully written,
and one that is being committed is on the disk (`Written`); the disk never has
more chunks than were written (`DiskBehind`); and whatever `Dest` names, in
memory or on the disk, is complete on the disk (`PublishedOnDisk`). The last one
is why the order of fsync and rename matters, and survives a power loss because
both directories satisfy it. The refinement is proved action by action from
`IInv`: only `Rename` changes what the path shows, only `FlushDir` what the disk
shows, and `PowerLoss` maps to `Outage`.

**`ScanPipelineProofs`** proves all of the module's safety properties, for any
tree, target, seed and changes. `Lateness` strengthens `OverrunAtMostOneFile`: a
file was only late if the budget has run out, and no read is about to start once
one was. `TimedOutIffWorkLeft` and `SingleTargetNeverSkipped` need to know how much
is left. `IInv` says that the lists hold sources and configs (`Lists`), that the
queue is as long as the list of sources whatever the shuffle has exchanged
(`Queued`), that a counter is behind its list by what is still to come
(`Counted`), that `timed_out` is told exactly where the loop was left early
(`Told`), and that a named file is in a list or in a skip count (`Taken`).
`CompleteReportIsTheTree` and `SeedDecidesOrder` are about a tree nobody touches.
Of it discovery has found what is in scope among the paths it has met, and counted
the others (`Discovered`); the queue is a bijection onto the sources at each
exchange (`Ordered`); the n-th finding is of the n-th file read (`Noted`); the
queue is what the draws so far make of the sorted list (`Shuffled`), and no config
is read once a source is left (`OneCut`). What sorting does follows from ranks: in
a finite set of numbers each has a rank of its own (`Ranks`, by counting), so a
list with each file once is sorted to the set in order, whatever order it was in
(`SortsTo`).

**`RuleMatchProofs`** proves `AliasesAreLastBindings`, `FindingsAreExact` and
`NoDoubleReport` for any syntax trees and any catalogs. The walk for imports pushes
children in reverse and so goes through the text in order. `TextOrder` says why:
the stack is decreasing, and holds exactly the nodes not yet reached whose parent
was (`ToCome`). Then `BoundSoFar`: a name is bound iff a clause before this place
binds it, and as the last of them does. The walk for findings goes through the
text in another order, so its invariant says there is a set `W` of nodes it has not
been at, closed under children and with the stack for its roots (`Unvisited`), and
that each other node has its findings once and for each rule (`Reported`). When
the stack is empty, so is `W`: its least node would be on the stack or have a
parent in `W` before it (`AllVisited`).

**`TaintLiteProofs`** proves, for any files and any caps, all of the module's safety
properties, from `ConstantsAssumption` (names are numbers and finitely
many, the caps are positive), `CleanAssumption` (no taint is not an origin) and
`NestingAssumption` (functions are nested as in a tree).
`TraceIsReal` says nothing about what the map holds while it grows, so `IInv`
adds: the file is one of `Files` (`FileKnown`); every name of a chain is itself
tainted (`ChainsTainted`), hence a chain never visits its new end before; the
parameters are in the map (`Seeded`); what is in it is in every closed set
(`Inside`); and while `changed` is false, the map is already closed under the
assignments behind `next` (`QuietPrefix`). At the end of a quiet pass the last
two meet: the map is closed and inside every closed set, so it is the least
(`QuietMeansExact`). For `ShortFlowsFound`, `Layered` says that pass n has all of
layer n - 1, and of layer n what the assignments behind `next` lead to.
`OwnScopeAnswers` holds in every state, by `NestingAssumption`: the functions that a
function is nested in come before it and their lines hold its own (`OuterLines`, from
the least set with the parents, and `OuterBefore`), so each of them with other lines
has a larger span. Where no other lines reach, the smallest span is that of `Sharing`,
the functions with the lines of the innermost one; the first of these is the outermost,
is the only one that `ScopeFor` chooses (`FirstAnswers`), and what it says of two
arguments follows (`OneAnswers`).

**`InventoryProofs`** proves all four properties of the passing runs for
any tree, texts, snapshots and number of changes. A changed file can leave the
parser at any line, so for a named file `IInv` says what holds until then: the lists
are empty and the file at work is the target (`AtWork`, `AtTarget`); after it the
file is in exactly one list (`TakenIn`); and the walk, whose error arm records and
goes on, is never entered (`NoWalk`). For a walk `TreeInv` says: what it has found
is what is there, but for files somebody touched (`Walked`); behind it each file is
in one list, at work, or to come, in path order (`Placed`); and a file is in
`lockfiles` or `errors` as a reading of its whole text decides (`Judged`). The code
reads line by line and the property section by section. `LinesSeen` joins them:
`draft` holds the last value of each key that the lines since the last header have,
and every section closed so far has what a package needs. A position that is last
in its section exists because the positions are finitely many (`LastIn`).
For the packages, `Drafted` counts them while a Cargo.lock is read: a version of a
package is in `parsed` as often as closed sections have it as their last name and
last version, and `draft` has the last value that the open one said. `Counted` is
what holds between files: the report has a package of a lockfile as often as that
lockfile, if it is listed, pins it. Sorting is by rank: `SortedIs` shows that the
items ahead of an item number its place, that no two have one place, and that the
result is a permutation in order, so it changes no count (`CountMoved`).
`HitsAreExact` follows from `Counted`, because a package is pinned exactly if its
count is not zero (`ListedIsPinned`). The proofs use that an object of a
package-lock.json and a list of advisories are finite.

**`SecretsProofs`** proves `TokensAreExact`, `BlocksAreExact`, `EvidenceIsRedacted`
and `NoTokenWithinToken` for any texts, validators and limits. The assumptions are
about the tables: a separator is not in a body, PEM marks are not base64, and a
first segment is no shorter than what is left of the prefix (`eyJ` against ten
bytes). Reading a body keeps what has been read so far (`Candidate`, `Reads`); when
the loop stops, the candidate goes on exactly if the text has a body there
(`Decided`), because two readings of a stretch of bytes stop at the same place
(`SameStop`, `SameEnd`): a token has one end (`OneEnd`). So what is reported is a
token (`Sound`), and where validator `k` has been, no token is left (`Complete`,
`Passed`). For keys, `InLines` says of the lines read so far what `IsBlock` says of
bytes: no run of base64 is too long, a carriage return only stands at the end of a
line (`LineRead`), and a line that is refused breaks one of the two (`LineRefused`).
`KeysApart` and `KeysFound` are about the jump behind a footer: the search is never
within a block that was found, and each block it is behind was found or begins in
one. The four theorems follow from `Sound`, `Complete` and these two; for
`EvidenceIsRedacted` a finding is also tied to what it shows (`KeyOf`: the text from
the marker to the first line break, within the cap, and a tail), so that of a key
that begins behind its header line only the tail is shown.

**`GateProofs`** first proves `CivilDateIsTheDay`: for every day since the epoch,
the arithmetic gives a date of the calendar, and that date is this day. The years
of an era are bounded first (`LeapStep`), then the months counted from March
(`MonthBounds`, `FromMarch`, `UntilMarch`). `DatesFollowDays` follows: the date of
a later day is never earlier (`EarlierCountsLess`), so what has expired stays so.
Then it proves `GateIsExact`, `LapsedEntriesListed` and
`TimeNeverTurnsGreen` for any issues, suppression files, baselines and clocks.
`IInv` is `StateTypes` and `Explained`: a report is the outcome of the inputs that
it remembers, and these were sound. The rest is about one file: among the live
entries that match a finding there is a first one (`FirstOf`, by the least
element of a set of numbers), so entries that come earlier or have expired hide
nothing (`LiveMatchFound`, `MarksAre`). `TimeNeverTurnsGreen` then needs that
"expired" is monotone in the clock, which is `DatesFollowDays`.

**`CliProofs`** proves `RefusedLeavesNothing`, `OnlySourceReportsCompared`,
`GateAgreesWithDiff`, `SarifKeepsFindings` and `EveryCookieGraded` for any sessions,
files, trees, answers and changes by others, and whatever the schema checker answers;
and `ValidateKnowsItsOwn` for a checker that satisfies the equation of `check_value`.
The assumptions say what the instance may be: command lines are as clap admits them
(`SessionsAssumption`; in the same place, a cookie in an answer is a sequence of
segments, each with at most one value), every path holds a document, something written
by hand or nothing of use (`FilesAssumption`), and the findings in a tree are records
with the fields of their structs (`TreesAssumption`). Fields hold what their types
can (`Genuine`): a severity is one that `core.rs` admits, a language is one of the 17,
lines and lengths are integers that fit an i64. A report that stands in a file from
the start is one that some loop3r could have written; a note is any JSON. `Typed` ties each command to its
own steps. A command has changed nothing before it prints (`Clean`), and every
refusal stands before that. A `diff` has no report and at most the old side until it
has read the new one (`OneSide`); each side was a source report at the moment it was
read (`OnlyScansLoad`). The gate works on structs and `diff` on JSON: a
finding has the same fingerprint on both sides (`SecurityPrint`, `SecretPrint`),
and the comparison picks a finding without justification exactly if there is an
open one that the baseline does not know (`GateDecides`). For the exports,
`Exported` says that a rendered SARIF document is the one of the report that the
running command holds, and `Listed` that its lists are lists of findings, through
the marking of suppressions (`MarkedRecords`) and the making of a web report
(`ProbeLists`). Each result then shows its finding, lists of results join as
lists of findings do (`ExportsJoin`), and picking the first of each rule leaves
every rule once (`RulesAre`). For the cookies, `Grades` matches the findings of
a rule with the cookies that call for one, by an increasing bijection: two such lists
one behind the other are one (`GradesJoin`), and so is any number of them
(`GradesFlatten`), so the findings of a probe are those of its cookies, one after the
other, between those of the headers (`WebGraded`, `ProbeGrades`).

`ValidateIsExact` has the hypothesis `CheckerIs`, that `Conforms` is `CheckKeywords`
with `Conforms` for the parts. It is a hypothesis and no assumption of the module
because it speaks of every value, which TLC cannot enumerate; `CheckValue` of `MCCli`
satisfies it by its definition. The schemas have a fixed depth, so the equation is unrolled
along each of them and no induction is needed: what it says of a string, a number, a
list, an option and an object (`CheckedLeaves` to `CheckedObject`), then of each
finding and each report (`CheckedScan`, `CheckedDeps`, `CheckedWeb`, `CheckedDiff`). A
report under the schema of another command lacks a required field
(`OthersRefused`). `AllGenuine` carries the types of the fields from the tree through
every step into the files and back: marking keeps all but the justification, and the
counts of a baseline and of a comparison are sizes of sets of findings, no more than
there are findings (`ValuesFit`, `SummaryFits`, `CompareFits`). `Validated` keeps the
verdict with the file it is about, though that file may change before it is printed.

Where a proof would go by induction over data, it goes by the least counterexample
instead: a set of numbers that is not empty has a least member. That is how
`LayersExist`, `DrawsExist`, `PicksExist` and `JoinsExist` show that a recursive
function is what its definition says, for any number of passes, draws or items.

Only model-checked: `CallReturns`, `ScanEnds`, `AnalysisEnds` and `CommandsEnd`, since
liveness is out of the prover's reach. Every safety invariant and action property of
the passing runs is also a theorem.

## Not modelled

All five commands are modelled. Left out for good: the table of languages and
grammars and tree-sitter (external; a parse is a tree), FNV-1a (fingerprints are
taken to be injective, so that two findings share one is not seen), glob syntax,
clap, URL parsing and HTTP, the tokenizer and marker lists of the taint analysis,
the character level of the parsers, wording, the `0600` mode.
