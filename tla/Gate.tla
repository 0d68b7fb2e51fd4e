-------------------------------- MODULE Gate --------------------------------
(***************************************************************************)
(* `scan` as a CI gate: suppressions (src/src/suppress.rs), the baseline   *)
(* (src/src/diff.rs), the exit code and the summary (src/src/main.rs), run *)
(* again and again while the code, the clock, the suppression file and     *)
(* the baseline change between the runs.                                   *)
(*                                                                         *)
(* An issue is what a scan can find at one place, and is its own           *)
(* fingerprint (src/src/fingerprint.rs): rule, path, line, column, and the *)
(* callee or the hash of the secret.  Moving code or rotating a secret     *)
(* therefore replaces one issue by another.                                *)
(***************************************************************************)
EXTENDS Calendar, Sequences, FiniteSets

CONSTANTS SecurityIssues,   \* what AST rules can find
          SecretIssues,     \* what secret rules can find
          RuleOf, PathOf,   \* issue -> rule, path
          SuppressFiles,    \* the --suppress files that may be in use
          NotGiven,         \* the option is not on the command line
          Malformed,        \* a file that is no JSON, or no report
          Expiries,         \* what `expires` may say
          FirstDay, LastDay,   \* bound: days since the epoch in a behaviour
          MaxChanges        \* bound: changes between scans in a behaviour

Issues == SecurityIssues \union SecretIssues
Paths == {PathOf[i] : i \in Issues}

(* An entry of a suppression file: the paths its glob matches stand for    *)
(* it.  In a sound one no field is empty and the glob compiles.            *)
Entry == [rule_id : {RuleOf[i] : i \in Issues}, path : SUBSET Paths,
          sound : BOOLEAN, expires : Expiries]

ASSUME ConstantsAssumption ==
  /\ SecurityIssues \intersect SecretIssues = {}
  /\ SuppressFiles \subseteq Seq(Entry)
  /\ \A d \in Expiries : d = <<d[1], d[2], d[3]>> /\ {d[1], d[2], d[3]} \subseteq Nat
  /\ {FirstDay, LastDay, MaxChanges} \subseteq Nat
  /\ NotGiven \notin SuppressFiles /\ Malformed \notin SuppressFiles
  /\ \A known \in SUBSET Issues : known # NotGiven /\ known # Malformed
  /\ NotGiven # Malformed

VARIABLES code,      \* the issues that are in the tree
          day,       \* days since the epoch, UTC
          clock,     \* what the machine's clock says: the day, or NoClock
          suppress,  \* what --suppress names
          baseline,  \* what --baseline names: the fingerprints in the report
          changes,   \* changes so far
          last       \* the last scan: its inputs and its outcome

vars == <<code, day, clock, suppress, baseline, changes, last>>

NoScan == [exit |-> -1]

(* A clock before the epoch. *)
NoClock == -1

Init ==
  /\ code \in SUBSET Issues
  /\ day = FirstDay /\ clock = day
  /\ suppress \in SuppressFiles \union {NotGiven}
  /\ baseline = NotGiven
  /\ changes = 0
  /\ last = NoScan

-----------------------------------------------------------------------------
(* suppress.rs *)

Matches(entry, issue) ==
  entry.rule_id = RuleOf[issue] /\ PathOf[issue] \in entry.path

(* load refuses a file with one bad entry. *)
Loads(file) == \A k \in DOMAIN file : file[k].sound /\ file[k].expires \in Dates

(* Bugs: an expired match ends the loop; expired matches are not noted;    *)
(* the comparison of dates is turned round; and only its years are looked  *)
(* at.                                                                     *)
SuppressFirstMatch(file, today, issue) ==
  LET first == {k \in DOMAIN file : /\ Matches(file[k], issue)
                                   /\ \A l \in 1..k - 1 : ~Matches(file[l], issue)}
      live == {k \in first : ~Earlier(file[k].expires, today)}
  IN  [by |-> live, expired |-> {<<file[k].rule_id, file[k].path>> : k \in first \ live}]

SuppressSilently(file, today, issue) ==
  LET live == {k \in DOMAIN file : Matches(file[k], issue) /\ ~Earlier(file[k].expires, today)}
  IN  [by |-> {k \in live : \A l \in live : k <= l}, expired |-> {}]

SuppressBackwards(file, today, issue) ==
  LET live == {k \in DOMAIN file : Matches(file[k], issue) /\ ~Earlier(today, file[k].expires)}
  IN  [by |-> {k \in live : \A l \in live : k <= l}, expired |-> {}]

(* One finding against the entries in file order: expired matches are      *)
(* noted, the first live match ends the loop.                              *)
Suppress(file, today, issue) ==
  LET matching == {k \in DOMAIN file : Matches(file[k], issue)}
      live == {k \in matching : ~Earlier(file[k].expires, today)}
      seen == {k \in matching : \A l \in live : k <= l}
  IN  [by |-> seen \intersect live,
       expired |-> {<<file[k].rule_id, file[k].path>> : k \in seen \ live}]

(* The report's suppression section, and which findings carry a            *)
(* justification.                                                          *)
ApplySuppressions(file, today, findings) ==
  LET each == [i \in findings |-> Suppress(file, today, i)]
      suppressed == {i \in findings : each[i].by # {}}
  IN  [suppressed |-> suppressed,
       applied |-> Cardinality(suppressed),
       expired |-> UNION {each[i].expired : i \in findings}]

-----------------------------------------------------------------------------
(* diff.rs *)

HasUnsuppressedNew(findings, suppressed, known) ==
  \E i \in findings \ suppressed : known = NotGiven \/ i \notin known

-----------------------------------------------------------------------------
(* main.rs *)

(* The outcome of a scan that read the files at `scanned`. *)
Outcome(scanned) ==
  LET findings == {i \in code : PathOf[i] \in scanned}
      marks == IF suppress = NotGiven
                 THEN [suppressed |-> {}, applied |-> 0, expired |-> {}]
                 ELSE ApplySuppressions(suppress, TodayIso(clock), findings)
  IN  [exit |-> IF HasUnsuppressedNew(findings, marks.suppressed, baseline) THEN 1 ELSE 0,
       inputs |-> <<code, scanned, suppress, baseline>>,
       clock |-> clock,
       findings |-> findings,
       marks |-> marks]

(* Broken inputs end the program with 2 before anything is written. *)
InputsBroken ==
  \/ suppress = Malformed \/ baseline = Malformed
  \/ suppress \in SuppressFiles /\ ~Loads(suppress)

ScanRefused ==
  /\ InputsBroken
  /\ last' = [exit |-> 2]
  /\ UNCHANGED <<code, day, clock, suppress, baseline, changes>>

Scan(scanned) ==
  /\ ~InputsBroken
  /\ last' = Outcome(scanned)
  /\ UNCHANGED <<code, day, clock, suppress, baseline, changes>>

HasReport == last.exit \in {0, 1}

(* The last report was saved and is the --baseline of later scans. *)
SaveBaseline ==
  /\ HasReport
  /\ baseline' = last.findings
  /\ UNCHANGED <<code, day, clock, suppress, changes, last>>

Change == changes < MaxChanges /\ changes' = changes + 1

(* A commit adds an issue, removes one, or moves one (code that shifts by  *)
(* a line, a rotated secret).                                              *)
Commit ==
  /\ Change
  /\ \/ \E i \in Issues \ code : code' = code \union {i}
     \/ \E i \in code : code' = code \ {i}
     \/ \E i \in code, j \in Issues \ code :
          RuleOf[i] = RuleOf[j] /\ PathOf[i] = PathOf[j] /\ code' = (code \ {i}) \union {j}
  /\ UNCHANGED <<day, clock, suppress, baseline, last>>

EditSuppressions ==
  /\ Change
  /\ suppress' \in SuppressFiles \union {NotGiven, Malformed}
  /\ UNCHANGED <<code, day, clock, baseline, last>>

BreakBaseline ==
  /\ Change
  /\ baseline' = Malformed
  /\ UNCHANGED <<code, day, clock, suppress, last>>

NextDay ==
  /\ day < LastDay
  /\ day' = day + 1
  /\ clock' = IF clock = NoClock THEN NoClock ELSE day'
  /\ UNCHANGED <<code, suppress, baseline, changes, last>>

(* The clock loses the time, or is set again. *)
ClockFails ==
  /\ Change
  /\ clock' = IF clock = NoClock THEN day ELSE NoClock
  /\ UNCHANGED <<code, day, suppress, baseline, last>>

Next ==
  \/ \E scanned \in SUBSET Paths : Scan(scanned)
  \/ ScanRefused \/ SaveBaseline \/ Commit \/ EditSuppressions \/ BreakBaseline
  \/ NextDay \/ ClockFails

Spec == Init /\ [][Next]_vars

-----------------------------------------------------------------------------
(* What was in use when the last scan ran. *)
LastFile == last.inputs[3]
LastBaseline == last.inputs[4]
LastToday == TodayIso(last.clock)

(* Somebody accepted this finding, and the acceptance still stands. *)
Accepted(issue) ==
  /\ LastFile # NotGiven
  /\ \E k \in DOMAIN LastFile :
       Matches(LastFile[k], issue) /\ ~Earlier(LastFile[k].expires, LastToday)

(* The exit code is 1 exactly when the report has a finding that nobody's  *)
(* live acceptance covers and the baseline does not know, in whatever      *)
(* order the entries stand and however they overlap or have expired.       *)
GateIsExact ==
  HasReport =>
    (last.exit = 1 <=>
       \E i \in last.findings :
         ~Accepted(i) /\ (LastBaseline = NotGiven \/ i \notin LastBaseline))

(* A finding without a justification has no silent entry: each entry that  *)
(* names it is listed as expired.                                          *)
LapsedEntriesListed ==
  HasReport /\ LastFile # NotGiven =>
    \A i \in last.findings \ last.marks.suppressed, k \in DOMAIN LastFile :
      Matches(LastFile[k], i) =>
        <<LastFile[k].rule_id, LastFile[k].path>> \in last.marks.expired

(* Time alone never turns a red build green: the same tree, files and      *)
(* options that gated once gate on every day that is not earlier.          *)
TimeNeverTurnsGreen ==
  [][last.exit = 1 /\ HasReport' /\ last'.inputs = last.inputs /\ last.clock <= last'.clock
       => (last.exit = 1)']_last

-----------------------------------------------------------------------------
(* What a comment says and the code does not do. *)

(* "Clock failures degrade to day zero, which only makes expiries MORE     *)
(* likely to be treated as expired": what gates under a sound clock gates  *)
(* under a failed one.                                                     *)
ClockFailureIsSafe ==
  [][last.exit = 1 /\ HasReport' /\ last'.inputs = last.inputs /\ last'.clock = NoClock
       => (last.exit = 1)']_last

=============================================================================
