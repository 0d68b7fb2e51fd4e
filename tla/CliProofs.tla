------------------------------ MODULE CliProofs ------------------------------
(***************************************************************************)
(* What holds of the command line for all sessions, files and trees: a     *)
(* command that is refused has done nothing, only source reports are       *)
(* compared, the gate agrees with `diff`, a SARIF export loses nothing of  *)
(* its report, every cookie of an answer is graded, and `validate` knows   *)
(* the reports from each other.                                            *)
(***************************************************************************)
EXTENDS Cli, SchemaCheck, FiniteSetTheorems, WellFoundedInduction, TLAPS

(* Which steps a command takes. *)
Steps ==
  [scan |-> {"scan", "suppress", "baseline", "render", "write", "print", "idle"},
   web |-> {"web", "answer", "render", "write", "print", "idle"},
   deps |-> {"deps", "advisories", "render", "write", "print", "idle"},
   diff |-> {"diff", "new", "render", "write", "print", "idle"},
   validate |-> {"validate", "print", "idle"}]

FilesTyped == DOMAIN files = Paths /\ \A p \in Paths : files[p].form \in Contents

CommandTyped ==
  \/ command = Nothing /\ step = "idle" /\ exit = -1 /\ known = <<>>
  \/ CommandLine(command) /\ step \in Steps[command.kind]

Typed ==
  /\ session \in Seq(Offered)
  /\ FilesTyped
  /\ tree \in Trees \union {start.tree : start \in Starts}
  /\ CommandTyped
  /\ step = "write" => document.form \in Contents

(* A command has changed nothing before it prints or has ended. *)
Clean == step \notin {"idle", "print"} => files = before /\ stdout = Nothing

-----------------------------------------------------------------------------
LEMMA WhichCommand ==
  ASSUME CommandTyped, step # "idle"
  PROVE  /\ CommandLine(command) /\ step \in Steps[command.kind]
         /\ command.kind \in {"scan", "web", "deps", "diff", "validate"}
         /\ step \in {"scan", "suppress", "baseline"} => command.kind = "scan"
         /\ step \in {"web", "answer"} => command.kind = "web"
         /\ step \in {"deps", "advisories"} => command.kind = "deps"
         /\ step \in {"diff", "new"} => command.kind = "diff"
         /\ step = "validate" => command.kind = "validate"
         /\ step \in {"render", "write"} => command.kind # "validate"
<1>1. CommandLine(command) /\ step \in Steps[command.kind]
  BY DEF CommandTyped
<1>2. command.kind \in {"scan", "web", "deps", "diff", "validate"}
  BY <1>1 DEF CommandLine
<1>3. CASE command.kind = "scan"
  BY <1>1, <1>3 DEF Steps
<1>4. CASE command.kind = "web"
  BY <1>1, <1>4 DEF Steps
<1>5. CASE command.kind = "deps"
  BY <1>1, <1>5 DEF Steps
<1>6. CASE command.kind = "diff"
  BY <1>1, <1>6 DEF Steps
<1>7. CASE command.kind = "validate"
  BY <1>1, <1>7 DEF Steps
<1> QED BY <1>2, <1>3, <1>4, <1>5, <1>6, <1>7

LEMMA NextStep ==
  ASSUME CommandTyped, step # "idle", UNCHANGED command, NEW next, step' = next,
         next \in Steps[command.kind]
  PROVE  CommandTyped'
BY WhichCommand DEF CommandTyped

(* Every command may end. *)
LEMMA LastStep ==
  ASSUME CommandTyped, step # "idle", UNCHANGED command, step' = "idle"
  PROVE  CommandTyped'
<1>1. command.kind \in {"scan", "web", "deps", "diff", "validate"}
  BY WhichCommand
<1>2. "idle" \in Steps[command.kind]
  BY <1>1 DEF Steps
<1> QED BY <1>2, NextStep

LEMMA InitTyped == Init => Typed
<1> SUFFICES ASSUME Init
             PROVE  Typed
  OBVIOUS
<1>1. PICK start \in Starts :
        files = start.files /\ tree = start.tree /\ session = start.session
  BY DEF Init
<1>2. session \in Seq(Offered)
  BY <1>1, SessionsAssumption
<1>3. FilesTyped
  BY <1>1, FilesAssumption DEF FilesTyped, Genuine
<1>4. CommandTyped /\ step = "idle"
  BY DEF Init, CommandTyped
<1> QED BY <1>1, <1>2, <1>3, <1>4 DEF Typed

LEMMA InvokeTyped ==
  ASSUME Typed, Invoke
  PROVE  Typed' /\ CommandLine(command') /\ step' = command'.kind
<1>1. session \in Seq(Offered) /\ session # <<>>
  BY DEF Typed, Invoke
<1>2. session[1] \in Offered /\ Tail(session) \in Seq(Offered)
  BY <1>1
<1>3. CommandLine(command') /\ step' = command'.kind
  BY <1>2, SessionsAssumption DEF Invoke
<1>4. step' \in Steps[command'.kind] /\ step' # "write"
  BY <1>3 DEF CommandLine, Steps
<1>5. CommandTyped'
  BY <1>3, <1>4 DEF CommandTyped
<1>6. session' \in Seq(Offered) /\ UNCHANGED <<files, tree>>
  BY <1>2 DEF Invoke
<1>7. FilesTyped'
  BY <1>6 DEF Typed, FilesTyped
<1> QED BY <1>3, <1>4, <1>5, <1>6, <1>7 DEF Typed

(* A refusal, and an action that ends elsewhere than in a file.            *)
LEMMA RefuseTyped ==
  ASSUME Typed, step # "idle", UNCHANGED <<session, command>>, Refuse
  PROVE  Typed'
<1>1. CommandTyped'
  BY LastStep DEF Typed, Refuse
<1>2. UNCHANGED <<files, tree, session>> /\ step' # "write"
  BY DEF Refuse, world
<1>3. FilesTyped'
  BY <1>2 DEF Typed, FilesTyped
<1> QED BY <1>1, <1>2, <1>3 DEF Typed

LEMMA ContinueTyped ==
  ASSUME Typed, step # "idle", UNCHANGED <<session, command, files, tree>>,
         NEW next, next # "write", step' = next, next \in Steps[command.kind]
  PROVE  Typed'
<1>1. CommandTyped'
  BY NextStep DEF Typed
<1>2. FilesTyped'
  BY DEF Typed, FilesTyped
<1> QED BY <1>1, <1>2 DEF Typed

(* What a document is when it is rendered. *)
LEMMA RenderTyped ==
  ASSUME Typed, Render
  PROVE  Typed'
<1>1. /\ step = "render" /\ UNCHANGED <<session, command>>
      /\ command.kind \in {"scan", "web", "deps", "diff"} /\ CommandLine(command)
  BY WhichCommand DEF Typed, Render, At
<1>2. CASE Refuse
  BY <1>1, <1>2, RefuseTyped
<1>3. CASE ~Refuse
  <2>1. UNCHANGED <<files, tree>> /\ step' \in {"print", "write"}
    BY <1>3 DEF Render, world
  <2>2. {"print", "write"} \subseteq Steps[command.kind]
    BY <1>1 DEF Steps
  <2>3. CommandTyped'
    BY <1>1, <2>1, <2>2, NextStep DEF Typed
  <2>4. document'.form \in Contents
    <3>1. CASE command.format = "json"
      <4>1. document' \in {[form |-> command.kind, report |-> report]}
        BY <1>3, <3>1 DEF Render
      <4> QED BY <1>1, <4>1 DEF Contents, Forms
    <3>2. CASE command.format = "sarif"
      <4>1. document' \in {[form |-> SarifForm[command.kind], report |-> report]}
        BY <1>3, <3>2 DEF Render
      <4>2. command.kind \in {"scan", "web"}
        BY <1>1, <3>2 DEF CommandLine
      <4> QED BY <4>1, <4>2 DEF Contents, Forms, SarifForm
    <3>3. CASE command.format = "sbom"
      <4>1. document' \in {[form |-> "sbom", report |-> report,
                            timestamp |-> TimestampUtc("time", day)] : day \in Days}
        BY <1>3, <3>3 DEF Render
      <4> QED BY <4>1 DEF Contents, Forms
    <3> QED BY <1>1, <3>1, <3>2, <3>3 DEF CommandLine
  <2>5. FilesTyped'
    BY <2>1 DEF Typed, FilesTyped
  <2> QED BY <1>1, <2>1, <2>3, <2>4, <2>5 DEF Typed
<1> QED BY <1>2, <1>3

LEMMA WriteTyped ==
  ASSUME Typed, Write
  PROVE  Typed'
<1>1. step = "write" /\ UNCHANGED <<session, command, tree>> /\ step' = "print"
  BY DEF Write, At, Continue
<1>2. files' = [files EXCEPT ![command.output[1]] = document]
  BY DEF Write
<1>3. document.form \in Contents /\ FilesTyped
  BY <1>1 DEF Typed
<1>4. FilesTyped'
  BY <1>2, <1>3 DEF FilesTyped
<1>5. CommandTyped'
  <2>1. CommandTyped /\ command.kind \in {"scan", "web", "deps", "diff"}
    BY <1>1, WhichCommand DEF Typed
  <2>2. "print" \in Steps[command.kind]
    BY <2>1 DEF Steps
  <2> QED BY <1>1, <2>1, <2>2, NextStep
<1> QED BY <1>1, <1>4, <1>5 DEF Typed

LEMMA OthersTyped ==
  ASSUME Typed, Others
  PROVE  Typed'
<1>1. UNCHANGED <<session, command, step, exit, known, document>>
  BY DEF Others, run
<1>2. FilesTyped' /\ tree' \in Trees \union {start.tree : start \in Starts}
  <2>1. CASE tree' \in Trees /\ UNCHANGED <<files, before>>
    BY <2>1 DEF Typed, FilesTyped
  <2>2. CASE \E name \in DOMAIN files, content \in Edits :
               /\ files' = [files EXCEPT ![name] = content]
               /\ before' = [before EXCEPT ![name] = content]
               /\ UNCHANGED tree
    <3>1. PICK name \in DOMAIN files, content \in Edits :
                 files' = [files EXCEPT ![name] = content]
      BY <2>2
    <3>2. content.form \in Contents
      BY FilesAssumption DEF Genuine
    <3> QED BY <2>2, <3>1, <3>2 DEF Typed, FilesTyped
  <2> QED BY <2>1, <2>2 DEF Others
<1>3. CommandTyped'
  BY <1>1 DEF Typed, CommandTyped
<1> QED BY <1>1, <1>2, <1>3 DEF Typed

LEMMA NextTyped == Typed /\ [Next]_vars => Typed'
<1> SUFFICES ASSUME Typed, [Next]_vars
             PROVE  Typed'
  OBVIOUS
<1> USE DEF At, Continue, Keep, world, run
<1>1. ASSUME step # "idle"
      PROVE  /\ CommandTyped /\ CommandLine(command)
             /\ command.kind \in {"scan", "web", "deps", "diff", "validate"}
             /\ step \in {"scan", "suppress", "baseline"} => command.kind = "scan"
             /\ step \in {"web", "answer"} => command.kind = "web"
             /\ step \in {"deps", "advisories"} => command.kind = "deps"
             /\ step \in {"diff", "new"} => command.kind = "diff"
             /\ step = "validate" => command.kind = "validate"
  BY <1>1, WhichCommand DEF Typed
<1>2. CASE Invoke
  BY <1>2, InvokeTyped
<1>3. ASSUME Refuse, step # "idle", UNCHANGED <<session, command>>
      PROVE  Typed'
  BY <1>3, RefuseTyped
<1>4. CASE Scan
  <2>1. step = "scan" /\ UNCHANGED <<session, command>>
    BY <1>4 DEF Scan
  <2>2. CASE ~Refuse
    <3>1. step' = "suppress" /\ UNCHANGED <<files, tree>>
      BY <1>4, <2>2 DEF Scan
    <3>2. "suppress" \in Steps[command.kind]
      BY <1>1, <2>1 DEF Steps
    <3> QED BY <2>1, <3>1, <3>2, ContinueTyped
  <2> QED BY <1>3, <2>1, <2>2
<1>5. CASE Suppress
  <2>1. step = "suppress" /\ UNCHANGED <<session, command>>
    BY <1>5 DEF Suppress
  <2>2. CASE ~Refuse
    <3>1. step' = "baseline" /\ UNCHANGED <<files, tree>>
      BY <1>5, <2>2 DEF Suppress
    <3>2. "baseline" \in Steps[command.kind]
      BY <1>1, <2>1 DEF Steps
    <3> QED BY <2>1, <3>1, <3>2, ContinueTyped
  <2> QED BY <1>3, <2>1, <2>2
<1>6. CASE Baseline
  <2>1. step = "baseline" /\ UNCHANGED <<session, command>>
    BY <1>6 DEF Baseline
  <2>2. CASE ~Refuse
    <3>1. step' = "render" /\ UNCHANGED <<files, tree>>
      BY <1>6, <2>2 DEF Baseline
    <3>2. "render" \in Steps[command.kind]
      BY <1>1, <2>1 DEF Steps
    <3> QED BY <2>1, <3>1, <3>2, ContinueTyped
  <2> QED BY <1>3, <2>1, <2>2
<1>7. CASE Probe
  <2>1. step = "web" /\ UNCHANGED <<session, command>>
    BY <1>7 DEF Probe
  <2>2. CASE ~Refuse
    <3>1. step' = "answer" /\ UNCHANGED <<files, tree>>
      BY <1>7, <2>2 DEF Probe
    <3>2. "answer" \in Steps[command.kind]
      BY <1>1, <2>1 DEF Steps
    <3> QED BY <2>1, <3>1, <3>2, ContinueTyped
  <2> QED BY <1>3, <2>1, <2>2
<1>8. CASE Answer
  <2>1. step = "answer" /\ step' = "render" /\ UNCHANGED <<session, command, files, tree>>
    BY <1>8 DEF Answer
  <2>2. "render" \in Steps[command.kind]
    BY <1>1, <2>1 DEF Steps
  <2> QED BY <2>1, <2>2, ContinueTyped
<1>9. CASE NoAnswer
  BY <1>3, <1>9 DEF NoAnswer
<1>10. CASE Deps
  <2>1. step = "deps" /\ UNCHANGED <<session, command>>
    BY <1>10 DEF Deps
  <2>2. CASE ~Refuse
    <3>1. step' = "advisories" /\ UNCHANGED <<files, tree>>
      BY <1>10, <2>2 DEF Deps
    <3>2. "advisories" \in Steps[command.kind]
      BY <1>1, <2>1 DEF Steps
    <3> QED BY <2>1, <3>1, <3>2, ContinueTyped
  <2> QED BY <1>3, <2>1, <2>2
<1>11. CASE Advisories
  <2>1. step = "advisories" /\ UNCHANGED <<session, command>>
    BY <1>11 DEF Advisories
  <2>2. CASE ~Refuse
    <3>1. step' = "render" /\ UNCHANGED <<files, tree>>
      BY <1>11, <2>2 DEF Advisories
    <3>2. "render" \in Steps[command.kind]
      BY <1>1, <2>1 DEF Steps
    <3> QED BY <2>1, <3>1, <3>2, ContinueTyped
  <2> QED BY <1>3, <2>1, <2>2
<1>12. CASE ReadOld
  <2>1. step = "diff" /\ UNCHANGED <<session, command>>
    BY <1>12 DEF ReadOld
  <2>2. CASE ~Refuse
    <3>1. step' = "new" /\ UNCHANGED <<files, tree>>
      BY <1>12, <2>2 DEF ReadOld
    <3>2. "new" \in Steps[command.kind]
      BY <1>1, <2>1 DEF Steps
    <3> QED BY <2>1, <3>1, <3>2, ContinueTyped
  <2> QED BY <1>3, <2>1, <2>2
<1>13. CASE ReadNew
  <2>1. step = "new" /\ UNCHANGED <<session, command>>
    BY <1>13 DEF ReadNew
  <2>2. CASE ~Refuse
    <3>1. step' = "render" /\ UNCHANGED <<files, tree>>
      BY <1>13, <2>2 DEF ReadNew
    <3>2. "render" \in Steps[command.kind]
      BY <1>1, <2>1 DEF Steps
    <3> QED BY <2>1, <3>1, <3>2, ContinueTyped
  <2> QED BY <1>3, <2>1, <2>2
<1>14. CASE Validate
  <2>1. step = "validate" /\ UNCHANGED <<session, command>>
    BY <1>14 DEF Validate
  <2>2. CASE ~Refuse
    <3>1. step' = "print" /\ UNCHANGED <<files, tree>>
      BY <1>14, <2>2 DEF Validate
    <3>2. "print" \in Steps[command.kind]
      BY <1>1, <2>1 DEF Steps
    <3> QED BY <2>1, <3>1, <3>2, ContinueTyped
  <2> QED BY <1>3, <2>1, <2>2
<1>15. CASE Render
  BY <1>15, RenderTyped
<1>16. CASE Write
  BY <1>16, WriteTyped
<1>17. CASE WriteFails
  BY <1>3, <1>17 DEF WriteFails
<1>18. CASE Emit \/ EmitFails
  <2>1. step = "print" /\ step' = "idle" /\ UNCHANGED <<session, command, files, tree>>
    BY <1>18 DEF Emit, EmitFails
  <2>2. "idle" \in Steps[command.kind]
    BY <1>1, <2>1 DEF Steps
  <2> QED BY <2>1, <2>2, ContinueTyped
<1>19. CASE Others
  BY <1>19, OthersTyped
<1>20. CASE UNCHANGED vars
  BY <1>20 DEF vars, Typed, FilesTyped, CommandTyped
<1> QED BY <1>2, <1>4, <1>5, <1>6, <1>7, <1>8, <1>9, <1>10, <1>11, <1>12, <1>13, <1>14,
           <1>15, <1>16, <1>17, <1>18, <1>19, <1>20 DEF Next, Program

-----------------------------------------------------------------------------
(* Every step of a command but the last two leaves the world and the       *)
(* output alone.                                                           *)
LEMMA NextClean ==
  ASSUME Typed, Clean, RefusedLeavesNothing, [Next]_vars
  PROVE  Clean' /\ RefusedLeavesNothing'
<1> USE DEF At, Continue, Keep, world, run
<1>1. ASSUME step \notin {"idle", "print"}, Refuse
      PROVE  Clean' /\ RefusedLeavesNothing'
  BY <1>1 DEF Clean, RefusedLeavesNothing, Refuse
<1>2. ASSUME step \notin {"idle", "print"}, UNCHANGED <<files, before, stdout>>, step' # "idle"
      PROVE  Clean' /\ RefusedLeavesNothing'
  BY <1>2 DEF Clean, RefusedLeavesNothing
<1>3. CASE Invoke
  <2>1. /\ UNCHANGED files /\ before' = files /\ stdout' = Nothing /\ step' = command'.kind
    BY <1>3 DEF Invoke
  <2>2. CommandLine(command')
    BY <1>3, InvokeTyped
  <2>3. step' # "idle"
    BY <2>1, <2>2 DEF CommandLine
  <2> QED BY <2>1, <2>3 DEF Clean, RefusedLeavesNothing
<1>4. CASE Scan \/ Suppress \/ Baseline
  BY <1>1, <1>2, <1>4 DEF Scan, Suppress, Baseline
<1>5. CASE Probe \/ Answer \/ NoAnswer
  BY <1>1, <1>2, <1>5 DEF Probe, Answer, NoAnswer
<1>6. CASE Deps \/ Advisories
  BY <1>1, <1>2, <1>6 DEF Deps, Advisories
<1>7. CASE ReadOld \/ ReadNew \/ Validate
  BY <1>1, <1>2, <1>7 DEF ReadOld, ReadNew, Validate
<1>8. CASE Render
  <2>1. CASE Refuse
    BY <1>1, <1>8, <2>1 DEF Render
  <2>2. CASE ~Refuse
    <3>1. step = "render" /\ UNCHANGED <<files, before, stdout>> /\ step' \in {"print", "write"}
      BY <1>8, <2>2 DEF Render
    <3> QED BY <1>2, <3>1
  <2> QED BY <2>1, <2>2
<1>9. CASE Write
  BY <1>9 DEF Write, Clean, RefusedLeavesNothing
<1>10. CASE WriteFails
  BY <1>1, <1>10 DEF WriteFails
<1>11. CASE Emit
  <2>1. step' = "idle" /\ exit' = ExitCode
    BY <1>11 DEF Emit
  <2>2. ExitCode \in {0, 1}
    BY DEF ExitCode
  <2> QED BY <2>1, <2>2 DEF Clean, RefusedLeavesNothing
<1>12. CASE EmitFails
  BY <1>12 DEF EmitFails, Clean, RefusedLeavesNothing
<1>13. CASE Others
  <2>1. UNCHANGED <<step, exit, stdout>>
    BY <1>13 DEF Others
  <2>2. files = before => files' = before'
    <3>1. CASE UNCHANGED <<files, before>>
      BY <3>1
    <3>2. CASE \E name \in DOMAIN files, content \in Edits :
                 /\ files' = [files EXCEPT ![name] = content]
                 /\ before' = [before EXCEPT ![name] = content]
      BY <3>2
    <3> QED BY <1>13, <3>1, <3>2 DEF Others
  <2> QED BY <2>1, <2>2 DEF Clean, RefusedLeavesNothing
<1>14. CASE UNCHANGED vars
  BY <1>14 DEF vars, Clean, RefusedLeavesNothing
<1> QED BY <1>3, <1>4, <1>5, <1>6, <1>7, <1>8, <1>9, <1>10, <1>11, <1>12, <1>13, <1>14
        DEF Next, Program

(* Whatever the session, the files and the tree, a command that is refused *)
(* or fails has written no file and printed nothing.                       *)
THEOREM RefusalsAreClean == Spec => []RefusedLeavesNothing
<1> DEFINE Inv == Typed /\ Clean /\ RefusedLeavesNothing
<1>1. Init => Inv
  BY InitTyped DEF Init, Clean, RefusedLeavesNothing
<1>2. Inv /\ [Next]_vars => Inv'
  BY NextTyped, NextClean
<1>3. Inv => RefusedLeavesNothing
  OBVIOUS
<1> QED BY <1>1, <1>2, <1>3, PTL DEF Spec

-----------------------------------------------------------------------------
(* Of all that may stand in a file, load_findings takes only a scan report *)
(* or something written by hand.                                           *)
LEMMA OnlyScansLoad ==
  ASSUME NEW content, content.form \in Contents, Comparable(content)
  PROVE  content.form \in {"scan", "note"}
<1>1. IsJson(content) /\ Loads(Value(content))
  BY DEF Comparable
<1>2. /\ Has(Value(content), "schema_version")
      /\ Has(Value(content), "security_findings") \/ Has(Value(content), "secret_findings")
  BY <1>1 DEF Loads
<1> USE DEF Has, Object
<1>3. content.form # "web"
  BY <1>2 DEF Value, WebReport
<1>4. content.form # "deps"
  BY <1>2 DEF Value, DepsReport
<1>5. content.form # "diff"
  BY <1>2 DEF Value, DiffReport
<1>6. content.form # "scan-sarif"
  BY <1>2 DEF Value, SourceToSarif, SarifRun
<1>7. content.form # "web-sarif"
  BY <1>2 DEF Value, WebToSarif, SarifRun
<1>8. content.form # "sbom"
  BY <1>2 DEF Value, DepsToCyclonedx
<1>9. content.form \notin {"suppressions", "advisories"}
  BY <1>2 DEF Value
<1>10. content.form \notin {"absent", "garbage"}
  BY <1>1 DEF IsJson
<1> QED BY <1>3, <1>4, <1>5, <1>6, <1>7, <1>8, <1>9, <1>10 DEF Contents, Forms

(* A diff has no report before it has read both sides. *)
OneSide ==
  /\ step \in {"diff", "new"} => report = Nothing
  /\ step = "new" => known = <<known[1]>>

LEMMA NextOneSide ==
  ASSUME Typed, OneSide, [Next]_vars
  PROVE  OneSide'
<1> USE DEF At, Continue, Keep, world, run
<1>1. ASSUME step' \notin {"diff", "new"}
      PROVE  OneSide'
  BY <1>1 DEF OneSide
<1>2. ASSUME UNCHANGED <<step, report, known>>
      PROVE  OneSide'
  BY <1>2 DEF OneSide
<1>3. CASE Invoke
  <2>1. step' = command'.kind /\ CommandLine(command')
    BY <1>3, InvokeTyped
  <2>2. step' # "new" /\ report' = Nothing
    BY <1>3, <2>1 DEF Invoke, CommandLine
  <2> QED BY <2>2 DEF OneSide
<1>4. CASE ReadOld /\ ~Refuse
  <2>1. step = "diff" /\ report' = report /\ known' = <<files[command.old]>>
    BY <1>4 DEF ReadOld
  <2> QED BY <2>1 DEF OneSide
<1>5. CASE Refuse
  BY <1>1, <1>5 DEF Refuse
<1>6. CASE Program /\ ~ReadOld /\ ~Refuse
  <2>1. step' \notin {"diff", "new"}
    BY <1>6 DEF Program, Scan, Suppress, Baseline, Probe, Answer, NoAnswer, Deps, Advisories,
                ReadNew, Validate, Render, Write, WriteFails, Emit, EmitFails
  <2> QED BY <1>1, <2>1
<1>7. CASE Others
  BY <1>2, <1>7 DEF Others
<1>8. CASE UNCHANGED vars
  BY <1>2, <1>8 DEF vars
<1> QED BY <1>3, <1>4, <1>5, <1>6, <1>7, <1>8 DEF Next

LEMMA NextCompared ==
  ASSUME Typed, OneSide, OnlySourceReportsCompared, [Next]_vars
  PROVE  OnlySourceReportsCompared'
<1> USE DEF At, Continue, Keep, world, run
<1>1. ASSUME UNCHANGED <<known, command>>, report' = report \/ command.kind # "diff"
      PROVE  OnlySourceReportsCompared'
  BY <1>1 DEF OnlySourceReportsCompared
<1>2. ASSUME NEW p \in Paths, Comparable(files[p])
      PROVE  files[p].form \in {"scan", "note"}
  <2>1. files[p].form \in Contents
    BY DEF Typed, FilesTyped
  <2> QED BY <1>2, <2>1, OnlyScansLoad
<1>3. CASE Invoke
  BY <1>3 DEF Invoke, OnlySourceReportsCompared
<1>4. CASE (ReadOld \/ ReadNew) /\ Refuse
  <2>1. UNCHANGED <<known, report, command>>
    BY <1>4 DEF ReadOld, ReadNew, Refuse
  <2> QED BY <1>1, <2>1
<1>5. CASE Scan \/ Suppress
  <2>1. UNCHANGED <<known, command>> /\ step \in {"scan", "suppress"}
    BY <1>5 DEF Scan, Suppress, Refuse
  <2>2. command.kind = "scan"
    BY <2>1, WhichCommand DEF Typed
  <2> QED BY <1>1, <2>1, <2>2
<1>6. CASE Probe \/ Answer \/ NoAnswer \/ Deps \/ Advisories
  <2>1. /\ UNCHANGED <<known, command>>
        /\ step \in {"web", "answer", "deps", "advisories"}
    BY <1>6 DEF Probe, Answer, NoAnswer, Deps, Advisories, Refuse
  <2>2. command.kind \in {"web", "deps"}
    BY <2>1, WhichCommand DEF Typed
  <2> QED BY <1>1, <2>1, <2>2
<1>7. CASE Baseline
  <2>1. CommandLine(command) /\ command.kind = "scan" /\ UNCHANGED command
    BY <1>7, WhichCommand DEF Baseline, Typed
  <2>2. CASE UNCHANGED known
    BY <1>1, <2>1, <2>2
  <2>3. CASE ~UNCHANGED known
    <3>1. command.baseline # <<>> /\ Comparable(files[command.baseline[1]])
          /\ known' = <<files[command.baseline[1]]>>
      BY <1>7, <2>3 DEF Baseline, Refuse
    <3>2. command.baseline[1] \in Paths
      BY <2>1, <3>1 DEF CommandLine, Option
    <3>3. files[command.baseline[1]].form \in {"scan", "note"}
      BY <1>2, <3>1, <3>2
    <3> QED BY <2>1, <3>1, <3>3 DEF OnlySourceReportsCompared
  <2> QED BY <2>2, <2>3
<1>8. CASE ReadOld /\ ~Refuse
  <2>1. CommandLine(command) /\ command.kind = "diff"
    BY <1>8, WhichCommand DEF ReadOld, Typed
  <2>2. command.old \in Paths
    BY <2>1 DEF CommandLine
  <2>3. /\ Comparable(files[command.old]) /\ known' = <<files[command.old]>>
        /\ report' = Nothing
    BY <1>8 DEF ReadOld, OneSide
  <2>4. files[command.old].form \in {"scan", "note"}
    BY <1>2, <2>2, <2>3
  <2> QED BY <2>3, <2>4 DEF OnlySourceReportsCompared
<1>9. CASE ReadNew /\ ~Refuse
  <2>1. CommandLine(command) /\ command.kind = "diff"
    BY <1>9, WhichCommand DEF ReadNew, Typed
  <2>2. command.new \in Paths
    BY <2>1 DEF CommandLine
  <2> DEFINE old == known[1]
             new == files[command.new]
  <2>3. Comparable(new) /\ known = <<old>> /\ known' = Append(known, new)
    BY <1>9 DEF ReadNew, OneSide
  <2>4. new.form \in {"scan", "note"}
    BY <1>2, <2>2, <2>3
  <2>5. old.form \in {"scan", "note"}
    BY <2>1, <2>3 DEF OnlySourceReportsCompared
  <2> HIDE DEF old, new
  <2>6. /\ Len(known') = 2 /\ DOMAIN known' = 1..2
        /\ known'[1] = old /\ known'[2] = new
    <3>1. <<old>> \in Seq({old, new}) /\ new \in {old, new}
      OBVIOUS
    <3> QED BY <2>3, <3>1
  <2> QED BY <2>4, <2>5, <2>6 DEF OnlySourceReportsCompared
<1>10. CASE Validate
  <2>1. command.kind = "validate" /\ UNCHANGED command
    BY <1>10, WhichCommand DEF Validate, Typed
  <2> QED BY <2>1 DEF OnlySourceReportsCompared
<1>11. CASE Render
  <2>1. UNCHANGED <<known, command, report>>
    BY <1>11 DEF Render, Refuse
  <2> QED BY <1>1, <2>1
<1>12. CASE Write \/ WriteFails \/ Emit \/ EmitFails
  BY <1>1, <1>12 DEF Write, WriteFails, Emit, EmitFails, Refuse
<1>13. CASE Others
  BY <1>1, <1>13 DEF Others
<1>14. CASE UNCHANGED vars
  BY <1>1, <1>14 DEF vars
<1> QED BY <1>3, <1>4, <1>5, <1>6, <1>7, <1>8, <1>9, <1>10, <1>11, <1>12, <1>13, <1>14
        DEF Next, Program

(* No file that loop3r itself writes, but a source report, is ever taken   *)
(* for a baseline or for either side of a comparison, and there is no      *)
(* comparison before both sides are known to be source reports.            *)
THEOREM OnlyReportsAreCompared == Spec => []OnlySourceReportsCompared
<1> DEFINE Inv == Typed /\ OneSide /\ OnlySourceReportsCompared
<1>1. Init => Inv
  BY InitTyped DEF Init, OneSide, OnlySourceReportsCompared
<1>2. Inv /\ [Next]_vars => Inv'
  BY NextTyped, NextOneSide, NextCompared
<1>3. Inv => OnlySourceReportsCompared
  OBVIOUS
<1> QED BY <1>1, <1>2, <1>3, PTL DEF Spec

-----------------------------------------------------------------------------
(* What is picked from a list.  The selection exists: of the lengths for   *)
(* which it does not, the least would have a predecessor.                  *)
Picks(g, items, places, m) ==
  g = [n \in 0..m |-> IF n = 0 THEN <<>>
                      ELSE IF n \in places THEN Append(g[n - 1], items[n]) ELSE g[n - 1]]

LEMMA LeastOf ==
  ASSUME NEW S \in SUBSET Nat, S # {}
  PROVE  \E m \in S : \A k \in S : m <= k
<1>1. PICK m \in S : \A k \in S : ~(<<k, m>> \in OpToRel(<, Nat))
  BY NatLessThanWellFounded, WFMin
<1>2. \A k \in S : m \in Nat /\ k \in Nat /\ ~(k < m)
  BY <1>1 DEF OpToRel
<1> QED BY <1>2

LEMMA PicksExist ==
  ASSUME NEW items, NEW places, NEW m \in Nat
  PROVE  \E g : Picks(g, items, places, m)
<1> DEFINE R(s, n) == IF n \in places THEN Append(s, items[n]) ELSE s
           After(g, l) == g = [n \in 0..l |-> IF n = 0 THEN <<>> ELSE R(g[n - 1], n)]
           without == {l \in Nat : ~\E g : After(g, l)}
<1> SUFFICES ASSUME without # {}
             PROVE  FALSE
  BY DEF Picks
<1>1. PICK l \in without : \A k \in without : l <= k
  BY LeastOf
<1> HIDE DEF R
<1>2. l # 0
  <2> SUFFICES ASSUME l = 0
               PROVE  FALSE
    OBVIOUS
  <2> DEFINE g == [n \in 0..0 |-> <<>>]
  <2>1. g = [n \in 0..0 |-> IF n = 0 THEN <<>> ELSE R(g[n - 1], n)]
    OBVIOUS
  <2>2. After(g, 0)
    BY <2>1
  <2> HIDE DEF g, After
  <2> QED BY <2>2
<1>3. l - 1 \in Nat /\ l \in Nat /\ l - 1 \notin without
  <2>1. l \in Nat
    BY <1>1
  <2>2. l - 1 \in Nat /\ ~(l <= l - 1)
    BY <1>2, <2>1
  <2> HIDE DEF without
  <2> QED BY <1>1, <2>1, <2>2
<1>4. PICK h : After(h, l - 1)
  BY <1>3
<1> DEFINE g == [n \in 0..l |-> IF n = l THEN R(h[l - 1], l) ELSE h[n]]
<1>5. ASSUME NEW n \in 0..l
      PROVE  g[n] = IF n = 0 THEN <<>> ELSE R(g[n - 1], n)
  <2>1. CASE n = l
    <3>1. l # 0 /\ l - 1 \in 0..l /\ l - 1 # l /\ l \in 0..l
      BY <1>2, <1>3
    <3>2. g[l - 1] = h[l - 1] /\ g[l] = R(h[l - 1], l)
      BY <3>1
    <3> HIDE DEF g
    <3> QED BY <2>1, <3>1, <3>2
  <2>2. CASE n # l
    <3>1. n \in 0..l - 1 /\ g[n] = h[n]
      BY <1>3, <2>2
    <3>2. h[n] = IF n = 0 THEN <<>> ELSE R(h[n - 1], n)
      BY <1>4, <3>1
    <3>3. n # 0 => n - 1 \in 0..l /\ n - 1 # l
      BY <1>3, <3>1
    <3>4. n # 0 => g[n - 1] = h[n - 1]
      BY <3>3
    <3> HIDE DEF g
    <3> QED BY <3>1, <3>2, <3>4
  <2> QED BY <2>1, <2>2
<1>6. After(g, l)
  BY <1>5
<1> HIDE DEF g
<1>7. ~\E p : After(p, l)
  BY <1>1
<1> HIDE DEF After
<1> QED BY <1>6, <1>7

LEMMA RangeOfAppend ==
  ASSUME NEW S, NEW s \in Seq(S), NEW x \in S
  PROVE  /\ Append(s, x) \in Seq(S) /\ Range(Append(s, x)) = Range(s) \union {x}
         /\ Len(Append(s, x)) = Len(s) + 1
<1>1. /\ Append(s, x) \in Seq(S) /\ Len(Append(s, x)) = Len(s) + 1 /\ Len(s) \in Nat
      /\ DOMAIN s = 1..Len(s) /\ DOMAIN Append(s, x) = 1..Len(s) + 1
  OBVIOUS
<1>2. \A i \in 1..Len(s) : Append(s, x)[i] = s[i]
  OBVIOUS
<1>3. Append(s, x)[Len(s) + 1] = x
  OBVIOUS
<1> DEFINE t == Append(s, x)
           n == Len(s)
<1> HIDE DEF t, n
<1>4. /\ n \in Nat /\ DOMAIN s = 1..n /\ DOMAIN t = 1..n + 1
      /\ \A i \in 1..n : t[i] = s[i]
      /\ t[n + 1] = x
  BY <1>1, <1>2, <1>3 DEF t, n
<1>5. Range(t) = Range(s) \union {x}
  BY ONLY <1>4 DEF Range
<1> QED BY <1>1, <1>5 DEF t

(* Exactly the items at the places are picked, one for each place.         *)
LEMMA PickedAre ==
  ASSUME NEW S, NEW items \in Seq(S), NEW places \in SUBSET (1..Len(items))
  PROVE  /\ Picked(items, places) \in Seq(S)
         /\ Range(Picked(items, places)) = {items[n] : n \in places}
         /\ Len(Picked(items, places)) = Cardinality(places)
<1> DEFINE m == Len(items)
           upto(l) == {k \in 1..l : k \in places}
           values(l) == {items[n] : n \in upto(l)}
<1>1. m \in Nat /\ \A n \in 1..m : items[n] \in S
  OBVIOUS
<1>2. PICK g : Picks(g, items, places, m) /\ g[m] = Picked(items, places)
  <2> DEFINE B == CHOOSE g : Picks(g, items, places, m)
  <2>1. Picked(items, places) = B[m]
    BY DEF Picked, Picks
  <2>2. \E g : Picks(g, items, places, m)
    BY <1>1, PicksExist
  <2>3. Picks(B, items, places, m)
    BY <2>2
  <2> QED BY <2>1, <2>3
<1> DEFINE good(l) == /\ g[l] \in Seq(S) /\ Range(g[l]) = values(l)
                      /\ IsFiniteSet(upto(l)) /\ Len(g[l]) = Cardinality(upto(l))
           bad == {l \in 0..m : ~good(l)}
<1>3. good(0)
  <2>1. g[0] = <<>>
    BY <1>1, <1>2 DEF Picks
  <2>2. upto(0) = {}
    OBVIOUS
  <2>3. <<>> \in Seq(S) /\ Len(<<>>) = 0 /\ Range(<<>>) = {}
    BY DEF Range
  <2> HIDE DEF upto
  <2>4. values(0) = {}
    BY <2>2
  <2> QED BY <2>1, <2>2, <2>3, <2>4, FS_EmptySet
<1>4. ASSUME NEW l \in 1..m, good(l - 1)
      PROVE  good(l)
  <2>1. g[l] = IF l \in places THEN Append(g[l - 1], items[l]) ELSE g[l - 1]
    <3>1. l \in 0..m /\ l # 0
      BY <1>1
    <3>2. g = [n \in 0..m |-> IF n = 0 THEN <<>>
                              ELSE IF n \in places THEN Append(g[n - 1], items[n])
                              ELSE g[n - 1]]
      BY <1>2 DEF Picks
    <3> HIDE DEF m
    <3> QED BY ONLY <3>1, <3>2
  <2>2. l \in Nat /\ l - 1 \in Nat /\ 1..l = 1..l - 1 \union {l} /\ l \notin 1..l - 1
    BY <1>1
  <2>3. CASE l \notin places
    <3>1. upto(l) = upto(l - 1)
      BY <2>2, <2>3
    <3> HIDE DEF upto
    <3> QED BY <1>4, <2>1, <2>3, <3>1
  <2>4. CASE l \in places
    <3>1. upto(l) = upto(l - 1) \union {l} /\ l \notin upto(l - 1)
      BY <2>2, <2>4
    <3> HIDE DEF upto
    <3>2. values(l) = values(l - 1) \union {items[l]}
      BY <3>1
    <3>3. items[l] \in S /\ g[l] = Append(g[l - 1], items[l]) /\ g[l - 1] \in Seq(S)
      BY <1>1, <1>4, <2>1, <2>4
    <3>4. /\ g[l] \in Seq(S) /\ Range(g[l]) = Range(g[l - 1]) \union {items[l]}
          /\ Len(g[l]) = Len(g[l - 1]) + 1
      BY ONLY <3>3, RangeOfAppend
    <3>5. IsFiniteSet(upto(l)) /\ Cardinality(upto(l)) = Cardinality(upto(l - 1)) + 1
      BY <1>4, <3>1, FS_AddElement, SMTT(30)
    <3> QED BY <1>4, <3>2, <3>4, <3>5
  <2> QED BY <2>3, <2>4
<1>5. bad = {}
  <2> SUFFICES ASSUME bad # {}
               PROVE  FALSE
    OBVIOUS
  <2> HIDE DEF good
  <2>1. PICK l \in bad : \A k \in bad : l <= k
    <3>1. bad \in SUBSET Nat
      BY <1>1
    <3> QED BY <3>1, LeastOf
  <2>2. l \in 0..m /\ ~good(l) /\ l # 0
    BY <1>3, <2>1
  <2>3. l \in 1..m /\ l - 1 \in 0..m /\ ~(l <= l - 1)
    BY <1>1, <2>2
  <2>4. good(l - 1)
    BY <2>1, <2>3
  <2> QED BY <1>4, <2>2, <2>3, <2>4
<1>6. good(m)
  <2> HIDE DEF good
  <2> QED BY <1>1, <1>5
<1>7. upto(m) = places
  OBVIOUS
<1> HIDE DEF upto
<1> QED BY <1>2, <1>6, <1>7

-----------------------------------------------------------------------------
LEMMA TextOfField ==
  ASSUME NEW v, v.kind = "object"
  PROVE  \A key \in DOMAIN v.fields : \A x : v.fields[key] = String(x) => TextOf(v, key) = x
BY DEF TextOf, Has, Get, String

LEMMA NumberOfField ==
  ASSUME NEW v, v.kind = "object"
  PROVE  \A key \in DOMAIN v.fields : \A x : v.fields[key] = Number(x) => NumberOf(v, key) = x
BY DEF NumberOf, Has, Get, Number

(* The fingerprint of a finding is that of its JSON object, which has a    *)
(* null exactly if the finding has no justification.                       *)
LEMMA SecurityPrint ==
  ASSUME NEW f
  PROVE  /\ SecurityLike(SecurityFinding(f)) = SecurityFingerprint(f)
         /\ Get(SecurityFinding(f), "suppressed") = Null <=> f.suppressed = <<>>
<1> DEFINE v == SecurityFinding(f)
<1>1. /\ v.kind = "object"
      /\ {"rule_id", "path", "line", "column", "callee", "suppressed"} \subseteq DOMAIN v.fields
  BY DEF SecurityFinding, Object
<1>2. /\ v.fields.rule_id = String(f.rule_id) /\ v.fields.path = String(f.path)
      /\ v.fields.line = Number(f.line) /\ v.fields.column = Number(f.column)
      /\ v.fields.callee = String(f.callee)
      /\ v.fields.suppressed = Optional(f.suppressed, Suppressed)
  BY DEF SecurityFinding, Object
<1> HIDE DEF v
<1>3. SecurityLike(v) = SecurityFingerprint(f)
  <2>1. /\ TextOf(v, "rule_id") = f.rule_id /\ TextOf(v, "path") = f.path
        /\ TextOf(v, "callee") = f.callee
    BY <1>1, <1>2, TextOfField
  <2>2. NumberOf(v, "line") = f.line /\ NumberOf(v, "column") = f.column
    BY <1>1, <1>2, NumberOfField
  <2> QED BY <2>1, <2>2 DEF SecurityLike, Fingerprint, SecurityFingerprint
<1>4. v.fields.suppressed = Null <=> f.suppressed = <<>>
  BY <1>2 DEF Optional, Suppressed, Object, Null
<1> QED BY <1>3, <1>4 DEF v, Get

LEMMA SecretPrint ==
  ASSUME NEW f
  PROVE  /\ SecretLike(SecretFinding(f)) = SecretFingerprint(f)
         /\ Get(SecretFinding(f), "suppressed") = Null <=> f.suppressed = <<>>
<1> DEFINE v == SecretFinding(f)
<1>1. /\ v.kind = "object"
      /\ {"rule_id", "path", "line", "column", "fingerprint", "suppressed"} \subseteq DOMAIN v.fields
  BY DEF SecretFinding, Object
<1>2. /\ v.fields.rule_id = String(f.rule_id) /\ v.fields.path = String(f.path)
      /\ v.fields.line = Number(f.line) /\ v.fields.column = Number(f.column)
      /\ v.fields.fingerprint = String(f.fingerprint)
      /\ v.fields.suppressed = Optional(f.suppressed, Suppressed)
  BY DEF SecretFinding, Object
<1> HIDE DEF v
<1>3. SecretLike(v) = SecretFingerprint(f)
  <2>1. /\ TextOf(v, "rule_id") = f.rule_id /\ TextOf(v, "path") = f.path
        /\ TextOf(v, "fingerprint") = f.fingerprint
    BY <1>1, <1>2, TextOfField
  <2>2. NumberOf(v, "line") = f.line /\ NumberOf(v, "column") = f.column
    BY <1>1, <1>2, NumberOfField
  <2> QED BY <2>1, <2>2 DEF SecretLike, Fingerprint, SecretFingerprint
<1>4. v.fields.suppressed = Null <=> f.suppressed = <<>>
  BY <1>2 DEF Optional, Suppressed, Object, Null
<1> QED BY <1>3, <1>4 DEF v, Get

(* The lists of the JSON report are those of the scan.                     *)
LEMMA ListsOfScan ==
  ASSUME NEW r
  PROVE  /\ Security(ScanReport(r))
              = [i \in DOMAIN r.security_findings |-> SecurityFinding(r.security_findings[i])]
         /\ Secrets(ScanReport(r))
              = [i \in DOMAIN r.secret_findings |-> SecretFinding(r.secret_findings[i])]
<1> DEFINE v == ScanReport(r)
<1>1. /\ v.kind = "object"
      /\ {"security_findings", "secret_findings"} \subseteq DOMAIN v.fields
      /\ v.fields.security_findings = ArrayOf(r.security_findings, SecurityFinding)
      /\ v.fields.secret_findings = ArrayOf(r.secret_findings, SecretFinding)
  BY DEF ScanReport, Object
<1> HIDE DEF v
<1> QED BY <1>1 DEF v, Security, Secrets, ListOf, Has, Get, ArrayOf, Array

(* Somebody has to look at one of these.                                   *)
Open(items) == \E i \in DOMAIN items : Get(items[i], "suppressed") = Null

LEMMA OpenBeyond ==
  ASSUME NEW items, items \in Seq(Range(items)), NEW prints, NEW seen
  PROVE  Open(Beyond(items, prints, seen)) <=>
           \E i \in DOMAIN items : prints[i] \notin seen /\ Get(items[i], "suppressed") = Null
<1> DEFINE B == Beyond(items, prints, seen)
<1>1. Range(B) = {items[n] : n \in {k \in 1..Len(items) : prints[k] \notin seen}}
  <2>1. {n \in DOMAIN items : prints[n] \notin seen} \in SUBSET (1..Len(items))
    OBVIOUS
  <2>2. Range(B) = {items[n] : n \in {k \in DOMAIN items : prints[k] \notin seen}}
    BY <2>1, PickedAre DEF Beyond
  <2> QED BY <2>2
<1>2. DOMAIN items = 1..Len(items)
  OBVIOUS
<1> HIDE DEF B
<1>3. Open(B) <=> \E x \in Range(B) : Get(x, "suppressed") = Null
  BY DEF Open, Range
<1> QED BY <1>1, <1>2, <1>3 DEF B

LEMMA Mapped ==
  ASSUME NEW s, s \in Seq(Range(s)), NEW t, t = [i \in DOMAIN s |-> t[i]]
  PROVE  t \in Seq(Range(t))
<1>1. DOMAIN s = 1..Len(s) /\ Len(s) \in Nat
  OBVIOUS
<1>2. \A i \in 1..Len(s) : t[i] \in Range(t)
  BY <1>1 DEF Range
<1>3. t = [i \in 1..Len(s) |-> t[i]]
  BY <1>1
<1> QED BY <1>1, <1>2, <1>3

-----------------------------------------------------------------------------
(* The report of a scan or of a probe has its lists, whatever was done to  *)
(* it so far.                                                              *)
IsScan(r) ==
  /\ {"security_findings", "secret_findings", "syntax_findings", "seed", "scope", "baseline",
       "suppressions"} \subseteq DOMAIN r
  /\ Records(r.security_findings, SecurityFields)
  /\ Records(r.secret_findings, SecretFields)
  /\ Records(r.syntax_findings, SyntaxFields)

WebFields == {"rule_id", "severity", "cookie", "confidence"}

IsWeb(r) == Records(r.findings, WebFields)

Fits(c, r) == (c.kind = "scan" => IsScan(r)) /\ (c.kind = "web" => IsWeb(r))

Listed ==
  /\ step \in {"suppress", "baseline"} => IsScan(report)
  /\ step \in {"render", "write", "print"} => Fits(command, report)

LEMMA MarkedRecords ==
  ASSUME NEW list, NEW fields, NEW accepts, Records(list, fields)
  PROVE  Records(Marked(list, accepts), fields)
<1> DEFINE marked == Marked(list, accepts)
<1>1. marked = [i \in DOMAIN list |-> marked[i]] /\ DOMAIN marked = DOMAIN list
  BY DEF Marked
<1>2. \A i \in DOMAIN list : list[i] \in Range(list)
  BY DEF Range
<1>3. \A i \in DOMAIN list : DOMAIN marked[i] = fields
  BY <1>2 DEF Marked, Records
<1> HIDE DEF marked
<1>4. marked \in Seq(Range(marked))
  BY <1>1, Mapped DEF Records
<1>5. \A item \in Range(marked) : DOMAIN item = fields
  BY <1>1, <1>3 DEF Range
<1>6. Records(marked, fields)
  BY <1>4, <1>5 DEF Records
<1> QED BY <1>6 DEF marked

(* A concatenation of lists exists and is a list.                          *)
Joins(g, ss, m) == g = [i \in 1..m |-> IF i = 1 THEN ss[i] ELSE g[i - 1] \o ss[i]]

LEMMA JoinsExist ==
  ASSUME NEW ss, NEW m \in Nat
  PROVE  \E g : Joins(g, ss, m)
<1> DEFINE R(s, i) == s \o ss[i]
           After(g, l) == g = [i \in 1..l |-> IF i = 1 THEN ss[i] ELSE R(g[i - 1], i)]
           without == {l \in Nat : ~\E g : After(g, l)}
<1> SUFFICES ASSUME without # {}
             PROVE  FALSE
  BY DEF Joins
<1>1. PICK l \in without : \A k \in without : l <= k
  BY LeastOf
<1> HIDE DEF R
<1>2. l # 0
  <2> SUFFICES ASSUME l = 0
               PROVE  FALSE
    OBVIOUS
  <2> DEFINE g == [i \in 1..0 |-> <<>>]
  <2>1. g = [i \in 1..0 |-> IF i = 1 THEN ss[i] ELSE R(g[i - 1], i)]
    OBVIOUS
  <2>2. After(g, 0)
    BY <2>1
  <2> HIDE DEF g, After
  <2> QED BY <2>2
<1>3. l - 1 \in Nat /\ l \in Nat /\ l - 1 \notin without
  <2>1. l \in Nat
    BY <1>1
  <2>2. l - 1 \in Nat /\ ~(l <= l - 1)
    BY <1>2, <2>1
  <2> HIDE DEF without
  <2> QED BY <1>1, <2>1, <2>2
<1>4. PICK h : After(h, l - 1)
  BY <1>3
<1> DEFINE last == IF l = 1 THEN ss[l] ELSE R(h[l - 1], l)
           g == [i \in 1..l |-> IF i = l THEN last ELSE h[i]]
<1>5. ASSUME NEW i \in 1..l
      PROVE  g[i] = IF i = 1 THEN ss[i] ELSE R(g[i - 1], i)
  <2>1. CASE i = l
    <3>1. g[i] = last
      BY <2>1
    <3>2. i # 1 => i - 1 \in 1..l /\ i - 1 # l
      BY <1>3, <2>1
    <3>3. i # 1 => g[i - 1] = h[i - 1]
      BY <3>2
    <3> HIDE DEF g
    <3> QED BY <2>1, <3>1, <3>3
  <2>2. CASE i # l
    <3>1. i \in 1..l - 1 /\ g[i] = h[i]
      BY <1>3, <2>2
    <3>2. h[i] = IF i = 1 THEN ss[i] ELSE R(h[i - 1], i)
      BY <1>4, <3>1
    <3>3. i # 1 => i - 1 \in 1..l /\ i - 1 # l
      BY <1>3, <3>1
    <3>4. i # 1 => g[i - 1] = h[i - 1]
      BY <3>3
    <3> HIDE DEF g
    <3> QED BY <3>1, <3>2, <3>4
  <2> QED BY <2>1, <2>2
<1>6. After(g, l)
  BY <1>5
<1> HIDE DEF g
<1>7. ~\E p : After(p, l)
  BY <1>1
<1> HIDE DEF After
<1> QED BY <1>6, <1>7

LEMMA Flattened ==
  ASSUME NEW ss, Len(ss) \in Nat, Len(ss) # 0
  PROVE  \E g : Joins(g, ss, Len(ss)) /\ FlattenSeq(ss) = g[Len(ss)]
<1> DEFINE m == Len(ss)
           B == CHOOSE g : Joins(g, ss, m)
<1>1. FlattenSeq(ss) = B[m]
  BY DEF FlattenSeq, Joins
<1>2. \E g : Joins(g, ss, m)
  BY JoinsExist
<1>3. Joins(B, ss, m)
  BY <1>2
<1> QED BY <1>1, <1>3

LEMMA FlattenedIsAList ==
  ASSUME NEW S, NEW ss \in Seq(Seq(S))
  PROVE  FlattenSeq(ss) \in Seq(S)
<1> DEFINE m == Len(ss)
<1>1. m \in Nat /\ \A i \in 1..m : ss[i] \in Seq(S)
  OBVIOUS
<1>2. CASE m = 0
  <2>1. FlattenSeq(ss) = ss /\ ss = <<>>
    BY <1>2 DEF FlattenSeq
  <2> QED BY <2>1
<1>3. CASE m # 0
  <2>1. PICK g : Joins(g, ss, m) /\ FlattenSeq(ss) = g[m]
    BY <1>1, <1>3, Flattened
  <2>2. \A i \in 1..m : g[i] = IF i = 1 THEN ss[i] ELSE g[i - 1] \o ss[i]
    BY <2>1 DEF Joins
  <2> HIDE DEF m
  <2> DEFINE bad == {l \in 1..m : g[l] \notin Seq(S)}
  <2>3. bad = {}
    <3> SUFFICES ASSUME bad # {}
                 PROVE  FALSE
      OBVIOUS
    <3>1. PICK l \in bad : \A k \in bad : l <= k
      <4>1. bad \in SUBSET Nat
        BY <1>1
      <4> QED BY <4>1, LeastOf
    <3>2. l \in 1..m /\ l # 1
      BY <1>1, <2>2
    <3>3. l - 1 \in 1..m /\ ~(l <= l - 1)
      BY <1>1, <3>2
    <3>4. g[l - 1] \in Seq(S)
      BY <3>1, <3>3
    <3>5. g[l] = g[l - 1] \o ss[l] /\ ss[l] \in Seq(S)
      BY <1>1, <2>2, <3>2
    <3>6. \A s, t \in Seq(S) : s \o t \in Seq(S)
      OBVIOUS
    <3>7. g[l] \in Seq(S)
      BY ONLY <3>4, <3>5, <3>6
    <3> QED BY <3>1, <3>7
  <2>4. m \in 1..m
    BY <1>1, <1>3
  <2> QED BY <2>1, <2>3, <2>4
<1> QED BY <1>2, <1>3

(* What the findings of a response are made of. *)
WebKinds(cookies) ==
  [rule_id : {"WEB-XCTO", "WEB-CSP", "WEB-HSTS", "WEB-CORS-CREDENTIALS",
              "WEB-COOKIE-HTTPONLY", "WEB-COOKIE-SECURE", "WEB-COOKIE-SAMESITE", "WEB-CACHE"},
   severity : {"high", "medium", "review"},
   cookie : {""} \union {cookies[i][1].key : i \in DOMAIN cookies},
   confidence : {"high", "confirmed"}]

LEMMA ProbeParts ==
  ASSUME NEW https, NEW cookies, cookies \in Seq(Range(cookies))
  PROVE  /\ [i \in DOMAIN cookies |-> CookieFindings(https, cookies[i])]
                \in Seq(Seq(WebKinds(cookies)))
         /\ \A b :
              /\ When(b, Finding("WEB-XCTO", "medium", "", "high")) \in Seq(WebKinds(cookies))
              /\ When(b, Finding("WEB-CSP", "review", "", "high")) \in Seq(WebKinds(cookies))
              /\ When(b, Finding("WEB-HSTS", "medium", "", "high")) \in Seq(WebKinds(cookies))
              /\ When(b, Finding("WEB-CORS-CREDENTIALS", "high", "", "confirmed"))
                   \in Seq(WebKinds(cookies))
              /\ When(b, Finding("WEB-CACHE", "review", "", "high")) \in Seq(WebKinds(cookies))
<1> DEFINE Named == {""} \union {cookies[i][1].key : i \in DOMAIN cookies}
           S == [rule_id : {"WEB-XCTO", "WEB-CSP", "WEB-HSTS", "WEB-CORS-CREDENTIALS",
                            "WEB-COOKIE-HTTPONLY", "WEB-COOKIE-SECURE", "WEB-COOKIE-SAMESITE",
                            "WEB-CACHE"},
                 severity : {"high", "medium", "review"}, cookie : Named,
                 confidence : {"high", "confirmed"}]
           found == [i \in DOMAIN cookies |-> CookieFindings(https, cookies[i])]
<1>1. \A b, f : f \in S => When(b, f) \in Seq(S)
  <2> HIDE DEF S
  <2> QED BY DEF When
<1>2. \A s, t \in Seq(S) : s \o t \in Seq(S)
  <2> HIDE DEF S
  <2> QED OBVIOUS
<1>3. ASSUME NEW i \in DOMAIN cookies
      PROVE  CookieFindings(https, cookies[i]) \in Seq(S)
  <2> DEFINE name == cookies[i][1].key
  <2>1. name \in Named
    OBVIOUS
  <2> HIDE DEF Named
  <2>2. <<>> \in Seq(S)
    OBVIOUS
  <2>3. /\ Finding("WEB-COOKIE-HTTPONLY", "review", name, "high") \in S
        /\ Finding("WEB-COOKIE-SECURE", "medium", name, "high") \in S
        /\ Finding("WEB-COOKIE-SAMESITE", "review", name, "high") \in S
    BY <2>1 DEF Finding
  <2> HIDE DEF S
  <2>4. \A b : /\ When(b, Finding("WEB-COOKIE-HTTPONLY", "review", name, "high")) \in Seq(S)
               /\ When(b, Finding("WEB-COOKIE-SECURE", "medium", name, "high")) \in Seq(S)
               /\ When(b, Finding("WEB-COOKIE-SAMESITE", "review", name, "high")) \in Seq(S)
    BY ONLY <1>1, <2>3
  <2> QED BY <1>2, <2>2, <2>4 DEF CookieFindings
<1>4. found \in Seq(Seq(S))
  <2>1. DOMAIN cookies = 1..Len(cookies) /\ Len(cookies) \in Nat
    OBVIOUS
  <2> HIDE DEF S
  <2> QED BY <1>3, <2>1
<1>5. \A b : /\ When(b, Finding("WEB-XCTO", "medium", "", "high")) \in Seq(S)
             /\ When(b, Finding("WEB-CSP", "review", "", "high")) \in Seq(S)
             /\ When(b, Finding("WEB-HSTS", "medium", "", "high")) \in Seq(S)
             /\ When(b, Finding("WEB-CORS-CREDENTIALS", "high", "", "confirmed")) \in Seq(S)
             /\ When(b, Finding("WEB-CACHE", "review", "", "high")) \in Seq(S)
  <2>1. "" \in Named
    OBVIOUS
  <2> HIDE DEF Named
  <2>2. /\ Finding("WEB-XCTO", "medium", "", "high") \in S
        /\ Finding("WEB-CSP", "review", "", "high") \in S
        /\ Finding("WEB-HSTS", "medium", "", "high") \in S
        /\ Finding("WEB-CORS-CREDENTIALS", "high", "", "confirmed") \in S
        /\ Finding("WEB-CACHE", "review", "", "high") \in S
    BY <2>1 DEF Finding
  <2> HIDE DEF S
  <2> QED BY ONLY <1>1, <2>2
<1>6. S = WebKinds(cookies)
  BY DEF WebKinds
<1> HIDE DEF S
<1> QED BY ONLY <1>4, <1>5, <1>6

LEMMA ProbeKinds ==
  ASSUME NEW https, NEW response, response.cookies \in Seq(Range(response.cookies))
  PROVE  WebFindings(https, response) \in Seq(WebKinds(response.cookies))
<1> DEFINE cookies == response.cookies
           S == WebKinds(cookies)
           found == [i \in DOMAIN cookies |-> CookieFindings(https, cookies[i])]
<1>2. \A s, t \in Seq(S) : s \o t \in Seq(S)
  <2> HIDE DEF S
  <2> QED OBVIOUS
<1>4. found \in Seq(Seq(S))
  BY ProbeParts
<1>5. FlattenSeq(found) \in Seq(S)
  <2> HIDE DEF S, found
  <2> QED BY <1>4, FlattenedIsAList
<1>6. \A b : /\ When(b, Finding("WEB-XCTO", "medium", "", "high")) \in Seq(S)
             /\ When(b, Finding("WEB-CSP", "review", "", "high")) \in Seq(S)
             /\ When(b, Finding("WEB-HSTS", "medium", "", "high")) \in Seq(S)
             /\ When(b, Finding("WEB-CORS-CREDENTIALS", "high", "", "confirmed")) \in Seq(S)
             /\ When(b, Finding("WEB-CACHE", "review", "", "high")) \in Seq(S)
  BY ProbeParts
<1>7. WebFindings(https, response) \in Seq(S)
  <2> HIDE DEF S
  <2> QED BY <1>2, <1>5, <1>6, ZenonT(30) DEF WebFindings
<1> QED BY <1>7

LEMMA ProbeLists ==
  ASSUME NEW https, NEW response, response.cookies \in Seq(Range(response.cookies))
  PROVE  Records(WebFindings(https, response), WebFields)
<1> DEFINE S == WebKinds(response.cookies)
           w == WebFindings(https, response)
<1>1. w \in Seq(S)
  BY ProbeKinds
<1>2. \A f \in S : DOMAIN f = WebFields
  BY DEF WebFields, WebKinds
<1> HIDE DEF S, w
<1>3. w \in Seq(Range(w)) /\ Range(w) \subseteq S
  <2>1. DOMAIN w = 1..Len(w) /\ Len(w) \in Nat /\ w = [i \in 1..Len(w) |-> w[i]]
        /\ \A i \in 1..Len(w) : w[i] \in S
    BY <1>1
  <2>2. \A i \in 1..Len(w) : w[i] \in Range(w)
    BY <2>1 DEF Range
  <2>3. Range(w) \subseteq S
    BY <2>1 DEF Range
  <2> QED BY <2>1, <2>2, <2>3
<1>4. Records(w, WebFields)
  BY <1>2, <1>3 DEF Records
<1> QED BY <1>4 DEF w

LEMMA NextListed ==
  ASSUME Typed, Listed, [Next]_vars
  PROVE  Listed'
<1> USE DEF At, Continue, Keep, world, run
<1>1. ASSUME Refuse
      PROVE  Listed'
  BY <1>1 DEF Refuse, Listed
<1>2. ASSUME UNCHANGED <<report, command>>, step' \in {"render", "write", "print", "idle"},
             Fits(command, report)
      PROVE  Listed'
  BY <1>2 DEF Listed, Fits, IsScan, IsWeb
<1>3. ASSUME UNCHANGED command, command.kind = "scan", IsScan(report'), step' # "idle"
      PROVE  Listed'
  BY <1>3 DEF Listed, Fits
<1>4. CASE Invoke
  <2>1. step' = command'.kind /\ CommandLine(command')
    BY <1>4, InvokeTyped
  <2>2. step' \in {"scan", "web", "deps", "diff", "validate"}
    BY <2>1 DEF CommandLine
  <2> QED BY <2>2 DEF Listed
<1>5. CASE Scan /\ ~Refuse
  <2>1. report' = [security_findings |-> tree.security_findings,
                   secret_findings |-> tree.secret_findings,
                   syntax_findings |-> tree.syntax_findings,
                   utf8 |-> tree.utf8, seed |-> command.seed, baseline |-> <<>>,
                   scope |-> [max_file_bytes |-> command.max_file_bytes,
                              budget_seconds |-> command.budget_seconds],
                   suppressions |-> [file |-> <<>>, applied |-> 0, expired |-> <<>>]]
    BY <1>5 DEF Scan
  <2>2. /\ Records(tree.security_findings, SecurityFields)
        /\ Records(tree.secret_findings, SecretFields)
        /\ Records(tree.syntax_findings, SyntaxFields)
    BY TreesAssumption DEF Typed
  <2>3. IsScan(report')
    BY <2>1, <2>2 DEF IsScan
  <2>4. step = "scan" /\ step' = "suppress" /\ UNCHANGED command
    BY <1>5 DEF Scan
  <2>5. command.kind = "scan"
    BY <2>4, WhichCommand DEF Typed
  <2> QED BY <1>3, <2>3, <2>4, <2>5
<1>6. CASE Suppress /\ ~Refuse
  <2>1. step = "suppress" /\ step' = "baseline" /\ UNCHANGED command
    BY <1>6 DEF Suppress
  <2>2. command.kind = "scan" /\ IsScan(report)
    BY <2>1, WhichCommand DEF Typed, Listed
  <2>3. CASE command.suppress = <<>>
    <3>1. UNCHANGED report
      BY <1>6, <2>3 DEF Suppress
    <3> QED BY <1>3, <2>1, <2>2, <3>1
  <2>4. CASE command.suppress # <<>>
    <3> DEFINE accepts == Accepts(files[command.suppress[1]])
               security == Marked(report.security_findings, accepts)
               secrets == Marked(report.secret_findings, accepts)
    <3>1. PICK s : report' = [report EXCEPT !.security_findings = security,
                                            !.secret_findings = secrets, !.suppressions = s]
      BY <1>6, <2>4 DEF Suppress
    <3>2. Records(security, SecurityFields) /\ Records(secrets, SecretFields)
      BY <2>2, MarkedRecords DEF IsScan
    <3> HIDE DEF security, secrets
    <3>3. /\ DOMAIN report' = DOMAIN report
          /\ report'.security_findings = security /\ report'.secret_findings = secrets
          /\ report'.syntax_findings = report.syntax_findings
      BY <2>2, <3>1 DEF IsScan
    <3>4. IsScan(report')
      BY <2>2, <3>2, <3>3 DEF IsScan
    <3> QED BY <1>3, <2>1, <2>2, <3>4
  <2> QED BY <2>3, <2>4
<1>7. CASE Baseline /\ ~Refuse
  <2>1. step = "baseline" /\ step' = "render" /\ UNCHANGED command
    BY <1>7 DEF Baseline
  <2>2. command.kind = "scan" /\ IsScan(report)
    BY <2>1, WhichCommand DEF Typed, Listed
  <2>3. CASE command.baseline = <<>>
    <3>1. UNCHANGED report
      BY <1>7, <2>3 DEF Baseline
    <3> QED BY <1>3, <2>1, <2>2, <3>1
  <2>4. CASE command.baseline # <<>>
    <3>1. PICK b : report' = [report EXCEPT !.baseline = b]
      BY <1>7, <2>4 DEF Baseline
    <3>2. /\ DOMAIN report' = DOMAIN report
          /\ report'.security_findings = report.security_findings
          /\ report'.secret_findings = report.secret_findings
          /\ report'.syntax_findings = report.syntax_findings
      BY <2>2, <3>1 DEF IsScan
    <3>3. IsScan(report')
      BY <2>2, <3>2 DEF IsScan
    <3> QED BY <1>3, <2>1, <2>2, <3>3
  <2> QED BY <2>3, <2>4
<1>8. CASE Probe \/ NoAnswer
  BY <1>1, <1>8 DEF Probe, NoAnswer, Listed
<1>9. CASE Answer
  <2>1. step = "answer" /\ step' = "render" /\ UNCHANGED command
    BY <1>9 DEF Answer
  <2>2. command.kind = "web" /\ CommandLine(command)
    BY <2>1, WhichCommand DEF Typed
  <2>3. command.answer.cookies \in Seq(Range(command.answer.cookies))
    BY <2>2 DEF CommandLine
  <2>4. IsWeb(report')
    <3>1. report'.findings = WebFindings(command.url.scheme = "https", command.answer)
      BY <1>9 DEF Answer, WebScan
    <3> QED BY <2>3, <3>1, ProbeLists DEF IsWeb
  <2> QED BY <2>1, <2>2, <2>4 DEF Listed, Fits
<1>10. CASE Deps \/ Advisories \/ ReadOld \/ ReadNew \/ Validate
  <2>1. /\ step \in {"deps", "advisories", "diff", "new", "validate"} /\ UNCHANGED command
        /\ step' \notin {"suppress", "baseline"}
    BY <1>10 DEF Deps, Advisories, ReadOld, ReadNew, Validate, Refuse
  <2>2. command.kind \notin {"scan", "web"}
    BY <2>1, WhichCommand DEF Typed
  <2> QED BY <2>1, <2>2 DEF Listed, Fits
<1>11. CASE Render /\ ~Refuse
  <2>1. /\ step = "render" /\ step' \in {"print", "write"} /\ UNCHANGED <<report, command>>
    BY <1>11 DEF Render
  <2> QED BY <1>2, <2>1 DEF Listed
<1>12. CASE Write
  BY <1>2, <1>12 DEF Write, Listed
<1>13. CASE WriteFails \/ Emit \/ EmitFails
  BY <1>1, <1>13 DEF WriteFails, Emit, EmitFails, Listed
<1>14. CASE Others
  BY <1>14 DEF Others, Listed, Fits, IsScan, IsWeb
<1>15. CASE UNCHANGED vars
  BY <1>15 DEF vars, Listed, Fits, IsScan, IsWeb
<1> QED BY <1>1, <1>4, <1>5, <1>6, <1>7, <1>8, <1>9, <1>10, <1>11, <1>12, <1>13, <1>14, <1>15
        DEF Next, Program

(* The exit code of a scan, decided on the findings in memory, is what the *)
(* comparison of the JSON reports says.                                    *)
LEMMA GateDecides ==
  ASSUME IsScan(report), command.kind = "scan"
  PROVE  LET new == ScanReport(report)
             added == IF known = <<>>
                        THEN [added_security |-> Security(new), added_secrets |-> Secrets(new)]
                        ELSE Compare(Value(known[1]), new)
         IN  ExitCode = 1 <=> Open(added.added_security) \/ Open(added.added_secrets)
<1> DEFINE new == ScanReport(report)
           sec == report.security_findings
           key == report.secret_findings
           base == Known(Value(known[1]))
           free(f) == f.suppressed = <<>>
<1>1. /\ Security(new) = [i \in DOMAIN sec |-> SecurityFinding(sec[i])]
      /\ Secrets(new) = [i \in DOMAIN key |-> SecretFinding(key[i])]
  BY ListsOfScan
<1>2. Security(new) \in Seq(Range(Security(new))) /\ Secrets(new) \in Seq(Range(Secrets(new)))
  <2>1. Security(new) \in Seq(Range(Security(new)))
    BY <1>1, Mapped DEF IsScan, Records
  <2>2. Secrets(new) \in Seq(Range(Secrets(new)))
    BY <1>1, Mapped DEF IsScan, Records
  <2> QED BY <2>1, <2>2
<1>3. /\ DOMAIN Security(new) = DOMAIN sec
      /\ \A i \in DOMAIN sec : /\ SecurityPrints(new)[i] = SecurityFingerprint(sec[i])
                               /\ Get(Security(new)[i], "suppressed") = Null <=> free(sec[i])
  BY <1>1, SecurityPrint DEF SecurityPrints
<1>4. /\ DOMAIN Secrets(new) = DOMAIN key
      /\ \A i \in DOMAIN key : /\ SecretPrints(new)[i] = SecretFingerprint(key[i])
                               /\ Get(Secrets(new)[i], "suppressed") = Null <=> free(key[i])
  BY <1>1, SecretPrint DEF SecretPrints
<1> HIDE DEF new
<1>5. CASE known = <<>>
  <2>1. ExitCode = 1 <=> HasUnsuppressedNew(report, <<>>)
    BY <1>5 DEF ExitCode
  <2>2. HasUnsuppressedNew(report, <<>>)
          <=> (\E i \in DOMAIN sec : free(sec[i])) \/ (\E i \in DOMAIN key : free(key[i]))
    BY DEF HasUnsuppressedNew
  <2>3. /\ Open(Security(new)) <=> \E i \in DOMAIN sec : free(sec[i])
        /\ Open(Secrets(new)) <=> \E i \in DOMAIN key : free(key[i])
    BY <1>3, <1>4 DEF Open
  <2> QED BY <1>5, <2>1, <2>2, <2>3 DEF new
<1>6. CASE known # <<>>
  <2>1. ExitCode = 1 <=> HasUnsuppressedNew(report, <<base>>)
    BY <1>6 DEF ExitCode
  <2>2. HasUnsuppressedNew(report, <<base>>) <=>
          \/ \E i \in DOMAIN sec :
               free(sec[i]) /\ SecurityFingerprint(sec[i]) \notin base.security
          \/ \E i \in DOMAIN key :
               free(key[i]) /\ SecretFingerprint(key[i]) \notin base.secrets
    BY DEF HasUnsuppressedNew
  <2> DEFINE c == Compare(Value(known[1]), new)
  <2>3. /\ c.added_security = Beyond(Security(new), SecurityPrints(new), base.security)
        /\ c.added_secrets = Beyond(Secrets(new), SecretPrints(new), base.secrets)
    BY DEF Compare
  <2> HIDE DEF base, c
  <2>4. Open(c.added_security) <=>
          \E i \in DOMAIN sec : free(sec[i]) /\ SecurityFingerprint(sec[i]) \notin base.security
    <3>1. Open(c.added_security) <=>
            \E i \in DOMAIN Security(new) :
              /\ SecurityPrints(new)[i] \notin base.security
              /\ Get(Security(new)[i], "suppressed") = Null
      BY <1>2, <2>3, OpenBeyond
    <3> QED BY <1>3, <3>1
  <2>5. Open(c.added_secrets) <=>
          \E i \in DOMAIN key : free(key[i]) /\ SecretFingerprint(key[i]) \notin base.secrets
    <3>1. Open(c.added_secrets) <=>
            \E i \in DOMAIN Secrets(new) :
              /\ SecretPrints(new)[i] \notin base.secrets
              /\ Get(Secrets(new)[i], "suppressed") = Null
      BY <1>2, <2>3, OpenBeyond
    <3> QED BY <1>4, <3>1
  <2> QED BY <1>6, <2>1, <2>2, <2>4, <2>5 DEF new, c
<1> QED BY <1>5, <1>6

LEMMA NextGated ==
  ASSUME Typed, Listed, GateAgreesWithDiff, [Next]_vars
  PROVE  GateAgreesWithDiff'
<1> USE DEF At, Continue, Keep, world, run
<1>1. ASSUME step' # "idle" \/ exit' \notin {0, 1} \/ command'.kind # "scan"
      PROVE  GateAgreesWithDiff'
  BY <1>1 DEF GateAgreesWithDiff
<1>2. ASSUME UNCHANGED <<step, exit, command, report, known>>
      PROVE  GateAgreesWithDiff'
  BY <1>2 DEF GateAgreesWithDiff
<1>3. CASE Invoke
  BY <1>1, <1>3 DEF Invoke
<1>4. CASE Emit /\ command.kind = "scan"
  <2>1. UNCHANGED <<report, known, command>> /\ step = "print" /\ exit' = ExitCode
    BY <1>4 DEF Emit
  <2>2. IsScan(report)
    BY <1>4, <2>1 DEF Listed, Fits
  <2> DEFINE added == IF known = <<>>
                        THEN [added_security |-> Security(ScanReport(report)),
                              added_secrets |-> Secrets(ScanReport(report))]
                        ELSE Compare(Value(known[1]), ScanReport(report))
  <2>3. ExitCode = 1 <=> Open(added.added_security) \/ Open(added.added_secrets)
    BY <1>4, <2>2, GateDecides
  <2> QED BY <2>1, <2>3 DEF GateAgreesWithDiff, Open
<1>5. CASE Emit /\ command.kind # "scan"
  BY <1>1, <1>5 DEF Emit
<1>6. CASE Others
  BY <1>2, <1>6 DEF Others
<1>7. CASE UNCHANGED vars
  BY <1>2, <1>7 DEF vars
<1>8. CASE Program /\ ~Emit
  <2>1. step' # "idle" \/ exit' \notin {0, 1}
    BY <1>8 DEF Program, Scan, Suppress, Baseline, Probe, Answer, NoAnswer, Deps, Advisories,
                ReadOld, ReadNew, Validate, Render, Write, WriteFails, EmitFails, Refuse
  <2> QED BY <1>1, <2>1
<1> QED BY <1>3, <1>4, <1>5, <1>6, <1>7, <1>8 DEF Next

(* A scan fails the build exactly if `diff` of the baseline and the report *)
(* it writes would list an addition that carries no justification.         *)
THEOREM GateIsDiff == Spec => []GateAgreesWithDiff
<1> DEFINE Inv == Typed /\ Listed /\ GateAgreesWithDiff
<1>1. Init => Inv
  BY InitTyped DEF Init, Listed, GateAgreesWithDiff
<1>2. Inv /\ [Next]_vars => Inv'
  BY NextTyped, NextListed, NextGated
<1>3. Inv => GateAgreesWithDiff
  OBVIOUS
<1> QED BY <1>1, <1>2, <1>3, PTL DEF Spec

-----------------------------------------------------------------------------
(* What SarifKeepsFindings asks of the result r of the finding f.          *)
Shows(r, f, web) ==
  LET where == Get(Get(r, "locations").items[1], "physicalLocation").fields
  IN  /\ "rule_id" \in DOMAIN f => Get(r, "ruleId") = String(f.rule_id)
      /\ Has(r, "suppressions") <=> "suppressed" \in DOMAIN f /\ f.suppressed # <<>>
      /\ "severity" \in DOMAIN f /\ f.severity = "medium" <=> Get(r, "level") = String("warning")
      /\ IF web THEN "region" \notin DOMAIN where
         ELSE /\ Get(where.artifactLocation, "uri") = String(f.path)
              /\ Get(where.region, "startLine") = Number(f.line)
              /\ Get(where.region, "startColumn") = Number(f.column)

LEMMA ResultParts ==
  ASSUME NEW rule_id, NEW severity, NEW where, NEW properties, NEW suppressed
  PROVE  LET r == SarifResult(rule_id, severity, where, properties, suppressed)
         IN  /\ Get(r, "ruleId") = String(rule_id)
             /\ Get(r, "level") = String(Level(severity))
             /\ Get(r, "locations").items[1] = where
             /\ Has(r, "suppressions") <=> suppressed # <<>>
<1> DEFINE result == [ruleId |-> String(rule_id), level |-> String(Level(severity)),
                      message |-> TextObject, locations |-> Array(<<where>>),
                      properties |-> Object(properties)]
           external(reason) == Object([kind |-> String("external"), justification |-> String(reason)])
           list == Array(<<external(suppressed[1])>>)
           r == SarifResult(rule_id, severity, where, properties, suppressed)
<1>1. r = Object(IF suppressed = <<>> THEN result ELSE With(result, "suppressions", list))
  BY DEF SarifResult
<1>2. /\ DOMAIN result = {"ruleId", "level", "message", "locations", "properties"}
      /\ result.ruleId = String(rule_id) /\ result.level = String(Level(severity))
      /\ result.locations = Array(<<where>>)
  OBVIOUS
<1> HIDE DEF result, list, r
<1>3. /\ r.kind = "object" /\ r.fields.ruleId = String(rule_id)
      /\ r.fields.level = String(Level(severity)) /\ r.fields.locations = Array(<<where>>)
      /\ "suppressions" \in DOMAIN r.fields <=> suppressed # <<>>
  BY <1>1, <1>2 DEF Object, With
<1>4. Array(<<where>>).items[1] = where
  BY DEF Array
<1>5. /\ Get(r, "ruleId") = String(rule_id) /\ Get(r, "level") = String(Level(severity))
      /\ Get(r, "locations").items[1] = where
      /\ Has(r, "suppressions") <=> suppressed # <<>>
  BY <1>3, <1>4 DEF Get, Has
<1> QED BY <1>5 DEF r

LEMMA LocationParts ==
  ASSUME NEW uri, NEW at
  PROVE  LET where == Get(Location(uri, at), "physicalLocation").fields
         IN  /\ Get(where.artifactLocation, "uri") = String(uri)
             /\ at = <<>> => "region" \notin DOMAIN where
             /\ at # <<>> => /\ Get(where.region, "startLine") = Number(at[1])
                             /\ Get(where.region, "startColumn") = Number(at[2])
<1> DEFINE file == [artifactLocation |-> Object([uri |-> String(uri)])]
           region == Object([startLine |-> Number(at[1]), startColumn |-> Number(at[2])])
           where == Get(Location(uri, at), "physicalLocation").fields
<1>1. where = IF at = <<>> THEN file ELSE With(file, "region", region)
  BY DEF Location, Get, Object
<1>2. DOMAIN file = {"artifactLocation"} /\ Get(file.artifactLocation, "uri") = String(uri)
  BY DEF Get, Object
<1>3. /\ Get(region, "startLine") = Number(at[1])
      /\ Get(region, "startColumn") = Number(at[2])
  BY DEF Get, Object
<1> HIDE DEF file, region, where
<1>4. /\ where.artifactLocation = file.artifactLocation
      /\ at = <<>> => "region" \notin DOMAIN where
      /\ at # <<>> => where.region = region
  BY <1>1, <1>2 DEF With
<1> QED BY <1>2, <1>3, <1>4 DEF where

LEMMA Levels ==
  /\ \A severity : Level(severity) = "warning" <=> severity = "medium"
  /\ String("error") # String("warning") /\ String("note") # String("warning")
  /\ \A s : String(s) = String("warning") <=> s = "warning"
BY DEF Level, String

LEMMA SecurityShown ==
  ASSUME NEW f, DOMAIN f = SecurityFields
  PROVE  Get(SecurityResult(f), "ruleId") = String(f.rule_id) /\ Shows(SecurityResult(f), f, FALSE)
<1> DEFINE where == Location(f.path, <<f.line, f.column>>)
<1>1. PICK properties : SecurityResult(f)
                          = SarifResult(f.rule_id, f.severity, where, properties, f.suppressed)
  BY DEF SecurityResult
<1>2. LET w == Get(where, "physicalLocation").fields
      IN  /\ Get(w.artifactLocation, "uri") = String(f.path)
          /\ Get(w.region, "startLine") = Number(f.line)
          /\ Get(w.region, "startColumn") = Number(f.column)
  <2> DEFINE at == <<f.line, f.column>>
  <2>1. at # <<>> /\ at[1] = f.line /\ at[2] = f.column
    OBVIOUS
  <2> HIDE DEF at
  <2> QED BY <2>1, LocationParts DEF at
<1>3. {"rule_id", "severity", "suppressed"} \subseteq DOMAIN f
  BY DEF SecurityFields
<1> HIDE DEF where
<1> QED BY <1>1, <1>2, <1>3, ResultParts, Levels DEF Shows

LEMMA SecretShown ==
  ASSUME NEW f, DOMAIN f = SecretFields
  PROVE  Get(SecretResult(f), "ruleId") = String(f.rule_id) /\ Shows(SecretResult(f), f, FALSE)
<1> DEFINE where == Location(f.path, <<f.line, f.column>>)
<1>1. PICK properties : SecretResult(f)
                          = SarifResult(f.rule_id, "high", where, properties, f.suppressed)
  BY DEF SecretResult
<1>2. LET w == Get(where, "physicalLocation").fields
      IN  /\ Get(w.artifactLocation, "uri") = String(f.path)
          /\ Get(w.region, "startLine") = Number(f.line)
          /\ Get(w.region, "startColumn") = Number(f.column)
  <2> DEFINE at == <<f.line, f.column>>
  <2>1. at # <<>> /\ at[1] = f.line /\ at[2] = f.column
    OBVIOUS
  <2> HIDE DEF at
  <2> QED BY <2>1, LocationParts DEF at
<1>3. {"rule_id", "suppressed"} \subseteq DOMAIN f /\ "severity" \notin DOMAIN f
  BY DEF SecretFields
<1> HIDE DEF where
<1> QED BY <1>1, <1>2, <1>3, ResultParts, Levels DEF Shows

LEMMA SyntaxShown ==
  ASSUME NEW f, DOMAIN f = SyntaxFields
  PROVE  Get(SyntaxResult(f), "ruleId") = String(SyntaxRuleId) /\ Shows(SyntaxResult(f), f, FALSE)
<1> DEFINE where == Location(f.path, <<f.line, f.column>>)
<1>1. PICK properties : SyntaxResult(f)
                          = SarifResult(SyntaxRuleId, "review", where, properties, <<>>)
  BY DEF SyntaxResult
<1>2. LET w == Get(where, "physicalLocation").fields
      IN  /\ Get(w.artifactLocation, "uri") = String(f.path)
          /\ Get(w.region, "startLine") = Number(f.line)
          /\ Get(w.region, "startColumn") = Number(f.column)
  <2> DEFINE at == <<f.line, f.column>>
  <2>1. at # <<>> /\ at[1] = f.line /\ at[2] = f.column
    OBVIOUS
  <2> HIDE DEF at
  <2> QED BY <2>1, LocationParts DEF at
<1>3. {"rule_id", "suppressed", "severity"} \cap DOMAIN f = {}
  BY DEF SyntaxFields
<1> HIDE DEF where
<1> QED BY <1>1, <1>2, <1>3, ResultParts, Levels DEF Shows

LEMMA WebShown ==
  ASSUME NEW f, DOMAIN f = WebFields
  PROVE  Get(WebResult(f), "ruleId") = String(f.rule_id) /\ Shows(WebResult(f), f, TRUE)
<1> DEFINE where == Location("url", <<>>)
<1>1. PICK properties : WebResult(f)
                          = SarifResult(f.rule_id, f.severity, where, properties, <<>>)
  BY DEF WebResult
<1>2. "region" \notin DOMAIN Get(where, "physicalLocation").fields
  BY LocationParts
<1>3. {"rule_id", "severity"} \subseteq DOMAIN f /\ "suppressed" \notin DOMAIN f
  BY DEF WebFields
<1> HIDE DEF where
<1> QED BY <1>1, <1>2, <1>3, ResultParts, Levels DEF Shows

-----------------------------------------------------------------------------
(* One descriptor for each rule id.                                        *)
LEMMA RulesAre ==
  ASSUME NEW ids, ids \in Seq(Range(ids))
  PROVE  LET rules == Rules(ids)
         IN  /\ Len(rules) = Cardinality({Get(rules[k], "id").is : k \in DOMAIN rules})
             /\ {Get(rules[k], "id") : k \in DOMAIN rules} = {String(ids[i]) : i \in DOMAIN ids}
<1> DEFINE entries == [i \in DOMAIN ids |-> RuleEntry(ids[i])]
           rules == Rules(ids)
           firsts == Firsts(ids)
           names == {ids[i] : i \in firsts}
<1>1. /\ DOMAIN ids = 1..Len(ids) /\ Len(ids) \in Nat
      /\ firsts \in SUBSET (1..Len(ids))
      /\ \A i \in firsts : \A j \in 1..i - 1 : ids[j] # ids[i]
  BY DEF Firsts
<1>2. entries \in Seq(Range(entries)) /\ Len(entries) = Len(ids)
  <2>1. entries \in Seq(Range(entries))
    BY Mapped
  <2> QED BY <1>1, <2>1
<1>3. \A x : Get(RuleEntry(x), "id") = String(x)
  BY DEF RuleEntry, Get, Object
<1>4. /\ rules \in Seq(Range(entries)) /\ Len(rules) = Cardinality(firsts)
      /\ Range(rules) = {RuleEntry(ids[n]) : n \in firsts}
  <2>1. rules = Picked(entries, firsts)
    BY DEF Rules
  <2>2. \A n \in firsts : entries[n] = RuleEntry(ids[n])
    BY <1>1
  <2> HIDE DEF entries, rules, firsts
  <2>3. firsts \in SUBSET (1..Len(entries))
    BY <1>1, <1>2
  <2>4. /\ rules \in Seq(Range(entries)) /\ Len(rules) = Cardinality(firsts)
        /\ Range(rules) = {entries[n] : n \in firsts}
    BY ONLY <1>2, <2>1, <2>3, PickedAre
  <2> QED BY ONLY <2>2, <2>4
<1>5. ASSUME NEW i \in DOMAIN ids
      PROVE  \E j \in firsts : ids[j] = ids[i]
  <2> DEFINE same == {k \in 1..Len(ids) : ids[k] = ids[i]}
  <2>1. same \in SUBSET Nat /\ same # {}
    BY <1>1
  <2>2. PICK j \in same : \A k \in same : j <= k
    BY <2>1, LeastOf
  <2>3. ASSUME NEW k \in 1..j - 1
        PROVE  ids[k] # ids[j]
    <3>1. k \in 1..Len(ids) /\ ~(j <= k)
      BY <1>1, <2>2
    <3>2. k \notin same
      BY <2>2, <3>1
    <3> QED BY <2>2, <3>1, <3>2
  <2>4. j \in firsts
    BY <1>1, <2>2, <2>3 DEF Firsts
  <2> QED BY <2>2, <2>4
<1>6. names = {ids[i] : i \in DOMAIN ids}
  <2> HIDE DEF firsts
  <2> QED BY <1>1, <1>5
<1>7. Cardinality(names) = Cardinality(firsts)
  <2> DEFINE f == [i \in firsts |-> ids[i]]
  <2>1. IsFiniteSet(firsts)
    <3>1. IsFiniteSet(1..Len(ids))
      BY <1>1, FS_Interval
    <3> QED BY <1>1, <3>1, FS_Subset
  <2>2. \A i, j \in firsts : ids[i] = ids[j] => i = j
    <3> TAKE i, j \in firsts
    <3>1. i \in Nat /\ j \in Nat /\ i >= 1 /\ j >= 1
      BY <1>1
    <3>2. CASE i < j
      <4>1. i \in 1..j - 1
        BY <3>1, <3>2
      <4> QED BY <1>1, <4>1
    <3>3. CASE j < i
      <4>1. j \in 1..i - 1
        BY <3>1, <3>3
      <4> QED BY <1>1, <4>1
    <3> QED BY <3>1, <3>2, <3>3
  <2> HIDE DEF firsts
  <2>3. f \in Bijection(firsts, names)
    <3>1. f \in [firsts -> names] /\ \A x \in names : \E i \in firsts : f[i] = x
      OBVIOUS
    <3>2. \A i, j \in firsts : f[i] = f[j] => i = j
      BY <2>2
    <3> QED BY ONLY <3>1, <3>2 DEF Bijection, Injection, Surjection, IsInjective
  <2>4. ExistsBijection(firsts, names)
    BY <2>3 DEF ExistsBijection
  <2> HIDE DEF names
  <2> QED BY <2>1, <2>4, FS_Bijection
<1>8. {Get(rules[k], "id") : k \in DOMAIN rules} = {String(x) : x \in names}
  <2>1. {Get(rules[k], "id") : k \in DOMAIN rules} = {Get(x, "id") : x \in Range(rules)}
    BY DEF Range
  <2> HIDE DEF rules, firsts
  <2> QED BY <1>3, <1>4, <2>1, ZenonT(30)
<1>9. {Get(rules[k], "id").is : k \in DOMAIN rules} = names
  <2>1. {Get(rules[k], "id").is : k \in DOMAIN rules} = {Get(x, "id").is : x \in Range(rules)}
    BY DEF Range
  <2>2. \A x : Get(RuleEntry(x), "id").is = x
    BY <1>3 DEF String
  <2> HIDE DEF rules, firsts
  <2>3. Range(rules) = {RuleEntry(ids[n]) : n \in firsts}
    BY <1>4
  <2>4. {Get(x, "id").is : x \in Range(rules)} = {ids[n] : n \in firsts}
    BY ONLY <2>2, <2>3
  <2> QED BY <2>1, <2>4
<1>10. {String(x) : x \in names} = {String(ids[i]) : i \in DOMAIN ids}
  <2> HIDE DEF names
  <2> QED BY <1>6
<1>11. /\ Len(rules) = Cardinality({Get(rules[k], "id").is : k \in DOMAIN rules})
       /\ {Get(rules[k], "id") : k \in DOMAIN rules} = {String(ids[i]) : i \in DOMAIN ids}
  <2> HIDE DEF firsts, names, rules
  <2>1. Len(rules) = Cardinality(names)
    BY <1>4, <1>7
  <2>2. Len(rules) = Cardinality({Get(rules[k], "id").is : k \in DOMAIN rules})
    BY ONLY <1>9, <2>1
  <2> QED BY ONLY <1>8, <1>10, <2>2
<1> QED BY ONLY <1>11

(* The results and the rule ids of a list of findings, and of two.         *)
Exports(fs, ids, rs, web) ==
  /\ fs \in Seq(Range(fs)) /\ ids \in Seq(Range(ids)) /\ rs \in Seq(Range(rs))
  /\ Len(ids) = Len(fs) /\ Len(rs) = Len(fs)
  /\ \A i \in 1..Len(fs) : Get(rs[i], "ruleId") = String(ids[i]) /\ Shows(rs[i], fs[i], web)

LEMMA ASequence ==
  ASSUME NEW s, NEW S, s \in Seq(S)
  PROVE  s \in Seq(Range(s))
<1>1. DOMAIN s = 1..Len(s) /\ Len(s) \in Nat /\ s = [i \in 1..Len(s) |-> s[i]]
  OBVIOUS
<1>2. \A i \in 1..Len(s) : s[i] \in Range(s)
  BY <1>1 DEF Range
<1> QED BY <1>1, <1>2

LEMMA Appended ==
  ASSUME NEW s, NEW t, s \in Seq(Range(s)), t \in Seq(Range(t))
  PROVE  /\ s \o t \in Seq(Range(s \o t)) /\ Len(s \o t) = Len(s) + Len(t)
         /\ \A i \in 1..Len(s) : (s \o t)[i] = s[i]
         /\ \A i \in 1..Len(t) : (s \o t)[Len(s) + i] = t[i]
<1> DEFINE A == Range(s) \union Range(t)
<1>1. s \in Seq(A) /\ t \in Seq(A)
  <2>1. Range(s) \subseteq A /\ Range(t) \subseteq A
    OBVIOUS
  <2> HIDE DEF A
  <2> QED BY <2>1
<1> HIDE DEF A
<1>2. s \o t \in Seq(A)
  BY <1>1
<1>3. s \o t \in Seq(Range(s \o t))
  BY <1>2, ASequence
<1>4. /\ Len(s \o t) = Len(s) + Len(t)
      /\ \A i \in 1..Len(s) : (s \o t)[i] = s[i]
      /\ \A i \in 1..Len(t) : (s \o t)[Len(s) + i] = t[i]
  BY <1>1
<1> QED BY <1>3, <1>4

LEMMA ExportsJoin ==
  ASSUME NEW fs, NEW ids, NEW rs, NEW gs, NEW jds, NEW ss, NEW web,
         Exports(fs, ids, rs, web), Exports(gs, jds, ss, web)
  PROVE  Exports(fs \o gs, ids \o jds, rs \o ss, web)
<1> DEFINE m == Len(fs)
           n == Len(gs)
           F == fs \o gs
           I == ids \o jds
           R == rs \o ss
<1>1. m \in Nat /\ n \in Nat /\ Len(ids) = m /\ Len(rs) = m /\ Len(jds) = n /\ Len(ss) = n
  BY DEF Exports
<1>2. /\ F \in Seq(Range(F)) /\ Len(F) = m + n
      /\ \A i \in 1..m : F[i] = fs[i]
      /\ \A i \in 1..n : F[m + i] = gs[i]
  BY Appended DEF Exports
<1>3. /\ I \in Seq(Range(I)) /\ Len(I) = m + n
      /\ \A i \in 1..m : I[i] = ids[i]
      /\ \A i \in 1..n : I[m + i] = jds[i]
  <2>1. ids \in Seq(Range(ids)) /\ jds \in Seq(Range(jds))
    BY DEF Exports
  <2> HIDE DEF m, n
  <2> QED BY <1>1, <2>1, Appended
<1>4. /\ R \in Seq(Range(R)) /\ Len(R) = m + n
      /\ \A i \in 1..m : R[i] = rs[i]
      /\ \A i \in 1..n : R[m + i] = ss[i]
  <2>1. rs \in Seq(Range(rs)) /\ ss \in Seq(Range(ss))
    BY DEF Exports
  <2> HIDE DEF m, n
  <2> QED BY <1>1, <2>1, Appended
<1>5. /\ \A i \in 1..m : Get(rs[i], "ruleId") = String(ids[i]) /\ Shows(rs[i], fs[i], web)
      /\ \A i \in 1..n : Get(ss[i], "ruleId") = String(jds[i]) /\ Shows(ss[i], gs[i], web)
  BY DEF Exports
<1> HIDE DEF m, n, F, I, R
<1>6. ASSUME NEW i \in 1..m + n
      PROVE  Get(R[i], "ruleId") = String(I[i]) /\ Shows(R[i], F[i], web)
  <2>1. CASE i <= m
    <3>1. i \in 1..m
      BY <1>1, <2>1
    <3> QED BY <1>2, <1>3, <1>4, <1>5, <3>1
  <2>2. CASE ~(i <= m)
    <3>1. i - m \in 1..n /\ m + (i - m) = i
      BY <1>1, <2>2
    <3>2. R[i] = ss[i - m] /\ F[i] = gs[i - m] /\ I[i] = jds[i - m]
      BY <1>2, <1>3, <1>4, <3>1
    <3> QED BY <1>5, <3>1, <3>2
  <2> QED BY <2>1, <2>2
<1>7. Exports(F, I, R, web)
  BY <1>2, <1>3, <1>4, <1>6 DEF Exports
<1> QED BY <1>7 DEF F, I, R

LEMMA MapExports ==
  ASSUME NEW fs, NEW ids, NEW rs, NEW web, fs \in Seq(Range(fs)),
         ids = [i \in DOMAIN fs |-> ids[i]], rs = [i \in DOMAIN fs |-> rs[i]],
         \A i \in DOMAIN fs : Get(rs[i], "ruleId") = String(ids[i]) /\ Shows(rs[i], fs[i], web)
  PROVE  Exports(fs, ids, rs, web)
<1>1. ids \in Seq(Range(ids)) /\ rs \in Seq(Range(rs))
  BY Mapped
<1>2. DOMAIN fs = 1..Len(fs) /\ Len(fs) \in Nat /\ DOMAIN ids = DOMAIN fs /\ DOMAIN rs = DOMAIN fs
  OBVIOUS
<1>3. Len(ids) = Len(fs) /\ Len(rs) = Len(fs)
  BY <1>1, <1>2
<1> QED BY <1>1, <1>2, <1>3 DEF Exports

(* What SarifKeepsFindings asks of a run for the findings fs.              *)
KeepsAll(sarif, fs, web) ==
  LET results == sarif.results.items
      rules == sarif.tool.fields.driver.fields.rules.items
  IN  /\ Len(results) = Len(fs)
      /\ Len(rules) = Cardinality({Get(rules[k], "id").is : k \in DOMAIN rules})
      /\ {Get(rules[k], "id") : k \in DOMAIN rules}
           = {Get(results[i], "ruleId") : i \in DOMAIN results}
      /\ \A i \in DOMAIN results : Shows(results[i], fs[i], web)

LEMMA RunKeeps ==
  ASSUME NEW fs, NEW ids, NEW rs, NEW web, Exports(fs, ids, rs, web)
  PROVE  KeepsAll(Get(SarifRun(ids, rs), "runs").items[1].fields, fs, web)
<1> DEFINE rules == Rules(ids)
           sarif == Get(SarifRun(ids, rs), "runs").items[1].fields
<1>1. sarif.results.items = rs /\ sarif.tool.fields.driver.fields.rules.items = rules
  <2> DEFINE driver == Object([name |-> Text, version |-> Text, informationUri |-> Text,
                               rules |-> Array(rules)])
             one == Object([tool |-> Object([driver |-> driver]), results |-> Array(rs)])
  <2>1. Get(SarifRun(ids, rs), "runs") = Array(<<one>>)
    BY DEF SarifRun, Get, Object
  <2>2. Array(<<one>>).items[1] = one
    BY DEF Array
  <2>3. one.fields.results.items = rs /\ one.fields.tool.fields.driver = driver
    BY DEF Object, Array
  <2>4. driver.fields.rules.items = rules
    BY DEF Object, Array
  <2> HIDE DEF driver, one, rules
  <2> QED BY <2>1, <2>2, <2>3, <2>4
<1>2. /\ Len(rules) = Cardinality({Get(rules[k], "id").is : k \in DOMAIN rules})
      /\ {Get(rules[k], "id") : k \in DOMAIN rules} = {String(ids[i]) : i \in DOMAIN ids}
  BY RulesAre DEF Exports
<1>3. /\ DOMAIN rs = 1..Len(fs) /\ DOMAIN ids = 1..Len(fs) /\ Len(rs) = Len(fs)
      /\ \A i \in 1..Len(fs) : Get(rs[i], "ruleId") = String(ids[i]) /\ Shows(rs[i], fs[i], web)
  BY DEF Exports
<1>4. {String(ids[i]) : i \in DOMAIN ids} = {Get(rs[i], "ruleId") : i \in DOMAIN rs}
  BY ONLY <1>3
<1>5. /\ Len(rs) = Len(fs)
      /\ Len(rules) = Cardinality({Get(rules[k], "id").is : k \in DOMAIN rules})
      /\ {Get(rules[k], "id") : k \in DOMAIN rules} = {Get(rs[i], "ruleId") : i \in DOMAIN rs}
      /\ \A i \in DOMAIN rs : Shows(rs[i], fs[i], web)
  <2> HIDE DEF rules
  <2> QED BY ONLY <1>2, <1>3, <1>4
<1> HIDE DEF rules, sarif
<1>6. KeepsAll(sarif, fs, web)
  BY ONLY <1>1, <1>5 DEF KeepsAll
<1> QED BY ONLY <1>6 DEF sarif

Everything(r) == (r.security_findings \o r.secret_findings) \o r.syntax_findings

LEMMA ScanExports ==
  ASSUME NEW r, IsScan(r)
  PROVE  \E ids, rs : SourceToSarif(r) = SarifRun(ids, rs) /\ Exports(Everything(r), ids, rs, FALSE)
<1> DEFINE a == r.security_findings
           b == r.secret_findings
           c == r.syntax_findings
           ia == Ids(a)
           ib == Ids(b)
           ic == [i \in DOMAIN c |-> SyntaxRuleId]
           ra == [i \in DOMAIN a |-> SecurityResult(a[i])]
           rb == [i \in DOMAIN b |-> SecretResult(b[i])]
           rc == [i \in DOMAIN c |-> SyntaxResult(c[i])]
<1>1. /\ a \in Seq(Range(a)) /\ b \in Seq(Range(b)) /\ c \in Seq(Range(c))
      /\ \A i \in DOMAIN a : DOMAIN a[i] = SecurityFields
      /\ \A i \in DOMAIN b : DOMAIN b[i] = SecretFields
      /\ \A i \in DOMAIN c : DOMAIN c[i] = SyntaxFields
  BY DEF IsScan, Records, Range
<1>2. Exports(a, ia, ra, FALSE)
  <2>1. \A i \in DOMAIN a : Get(ra[i], "ruleId") = String(ia[i]) /\ Shows(ra[i], a[i], FALSE)
    BY <1>1, SecurityShown DEF Ids
  <2>2. ia = [i \in DOMAIN a |-> ia[i]] /\ ra = [i \in DOMAIN a |-> ra[i]]
    BY DEF Ids
  <2> HIDE DEF a, ia, ra
  <2> QED BY <1>1, <2>1, <2>2, MapExports
<1>3. Exports(b, ib, rb, FALSE)
  <2>1. \A i \in DOMAIN b : Get(rb[i], "ruleId") = String(ib[i]) /\ Shows(rb[i], b[i], FALSE)
    BY <1>1, SecretShown DEF Ids
  <2>2. ib = [i \in DOMAIN b |-> ib[i]] /\ rb = [i \in DOMAIN b |-> rb[i]]
    BY DEF Ids
  <2> HIDE DEF b, ib, rb
  <2> QED BY <1>1, <2>1, <2>2, MapExports
<1>4. Exports(c, ic, rc, FALSE)
  <2>1. \A i \in DOMAIN c : Get(rc[i], "ruleId") = String(ic[i]) /\ Shows(rc[i], c[i], FALSE)
    BY <1>1, SyntaxShown
  <2>2. ic = [i \in DOMAIN c |-> ic[i]] /\ rc = [i \in DOMAIN c |-> rc[i]]
    OBVIOUS
  <2> HIDE DEF c, ic, rc
  <2> QED BY <1>1, <2>1, <2>2, MapExports
<1>5. SourceToSarif(r) = SarifRun((ia \o ib) \o ic, (ra \o rb) \o rc)
  BY DEF SourceToSarif
<1> HIDE DEF a, b, c, ia, ib, ic, ra, rb, rc
<1>6. Exports(a \o b, ia \o ib, ra \o rb, FALSE)
  BY <1>2, <1>3, ExportsJoin
<1>7. Exports((a \o b) \o c, (ia \o ib) \o ic, (ra \o rb) \o rc, FALSE)
  BY <1>4, <1>6, ExportsJoin
<1> QED BY <1>5, <1>7 DEF Everything, a, b, c

LEMMA WebExports ==
  ASSUME NEW r, IsWeb(r)
  PROVE  \E ids, rs : WebToSarif(r) = SarifRun(ids, rs) /\ Exports(r.findings, ids, rs, TRUE)
<1> DEFINE a == r.findings
           ia == Ids(a)
           ra == [i \in DOMAIN a |-> WebResult(a[i])]
<1>1. a \in Seq(Range(a)) /\ \A i \in DOMAIN a : DOMAIN a[i] = WebFields
  BY DEF IsWeb, Records, Range
<1>2. \A i \in DOMAIN a : Get(ra[i], "ruleId") = String(ia[i]) /\ Shows(ra[i], a[i], TRUE)
  BY <1>1, WebShown DEF Ids
<1>3. ia = [i \in DOMAIN a |-> ia[i]] /\ ra = [i \in DOMAIN a |-> ra[i]]
  BY DEF Ids
<1>4. WebToSarif(r) = SarifRun(ia, ra)
  BY DEF WebToSarif
<1> HIDE DEF a, ia, ra
<1>5. Exports(a, ia, ra, TRUE)
  BY <1>1, <1>2, <1>3, MapExports
<1> QED BY <1>4, <1>5 DEF a

-----------------------------------------------------------------------------
(* A rendered export is one of the report of the command that runs.        *)
Exported ==
  document.form \in {"scan-sarif", "web-sarif"} =>
    /\ step \in {"write", "print", "idle"} /\ command.kind \in {"scan", "web"}
    /\ document = [form |-> SarifForm[command.kind], report |-> report]
    /\ Fits(command, report)

LEMMA NextExported ==
  ASSUME Typed, Listed, Exported, [Next]_vars
  PROVE  Exported'
<1> USE DEF At, Continue, Keep, world, run
<1>1. ASSUME UNCHANGED <<document, command, report>>, step' \in {"write", "print", "idle"}
      PROVE  Exported'
  BY <1>1 DEF Exported, Fits, IsScan, IsWeb
<1>2. ASSUME step \notin {"write", "print", "idle"}, UNCHANGED document
      PROVE  Exported'
  BY <1>2 DEF Exported
<1>3. CASE Invoke
  BY <1>3 DEF Invoke, Exported, Nothing
<1>4. CASE Scan \/ Suppress \/ Baseline
  BY <1>2, <1>4 DEF Scan, Suppress, Baseline, Refuse
<1>5. CASE Probe \/ Answer \/ NoAnswer
  BY <1>2, <1>5 DEF Probe, Answer, NoAnswer, Refuse
<1>6. CASE Deps \/ Advisories
  BY <1>2, <1>6 DEF Deps, Advisories, Refuse
<1>7. CASE ReadOld \/ ReadNew \/ Validate
  BY <1>2, <1>7 DEF ReadOld, ReadNew, Validate, Refuse
<1>8. CASE Render
  <2>1. /\ step = "render" /\ UNCHANGED <<command, report>>
        /\ command.kind \in {"scan", "web", "deps", "diff"} /\ CommandLine(command)
        /\ Fits(command, report)
    BY <1>8, WhichCommand DEF Render, Refuse, Typed, Listed
  <2>2. CASE Refuse
    BY <1>2, <2>1, <2>2 DEF Refuse
  <2>3. CASE ~Refuse
    <3>1. step' \in {"print", "write"}
      BY <1>8, <2>3 DEF Render
    <3>2. CASE command.format = "sarif"
      <4>1. document' \in {[form |-> SarifForm[command.kind], report |-> report]}
        BY <1>8, <2>3, <3>2 DEF Render
      <4>2. command.kind \in {"scan", "web"}
        BY <2>1, <3>2 DEF CommandLine
      <4> QED BY <2>1, <3>1, <4>1, <4>2 DEF Exported, Fits, IsScan, IsWeb
    <3>3. CASE command.format # "sarif"
      <4>1. document'.form \in {command.kind, "sbom"}
        <5>1. CASE command.format = "json"
          <6>1. document' \in {[form |-> command.kind, report |-> report]}
            BY <1>8, <2>3, <5>1 DEF Render
          <6> QED BY <6>1
        <5>2. CASE command.format = "sbom"
          <6>1. document' \in {[form |-> "sbom", report |-> report,
                                timestamp |-> TimestampUtc("time", day)] : day \in Days}
            BY <1>8, <2>3, <5>2 DEF Render
          <6> QED BY <6>1
        <5> QED BY <2>1, <3>3, <5>1, <5>2 DEF CommandLine
      <4> QED BY <2>1, <4>1 DEF Exported
    <3> QED BY <3>2, <3>3
  <2> QED BY <2>2, <2>3
<1>9. CASE Write
  BY <1>1, <1>9 DEF Write
<1>10. CASE WriteFails \/ Emit \/ EmitFails
  BY <1>1, <1>10 DEF WriteFails, Emit, EmitFails, Refuse
<1>11. CASE Others
  BY <1>11 DEF Others, Exported, Fits, IsScan, IsWeb
<1>12. CASE UNCHANGED vars
  BY <1>12 DEF vars, Exported, Fits, IsScan, IsWeb
<1> QED BY <1>3, <1>4, <1>5, <1>6, <1>7, <1>8, <1>9, <1>10, <1>11, <1>12 DEF Next, Program

LEMMA ExportedKeeps == Exported => SarifKeepsFindings
<1> SUFFICES ASSUME Exported, document.form \in {"scan-sarif", "web-sarif"}
             PROVE  SarifKeepsFindings
  BY DEF SarifKeepsFindings
<1> DEFINE web == command.kind = "web"
           fs == IF web THEN report.findings
                 ELSE report.security_findings \o report.secret_findings \o report.syntax_findings
           sarif == Get(Value(document), "runs").items[1].fields
<1>1. /\ document = [form |-> SarifForm[command.kind], report |-> report]
      /\ Fits(command, report) /\ command.kind \in {"scan", "web"}
  BY DEF Exported
<1>2. PICK ids, rs : Value(document) = SarifRun(ids, rs) /\ Exports(fs, ids, rs, web)
  <2>1. CASE web
    <3>1. Value(document) = WebToSarif(report)
      BY <1>1, <2>1 DEF SarifForm, Value
    <3>2. IsWeb(report)
      BY <1>1, <2>1 DEF Fits
    <3>3. fs = report.findings
      BY <2>1
    <3> HIDE DEF fs
    <3> QED BY <2>1, <3>1, <3>2, <3>3, WebExports
  <2>2. CASE ~web
    <3>1. Value(document) = SourceToSarif(report)
      BY <1>1, <2>2 DEF SarifForm, Value
    <3>2. IsScan(report)
      BY <1>1, <2>2 DEF Fits
    <3>3. fs = Everything(report) /\ web = FALSE
      BY <2>2 DEF Everything
    <3> HIDE DEF fs, web
    <3> QED BY <3>1, <3>2, <3>3, ScanExports
  <2> QED BY <2>1, <2>2
<1> HIDE DEF fs, web
<1>3. KeepsAll(sarif, fs, web)
  BY <1>2, RunKeeps
<1> HIDE DEF sarif
<1> QED BY <1>3, Zenon DEF KeepsAll, SarifKeepsFindings, Shows, sarif, fs, web

(* An export loses nothing: any report of a scan or a probe, rendered as   *)
(* SARIF, has one result for each finding, in order and at its place, and  *)
(* one descriptor for each rule.                                           *)
THEOREM ExportsLoseNothing == Spec => []SarifKeepsFindings
<1> DEFINE Inv == Typed /\ Listed /\ Exported
<1>1. Init => Inv
  BY InitTyped DEF Init, Listed, Exported, Nothing
<1>2. Inv /\ [Next]_vars => Inv'
  BY NextTyped, NextListed, NextExported
<1>3. Inv => SarifKeepsFindings
  BY ExportedKeeps
<1> QED BY <1>1, <1>2, <1>3, PTL DEF Spec

-----------------------------------------------------------------------------
(* The cookies that the findings of a rule name, list by list.             *)
Matches(at, findings, rule, places, cookies) ==
  LET found == {k \in DOMAIN findings : findings[k].rule_id = rule}
  IN  /\ at \in [places -> found]
      /\ \A i, j \in places : at[i] = at[j] => i = j
      /\ \A k \in found : \E i \in places : at[i] = k
      /\ \A i, j \in places : i < j => at[i] < at[j]
      /\ \A i \in places : findings[at[i]].cookie = cookies[i][1].key

LEMMA GradesMatch ==
  ASSUME NEW findings, NEW rule, NEW places, NEW cookies
  PROVE  Grades(findings, rule, places, cookies)
           <=> \E at : Matches(at, findings, rule, places, cookies)
BY DEF Grades, Matches, Bijection, Injection, Surjection, IsInjective

LEMMA GradesJoin ==
  ASSUME NEW S, NEW s \in Seq(S), NEW t \in Seq(S), NEW rule, NEW cookies,
         NEW P \in SUBSET Int, NEW Q \in SUBSET Int, \A i \in P, j \in Q : i < j,
         Grades(s, rule, P, cookies), Grades(t, rule, Q, cookies)
  PROVE  Grades(s \o t, rule, P \union Q, cookies)
<1> DEFINE n == Len(s)
           m == Len(t)
           u == s \o t
           A == {k \in DOMAIN s : s[k].rule_id = rule}
           B == {k \in DOMAIN t : t[k].rule_id = rule}
           C == {k \in DOMAIN u : u[k].rule_id = rule}
<1>1. PICK f : Matches(f, s, rule, P, cookies)
  BY GradesMatch
<1>2. PICK g : Matches(g, t, rule, Q, cookies)
  BY GradesMatch
<1>3. /\ f \in [P -> A] /\ \A i, j \in P : f[i] = f[j] => i = j
      /\ \A k \in A : \E i \in P : f[i] = k
      /\ \A i, j \in P : i < j => f[i] < f[j]
      /\ \A i \in P : s[f[i]].cookie = cookies[i][1].key
  BY <1>1, Zenon DEF Matches
<1>4. /\ g \in [Q -> B] /\ \A i, j \in Q : g[i] = g[j] => i = j
      /\ \A k \in B : \E i \in Q : g[i] = k
      /\ \A i, j \in Q : i < j => g[i] < g[j]
      /\ \A i \in Q : t[g[i]].cookie = cookies[i][1].key
  BY <1>2, Zenon DEF Matches
<1>5. /\ n \in Nat /\ m \in Nat /\ DOMAIN s = 1..n /\ DOMAIN t = 1..m /\ DOMAIN u = 1..n + m
      /\ \A k \in 1..n : u[k] = s[k]
      /\ \A k \in 1..m : u[n + k] = t[k]
  OBVIOUS
<1> HIDE DEF n, m, u
<1>6. A \subseteq 1..n /\ B \subseteq 1..m /\ C \subseteq 1..n + m
  BY <1>5
<1>7. \A k \in A : k \in C /\ u[k] = s[k]
  BY <1>5
<1>8. \A k \in B : n + k \in C /\ u[n + k] = t[k]
  <2> TAKE k \in B
  <2>1. k \in 1..m /\ t[k].rule_id = rule /\ n + k \in 1..n + m
    BY <1>5
  <2> QED BY <1>5, <2>1
<1>9. \A k \in C : k \in A \/ \E l \in B : k = n + l
  <2> TAKE k \in C
  <2>1. k \in 1..n + m /\ u[k].rule_id = rule
    BY <1>5
  <2>2. CASE k <= n
    <3>1. k \in 1..n
      BY <1>5, <2>1, <2>2
    <3> QED BY <1>5, <2>1, <3>1
  <2>3. CASE k > n
    <3> DEFINE l == k - n
    <3>1. l \in 1..m /\ n + l = k
      BY <1>5, <2>1, <2>3
    <3> HIDE DEF l
    <3>2. u[n + l] = t[l]
      BY <1>5, <3>1
    <3>3. l \in B
      BY <1>5, <2>1, <3>1, <3>2
    <3> QED BY <3>1, <3>3
  <2>4. k \in Int
    BY <1>5, <2>1
  <2> QED BY <1>5, <2>2, <2>3, <2>4
<1> HIDE DEF A, B, C
<1> DEFINE at == [i \in P \union Q |-> IF i \in P THEN f[i] ELSE n + g[i]]
<1>10. P \intersect Q = {}
  BY SMT
<1>11. /\ \A i \in P : at[i] = f[i] /\ f[i] \in A
       /\ \A i \in Q : at[i] = n + g[i] /\ g[i] \in B
       /\ DOMAIN at = P \union Q
  BY <1>3, <1>4, <1>10
<1> DEFINE D == P \union Q
<1>12. at \in [D -> C]
  BY <1>7, <1>8, <1>11
<1> HIDE DEF at
<1>13. \A i \in D : i \in P \/ i \in Q
  OBVIOUS
<1>14. \A i \in P, j \in Q : at[i] < at[j] /\ at[i] # at[j]
  <2> TAKE i \in P, j \in Q
  <2>1. f[i] \in A /\ g[j] \in B /\ at[i] = f[i] /\ at[j] = n + g[j]
    BY <1>11
  <2>2. f[i] \in 1..n /\ g[j] \in 1..m
    BY <1>6, <2>1
  <2>3. f[i] \in Int /\ f[i] <= n /\ g[j] \in Int /\ g[j] >= 1 /\ n \in Int
    BY <1>5, <2>2
  <2>4. at[i] \in Int /\ at[j] \in Int /\ at[i] < at[j]
    BY ONLY <2>1, <2>3
  <2> QED BY ONLY <2>4
<1>15. \A i, j \in Q : (at[i] = at[j] => g[i] = g[j]) /\ (g[i] < g[j] => at[i] < at[j])
  <2> TAKE i, j \in Q
  <2>1. g[i] \in B /\ g[j] \in B /\ at[i] = n + g[i] /\ at[j] = n + g[j]
    BY <1>11
  <2>2. g[i] \in 1..m /\ g[j] \in 1..m
    BY <1>6, <2>1
  <2>3. g[i] \in Int /\ g[j] \in Int /\ n \in Int
    BY <1>5, <2>2
  <2> QED BY ONLY <2>1, <2>3
<1>16. \A i, j \in D : at[i] = at[j] => i = j
  BY <1>3, <1>4, <1>11, <1>13, <1>14, <1>15
<1>17. \A k \in C : \E i \in D : at[i] = k
  BY <1>3, <1>4, <1>9, <1>11
<1>18. \A i, j \in D : i < j => at[i] < at[j]
  <2> TAKE i, j \in D
  <2>1. CASE i \in P /\ j \in P
    BY <1>3, <1>11, <2>1
  <2>2. CASE i \in Q /\ j \in Q
    BY <1>4, <1>15, <2>2
  <2>3. CASE i \in P /\ j \in Q
    BY <1>14, <2>3
  <2>4. CASE i \in Q /\ j \in P
    <3>1. j < i /\ i \in Int /\ j \in Int
      BY <2>4
    <3> QED BY <3>1
  <2> QED BY <1>13, <2>1, <2>2, <2>3, <2>4
<1>19. \A i \in D : u[at[i]].cookie = cookies[i][1].key
  BY <1>3, <1>4, <1>7, <1>8, <1>11, <1>13
<1>20. Matches(at, u, rule, D, cookies)
  BY <1>12, <1>16, <1>17, <1>18, <1>19 DEF Matches, C
<1> QED BY <1>20, GradesMatch DEF u

LEMMA NoneGraded ==
  ASSUME NEW findings, NEW rule, NEW cookies,
         \A k \in DOMAIN findings : findings[k].rule_id # rule
  PROVE  Grades(findings, rule, {}, cookies)
<1> DEFINE at == [i \in {} |-> i]
<1>1. Matches(at, findings, rule, {}, cookies)
  BY DEF Matches
<1> HIDE DEF at
<1> QED BY <1>1, GradesMatch

LEMMA WhenGraded ==
  ASSUME NEW condition, NEW finding, NEW rule, NEW cookies, NEW i \in Int,
         condition /\ finding.rule_id = rule => finding.cookie = cookies[i][1].key
  PROVE  Grades(When(condition, finding), rule,
                {k \in {i} : condition /\ finding.rule_id = rule}, cookies)
<1> DEFINE s == When(condition, finding)
           W == {k \in {i} : condition /\ finding.rule_id = rule}
<1>1. CASE condition /\ finding.rule_id = rule
  <2> DEFINE at == [k \in {i} |-> 1]
  <2>1. s = <<finding>> /\ W = {i}
    BY <1>1 DEF When
  <2>2. DOMAIN s = {1} /\ s[1] = finding
    BY <2>1
  <2> HIDE DEF s, W
  <2>3. Matches(at, s, rule, {i}, cookies)
    BY <1>1, <2>2 DEF Matches
  <2> HIDE DEF at
  <2>4. Grades(s, rule, W, cookies)
    BY <2>1, <2>3, GradesMatch
  <2> QED BY <2>4 DEF s, W
<1>2. CASE ~(condition /\ finding.rule_id = rule)
  <2>1. W = {}
    BY <1>2
  <2>2. \A k \in DOMAIN s : s[k].rule_id # rule
    <3>1. CASE condition
      <4>1. DOMAIN s = {1} /\ s[1] = finding
        BY <3>1 DEF When
      <4> QED BY <1>2, <3>1, <4>1
    <3>2. CASE ~condition
      <4>1. DOMAIN s = {}
        BY <3>2 DEF When
      <4> QED BY <4>1
    <3> QED BY <3>1, <3>2
  <2> HIDE DEF s, W
  <2>3. Grades(s, rule, W, cookies)
    BY <2>1, <2>2, NoneGraded
  <2> QED BY <2>3 DEF s, W
<1> QED BY <1>1, <1>2

LEMMA GradesFlatten ==
  ASSUME NEW S, NEW ss \in Seq(Seq(S)), NEW rule, NEW cookies,
         NEW W \in SUBSET (1..Len(ss)),
         \A i \in 1..Len(ss) : Grades(ss[i], rule, W \intersect {i}, cookies)
  PROVE  Grades(FlattenSeq(ss), rule, W, cookies)
<1> DEFINE m == Len(ss)
           upto(l) == {i \in W : i <= l}
<1>1. m \in Nat /\ (\A i \in 1..m : ss[i] \in Seq(S)) /\ W \subseteq Int
  OBVIOUS
<1>0. \A i \in W : i \in Int /\ i >= 1 /\ i <= m
  OBVIOUS
<1>2. CASE m = 0
  <2>1. FlattenSeq(ss) = ss /\ ss = <<>>
    BY <1>2 DEF FlattenSeq
  <2>2. W = {} /\ DOMAIN ss = {}
    BY <1>2
  <2> QED BY <2>1, <2>2, NoneGraded
<1>3. CASE m # 0
  <2>1. PICK g : Joins(g, ss, m) /\ FlattenSeq(ss) = g[m]
    BY <1>1, <1>3, Flattened
  <2>2. \A i \in 1..m : g[i] = IF i = 1 THEN ss[i] ELSE g[i - 1] \o ss[i]
    BY <2>1 DEF Joins
  <2> DEFINE good(l) == g[l] \in Seq(S) /\ Grades(g[l], rule, upto(l), cookies)
             bad == {l \in 1..m : ~good(l)}
  <2>3. good(1)
    <3>1. 1 \in 1..m
      BY <1>1, <1>3
    <3>2. upto(1) = W \intersect {1}
      <4>1. \A i \in W : i <= 1 <=> i = 1
        BY ONLY <1>0
      <4> QED BY ONLY <4>1
    <3>3. g[1] = ss[1]
      BY <2>2, <3>1
    <3> HIDE DEF upto
    <3> QED BY <1>1, <3>1, <3>2, <3>3
  <2>4. ASSUME NEW l \in 1..m, l # 1, good(l - 1)
        PROVE  good(l)
    <3>1. g[l] = g[l - 1] \o ss[l] /\ g[l - 1] \in Seq(S) /\ ss[l] \in Seq(S)
      BY <1>1, <2>2, <2>4
    <3>2. /\ upto(l) = upto(l - 1) \union (W \intersect {l})
          /\ \A i \in upto(l - 1), j \in W \intersect {l} : i < j
          /\ upto(l - 1) \in SUBSET Int /\ W \intersect {l} \in SUBSET Int
      <4>1. l \in Int
        BY <1>1
      <4>2. \A i \in W : /\ i \in Int /\ (i <= l <=> i <= l - 1 \/ i = l)
                         /\ i <= l - 1 => i < l
        BY ONLY <1>0, <4>1
      <4> QED BY ONLY <4>2
    <3>3. Grades(g[l - 1], rule, upto(l - 1), cookies) /\ Grades(ss[l], rule, W \intersect {l}, cookies)
      BY <2>4
    <3> HIDE DEF upto, m
    <3>4. Grades(g[l - 1] \o ss[l], rule, upto(l - 1) \union (W \intersect {l}), cookies)
      BY <3>1, <3>2, <3>3, GradesJoin
    <3>5. g[l - 1] \o ss[l] \in Seq(S)
      BY <3>1
    <3> QED BY <3>1, <3>2, <3>4, <3>5
  <2>5. bad = {}
    <3> SUFFICES ASSUME bad # {}
                 PROVE  FALSE
      OBVIOUS
    <3> HIDE DEF good
    <3>1. PICK l \in bad : \A k \in bad : l <= k
      <4>1. bad \in SUBSET Nat
        BY <1>1
      <4> QED BY <4>1, LeastOf
    <3>2. l \in 1..m /\ ~good(l) /\ l # 1
      BY <2>3, <3>1
    <3>3. l - 1 \in 1..m /\ ~(l <= l - 1)
      BY <1>1, <3>2
    <3>4. good(l - 1)
      BY <3>1, <3>3
    <3> QED BY <2>4, <3>2, <3>4
  <2>6. good(m)
    <3> HIDE DEF good
    <3>1. m \in 1..m
      BY <1>1, <1>3
    <3> QED BY <2>5, <3>1
  <2>7. upto(m) = W
    BY ONLY <1>0
  <2> HIDE DEF upto
  <2> QED BY <2>1, <2>6, <2>7
<1> QED BY <1>2, <1>3

(* The cookie lacks what the rule asks of it. *)
Lacks(https, cookie, rule) ==
  /\ IsCookie(cookie)
  /\ \/ rule = "WEB-COOKIE-HTTPONLY" /\ ~HttpOnly(cookie)
     \/ rule = "WEB-COOKIE-SECURE" /\ https /\ ~Secure(cookie)
     \/ rule = "WEB-COOKIE-SAMESITE" /\ ~SameSite(cookie)

LEMMA LengthOf ==
  ASSUME NEW s, s \in Seq(Range(s))
  PROVE  Len(s) \in Nat /\ DOMAIN s = 1..Len(s)
OBVIOUS

LEMMA JoinedLists ==
  ASSUME NEW S, NEW s \in Seq(S), NEW t \in Seq(S)
  PROVE  s \o t \in Seq(S)
OBVIOUS

LEMMA WhenListed ==
  ASSUME NEW condition, NEW finding, NEW S, finding \in S
  PROVE  When(condition, finding) \in Seq(S)
BY DEF When

LEMMA WhenOther ==
  ASSUME NEW condition, NEW finding, NEW rule, NEW names, finding.rule_id # rule
  PROVE  Grades(When(condition, finding), rule, {}, names)
<1> DEFINE s == When(condition, finding)
<1>1. s = <<finding>> \/ s = <<>>
  BY DEF When
<1>2. (DOMAIN s = {1} /\ s[1] = finding) \/ DOMAIN s = {}
  BY <1>1
<1> HIDE DEF s
<1>3. \A k \in DOMAIN s : s[k].rule_id # rule
  BY <1>2
<1>4. Grades(s, rule, {}, names)
  BY <1>3, NoneGraded
<1> QED BY <1>4 DEF s

LEMMA NoneAndMore ==
  ASSUME NEW S, NEW s \in Seq(S), NEW t \in Seq(S), NEW rule, NEW names, NEW W \in SUBSET Int,
         Grades(s, rule, {}, names), Grades(t, rule, W, names)
  PROVE  Grades(s \o t, rule, W, names)
<1>1. {} \in SUBSET Int /\ (\A i \in {}, j \in W : i < j) /\ {} \union W = W
  OBVIOUS
<1>2. Grades(s \o t, rule, {} \union W, names)
  BY <1>1, GradesJoin
<1> QED BY <1>1, <1>2

(* A cookie has three lists of findings, a response five and those.        *)
LEMMA ThreeJoined ==
  ASSUME NEW S, NEW a \in Seq(S), NEW b \in Seq(S), NEW c \in Seq(S), NEW rule, NEW names,
         NEW F \in SUBSET Int, NEW G \in SUBSET Int, NEW H \in SUBSET Int,
         \A k \in F, l \in G : k < l, \A k \in F \union G, l \in H : k < l,
         Grades(a, rule, F, names), Grades(b, rule, G, names), Grades(c, rule, H, names)
  PROVE  Grades(a \o b \o c, rule, (F \union G) \union H, names)
<1>1. a \o b \in Seq(S) /\ F \union G \in SUBSET Int
  BY JoinedLists
<1>2. Grades(a \o b, rule, F \union G, names)
  BY GradesJoin
<1> QED BY <1>1, <1>2, GradesJoin

LEMMA SixJoined ==
  ASSUME NEW S, NEW a \in Seq(S), NEW b \in Seq(S), NEW c \in Seq(S), NEW d \in Seq(S),
         NEW e \in Seq(S), NEW f \in Seq(S), NEW rule, NEW names,
         NEW W \in SUBSET Int, NEW E \in SUBSET Int, \A i \in W, j \in E : i < j,
         Grades(a, rule, {}, names), Grades(b, rule, {}, names),
         Grades(c, rule, {}, names), Grades(d, rule, {}, names),
         Grades(e, rule, W, names), Grades(f, rule, E, names)
  PROVE  Grades(((((a \o b) \o c) \o d) \o e) \o f, rule, W \union E, names)
<1> DEFINE p == (a \o b) \o c
<1>0. {} \in SUBSET Int
  OBVIOUS
<1>1. a \o b \in Seq(S) /\ Grades(a \o b, rule, {}, names)
  BY <1>0, JoinedLists, NoneAndMore
<1>2. p \in Seq(S) /\ Grades(p, rule, {}, names)
  BY <1>0, <1>1, JoinedLists, NoneAndMore
<1> HIDE DEF p
<1>3. p \o d \in Seq(S) /\ Grades(p \o d, rule, {}, names)
  BY <1>0, <1>2, JoinedLists, NoneAndMore
<1>4. (p \o d) \o e \in Seq(S) /\ Grades((p \o d) \o e, rule, W, names)
  BY <1>3, JoinedLists, NoneAndMore
<1>5. Grades(((p \o d) \o e) \o f, rule, W \union E, names)
  BY <1>4, GradesJoin
<1> QED BY <1>5 DEF p

Lacking(https, cookie, rule, i) == {k \in {i} : Lacks(https, cookie, rule)}

LEMMA CookieGraded ==
  ASSUME NEW https, NEW cookies, NEW i \in DOMAIN cookies, NEW rule, NEW names, i \in Int,
         Lacks(https, cookies[i], rule) => names[i][1].key = cookies[i][1].key
  PROVE  Grades(CookieFindings(https, cookies[i]), rule, Lacking(https, cookies[i], rule, i), names)
<1> DEFINE c == cookies[i]
           W == Lacking(https, c, rule, i)
<1>1. CASE ~IsCookie(c)
  <2>1. CookieFindings(https, c) = <<>> /\ W = {}
    BY <1>1 DEF CookieFindings, Lacks, Lacking
  <2>2. \A k \in DOMAIN CookieFindings(https, c) : CookieFindings(https, c)[k].rule_id # rule
    BY <2>1
  <2> QED BY <2>1, <2>2, NoneGraded
<1>2. CASE IsCookie(c)
  <2> DEFINE name == c[1].key
             f == Finding("WEB-COOKIE-HTTPONLY", "review", name, "high")
             g == Finding("WEB-COOKIE-SECURE", "medium", name, "high")
             h == Finding("WEB-COOKIE-SAMESITE", "review", name, "high")
             p == ~HttpOnly(c)
             q == https /\ ~Secure(c)
             r == ~SameSite(c)
             F == {k \in {i} : p /\ f.rule_id = rule}
             G == {k \in {i} : q /\ g.rule_id = rule}
             H == {k \in {i} : r /\ h.rule_id = rule}
             S == {f, g, h}
  <2>1. CookieFindings(https, c) = When(p, f) \o When(q, g) \o When(r, h)
    BY <1>2 DEF CookieFindings
  <2>2. /\ f.rule_id = "WEB-COOKIE-HTTPONLY" /\ f.cookie = name
        /\ g.rule_id = "WEB-COOKIE-SECURE" /\ g.cookie = name
        /\ h.rule_id = "WEB-COOKIE-SAMESITE" /\ h.cookie = name
    BY DEF Finding
  <2>3. W = (F \union G) \union H
    BY <1>2, <2>2 DEF Lacks, Lacking
  <2>4. /\ \A k \in F, l \in G : k < l
        /\ \A k \in F \union G, l \in H : k < l
        /\ F \in SUBSET Int /\ G \in SUBSET Int /\ H \in SUBSET Int /\ F \union G \in SUBSET Int
    BY <2>2
  <2>5. /\ p /\ f.rule_id = rule => f.cookie = names[i][1].key
        /\ q /\ g.rule_id = rule => g.cookie = names[i][1].key
        /\ r /\ h.rule_id = rule => h.cookie = names[i][1].key
    BY <1>2, <2>2 DEF Lacks
  <2> HIDE DEF f, g, h, p, q, r, W
  <2>6. /\ Grades(When(p, f), rule, F, names) /\ Grades(When(q, g), rule, G, names)
        /\ Grades(When(r, h), rule, H, names)
    BY <2>5, WhenGraded
  <2>7. When(p, f) \in Seq(S) /\ When(q, g) \in Seq(S) /\ When(r, h) \in Seq(S)
    <3>1. f \in S /\ g \in S /\ h \in S
      OBVIOUS
    <3> HIDE DEF S
    <3> QED BY <3>1, WhenListed
  <2> HIDE DEF F, G, H, S
  <2>8. Grades(When(p, f) \o When(q, g) \o When(r, h), rule, (F \union G) \union H, names)
    BY <2>4, <2>6, <2>7, ThreeJoined
  <2>10. Grades(CookieFindings(https, c), rule, W, names)
    BY <2>1, <2>3, <2>8
  <2> QED BY <2>10 DEF W
<1> QED BY <1>1, <1>2

LEMMA CookiesGraded ==
  ASSUME NEW https, NEW cookies, NEW rule, NEW names, cookies \in Seq(Range(cookies)),
         \A i \in DOMAIN cookies :
           Lacks(https, cookies[i], rule) => names[i][1].key = cookies[i][1].key
  PROVE  Grades(FlattenSeq([i \in DOMAIN cookies |-> CookieFindings(https, cookies[i])]), rule,
                {i \in DOMAIN cookies : Lacks(https, cookies[i], rule)}, names)
<1> DEFINE n == Len(cookies)
           S == WebKinds(cookies)
           W == {i \in DOMAIN cookies : Lacks(https, cookies[i], rule)}
           found == [i \in DOMAIN cookies |-> CookieFindings(https, cookies[i])]
<1>1. n \in Nat /\ DOMAIN cookies = 1..n
  OBVIOUS
<1>2. found \in Seq(Seq(S))
  BY ProbeParts
<1>3. W \in SUBSET (1..n) /\ \A i \in 1..n : found[i] = CookieFindings(https, cookies[i])
  BY <1>1
<1>4. Len(found) = n
  <2>1. DOMAIN found = 1..n
    BY <1>1
  <2> HIDE DEF found, n, S
  <2> QED BY <1>1, <1>2, <2>1
<1>5. ASSUME NEW i \in 1..n
      PROVE  Grades(found[i], rule, W \intersect {i}, names)
  <2>1. i \in DOMAIN cookies /\ i \in Int
    BY <1>1
  <2>2. W \intersect {i} = Lacking(https, cookies[i], rule, i)
    BY <2>1 DEF Lacking
  <2>3. Lacks(https, cookies[i], rule) => names[i][1].key = cookies[i][1].key
    BY <2>1
  <2> HIDE DEF W, found, n
  <2>4. Grades(CookieFindings(https, cookies[i]), rule, Lacking(https, cookies[i], rule, i), names)
    BY <2>1, <2>3, CookieGraded
  <2> QED BY <1>3, <2>2, <2>4
<1> HIDE DEF W, found, S, n
<1>6. Grades(FlattenSeq(found), rule, W, names)
  BY <1>2, <1>3, <1>4, <1>5, GradesFlatten
<1> QED BY <1>6 DEF W, found

(* The places of the cookies that a rule reports, and the place behind the *)
(* last one for the response itself.                                       *)
Reported(https, cookies, rule, uncached) ==
  {i \in DOMAIN cookies : Lacks(https, cookies[i], rule)}
    \union {i \in {Len(cookies) + 1} : uncached /\ rule = "WEB-CACHE"}

LEMMA WebGraded ==
  ASSUME NEW https, NEW response, NEW cookies, NEW rule, NEW names,
         cookies = response.cookies, cookies \in Seq(Range(cookies)),
         rule \notin {"WEB-XCTO", "WEB-CSP", "WEB-HSTS", "WEB-CORS-CREDENTIALS"},
         \A i \in DOMAIN cookies :
           Lacks(https, cookies[i], rule) => names[i][1].key = cookies[i][1].key,
         rule = "WEB-CACHE" => names[Len(cookies) + 1][1].key = "",
         NEW uncached,
         uncached = ((\E i \in DOMAIN cookies : IsCookie(cookies[i])) /\ ~response.cache_control)
  PROVE  Grades(WebFindings(https, response), rule,
                Reported(https, cookies, rule, uncached), names)
<1> DEFINE n == Len(cookies)
           S == WebKinds(cookies)
           W == {i \in DOMAIN cookies : Lacks(https, cookies[i], rule)}
           E == {i \in {n + 1} : uncached /\ rule = "WEB-CACHE"}
           x == FlattenSeq([i \in DOMAIN cookies |-> CookieFindings(https, cookies[i])])
           html == response.content_type # <<>> /\ response.content_type[1] # Unreadable
                     /\ Folded[response.content_type[1]] \in HtmlTypes
           fa == Finding("WEB-XCTO", "medium", "", "high")
           fb == Finding("WEB-CSP", "review", "", "high")
           fc == Finding("WEB-HSTS", "medium", "", "high")
           fd == Finding("WEB-CORS-CREDENTIALS", "high", "", "confirmed")
           fe == Finding("WEB-CACHE", "review", "", "high")
           a == When(~Says(response.content_type_options, "nosniff"), fa)
           b == When(html /\ ~response.csp, fb)
           c == When(https /\ ~response.hsts, fc)
           d == When(response.allow_origin = <<"https://loop3r.invalid">>
                       /\ Says(response.allow_credentials, "true"), fd)
           e == When(uncached, fe)
<1>1. WebFindings(https, response) = ((((a \o b) \o c) \o d) \o x) \o e
  BY DEF WebFindings
<1>2. n \in Nat /\ DOMAIN cookies = 1..n
  BY LengthOf
<1>3. /\ a \in Seq(S) /\ b \in Seq(S) /\ c \in Seq(S) /\ d \in Seq(S) /\ e \in Seq(S)
  BY ProbeParts
<1>4. x \in Seq(S)
  <2> DEFINE found == [i \in DOMAIN cookies |-> CookieFindings(https, cookies[i])]
  <2>1. found \in Seq(Seq(S))
    BY ProbeParts
  <2> HIDE DEF S, found
  <2>2. FlattenSeq(found) \in Seq(S)
    BY <2>1, FlattenedIsAList
  <2> QED BY <2>2 DEF found
<1>5. Grades(x, rule, W, names)
  BY CookiesGraded, ZenonT(30)
<1>6. /\ fa.rule_id # rule /\ fb.rule_id # rule /\ fc.rule_id # rule /\ fd.rule_id # rule
      /\ fe.rule_id = "WEB-CACHE" /\ fe.cookie = ""
  BY DEF Finding
<1> HIDE DEF fa, fb, fc, fd, fe, S, W, E, n, x, html
<1>7. /\ Grades(a, rule, {}, names) /\ Grades(b, rule, {}, names)
      /\ Grades(c, rule, {}, names) /\ Grades(d, rule, {}, names)
  BY <1>6, WhenOther
<1>8. Grades(e, rule, E, names)
  <2>1. n + 1 \in Int
    BY ONLY <1>2
  <2>2. E = {k \in {n + 1} : uncached /\ fe.rule_id = rule}
    BY <1>6 DEF E
  <2>3. uncached /\ fe.rule_id = rule => fe.cookie = names[n + 1][1].key
    BY <1>6 DEF n
  <2>4. Grades(When(uncached, fe), rule, {k \in {n + 1} : uncached /\ fe.rule_id = rule}, names)
    BY <2>1, <2>3, WhenGraded, ZenonT(30)
  <2> QED BY <2>2, <2>4
<1>9. W \in SUBSET Int /\ E \in SUBSET Int /\ \A i \in W, j \in E : i < j
  <2>1. (\A i \in W : i \in 1..n) /\ \A i \in E : i = n + 1
    BY <1>2 DEF W, E
  <2> QED BY ONLY <1>2, <2>1
<1> HIDE DEF a, b, c, d, e
<1>10. Grades(((((a \o b) \o c) \o d) \o x) \o e, rule, W \union E, names)
  BY ONLY <1>3, <1>4, <1>5, <1>7, <1>8, <1>9, SixJoined
<1> QED BY <1>1, <1>10 DEF Reported, W, E, n

(* At the end of a probe the report is the one of the answer. *)
Probed ==
  step = "render" /\ command.kind = "web" => report = WebScan(command.url, command.answer)

LEMMA NextProbed ==
  ASSUME Typed, Probed, [Next]_vars
  PROVE  Probed'
<1> USE DEF At, Continue, Keep, world, run
<1>1. ASSUME step' # "render"
      PROVE  Probed'
  BY <1>1 DEF Probed
<1>2. CASE Invoke
  <2>1. step' = command'.kind /\ CommandLine(command')
    BY <1>2, InvokeTyped
  <2> QED BY <1>1, <2>1 DEF CommandLine
<1>3. CASE Scan \/ Suppress \/ Probe \/ NoAnswer \/ Deps \/ ReadOld \/ Validate
  BY <1>1, <1>3 DEF Scan, Suppress, Probe, NoAnswer, Deps, ReadOld, Validate, Refuse
<1>4. CASE Baseline \/ Advisories \/ ReadNew
  <2>1. step \in {"baseline", "advisories", "new"} /\ UNCHANGED command
    BY <1>4 DEF Baseline, Advisories, ReadNew
  <2>2. command.kind # "web"
    BY <2>1, WhichCommand DEF Typed
  <2> QED BY <2>1, <2>2 DEF Probed
<1>5. CASE Answer
  BY <1>5 DEF Answer, Probed
<1>6. CASE Render
  <2>1. step' \in {"idle", "print", "write"}
    BY <1>6 DEF Render, Refuse
  <2> QED BY <1>1, <2>1
<1>7. CASE Write \/ WriteFails \/ Emit \/ EmitFails
  BY <1>1, <1>7 DEF Write, WriteFails, Emit, EmitFails, Refuse
<1>8. CASE Others
  BY <1>8 DEF Others, Probed
<1>9. CASE UNCHANGED vars
  BY <1>9 DEF vars, Probed
<1> QED BY <1>2, <1>3, <1>4, <1>5, <1>6, <1>7, <1>8, <1>9 DEF Next, Program

(* An attribute is a segment behind the first. *)
LEMMA AttributesAre ==
  ASSUME NEW c, c \in Seq(Range(c)),
         \A segment \in Range(c) : segment.value \in Option(Range(segment.value))
  PROVE  /\ \A a : a \in Attributes(c) <=> \E i \in DOMAIN c : i > 1 /\ a = c[i]
         /\ \A i \in DOMAIN c : \A S : (\E text \in ToSet(c[i].value) : Folded[text] \in S)
              <=> c[i].value # <<>> /\ Folded[c[i].value[1]] \in S
<1>1. Len(c) \in Nat /\ DOMAIN c = 1..Len(c)
  BY LengthOf
<1>2. \A i : i \in 2..Len(c) <=> i \in DOMAIN c /\ i > 1
  BY ONLY <1>1
<1>3. ASSUME NEW i \in DOMAIN c
      PROVE  c[i].value = <<>> \/ \E x : c[i].value = <<x>>
  <2>1. c[i] \in Range(c)
    BY DEF Range
  <2> QED BY <2>1 DEF Option
<1>4. \A x : ToSet(<<x>>) = {x} /\ <<x>> # <<>> /\ <<x>>[1] = x
  BY DEF ToSet
<1>5. ToSet(<<>>) = {}
  BY DEF ToSet
<1>6. \A a : a \in Attributes(c) <=> \E i \in DOMAIN c : i > 1 /\ a = c[i]
  BY <1>2, ZenonT(30) DEF Attributes
<1>7. ASSUME NEW i \in DOMAIN c, NEW S
      PROVE  (\E text \in ToSet(c[i].value) : Folded[text] \in S)
               <=> c[i].value # <<>> /\ Folded[c[i].value[1]] \in S
  <2>1. CASE c[i].value = <<>>
    BY <1>5, <2>1, ZenonT(30)
  <2>2. ASSUME NEW x, c[i].value = <<x>>
        PROVE  (\E text \in ToSet(c[i].value) : Folded[text] \in S)
                 <=> c[i].value # <<>> /\ Folded[c[i].value[1]] \in S
    <3>1. ToSet(c[i].value) = {x} /\ c[i].value # <<>> /\ c[i].value[1] = x
      BY <1>4, <2>2
    <3> QED BY <3>1, ZenonT(30)
  <2> QED BY <1>3, <2>1, <2>2
<1> QED BY <1>6, <1>7

LEMMA ProbeGrades ==
  ASSUME CommandLine(command), Probed
  PROVE  EveryCookieGraded
<1> SUFFICES ASSUME step = "render", command.kind = "web"
             PROVE  EveryCookieGraded
  BY DEF EveryCookieGraded
<1> DEFINE cookies == command.answer.cookies
           named == {i \in DOMAIN cookies : cookies[i] # <<>> /\ cookies[i][1].key # ""}
           sound(c, key) ==
             \E i \in DOMAIN c : /\ i > 1 /\ Folded[c[i].key] = key
                                 /\ key = "samesite" =>
                                      \E text \in ToSet(c[i].value) :
                                        Folded[text] \in {"lax", "strict", "none"}
           lacking(key) == {i \in named : ~sound(cookies[i], key)}
           https == command.url.scheme = "https"
           findings == report.findings
           cached == {k \in DOMAIN findings : findings[k].rule_id = "WEB-CACHE"}
           uncached == (\E i \in DOMAIN cookies : IsCookie(cookies[i]))
                         /\ ~command.answer.cache_control
           n == Len(cookies)
<1>1. findings = WebFindings(https, command.answer)
  BY DEF Probed, WebScan
<1>2. /\ cookies \in Seq(Range(cookies))
      /\ \A c \in Range(cookies) :
           /\ c \in Seq(Range(c))
           /\ \A segment \in Range(c) : segment.value \in Option(Range(segment.value))
  BY DEF CommandLine
<1>3. n \in Nat /\ DOMAIN cookies = 1..n
  BY <1>2, LengthOf
<1>4. \A i \in DOMAIN cookies : i \in named <=> IsCookie(cookies[i])
  BY DEF IsCookie
<1>5. ASSUME NEW i \in DOMAIN cookies
      PROVE  /\ sound(cookies[i], "httponly") <=> HttpOnly(cookies[i])
             /\ sound(cookies[i], "secure") <=> Secure(cookies[i])
             /\ sound(cookies[i], "samesite") <=> SameSite(cookies[i])
  <2> DEFINE c == cookies[i]
  <2>1. c \in Range(cookies)
    BY DEF Range
  <2>2. /\ \A a : a \in Attributes(c) <=> \E j \in DOMAIN c : j > 1 /\ a = c[j]
        /\ \A j \in DOMAIN c : \A S : (\E text \in ToSet(c[j].value) : Folded[text] \in S)
             <=> c[j].value # <<>> /\ Folded[c[j].value[1]] \in S
    BY <1>2, <2>1, AttributesAre
  <2> HIDE DEF c
  <2>3. /\ sound(c, "httponly") <=> HttpOnly(c)
        /\ sound(c, "secure") <=> Secure(c)
    BY <2>2 DEF HttpOnly, Secure
  <2>4. sound(c, "samesite") <=> SameSite(c)
    <3> DEFINE Sites == {"lax", "strict", "none"}
               says(v) == v # <<>> /\ Folded[v[1]] \in Sites
    <3>1. \A j \in DOMAIN c : (\E text \in ToSet(c[j].value) : Folded[text] \in Sites)
                                <=> says(c[j].value)
      BY <2>2
    <3>2. SameSite(c) <=> \E a \in Attributes(c) : Folded[a.key] = "samesite" /\ says(a.value)
      BY DEF SameSite
    <3>3. sound(c, "samesite") <=> \E j \in DOMAIN c : /\ j > 1 /\ Folded[c[j].key] = "samesite"
                                                       /\ says(c[j].value)
      <4> HIDE DEF says
      <4> QED BY <3>1
    <3> HIDE DEF sound, says
    <3> QED BY <2>2, <3>2, <3>3
  <2> QED BY <2>3, <2>4 DEF c
<1>6. ASSUME NEW i \in DOMAIN cookies
      PROVE  /\ Lacks(https, cookies[i], "WEB-COOKIE-HTTPONLY") <=> i \in lacking("httponly")
             /\ Lacks(https, cookies[i], "WEB-COOKIE-SAMESITE") <=> i \in lacking("samesite")
             /\ Lacks(https, cookies[i], "WEB-COOKIE-SECURE")
                  <=> i \in (IF https THEN lacking("secure") ELSE {})
             /\ ~Lacks(https, cookies[i], "WEB-CACHE")
  <2> HIDE DEF sound, https, named, cookies
  <2> QED BY <1>4, <1>5 DEF Lacks
<1>7. /\ lacking("httponly") \subseteq DOMAIN cookies
      /\ lacking("samesite") \subseteq DOMAIN cookies
      /\ (IF https THEN lacking("secure") ELSE {}) \subseteq DOMAIN cookies
  OBVIOUS
<1> HIDE DEF lacking, https, findings, cookies, uncached
<1>8. ASSUME NEW rule, NEW W, rule \in {"WEB-COOKIE-HTTPONLY", "WEB-COOKIE-SAMESITE", "WEB-COOKIE-SECURE"},
             W \subseteq DOMAIN cookies, \A i \in DOMAIN cookies : Lacks(https, cookies[i], rule) <=> i \in W
      PROVE  Grades(findings, rule, W, cookies)
  <2>1. W = Reported(https, cookies, rule, uncached)
    BY <1>8 DEF Reported
  <2>2. Grades(WebFindings(https, command.answer), rule,
               Reported(https, cookies, rule, uncached), cookies)
    <3>1. /\ rule \notin {"WEB-XCTO", "WEB-CSP", "WEB-HSTS", "WEB-CORS-CREDENTIALS"}
          /\ rule # "WEB-CACHE"
      BY <1>8
    <3>2. cookies = command.answer.cookies
      BY DEF cookies
    <3>3. uncached = ((\E i \in DOMAIN cookies : IsCookie(cookies[i]))
                        /\ ~command.answer.cache_control)
      BY DEF uncached, cookies
    <3> QED BY <1>2, <3>1, <3>2, <3>3, WebGraded
  <2> QED BY <1>1, <2>1, <2>2
<1>9. /\ Grades(findings, "WEB-COOKIE-HTTPONLY", lacking("httponly"), cookies)
      /\ Grades(findings, "WEB-COOKIE-SAMESITE", lacking("samesite"), cookies)
      /\ Grades(findings, "WEB-COOKIE-SECURE", IF https THEN lacking("secure") ELSE {}, cookies)
  BY <1>6, <1>7, <1>8
<1>10. Cardinality(cached) = (IF named # {} /\ ~command.answer.cache_control THEN 1 ELSE 0)
  <2> DEFINE names == [i \in {n + 1} |-> <<[key |-> ""]>>]
             E == {i \in {n + 1} : uncached}
  <2>1. names[n + 1][1].key = ""
    OBVIOUS
  <2> HIDE DEF names
  <2>2. Grades(WebFindings(https, command.answer), "WEB-CACHE",
               Reported(https, cookies, "WEB-CACHE", uncached), names)
    <3>1. \A i \in DOMAIN cookies : ~Lacks(https, cookies[i], "WEB-CACHE")
      BY <1>6
    <3>2. cookies = command.answer.cookies
      BY DEF cookies
    <3>3. uncached = ((\E i \in DOMAIN cookies : IsCookie(cookies[i]))
                        /\ ~command.answer.cache_control)
      BY DEF uncached, cookies
    <3> QED BY <1>2, <2>1, <3>1, <3>2, <3>3, WebGraded
  <2>3. E = Reported(https, cookies, "WEB-CACHE", uncached)
    BY <1>6 DEF Reported
  <2>4. PICK at : Matches(at, findings, "WEB-CACHE", E, names)
    BY <1>1, <2>2, <2>3, GradesMatch
  <2>5. at \in [E -> cached] /\ \A k \in cached : \E i \in E : at[i] = k
    BY <2>4 DEF Matches
  <2>6. uncached <=> named # {} /\ ~command.answer.cache_control
    BY <1>4 DEF uncached
  <2> HIDE DEF cached, named
  <2>7. CASE uncached
    <3>1. E = {n + 1}
      BY <2>7
    <3>2. cached = {at[n + 1]}
      BY <2>5, <3>1
    <3> QED BY <2>6, <2>7, <3>2, FS_Singleton
  <2>8. CASE ~uncached
    <3>1. cached = {}
      BY <2>5, <2>8
    <3> QED BY <2>6, <2>8, <3>1, FS_EmptySet
  <2> QED BY <2>7, <2>8
<1> HIDE DEF cached, named
<1> QED BY <1>9, <1>10, Zenon DEF EveryCookieGraded, lacking, https, findings, cookies, cached, named

(* Whatever a server answers: the findings of a flag name the cookies      *)
(* without it, each once and in order, and the response itself is asked    *)
(* for a Cache-Control exactly if it sets a cookie.                        *)
THEOREM CookiesAreGraded == Spec => []EveryCookieGraded
<1> DEFINE Inv == Typed /\ Probed
<1>1. Init => Inv
  BY InitTyped DEF Init, Probed
<1>2. Inv /\ [Next]_vars => Inv'
  BY NextTyped, NextProbed
<1>3. Inv => EveryCookieGraded
  <2>1. CASE step = "render"
    BY <2>1, WhichCommand, ProbeGrades DEF Typed
  <2>2. CASE step # "render"
    BY <2>2 DEF EveryCookieGraded
  <2> QED BY <2>1, <2>2
<1> QED BY <1>1, <1>2, <1>3, PTL DEF Spec

-----------------------------------------------------------------------------
(* The checker calls itself: Conforms is check_value with check_value for  *)
(* the parts.                                                              *)
CheckerIs == \A value, schema : Conforms(value, schema) <=> CheckKeywords(value, schema, Conforms)

LEMMA CheckedType ==
  ASSUME CheckerIs, NEW value, NEW kinds
  PROVE  Conforms(value, [type |-> kinds]) <=> \E kind \in kinds : MatchesType(value, kind)
BY DEF CheckerIs, CheckKeywords

LEMMA CheckedLeaves ==
  ASSUME CheckerIs
  PROVE  /\ \A x : Conforms(String(x), AString) /\ Conforms(String(x), AStringOrNull)
         /\ Conforms(Null, AStringOrNull)
         /\ \A n \in Nat : Conforms(Number(n), AnInteger) <=> n <= MaxInteger
         /\ \A b : Conforms(Boolean(b), [type |-> {"boolean"}])
         /\ \A x, names : Conforms(String(x), OneOf(names)) <=> x \in names
         /\ \A n : Conforms(Number(n), [const |-> Number(n)])
         /\ \A fields : Conforms(Object(fields), AnObject)
<1>1. \A x : Conforms(String(x), AString) /\ Conforms(String(x), AStringOrNull)
  BY CheckedType DEF AString, AStringOrNull, MatchesType, String
<1>2. Conforms(Null, AStringOrNull)
  BY CheckedType DEF AStringOrNull, MatchesType, Null
<1>3. \A n \in Nat : Conforms(Number(n), AnInteger) <=> n <= MaxInteger
  BY CheckedType DEF AnInteger, MatchesType, Number
<1>4. \A b : Conforms(Boolean(b), [type |-> {"boolean"}])
  BY CheckedType DEF MatchesType, Boolean
<1>5. \A x, names : Conforms(String(x), OneOf(names)) <=> x \in names
  BY DEF CheckerIs, CheckKeywords, OneOf, String
<1>6. \A n : Conforms(Number(n), [const |-> Number(n)])
  BY DEF CheckerIs, CheckKeywords, Number, Same
<1>7. \A fields : Conforms(Object(fields), AnObject)
  BY CheckedType DEF AnObject, MatchesType, Object
<1> QED BY <1>1, <1>2, <1>3, <1>4, <1>5, <1>6, <1>7

LEMMA CheckedList ==
  ASSUME CheckerIs, NEW items, NEW schema
  PROVE  Conforms(Array(items), Listing(schema)) <=>
           \A i \in DOMAIN items : Conforms(items[i], schema)
BY DEF CheckerIs, CheckKeywords, Array, Listing, MatchesType

LEMMA CheckedOption ==
  ASSUME CheckerIs, NEW value, NEW schema
  PROVE  Conforms(value, OrNull(schema)) <=> value.kind = "null" \/ Conforms(value, schema)
<1> DEFINE null == [type |-> {"null"}]
           s == OrNull(schema)
<1>1. Conforms(value, null) <=> value.kind = "null"
  BY CheckedType DEF MatchesType
<1>2. /\ DOMAIN s = {"anyOf"} /\ DOMAIN s.anyOf = {1, 2}
      /\ s.anyOf[1] = null /\ s.anyOf[2] = schema
  BY DEF OrNull
<1>3. Conforms(value, s) <=> CheckKeywords(value, s, Conforms)
  BY DEF CheckerIs
<1> HIDE DEF s, null
<1>4. CheckKeywords(value, s, Conforms) <=> \E i \in DOMAIN s.anyOf : Conforms(value, s.anyOf[i])
  BY <1>2 DEF CheckKeywords
<1> QED BY <1>1, <1>2, <1>3, <1>4 DEF s

LEMMA CheckedObject ==
  ASSUME CheckerIs, NEW fields, NEW properties
  PROVE  Conforms(Object(fields), Closed(properties)) <=>
           /\ DOMAIN fields = DOMAIN properties
           /\ \A key \in DOMAIN properties : Conforms(fields[key], properties[key])
<1> DEFINE v == Object(fields)
           s == Closed(properties)
<1>1. v.kind = "object" /\ v.fields = fields
  BY DEF Object
<1>2. /\ DOMAIN s = {"type", "required", "additionalProperties", "properties"}
      /\ s.type = {"object"} /\ s.required = DOMAIN properties
      /\ s.additionalProperties = FALSE /\ s.properties = properties
  BY DEF Closed
<1>3. Conforms(v, s) <=> CheckKeywords(v, s, Conforms)
  BY DEF CheckerIs
<1> HIDE DEF v, s
<1>4. CheckKeywords(v, s, Conforms) <=>
        /\ s.required \subseteq DOMAIN v.fields
        /\ \A key \in DOMAIN v.fields :
             IF key \in DOMAIN s.properties THEN Conforms(v.fields[key], s.properties[key])
             ELSE s.additionalProperties
  BY <1>1, <1>2 DEF CheckKeywords, MatchesType
<1>5. CheckKeywords(v, s, Conforms) <=>
        /\ DOMAIN properties \subseteq DOMAIN fields
        /\ \A key \in DOMAIN fields : 
             key \in DOMAIN properties /\ Conforms(fields[key], properties[key])
  BY <1>1, <1>2, <1>4
<1> QED BY <1>3, <1>5 DEF v, s

LEMMA CheckedOptional ==
  ASSUME CheckerIs, NEW option, NEW x, NEW schema, option # <<>> => Conforms(x, schema)
  PROVE  Conforms(IF option = <<>> THEN Null ELSE x, OrNull(schema))
BY CheckedOption DEF Null

LEMMA CheckedText ==
  ASSUME CheckerIs, NEW option
  PROVE  Conforms(Optional(option, String), AStringOrNull)
BY CheckedLeaves DEF Optional

(* The parts that all reports share. *)
LEMMA CheckedParts ==
  ASSUME CheckerIs
  PROVE  /\ Conforms(Text, AString) /\ Conforms(Text, AStringOrNull) /\ Conforms(Count, AnInteger)
         /\ Conforms(Texts, Strings) /\ Conforms(Array(<<>>), Strings)
         /\ Conforms(Scale, AnObject)
         /\ \A option : Conforms(Optional(option, Suppressed), AJustification)
<1>1. Conforms(Text, AString) /\ Conforms(Text, AStringOrNull)
  BY CheckedLeaves DEF Text
<1>2. Conforms(Count, AnInteger)
  BY CheckedLeaves, IntegerAssumption DEF Count
<1>3. Conforms(Texts, Strings) /\ Conforms(Array(<<>>), Strings)
  BY <1>1, CheckedList DEF Texts, Strings
<1>4. Conforms(Scale, AnObject)
  BY CheckedLeaves DEF Scale
<1>5. ASSUME NEW reason
      PROVE  Conforms(Suppressed(reason),
                      Closed([reason |-> AString, owner |-> AString, expires |-> AString]))
  BY <1>1, CheckedLeaves, CheckedObject DEF Suppressed
<1>6. \A option : Conforms(Optional(option, Suppressed), AJustification)
  BY <1>5, CheckedOptional DEF AJustification, Optional
<1> QED BY <1>1, <1>2, <1>3, <1>4, <1>6

(* Findings and packages, each as its schema has it. *)
LEMMA CheckedSyntax ==
  ASSUME CheckerIs, NEW f, f.language \in Languages, IsInteger(f.line), IsInteger(f.column)
  PROVE  Conforms(SyntaxFinding(f), ASyntaxFinding)
<1> USE CheckedLeaves, CheckedParts
<1>1. Conforms(Number(f.line), AnInteger) /\ Conforms(Number(f.column), AnInteger)
  BY IntegerAssumption DEF IsInteger
<1>2. Conforms(String(f.language), ALanguage)
  BY DEF ALanguage
<1> QED BY <1>1, <1>2, CheckedObject DEF SyntaxFinding, ASyntaxFinding

LEMMA CheckedSecurity ==
  ASSUME CheckerIs, NEW f, f.severity \in {"high", "review"}, f.confidence \in Confidences,
         IsInteger(f.line), IsInteger(f.column)
  PROVE  Conforms(SecurityFinding(f), ASecurityFinding)
<1>1. Conforms(Number(f.line), AnInteger) /\ Conforms(Number(f.column), AnInteger)
  BY CheckedLeaves, IntegerAssumption DEF IsInteger
<1>2. Conforms(String(f.confidence), AConfidence)
  BY CheckedLeaves DEF AConfidence
<1>3. Conforms(Optional(f.resolved_callee, String), AStringOrNull)
  BY CheckedText
<1> DEFINE flow == Closed([source_line |-> AnInteger, source |-> AString, variable |-> AString])
<1>4. \A variable : Conforms(Taint(variable), flow)
  BY CheckedObject, CheckedLeaves, CheckedParts DEF Taint
<1> HIDE DEF flow
<1>5. Conforms(Optional(f.taint, Taint), OrNull(flow))
  BY <1>4, CheckedOptional DEF Optional
<1>6. Conforms(Optional(f.suppressed, Suppressed), AJustification)
  BY CheckedParts
<1>7. Conforms(String(f.severity), OneOf({"high", "review"}))
  BY CheckedLeaves
<1>8. \A x : Conforms(String(x), AString)
  BY CheckedLeaves
<1>9. Conforms(Text, AString) /\ Conforms(Texts, Strings)
  BY CheckedParts
<1> DEFINE F == SecurityFinding(f).fields
           P == ASecurityFinding.properties
<1>10. SecurityFinding(f) = Object(F) /\ ASecurityFinding = Closed(P)
  BY DEF SecurityFinding, ASecurityFinding, Object, Closed
<1>11. DOMAIN F = DOMAIN P
  BY DEF SecurityFinding, ASecurityFinding, Object, Closed
<1>12. /\ F.rule_id = String(f.rule_id) /\ F.path = String(f.path) /\ F.callee = String(f.callee)
       /\ F.title = Text /\ F.cwe = Text /\ F.evidence = Text /\ F.message = Text
       /\ F.severity = String(f.severity) /\ F.confidence = String(f.confidence)
       /\ F.line = Number(f.line) /\ F.column = Number(f.column) /\ F.references = Texts
       /\ F.resolved_callee = Optional(f.resolved_callee, String)
       /\ F.taint = Optional(f.taint, Taint) /\ F.suppressed = Optional(f.suppressed, Suppressed)
  BY DEF SecurityFinding, Object
<1>13. /\ P.rule_id = AString /\ P.path = AString /\ P.callee = AString /\ P.title = AString
       /\ P.cwe = AString /\ P.evidence = AString /\ P.message = AString
       /\ P.severity = OneOf({"high", "review"}) /\ P.confidence = AConfidence
       /\ P.line = AnInteger /\ P.column = AnInteger /\ P.references = Strings
       /\ P.resolved_callee = AStringOrNull /\ P.taint = OrNull(flow)
       /\ P.suppressed = AJustification
       /\ DOMAIN P = {"rule_id", "path", "callee", "title", "cwe", "evidence", "message",
                      "severity", "confidence", "line", "column", "references",
                      "resolved_callee", "taint", "suppressed"}
  BY DEF ASecurityFinding, Closed, flow
<1> HIDE DEF F, P
<1>14. ASSUME NEW key \in DOMAIN P
       PROVE  Conforms(F[key], P[key])
  BY ONLY <1>1, <1>2, <1>3, <1>5, <1>6, <1>7, <1>8, <1>9, <1>12, <1>13, key \in DOMAIN P
<1> QED BY <1>10, <1>11, <1>14, CheckedObject

LEMMA CheckedSecret ==
  ASSUME CheckerIs, NEW f, IsInteger(f.line), IsInteger(f.column)
  PROVE  Conforms(SecretFinding(f), ASecretFinding)
<1> USE CheckedLeaves, CheckedParts
<1>1. Conforms(Number(f.line), AnInteger) /\ Conforms(Number(f.column), AnInteger)
  BY IntegerAssumption DEF IsInteger
<1>2. Conforms(String("high"), AConfidence)
  BY DEF AConfidence, Confidences
<1>3. Conforms(String("high"), OneOf({"high"}))
  OBVIOUS
<1> QED BY <1>1, <1>2, <1>3, CheckedObject DEF SecretFinding, ASecretFinding

-----------------------------------------------------------------------------
LEMMA CheckedNumber ==
  ASSUME CheckerIs, NEW n, IsInteger(n)
  PROVE  Conforms(Number(n), AnInteger)
BY CheckedLeaves, IntegerAssumption DEF IsInteger

LEMMA CheckedBaseline ==
  ASSUME CheckerIs, NEW b, IsInteger(b.new_security), IsInteger(b.new_secrets),
         IsInteger(b.fixed_security), IsInteger(b.fixed_secrets)
  PROVE  Conforms(BaselineSummary(b),
                  Closed([path |-> AString, new_security |-> AnInteger,
                          new_secrets |-> AnInteger, fixed_security |-> AnInteger,
                          fixed_secrets |-> AnInteger]))
BY CheckedObject, CheckedNumber, CheckedLeaves DEF BaselineSummary

LEMMA CheckedSuppressions ==
  ASSUME CheckerIs, NEW s, IsInteger(s.applied)
  PROVE  Conforms(SuppressionReport(s),
                  Closed([file |-> AStringOrNull, applied |-> AnInteger, expired |-> Strings]))
<1>1. Conforms(Number(s.applied), AnInteger)
  BY CheckedNumber
<1>2. Conforms(Optional(s.file, String), AStringOrNull)
  BY CheckedText
<1>3. Conforms(ArrayOf(s.expired, String), Strings)
  BY CheckedList, CheckedLeaves DEF ArrayOf, Strings
<1> QED BY <1>1, <1>2, <1>3, CheckedObject DEF SuppressionReport

(* The numbers of a report that an option sets to whatever fits 64 bits. *)
Fitting(scope) == scope.max_file_bytes <= MaxInteger /\ scope.budget_seconds <= MaxInteger

LEMMA CheckedScope ==
  ASSUME CheckerIs, NEW scope, scope.max_file_bytes \in Nat, scope.budget_seconds \in Nat
  PROVE  Conforms(ScopeReport(scope, <<"python">>), AScope) <=> Fitting(scope)
<1> DEFINE F == ScopeReport(scope, <<"python">>).fields
           P == AScope.properties
<1>1. Conforms(ArrayOf(<<"python">>, String), Listing(ALanguage))
  BY CheckedList, CheckedLeaves DEF ArrayOf, ALanguage, Languages
<1>2. /\ Conforms(Number(scope.max_file_bytes), AnInteger) <=> scope.max_file_bytes <= MaxInteger
      /\ Conforms(Number(scope.budget_seconds), AnInteger) <=> scope.budget_seconds <= MaxInteger
  BY CheckedLeaves
<1>3. /\ Conforms(Text, AString) /\ Conforms(Texts, Strings)
      /\ Conforms(Array(<<>>), Strings)
  BY CheckedParts
<1>4. ScopeReport(scope, <<"python">>) = Object(F) /\ AScope = Closed(P)
  BY DEF ScopeReport, AScope, Object, Closed
<1>5. /\ F.target = Text /\ F.max_file_bytes = Number(scope.max_file_bytes)
      /\ F.budget_seconds = Number(scope.budget_seconds)
      /\ F.include = Texts /\ F.exclude = Array(<<>>)
      /\ F.languages = ArrayOf(<<"python">>, String)
      /\ DOMAIN F = {"target", "max_file_bytes", "budget_seconds", "include", "exclude",
                     "languages"}
  BY DEF ScopeReport, Object
<1>6. /\ P.target = AString /\ P.max_file_bytes = AnInteger /\ P.budget_seconds = AnInteger
      /\ P.include = Strings /\ P.exclude = Strings /\ P.languages = Listing(ALanguage)
      /\ DOMAIN P = {"target", "max_file_bytes", "budget_seconds", "include", "exclude",
                     "languages"}
  BY DEF AScope, Closed
<1> HIDE DEF F, P
<1>7. (\A key \in DOMAIN P : Conforms(F[key], P[key])) <=> Fitting(scope)
  BY <1>1, <1>2, <1>3, <1>5, <1>6 DEF Fitting
<1> QED BY <1>4, <1>5, <1>6, <1>7, CheckedObject

(* A report of a scan conforms unless its seed, its cap or its budget is   *)
(* too long.                                                               *)
LEMMA CheckedScan ==
  ASSUME CheckerIs, NEW r, ScanGenuine(r)
  PROVE  Conforms(ScanReport(r), ScanSchema) <=> r.seed <= MaxInteger /\ Fitting(r.scope)
<1> DEFINE F == ScanReport(r).fields
           P == ScanSchema.properties
           suppressions == Closed([file |-> AStringOrNull, applied |-> AnInteger,
                                   expired |-> Strings])
           flag == [type |-> {"boolean"}]
<1>1. Conforms(Number(r.seed), AnInteger) <=> r.seed <= MaxInteger
  BY CheckedLeaves DEF ScanGenuine
<1>2. Conforms(ArrayOf(r.syntax_findings, SyntaxFinding), Listing(ASyntaxFinding))
  BY CheckedSyntax, CheckedList DEF ArrayOf, ScanGenuine, FindingsGenuine, Placed
<1>3. Conforms(ArrayOf(r.security_findings, SecurityFinding), Listing(ASecurityFinding))
  BY CheckedSecurity, CheckedList DEF ArrayOf, ScanGenuine, FindingsGenuine, Placed
<1>4. Conforms(ArrayOf(r.secret_findings, SecretFinding), Listing(ASecretFinding))
  BY CheckedSecret, CheckedList DEF ArrayOf, ScanGenuine, FindingsGenuine, Placed
<1>5. Conforms(Optional(r.baseline, BaselineSummary), ABaseline)
  BY CheckedBaseline, CheckedOptional DEF ScanGenuine, Optional, ABaseline
<1>6. Conforms(SuppressionReport(r.suppressions), suppressions)
  BY CheckedSuppressions DEF ScanGenuine
<1>7. Conforms(ScopeReport(r.scope, <<"python">>), AScope) <=> Fitting(r.scope)
  BY CheckedScope DEF ScanGenuine
<1>8. Conforms(Boolean(FALSE), flag) /\ Conforms(Number(4), [const |-> Number(4)])
  BY CheckedLeaves
<1>9. /\ Conforms(Count, AnInteger) /\ Conforms(Scale, AnObject)
      /\ Conforms(Object([python |-> Count]), AnObject)
  BY CheckedParts, CheckedLeaves
<1> HIDE DEF suppressions, flag
<1>10. ScanReport(r) = Object(F) /\ ScanSchema = Closed(P)
  BY DEF ScanReport, ScanSchema, Object, Closed
<1>11. DOMAIN F = DOMAIN P
  BY DEF ScanReport, ScanSchema, Object, Closed
<1>12. /\ F.schema_version = Number(4) /\ F.files_parsed = Count
       /\ F.secret_files_scanned = Count /\ F.files_skipped_oversized = Count
       /\ F.files_skipped_unsupported = Count /\ F.languages = Object([python |-> Count])
       /\ F.syntax_findings = ArrayOf(r.syntax_findings, SyntaxFinding)
       /\ F.security_findings = ArrayOf(r.security_findings, SecurityFinding)
       /\ F.secret_findings = ArrayOf(r.secret_findings, SecretFinding)
       /\ F.timed_out = Boolean(FALSE) /\ F.seed = Number(r.seed)
       /\ F.scope = ScopeReport(r.scope, <<"python">>)
       /\ F.baseline = Optional(r.baseline, BaselineSummary)
       /\ F.suppressions = SuppressionReport(r.suppressions)
       /\ F.confidence_scale = Scale
  BY DEF ScanReport, Object
<1>13. /\ P.schema_version = [const |-> Number(4)] /\ P.files_parsed = AnInteger
       /\ P.secret_files_scanned = AnInteger /\ P.files_skipped_oversized = AnInteger
       /\ P.files_skipped_unsupported = AnInteger /\ P.languages = AnObject
       /\ P.syntax_findings = Listing(ASyntaxFinding)
       /\ P.security_findings = Listing(ASecurityFinding)
       /\ P.secret_findings = Listing(ASecretFinding)
       /\ P.timed_out = flag /\ P.seed = AnInteger /\ P.scope = AScope
       /\ P.baseline = ABaseline /\ P.suppressions = suppressions
       /\ P.confidence_scale = AnObject
       /\ DOMAIN P = {"schema_version", "files_parsed", "secret_files_scanned",
                      "files_skipped_oversized", "files_skipped_unsupported", "languages",
                      "syntax_findings", "security_findings", "secret_findings", "timed_out",
                      "seed", "scope", "baseline", "suppressions", "confidence_scale"}
  BY DEF ScanSchema, Closed, suppressions, flag
<1> HIDE DEF F, P
<1>14. ASSUME NEW key \in DOMAIN P, key \notin {"seed", "scope"}
       PROVE  Conforms(F[key], P[key])
  BY ONLY <1>2, <1>3, <1>4, <1>5, <1>6, <1>8, <1>9, <1>12, <1>13, key \in DOMAIN P,
     key \notin {"seed", "scope"}
<1>15. (\A key \in DOMAIN P : Conforms(F[key], P[key]))
         <=> r.seed <= MaxInteger /\ Fitting(r.scope)
  BY <1>1, <1>7, <1>12, <1>13, <1>14
<1> QED BY <1>10, <1>11, <1>15, CheckedObject

LEMMA CheckedDeps ==
  ASSUME CheckerIs, NEW r, DepsGenuine(r)
  PROVE  Conforms(DepsReport(r), DepsSchema)
<1> DEFINE package == Closed([ecosystem |-> OneOf(Ecosystems), name |-> AString,
                              version |-> AString, source |-> AStringOrNull,
                              lockfile |-> AString])
           error == Closed([lockfile |-> AString, message |-> AString])
           vulnerability ==
             Closed([advisory_id |-> AString, ecosystem |-> AString, package |-> AString,
                     version |-> AString, severity |-> OneOf({"low", "medium", "high", "critical"}),
                     summary |-> AString, reference |-> AString, lockfile |-> AString])
<1>1. ASSUME NEW p, p.ecosystem \in Ecosystems
      PROVE  Conforms(Package(p), package)
  <2> DEFINE F == Package(p).fields
             P == package.properties
  <2>1. Conforms(Optional(p.source, String), AStringOrNull)
    BY CheckedText
  <2>2. Conforms(String(p.ecosystem), OneOf(Ecosystems))
    BY <1>1, CheckedLeaves
  <2>3. \A x : Conforms(String(x), AString)
    BY CheckedLeaves
  <2>4. Package(p) = Object(F) /\ package = Closed(P)
    BY DEF Package, Object, Closed
  <2>5. DOMAIN F = DOMAIN P
    BY DEF Package, Object, Closed
  <2>6. /\ F.ecosystem = String(p.ecosystem) /\ F.name = String(p.name)
        /\ F.version = String(p.version) /\ F.source = Optional(p.source, String)
        /\ F.lockfile = String(p.lockfile)
    BY DEF Package, Object
  <2>7. /\ P.ecosystem = OneOf(Ecosystems) /\ P.name = AString /\ P.version = AString
        /\ P.source = AStringOrNull /\ P.lockfile = AString
        /\ DOMAIN P = {"ecosystem", "name", "version", "source", "lockfile"}
    BY DEF Closed
  <2> HIDE DEF F, P
  <2>8. \A key \in DOMAIN P : Conforms(F[key], P[key])
    BY ONLY <2>1, <2>2, <2>3, <2>6, <2>7
  <2> QED BY <2>4, <2>5, <2>8, CheckedObject
<1>2. \A lockfile : Conforms(LockfileError(lockfile), error)
  BY CheckedLeaves, CheckedParts, CheckedObject DEF LockfileError
<1>3. \A p : Conforms(Vulnerability(p), vulnerability)
  BY CheckedLeaves, CheckedParts, CheckedObject DEF Vulnerability
<1> HIDE DEF package, error, vulnerability
<1>4. Conforms(ArrayOf(r.packages, Package), Listing(package))
  BY <1>1, CheckedList DEF ArrayOf, DepsGenuine
<1>5. Conforms(ArrayOf(r.errors, LockfileError), Listing(error))
  BY <1>2, CheckedList DEF ArrayOf
<1>6. Conforms(ArrayOf(r.vulnerabilities, Vulnerability), Listing(vulnerability))
  BY <1>3, CheckedList DEF ArrayOf
<1>7. Conforms(Optional(r.advisory_db, String), AStringOrNull)
  BY CheckedText
<1>8. Conforms(Number(2), [const |-> Number(2)])
  BY CheckedLeaves
<1> QED BY <1>4, <1>5, <1>6, <1>7, <1>8, CheckedParts, CheckedObject
        DEF DepsReport, DepsSchema, package, error, vulnerability

LEMMA CheckedWeb ==
  ASSUME CheckerIs, NEW r, WebGenuine(r)
  PROVE  Conforms(WebReport(r), WebSchema)
<1> DEFINE finding == Closed([rule_id |-> AString,
                              severity |-> OneOf({"high", "medium", "review"}),
                              message |-> AString, evidence |-> AString,
                              reference |-> AString, confidence |-> AConfidence])
<1>1. ASSUME NEW f, f.severity \in {"high", "medium", "review"}, f.confidence \in Confidences
      PROVE  Conforms(WebFinding(f), finding)
  <2>1. Conforms(String(f.confidence), AConfidence)
    BY <1>1, CheckedLeaves DEF AConfidence
  <2> QED BY <1>1, <2>1, CheckedLeaves, CheckedParts, CheckedObject DEF WebFinding
<1> HIDE DEF finding
<1>2. Conforms(ArrayOf(r.findings, WebFinding), Listing(finding))
  BY <1>1, CheckedList DEF ArrayOf, WebGenuine
<1>3. Conforms(Number(r.status), AnInteger)
  BY CheckedNumber DEF WebGenuine
<1>4. Conforms(Optional(r.redirect, String), AStringOrNull)
  BY CheckedText
<1>5. Conforms(Number(1), [const |-> Number(1)])
  BY CheckedLeaves
<1> QED BY <1>2, <1>3, <1>4, <1>5, CheckedParts, CheckedObject
        DEF WebReport, WebSchema, finding

(* A list of a diff conforms exactly if each of its items names its rule.  *)
LEMMA CheckedItems ==
  ASSUME CheckerIs, NEW items
  PROVE  Conforms(Array(items), AnyFindings) <=> \A i \in DOMAIN items : NamesRule(items[i])
<1> DEFINE any == [type |-> {"object"}, required |-> {"rule_id"}, additionalProperties |-> TRUE,
                   properties |-> [rule_id |-> AString]]
<1>1. ASSUME NEW item
      PROVE  Conforms(item, any) <=> NamesRule(item)
  <2>1. \A x : Conforms(x, AString) <=> x.kind = "string"
    BY CheckedType DEF AString, MatchesType
  <2>2. Conforms(item, any) <=> CheckKeywords(item, any, Conforms)
    BY DEF CheckerIs
  <2>3. CheckKeywords(item, any, Conforms) <=>
          item.kind = "object" /\ "rule_id" \in DOMAIN item.fields
            /\ Conforms(item.fields.rule_id, AString)
    BY DEF CheckKeywords, MatchesType
  <2> QED BY <2>1, <2>2, <2>3 DEF NamesRule, Has, Get
<1> HIDE DEF any
<1>2. Conforms(Array(items), Listing(any)) <=> \A i \in DOMAIN items : NamesRule(items[i])
  BY <1>1, CheckedList
<1> QED BY <1>2 DEF AnyFindings, any

LEMMA CheckedDiff ==
  ASSUME CheckerIs, NEW r, DiffGenuine(r)
  PROVE  Conforms(DiffReport(r), DiffSchema) <=>
           \A list \in {"added_security", "fixed_security", "added_secrets", "fixed_secrets"} :
             \A i \in DOMAIN r[list] : NamesRule(r[list][i])
<1> DEFINE F == DiffReport(r).fields
           P == DiffSchema.properties
<1>1. /\ Conforms(Number(r.unchanged_security), AnInteger)
      /\ Conforms(Number(r.unchanged_secrets), AnInteger)
      /\ Conforms(Text, AString) /\ Conforms(Number(1), [const |-> Number(1)])
  BY CheckedNumber, CheckedParts, CheckedLeaves DEF DiffGenuine
<1>2. DiffReport(r) = Object(F) /\ DiffSchema = Closed(P)
  BY DEF DiffReport, DiffSchema, Object, Closed
<1>3. DOMAIN F = DOMAIN P
  BY DEF DiffReport, DiffSchema, Object, Closed
<1>4. /\ F.schema_version = Number(1) /\ F.old = Text /\ F.new = Text
      /\ F.added_security = Array(r.added_security)
      /\ F.fixed_security = Array(r.fixed_security)
      /\ F.added_secrets = Array(r.added_secrets)
      /\ F.fixed_secrets = Array(r.fixed_secrets)
      /\ F.unchanged_security = Number(r.unchanged_security)
      /\ F.unchanged_secrets = Number(r.unchanged_secrets)
  BY DEF DiffReport, Object
<1>5. /\ P.schema_version = [const |-> Number(1)] /\ P.old = AString /\ P.new = AString
      /\ P.added_security = AnyFindings /\ P.fixed_security = AnyFindings
      /\ P.added_secrets = AnyFindings /\ P.fixed_secrets = AnyFindings
      /\ P.unchanged_security = AnInteger /\ P.unchanged_secrets = AnInteger
      /\ DOMAIN P = {"schema_version", "old", "new", "added_security", "fixed_security",
                     "added_secrets", "fixed_secrets", "unchanged_security",
                     "unchanged_secrets"}
  BY DEF DiffSchema, Closed
<1> HIDE DEF F, P
<1>6. (\A key \in DOMAIN P : Conforms(F[key], P[key])) <=>
        /\ Conforms(Array(r.added_security), AnyFindings)
        /\ Conforms(Array(r.fixed_security), AnyFindings)
        /\ Conforms(Array(r.added_secrets), AnyFindings)
        /\ Conforms(Array(r.fixed_secrets), AnyFindings)
  BY ONLY <1>1, <1>4, <1>5
<1>7. Conforms(DiffReport(r), DiffSchema) <=>
        /\ Conforms(Array(r.added_security), AnyFindings)
        /\ Conforms(Array(r.fixed_security), AnyFindings)
        /\ Conforms(Array(r.added_secrets), AnyFindings)
        /\ Conforms(Array(r.fixed_secrets), AnyFindings)
  BY <1>2, <1>3, <1>6, CheckedObject
<1> QED BY <1>7, CheckedItems

(* A field that only the reports of the command have.                      *)
OwnField(kind) ==
  CASE kind = "scan" -> "files_parsed" [] kind = "deps" -> "lockfiles"
    [] kind = "web" -> "duration_ms" [] kind = "diff" -> "old"

LEMMA SchemaFields ==
  ASSUME NEW name \in SchemaNames
  PROVE  \E properties :
           LoadSchema(name) = Closed(properties) /\ OwnField(name) \in DOMAIN properties
<1>1. CASE name = "scan"
  <2>1. "files_parsed" \in DOMAIN ScanSchema.properties
          /\ ScanSchema = Closed(ScanSchema.properties)
    BY DEF ScanSchema, Closed
  <2> QED BY <1>1, <2>1 DEF LoadSchema, OwnField
<1>2. CASE name = "deps"
  <2>1. "lockfiles" \in DOMAIN DepsSchema.properties
          /\ DepsSchema = Closed(DepsSchema.properties)
    BY DEF DepsSchema, Closed
  <2> QED BY <1>2, <2>1 DEF LoadSchema, OwnField
<1>3. CASE name = "web"
  <2>1. "duration_ms" \in DOMAIN WebSchema.properties
          /\ WebSchema = Closed(WebSchema.properties)
    BY DEF WebSchema, Closed
  <2> QED BY <1>3, <2>1 DEF LoadSchema, OwnField
<1>4. CASE name = "diff"
  <2>1. "old" \in DOMAIN DiffSchema.properties /\ DiffSchema = Closed(DiffSchema.properties)
    BY DEF DiffSchema, Closed
  <2> QED BY <1>4, <2>1 DEF LoadSchema, OwnField
<1> QED BY <1>1, <1>2, <1>3, <1>4 DEF SchemaNames

LEMMA ReportFields ==
  ASSUME NEW content, content.form \in Forms, NEW name \in SchemaNames, name # content.form
  PROVE  \E fields : Value(content) = Object(fields) /\ OwnField(name) \notin DOMAIN fields
<1> DEFINE v == Value(content)
<1> SUFFICES v = Object(v.fields) /\ OwnField(name) \notin DOMAIN v.fields
  OBVIOUS
<1>1. /\ OwnField(name) \in {"files_parsed", "lockfiles", "duration_ms", "old"}
      /\ OwnField(name) = "files_parsed" => name = "scan"
      /\ OwnField(name) = "lockfiles" => name = "deps"
      /\ OwnField(name) = "duration_ms" => name = "web"
      /\ OwnField(name) = "old" => name = "diff"
  BY DEF OwnField, SchemaNames
<1>2. CASE content.form = "scan"
  <2>1. v = Object(v.fields) /\ {"lockfiles", "duration_ms", "old"} \cap DOMAIN v.fields = {}
    BY <1>2 DEF Value, ScanReport, Object
  <2> HIDE DEF v
  <2> QED BY <1>1, <1>2, <2>1
<1>3. CASE content.form = "web"
  <2>1. v = Object(v.fields) /\ {"files_parsed", "lockfiles", "old"} \cap DOMAIN v.fields = {}
    BY <1>3 DEF Value, WebReport, Object
  <2> HIDE DEF v
  <2> QED BY <1>1, <1>3, <2>1
<1>4. CASE content.form = "deps"
  <2>1. v = Object(v.fields) /\ {"files_parsed", "duration_ms", "old"} \cap DOMAIN v.fields = {}
    BY <1>4 DEF Value, DepsReport, Object
  <2> HIDE DEF v
  <2> QED BY <1>1, <1>4, <2>1
<1>5. CASE content.form = "diff"
  <2>1. v = Object(v.fields)
        /\ {"files_parsed", "lockfiles", "duration_ms"} \cap DOMAIN v.fields = {}
    BY <1>5 DEF Value, DiffReport, Object
  <2> HIDE DEF v
  <2> QED BY <1>1, <1>5, <2>1
<1>6. CASE content.form \in {"scan-sarif", "web-sarif", "sbom"}
  <2>1. v = Object(v.fields)
        /\ {"files_parsed", "lockfiles", "duration_ms", "old"} \cap DOMAIN v.fields = {}
    BY <1>6 DEF Value, SourceToSarif, WebToSarif, SarifRun, DepsToCyclonedx, Object
  <2> HIDE DEF v
  <2> QED BY <1>1, <2>1
<1> QED BY <1>2, <1>3, <1>4, <1>5, <1>6 DEF Forms

(* No report conforms to the schema of another command, and no export to   *)
(* any: a required field is missing.                                       *)
LEMMA OthersRefused ==
  ASSUME CheckerIs, NEW content, content.form \in Forms, NEW name \in SchemaNames,
         name # content.form
  PROVE  ~Conforms(Value(content), LoadSchema(name))
BY SchemaFields, ReportFields, CheckedObject

(* What `validate` finds in a report. *)
LEMMA VerdictIs ==
  ASSUME CheckerIs, NEW content, Genuine(content), content.form \in Forms,
         NEW name \in SchemaNames
  PROVE  Conforms(Value(content), LoadSchema(name)) <=>
           LET r == content.report
               long == content.form = "scan" /\
                         \E n \in {r.seed, r.scope.max_file_bytes, r.scope.budget_seconds} :
                           n > MaxInteger
               odd == content.form = "diff" /\
                        \E list \in {"added_security", "fixed_security", "added_secrets",
                                     "fixed_secrets"} :
                          \E i \in DOMAIN r[list] : ~NamesRule(r[list][i])
           IN  content.form = name /\ ~long /\ ~odd
<1>1. CASE name # content.form
  BY <1>1, OthersRefused
<1>2. CASE name = "scan" /\ content.form = "scan"
  <2> DEFINE r == content.report
             numbers == {r.seed, r.scope.max_file_bytes, r.scope.budget_seconds}
  <2>1. ScanGenuine(r) /\ numbers \subseteq Nat /\ MaxInteger \in Nat
    BY <1>2, IntegerAssumption DEF Genuine, ScanGenuine
  <2>2. Conforms(ScanReport(r), ScanSchema) <=> r.seed <= MaxInteger /\ Fitting(r.scope)
    BY <2>1, CheckedScan
  <2>3. r.seed <= MaxInteger /\ Fitting(r.scope) <=> ~\E n \in numbers : n > MaxInteger
    BY <2>1 DEF Fitting
  <2> QED BY <1>2, <2>2, <2>3 DEF Value, LoadSchema
<1>3. CASE name = "deps" /\ content.form = "deps"
  <2>1. DepsGenuine(content.report)
    BY <1>3 DEF Genuine
  <2>2. Conforms(DepsReport(content.report), DepsSchema)
    BY <2>1, CheckedDeps
  <2> QED BY <1>3, <2>2 DEF Value, LoadSchema
<1>4. CASE name = "web" /\ content.form = "web"
  <2>1. WebGenuine(content.report)
    BY <1>4 DEF Genuine
  <2>2. Conforms(WebReport(content.report), WebSchema)
    BY <2>1, CheckedWeb
  <2> QED BY <1>4, <2>2 DEF Value, LoadSchema
<1>5. CASE name = "diff" /\ content.form = "diff"
  <2>1. DiffGenuine(content.report)
    BY <1>5 DEF Genuine
  <2>2. Conforms(DiffReport(content.report), DiffSchema) <=>
          \A list \in {"added_security", "fixed_security", "added_secrets", "fixed_secrets"} :
            \A i \in DOMAIN content.report[list] : NamesRule(content.report[list][i])
    BY <2>1, CheckedDiff
  <2>3. Value(content) = DiffReport(content.report) /\ LoadSchema(name) = DiffSchema
    BY <1>5 DEF Value, LoadSchema
  <2> QED BY <1>5, <2>2, <2>3
<1> QED BY <1>1, <1>2, <1>3, <1>4, <1>5 DEF SchemaNames

-----------------------------------------------------------------------------
(* No more values than places, and no more of them than of some.           *)
LEMMA ValuesFit ==
  ASSUME NEW n \in Nat, NEW g, DOMAIN g = 1..n, NEW S, S \subseteq {g[i] : i \in 1..n}
  PROVE  IsFiniteSet(S) /\ Cardinality(S) \in 0..n
<1> DEFINE T == {g[i] : i \in 1..n}
           h == [i \in 1..n |-> g[i]]
<1>1. IsFiniteSet(1..n) /\ Cardinality(1..n) = n
  BY FS_Interval
<1>2. h \in Surjection(1..n, T)
  <2>1. h \in [1..n -> T] /\ \A t \in T : \E i \in 1..n : h[i] = t
    OBVIOUS
  <2> QED BY <2>1 DEF Surjection
<1>3. IsFiniteSet(T) /\ Cardinality(T) <= n
  <2> HIDE DEF T, h
  <2> QED BY <1>1, <1>2, FS_Surjection
<1> HIDE DEF T
<1>4. S \subseteq T
  BY DEF T
<1>5. IsFiniteSet(S) /\ Cardinality(S) <= Cardinality(T)
  BY <1>3, <1>4, FS_Subset
<1>6. Cardinality(S) \in Nat /\ Cardinality(T) \in Nat
  BY <1>3, <1>5, FS_CardinalityType
<1> QED BY <1>3, <1>5, <1>6

LEMMA MarkedFits ==
  ASSUME NEW list, NEW fields, NEW accepts, Records(list, fields),
         "line" \in fields, "column" \in fields
  PROVE  /\ DOMAIN Marked(list, accepts) = DOMAIN list
         /\ Len(Marked(list, accepts)) = Len(list) /\ Len(list) \in Nat
         /\ CountMarked(Marked(list, accepts)) \in 0..Len(list)
         /\ Placed(list) => Placed(Marked(list, accepts))
         /\ \A i \in DOMAIN list : \A key \in fields \ {"suppressed"} :
              Marked(list, accepts)[i][key] = list[i][key]
<1> DEFINE marked == Marked(list, accepts)
           n == Len(list)
<1>1. list \in Seq(Range(list)) /\ n \in Nat /\ DOMAIN list = 1..n
  BY DEF Records
<1>2. DOMAIN marked = DOMAIN list
  BY DEF Marked
<1>3. \A i \in DOMAIN list : \A key \in fields \ {"suppressed"} : marked[i][key] = list[i][key]
  <2>1. \A i \in DOMAIN list : DOMAIN list[i] = fields
    BY DEF Records, Range
  <2> QED BY <2>1 DEF Marked
<1> HIDE DEF marked
<1>4. Len(marked) = n
  <2>1. Records(marked, fields)
    BY MarkedRecords DEF marked
  <2>2. marked \in Seq(Range(marked))
    BY <2>1 DEF Records
  <2> QED BY <1>1, <1>2, <2>2
<1>5. CountMarked(marked) \in 0..n
  <2> DEFINE S == {i \in DOMAIN marked : marked[i].suppressed # <<>>}
             g == [i \in 1..n |-> i]
  <2>1. DOMAIN g = 1..n /\ S \subseteq {g[i] : i \in 1..n}
    BY <1>1, <1>2
  <2> HIDE DEF S, g
  <2>2. Cardinality(S) \in 0..n
    BY <1>1, <2>1, ValuesFit
  <2> QED BY <2>2 DEF S, CountMarked
<1>6. Placed(list) => Placed(marked)
  BY <1>2, <1>3 DEF Placed
<1> QED BY <1>1, <1>2, <1>3, <1>4, <1>5, <1>6 DEF marked

LEMMA SumFits ==
  ASSUME NEW a \in Nat, NEW b \in Nat, IsInteger(a + b)
  PROVE  IsInteger(a) /\ IsInteger(b)
BY IntegerAssumption DEF IsInteger

(* The counts of a summary and of a comparison. *)
LEMMA SummaryFits ==
  ASSUME NEW path, NEW r, Records(r.security_findings, SecurityFields),
         Records(r.secret_findings, SecretFields), FindingsGenuine(r),
         NEW old, ListsFit(old)
  PROVE  \A count \in {"new_security", "new_secrets", "fixed_security", "fixed_secrets"} :
           IsInteger(Summary(path, Current(r), Known(old))[count])
<1> DEFINE sec == r.security_findings
           key == r.secret_findings
           s == Security(old)
           k == Secrets(old)
           c == Current(r)
           o == Known(old)
<1>1. /\ Len(sec) \in Nat /\ DOMAIN sec = 1..Len(sec)
      /\ Len(key) \in Nat /\ DOMAIN key = 1..Len(key)
  BY DEF Records
<1>2. Len(sec) <= MaxInteger /\ Len(key) <= MaxInteger
  <2>1. IsInteger(Len(sec) + Len(key))
    BY DEF FindingsGenuine
  <2>2. IsInteger(Len(sec)) /\ IsInteger(Len(key))
    BY <1>1, <2>1, SumFits
  <2> QED BY <2>2, IntegerAssumption DEF IsInteger
<1>3. /\ Len(s) \in Nat /\ DOMAIN s = 1..Len(s) /\ Len(s) <= MaxInteger
      /\ Len(k) \in Nat /\ DOMAIN k = 1..Len(k) /\ Len(k) <= MaxInteger
  BY IntegerAssumption DEF ListsFit, IsInteger
<1>4. /\ c.security = {SecurityFingerprint(sec[i]) : i \in DOMAIN sec}
      /\ c.secrets = {SecretFingerprint(key[i]) : i \in DOMAIN key}
      /\ o.security = {SecurityLike(s[i]) : i \in DOMAIN s}
      /\ o.secrets = {SecretLike(k[i]) : i \in DOMAIN k}
  BY DEF Current, Known
<1> HIDE DEF sec, key, s, k, c, o
<1> DEFINE f1 == [i \in 1..Len(sec) |-> SecurityFingerprint(sec[i])]
           f2 == [i \in 1..Len(key) |-> SecretFingerprint(key[i])]
           f3 == [i \in 1..Len(s) |-> SecurityLike(s[i])]
           f4 == [i \in 1..Len(k) |-> SecretLike(k[i])]
<1>5. /\ c.security \ o.security \subseteq {f1[i] : i \in 1..Len(sec)}
      /\ c.secrets \ o.secrets \subseteq {f2[i] : i \in 1..Len(key)}
      /\ o.security \ c.security \subseteq {f3[i] : i \in 1..Len(s)}
      /\ o.secrets \ c.secrets \subseteq {f4[i] : i \in 1..Len(k)}
  BY <1>1, <1>3, <1>4
<1>6. /\ DOMAIN f1 = 1..Len(sec) /\ DOMAIN f2 = 1..Len(key)
      /\ DOMAIN f3 = 1..Len(s) /\ DOMAIN f4 = 1..Len(k)
  OBVIOUS
<1> HIDE DEF f1, f2, f3, f4
<1>7. Cardinality(c.security \ o.security) \in 0..Len(sec)
  BY <1>1, <1>5, <1>6, ValuesFit
<1>8. Cardinality(c.secrets \ o.secrets) \in 0..Len(key)
  BY <1>1, <1>5, <1>6, ValuesFit
<1>9. Cardinality(o.security \ c.security) \in 0..Len(s)
  BY <1>3, <1>5, <1>6, ValuesFit
<1>10. Cardinality(o.secrets \ c.secrets) \in 0..Len(k)
  BY <1>3, <1>5, <1>6, ValuesFit
<1>11. /\ IsInteger(Cardinality(c.security \ o.security))
       /\ IsInteger(Cardinality(c.secrets \ o.secrets))
       /\ IsInteger(Cardinality(o.security \ c.security))
       /\ IsInteger(Cardinality(o.secrets \ c.secrets))
  BY <1>1, <1>2, <1>3, <1>7, <1>8, <1>9, <1>10, IntegerAssumption DEF IsInteger
<1>12. \A count \in {"new_security", "new_secrets", "fixed_security", "fixed_secrets"} :
         IsInteger(Summary(path, c, o)[count])
  BY <1>11 DEF Summary
<1> QED BY <1>12 DEF c, o

LEMMA CompareFits ==
  ASSUME NEW old, NEW new, ListsFit(new)
  PROVE  DiffGenuine(Compare(old, new))
<1>1. ASSUME NEW items, NEW prints, NEW seen, items \in Seq(Range(items)), IsInteger(Len(items))
      PROVE  IsInteger(Len(items) - Len(Beyond(items, prints, seen)))
  <2> DEFINE n == Len(items)
             places == {i \in DOMAIN items : prints[i] \notin seen}
             g == [i \in 1..n |-> i]
  <2>1. n \in Nat /\ DOMAIN items = 1..n
    BY <1>1
  <2>2. places \in SUBSET (1..n) /\ places \subseteq {g[i] : i \in 1..n} /\ DOMAIN g = 1..n
    BY <2>1
  <2>3. Beyond(items, prints, seen) = Picked(items, places)
    BY DEF Beyond
  <2> HIDE DEF places, g
  <2>4. Cardinality(places) \in 0..n
    BY <2>1, <2>2, ValuesFit
  <2>5. Len(Picked(items, places)) = Cardinality(places)
    BY <1>1, <2>2, PickedAre
  <2> QED BY <1>1, <2>1, <2>3, <2>4, <2>5, IntegerAssumption DEF IsInteger
<1> DEFINE s == Security(new)
           k == Secrets(new)
<1>2. s \in Seq(Range(s)) /\ IsInteger(Len(s)) /\ k \in Seq(Range(k)) /\ IsInteger(Len(k))
  BY DEF ListsFit
<1> QED BY <1>1, <1>2 DEF DiffGenuine, Compare

(* The lists of what load_findings takes. *)
LEMMA LoadedFits ==
  ASSUME NEW content, Genuine(content), Comparable(content)
  PROVE  ListsFit(Value(content))
<1>1. content.form \in {"scan", "note"}
  BY OnlyScansLoad DEF Genuine
<1>2. CASE content.form = "note"
  BY <1>2 DEF Genuine, Value
<1>3. CASE content.form = "scan"
  <2> DEFINE r == content.report
             s == Security(ScanReport(r))
             k == Secrets(ScanReport(r))
  <2>1. ScanGenuine(r) /\ Value(content) = ScanReport(r)
    BY <1>3 DEF Genuine, Value
  <2>2. /\ r.security_findings \in Seq(Range(r.security_findings))
        /\ r.secret_findings \in Seq(Range(r.secret_findings))
        /\ IsInteger(Len(r.security_findings) + Len(r.secret_findings))
    BY <2>1 DEF ScanGenuine, Records, FindingsGenuine
  <2>3. /\ s = [i \in DOMAIN r.security_findings |-> SecurityFinding(r.security_findings[i])]
        /\ k = [i \in DOMAIN r.secret_findings |-> SecretFinding(r.secret_findings[i])]
    BY ListsOfScan
  <2> HIDE DEF s, k
  <2>4. /\ s = [i \in DOMAIN r.security_findings |-> s[i]]
        /\ k = [i \in DOMAIN r.secret_findings |-> k[i]]
    BY <2>3
  <2>5. s \in Seq(Range(s)) /\ k \in Seq(Range(k))
    BY <2>2, <2>4, Mapped
  <2>6. Len(s) = Len(r.security_findings) /\ Len(k) = Len(r.secret_findings)
    BY <2>2, <2>4, <2>5
  <2>7. Len(r.security_findings) \in Nat /\ Len(r.secret_findings) \in Nat
    BY <2>2
  <2>8. IsInteger(Len(s)) /\ IsInteger(Len(k))
    BY <2>2, <2>6, <2>7, SumFits
  <2> QED BY <2>1, <2>5, <2>8 DEF ListsFit, s, k
<1> QED BY <1>1, <1>2, <1>3

(* Files and reports hold what the types of their fields can.              *)
FilesGenuine == \A p \in Paths : Genuine(files[p])

ReportGenuine ==
  /\ step \in {"suppress", "baseline"} => ScanGenuine(report)
  /\ step = "advisories" => "packages" \in DOMAIN report /\ DepsGenuine(report)
  /\ step \in {"render", "write"} => Genuine([form |-> command.kind, report |-> report])

AllGenuine ==
  /\ FilesGenuine /\ ReportGenuine
  /\ known # <<>> => Genuine(known[1])
  /\ step = "write" => Genuine(document)

LEMMA ScanKept ==
  ASSUME Typed, Scan, ~Refuse
  PROVE  ScanGenuine(report')
<1> DEFINE r == report'
<1>1. CommandLine(command) /\ command.kind = "scan"
  BY WhichCommand DEF Typed, Scan, At
<1>2. {command.seed, command.max_file_bytes, command.budget_seconds} \subseteq Nat
  BY <1>1 DEF CommandLine
<1>3. /\ r.security_findings = tree.security_findings
      /\ r.secret_findings = tree.secret_findings
      /\ r.syntax_findings = tree.syntax_findings
      /\ r.seed = command.seed /\ r.baseline = <<>> /\ r.suppressions.applied = 0
      /\ r.scope.max_file_bytes = command.max_file_bytes
      /\ r.scope.budget_seconds = command.budget_seconds
  BY DEF Scan
<1>4. /\ Records(tree.security_findings, SecurityFields)
      /\ Records(tree.secret_findings, SecretFields) /\ FindingsGenuine(tree)
  BY TreesAssumption DEF Typed
<1> HIDE DEF r
<1>5. FindingsGenuine(r)
  BY <1>3, <1>4 DEF FindingsGenuine
<1>6. IsInteger(r.suppressions.applied)
  BY <1>3, IntegerAssumption DEF IsInteger
<1>7. ScanGenuine(r)
  BY <1>2, <1>3, <1>4, <1>5, <1>6 DEF ScanGenuine
<1> QED BY <1>7 DEF r

LEMMA MarksKept ==
  ASSUME NEW r, IsScan(r), ScanGenuine(r), NEW accepts, NEW file, NEW s,
         s = [r EXCEPT
                !.security_findings = Marked(r.security_findings, accepts),
                !.secret_findings = Marked(r.secret_findings, accepts),
                !.suppressions =
                  [file |-> file, expired |-> <<>>,
                   applied |-> CountMarked(Marked(r.security_findings, accepts))
                                 + CountMarked(Marked(r.secret_findings, accepts))]]
  PROVE  ScanGenuine(s)
<1> DEFINE sec == r.security_findings
           key == r.secret_findings
           msec == Marked(sec, accepts)
           mkey == Marked(key, accepts)
<1>1. Records(sec, SecurityFields) /\ Records(key, SecretFields)
  BY DEF IsScan
<1>2. Records(msec, SecurityFields) /\ Records(mkey, SecretFields)
  BY <1>1, MarkedRecords
<1>3. /\ DOMAIN msec = DOMAIN sec /\ Len(msec) = Len(sec) /\ Len(sec) \in Nat
      /\ CountMarked(msec) \in 0..Len(sec)
      /\ Placed(sec) => Placed(msec)
      /\ \A i \in DOMAIN sec : msec[i].severity = sec[i].severity
                               /\ msec[i].confidence = sec[i].confidence
  BY <1>1, MarkedFits DEF SecurityFields
<1>4. /\ Len(mkey) = Len(key) /\ Len(key) \in Nat
      /\ CountMarked(mkey) \in 0..Len(key)
      /\ Placed(key) => Placed(mkey)
  BY <1>1, MarkedFits DEF SecretFields
<1> HIDE DEF msec, mkey
<1>5. /\ s.security_findings = msec /\ s.secret_findings = mkey
      /\ s.syntax_findings = r.syntax_findings /\ s.baseline = r.baseline
      /\ s.suppressions.applied = CountMarked(msec) + CountMarked(mkey)
  BY DEF IsScan, msec, mkey
<1>6. {s.seed, s.scope.max_file_bytes, s.scope.budget_seconds} \subseteq Nat
  BY DEF IsScan, ScanGenuine
<1>7. FindingsGenuine(s)
  <2>1. IsInteger(Len(msec) + Len(mkey))
    BY <1>3, <1>4 DEF ScanGenuine, FindingsGenuine
  <2>2. Placed(msec) /\ Placed(mkey) /\ Placed(r.syntax_findings)
    BY <1>3, <1>4 DEF ScanGenuine, FindingsGenuine
  <2> QED BY <1>3, <1>5, <2>1, <2>2 DEF ScanGenuine, FindingsGenuine
<1>8. IsInteger(s.suppressions.applied)
  <2>1. IsInteger(Len(sec) + Len(key))
    BY DEF ScanGenuine, FindingsGenuine
  <2> DEFINE a == CountMarked(msec)
             b == CountMarked(mkey)
             m == Len(sec)
             n == Len(key)
  <2>2. m \in Nat /\ n \in Nat /\ a \in 0..m /\ b \in 0..n /\ IsInteger(m + n)
    BY <1>3, <1>4, <2>1
  <2> HIDE DEF a, b, m, n
  <2>3. IsInteger(a + b)
    BY <2>2, IntegerAssumption DEF IsInteger
  <2> QED BY <1>5, <2>3 DEF a, b
<1> QED BY <1>2, <1>5, <1>6, <1>7, <1>8 DEF ScanGenuine

LEMMA SummaryKept ==
  ASSUME NEW r, IsScan(r), ScanGenuine(r), NEW path, NEW old, ListsFit(old), NEW s,
         s = [r EXCEPT !.baseline = <<Summary(path, Current(r), Known(old))>>]
  PROVE  ScanGenuine(s)
<1> DEFINE b == Summary(path, Current(r), Known(old))
<1>1. \A count \in {"new_security", "new_secrets", "fixed_security", "fixed_secrets"} :
        IsInteger(b[count])
  BY SummaryFits DEF ScanGenuine, IsScan
<1> HIDE DEF b
<1>2. /\ s.security_findings = r.security_findings /\ s.secret_findings = r.secret_findings
      /\ s.syntax_findings = r.syntax_findings /\ s.suppressions = r.suppressions
      /\ s.baseline = <<b>>
  BY DEF IsScan, b
<1>3. s.seed = r.seed /\ s.scope = r.scope
  BY DEF IsScan
<1>4. s.baseline[1] = b
  BY <1>2
<1>5. FindingsGenuine(s)
  BY <1>2 DEF ScanGenuine, FindingsGenuine
<1>6. /\ Records(s.security_findings, SecurityFields)
      /\ Records(s.secret_findings, SecretFields)
      /\ {s.seed, s.scope.max_file_bytes, s.scope.budget_seconds} \subseteq Nat
      /\ IsInteger(s.suppressions.applied)
  BY <1>2, <1>3 DEF ScanGenuine
<1> QED BY <1>1, <1>4, <1>5, <1>6 DEF ScanGenuine

LEMMA ProbeKept ==
  ASSUME NEW url, NEW response, response.cookies \in Seq(Range(response.cookies)),
         IsInteger(response.status)
  PROVE  WebGenuine(WebScan(url, response))
<1> DEFINE https == url.scheme = "https"
           w == WebFindings(https, response)
           S == WebKinds(response.cookies)
<1>1. w \in Seq(S)
  BY ProbeKinds
<1>2. \A f \in S : f.severity \in {"high", "medium", "review"} /\ f.confidence \in Confidences
  BY DEF WebKinds, Confidences
<1> HIDE DEF S, w
<1>3. \A i \in DOMAIN w : w[i] \in S
  BY <1>1
<1>4. WebScan(url, response).status = response.status /\ WebScan(url, response).findings = w
  BY DEF WebScan, w
<1> QED BY <1>2, <1>3, <1>4 DEF WebGenuine

-----------------------------------------------------------------------------
LEMMA InitGenuine == Init => AllGenuine
<1> SUFFICES ASSUME Init
             PROVE  AllGenuine
  OBVIOUS
<1>1. PICK start \in Starts : files = start.files
  BY DEF Init
<1>2. FilesGenuine
  BY <1>1, FilesAssumption DEF FilesGenuine
<1> QED BY <1>2 DEF Init, AllGenuine, ReportGenuine

LEMMA NextGenuine ==
  ASSUME Typed, Listed, OneSide, AllGenuine, [Next]_vars
  PROVE  AllGenuine'
<1> USE DEF At, Continue, Keep, world, run
<1>1. ASSUME UNCHANGED <<files, known>>, step' # "write", ReportGenuine'
      PROVE  AllGenuine'
  BY <1>1 DEF AllGenuine, FilesGenuine
<1>2. ASSUME UNCHANGED <<files, known>>,
             step' \notin {"suppress", "baseline", "advisories", "render", "write"}
      PROVE  AllGenuine'
  BY <1>1, <1>2 DEF ReportGenuine
<1>3. CASE Refuse
  BY <1>2, <1>3 DEF Refuse
<1>4. CASE Invoke
  <2>1. step' = command'.kind /\ CommandLine(command') /\ UNCHANGED files /\ known' = <<>>
    BY <1>4, InvokeTyped DEF Invoke
  <2>2. step' \in {"scan", "web", "deps", "diff", "validate"}
    BY <2>1 DEF CommandLine
  <2> QED BY <2>1, <2>2 DEF AllGenuine, FilesGenuine, ReportGenuine
<1>5. CASE Scan /\ ~Refuse
  <2>1. ScanGenuine(report')
    BY <1>5, ScanKept
  <2>2. step' = "suppress" /\ UNCHANGED <<files, known>>
    BY <1>5 DEF Scan
  <2> QED BY <1>1, <2>1, <2>2 DEF ReportGenuine
<1>6. CASE Suppress /\ ~Refuse
  <2>1. step = "suppress" /\ step' = "baseline" /\ UNCHANGED <<files, known>>
    BY <1>6 DEF Suppress
  <2>2. IsScan(report) /\ ScanGenuine(report)
    BY <2>1 DEF Listed, AllGenuine, ReportGenuine
  <2>3. ScanGenuine(report')
    <3>1. CASE command.suppress = <<>>
      BY <1>6, <2>2, <3>1 DEF Suppress
    <3>2. CASE command.suppress # <<>>
      <4> DEFINE accepts == Accepts(files[command.suppress[1]])
      <4>1. report' = [report EXCEPT
              !.security_findings = Marked(report.security_findings, accepts),
              !.secret_findings = Marked(report.secret_findings, accepts),
              !.suppressions =
                [file |-> command.suppress, expired |-> <<>>,
                 applied |-> CountMarked(Marked(report.security_findings, accepts))
                               + CountMarked(Marked(report.secret_findings, accepts))]]
        BY <1>6, <3>2 DEF Suppress
      <4> HIDE DEF accepts
      <4> QED BY <2>2, <4>1, MarksKept
    <3> QED BY <3>1, <3>2
  <2> QED BY <1>1, <2>1, <2>3 DEF ReportGenuine
<1>7. CASE Baseline /\ ~Refuse
  <2>1. step = "baseline" /\ step' = "render" /\ UNCHANGED <<files, command>>
    BY <1>7 DEF Baseline
  <2>2. /\ IsScan(report) /\ ScanGenuine(report)
        /\ CommandLine(command) /\ command.kind = "scan"
    BY <2>1, WhichCommand DEF Typed, Listed, AllGenuine, ReportGenuine
  <2>3. ScanGenuine(report') /\ (known' # <<>> => Genuine(known'[1]))
    <3>1. CASE command.baseline = <<>>
      BY <1>7, <2>2, <3>1 DEF Baseline, AllGenuine
    <3>2. CASE command.baseline # <<>>
      <4> DEFINE old == files[command.baseline[1]]
      <4>1. command.baseline[1] \in Paths
        BY <2>2, <3>2 DEF CommandLine, Option
      <4>2. /\ Comparable(old) /\ known' = <<old>>
            /\ report' = [report EXCEPT !.baseline =
                 <<Summary(command.baseline[1], Current(report), Known(Value(old)))>>]
        BY <1>7, <3>2 DEF Baseline
      <4>3. Genuine(old)
        BY <4>1 DEF AllGenuine, FilesGenuine
      <4> HIDE DEF old
      <4>4. ListsFit(Value(old))
        BY <4>2, <4>3, LoadedFits
      <4> QED BY <2>2, <4>2, <4>3, <4>4, SummaryKept
    <3> QED BY <3>1, <3>2
  <2>4. Genuine([form |-> command.kind, report |-> report'])
    BY <2>2, <2>3 DEF Genuine, Contents, Forms
  <2> QED BY <2>1, <2>3, <2>4 DEF AllGenuine, FilesGenuine, ReportGenuine
<1>8. CASE Probe /\ ~Refuse
  BY <1>2, <1>8 DEF Probe
<1>9. CASE Answer
  <2>1. step = "answer" /\ step' = "render" /\ UNCHANGED <<files, known, command>>
        /\ report' = WebScan(command.url, command.answer)
    BY <1>9 DEF Answer
  <2>2. command.kind = "web" /\ CommandLine(command)
    BY <2>1, WhichCommand DEF Typed
  <2>3. WebGenuine(report')
    BY <2>1, <2>2, ProbeKept DEF CommandLine
  <2>4. Genuine([form |-> command.kind, report |-> report'])
    BY <2>2, <2>3 DEF Genuine, Contents, Forms
  <2> QED BY <1>1, <2>1, <2>4 DEF ReportGenuine
<1>10. CASE NoAnswer
  BY <1>3, <1>10 DEF NoAnswer
<1>11. CASE Deps /\ ~Refuse
  <2>1. /\ step' = "advisories" /\ UNCHANGED <<files, known>>
        /\ report'.packages = tree.packages
    BY <1>11 DEF Deps
  <2>2. DepsGenuine(tree)
    BY TreesAssumption DEF Typed
  <2>3. DepsGenuine(report') /\ "packages" \in DOMAIN report'
    BY <1>11, <2>1, <2>2 DEF Deps, DepsGenuine
  <2> QED BY <1>1, <2>1, <2>3 DEF ReportGenuine
<1>12. CASE Advisories /\ ~Refuse
  <2>1. step = "advisories" /\ step' = "render" /\ UNCHANGED <<files, known, command>>
    BY <1>12 DEF Advisories
  <2>2. command.kind = "deps" /\ DepsGenuine(report) /\ "packages" \in DOMAIN report
    BY <2>1, WhichCommand DEF Typed, AllGenuine, ReportGenuine
  <2>3. report'.packages = report.packages
    BY <1>12, <2>2 DEF Advisories
  <2>4. DepsGenuine(report')
    BY <2>2, <2>3 DEF DepsGenuine
  <2>5. Genuine([form |-> command.kind, report |-> report'])
    BY <2>2, <2>4 DEF Genuine, Contents, Forms
  <2> QED BY <1>1, <2>1, <2>5 DEF ReportGenuine
<1>13. CASE ReadOld /\ ~Refuse
  <2>1. /\ step = "diff" /\ step' = "new" /\ UNCHANGED files
        /\ known' = <<files[command.old]>>
    BY <1>13 DEF ReadOld
  <2>2. command.old \in Paths
    BY <2>1, WhichCommand DEF Typed, CommandLine
  <2>3. Genuine(known'[1])
    BY <2>1, <2>2 DEF AllGenuine, FilesGenuine
  <2> QED BY <2>1, <2>3 DEF AllGenuine, FilesGenuine, ReportGenuine
<1>14. CASE ReadNew /\ ~Refuse
  <2>1. /\ step = "new" /\ step' = "render" /\ UNCHANGED <<files, command>>
        /\ Comparable(files[command.new]) /\ known' = Append(known, files[command.new])
        /\ report' = Compare(Value(known[1]), Value(files[command.new]))
    BY <1>14 DEF ReadNew
  <2>2. command.kind = "diff" /\ command.new \in Paths
    BY <2>1, WhichCommand DEF Typed, CommandLine
  <2>3. ListsFit(Value(files[command.new]))
    BY <2>1, <2>2, LoadedFits DEF AllGenuine, FilesGenuine
  <2>4. DiffGenuine(report')
    BY <2>1, <2>3, CompareFits
  <2>5. Genuine([form |-> command.kind, report |-> report'])
    BY <2>2, <2>4 DEF Genuine, Contents, Forms
  <2>6. Genuine(known'[1])
    <3> DEFINE old == known[1]
               new == files[command.new]
    <3>1. known = <<old>> /\ Genuine(old) /\ known' = Append(known, new)
      BY <2>1 DEF OneSide, AllGenuine
    <3> HIDE DEF old, new
    <3> QED BY <3>1
  <2> QED BY <2>1, <2>5, <2>6 DEF AllGenuine, FilesGenuine, ReportGenuine
<1>15. CASE Validate /\ ~Refuse
  <2>1. /\ step = "validate" /\ step' = "print" /\ UNCHANGED files
        /\ known' = <<files[command.file]>>
    BY <1>15 DEF Validate
  <2>2. command.file \in Paths
    BY <2>1, WhichCommand DEF Typed, CommandLine
  <2>3. Genuine(known'[1])
    BY <2>1, <2>2 DEF AllGenuine, FilesGenuine
  <2> QED BY <2>1, <2>3 DEF AllGenuine, FilesGenuine, ReportGenuine
<1>16. CASE Render /\ ~Refuse
  <2>1. /\ step = "render" /\ step' \in {"print", "write"}
        /\ UNCHANGED <<files, known, report, command>>
    BY <1>16 DEF Render
  <2>2. Genuine([form |-> command.kind, report |-> report])
    BY <2>1 DEF AllGenuine, ReportGenuine
  <2>3. Genuine(document')
    <3>1. /\ command.kind \in {"scan", "web", "deps", "diff"} /\ CommandLine(command)
      BY <2>1, WhichCommand DEF Typed
    <3>2. command.format \in {"json", "sarif", "sbom"}
      BY <3>1 DEF CommandLine
    <3>3. CASE command.format = "json"
      BY <1>16, <2>2, <3>3 DEF Render
    <3>4. CASE command.format = "sarif"
      <4>1. command.kind \in {"scan", "web"}
        BY <3>1, <3>4 DEF CommandLine
      <4>2. document'.form \in {"scan-sarif", "web-sarif"}
        BY <1>16, <3>4, <4>1 DEF Render, SarifForm
      <4> QED BY <4>2 DEF Genuine, Contents, Forms
    <3>5. CASE command.format = "sbom"
      <4>1. document'.form = "sbom"
        BY <1>16, <3>5 DEF Render
      <4> QED BY <4>1 DEF Genuine, Contents, Forms
    <3> QED BY <3>2, <3>3, <3>4, <3>5
  <2> QED BY <2>1, <2>2, <2>3 DEF AllGenuine, FilesGenuine, ReportGenuine
<1>17. CASE Write
  <2>1. /\ step = "write" /\ step' = "print" /\ UNCHANGED known
        /\ files' = [files EXCEPT ![command.output[1]] = document]
    BY <1>17 DEF Write
  <2>2. Genuine(document) /\ FilesGenuine
    BY <2>1 DEF AllGenuine
  <2>3. FilesGenuine'
    <3>1. DOMAIN files = Paths
      BY DEF Typed, FilesTyped
    <3> QED BY <2>1, <2>2, <3>1 DEF FilesGenuine
  <2> QED BY <2>1, <2>3 DEF AllGenuine, ReportGenuine
<1>18. CASE WriteFails
  BY <1>3, <1>18 DEF WriteFails
<1>19. CASE Emit \/ EmitFails
  BY <1>2, <1>19 DEF Emit, EmitFails
<1>20. CASE Others
  <2>1. UNCHANGED <<command, step, report, known, document>>
    BY <1>20 DEF Others
  <2>2. FilesGenuine'
    <3>1. CASE UNCHANGED files
      BY <3>1 DEF AllGenuine, FilesGenuine
    <3>2. CASE \E name \in DOMAIN files, content \in Edits :
                 files' = [files EXCEPT ![name] = content]
      <4>1. DOMAIN files = Paths /\ FilesGenuine
        BY DEF Typed, FilesTyped, AllGenuine
      <4> QED BY <3>2, <4>1, FilesAssumption DEF FilesGenuine
    <3> QED BY <1>20, <3>1, <3>2 DEF Others
  <2> QED BY <2>1, <2>2 DEF AllGenuine, ReportGenuine
<1>21. CASE UNCHANGED vars
  BY <1>21 DEF vars, AllGenuine, FilesGenuine, ReportGenuine
<1> QED BY <1>3, <1>4, <1>5, <1>6, <1>7, <1>8, <1>9, <1>10, <1>11, <1>12, <1>13, <1>14,
           <1>15, <1>16, <1>17, <1>18, <1>19, <1>20, <1>21 DEF Next, Program

(* What a validation prints is what the checker says of the file it read.  *)
Validated ==
  command.kind = "validate" /\ (step = "print" \/ (step = "idle" /\ exit \in {0, 1})) =>
    /\ known # <<>> /\ command.schema \in SchemaNames
    /\ report.conforms <=> Conforms(Value(known[1]), LoadSchema(command.schema))
    /\ step = "idle" => (exit = 0 <=> report.conforms)

LEMMA NextValidated ==
  ASSUME Typed, Validated, [Next]_vars
  PROVE  Validated'
<1> USE DEF At, Continue, Keep, world, run
<1>1. ASSUME step' \notin {"idle", "print"} \/ (step' = "idle" /\ exit' \notin {0, 1})
      PROVE  Validated'
  BY <1>1 DEF Validated
<1>2. ASSUME UNCHANGED <<step, exit, command, report, known>>
      PROVE  Validated'
  BY <1>2 DEF Validated
<1>3. ASSUME command'.kind # "validate"
      PROVE  Validated'
  BY <1>3 DEF Validated
<1>4. CASE Invoke
  <2>1. step' = command'.kind /\ CommandLine(command')
    BY <1>4, InvokeTyped
  <2> QED BY <1>1, <2>1 DEF CommandLine
<1>5. CASE Validate /\ ~Refuse
  <2>1. /\ step = "validate" /\ step' = "print" /\ UNCHANGED command
        /\ known' = <<files[command.file]>>
        /\ report' = [conforms |-> Conforms(Value(files[command.file]),
                                            LoadSchema(command.schema))]
    BY <1>5 DEF Validate
  <2>2. command.schema \in SchemaNames
    BY <2>1, WhichCommand DEF Typed, CommandLine
  <2> QED BY <2>1, <2>2 DEF Validated
<1>6. CASE Emit /\ command.kind = "validate"
  <2>1. /\ UNCHANGED <<command, known, report>> /\ step = "print" /\ step' = "idle"
        /\ exit' = IF report.conforms THEN 0 ELSE 1
    BY <1>6 DEF Emit, ExitCode
  <2> QED BY <1>6, <2>1 DEF Validated
<1>7. CASE (Render \/ Write) /\ ~Refuse
  <2>1. UNCHANGED command /\ step \in {"render", "write"}
    BY <1>7 DEF Render, Write
  <2>2. command.kind # "validate"
    BY <2>1, WhichCommand DEF Typed
  <2> QED BY <1>3, <2>1, <2>2
<1>8. CASE Emit /\ command.kind # "validate"
  BY <1>3, <1>8 DEF Emit
<1>9. CASE Others
  BY <1>2, <1>9 DEF Others
<1>10. CASE UNCHANGED vars
  BY <1>2, <1>10 DEF vars
<1>11. CASE Refuse
  BY <1>1, <1>11 DEF Refuse
<1>12. CASE Scan \/ Suppress \/ Baseline \/ Probe \/ Answer \/ NoAnswer \/ Deps \/ Advisories
              \/ ReadOld \/ ReadNew \/ WriteFails \/ EmitFails
  BY <1>1, <1>11, <1>12 DEF Scan, Suppress, Baseline, Probe, Answer, NoAnswer, Deps, Advisories,
              ReadOld, ReadNew, WriteFails, EmitFails
<1> QED BY <1>4, <1>5, <1>6, <1>7, <1>8, <1>9, <1>10, <1>11, <1>12 DEF Next, Program

(* Whatever the files, and however the command lines follow each other:    *)
(* `validate` accepts a report exactly under the schema of the command     *)
(* that wrote it, but for a scan whose seed, byte cap or budget is no i64  *)
(* and for a diff of findings without a rule; it accepts no export.        *)
(* CheckerIs is what check_value does.                                     *)
THEOREM ValidateIsExact ==
  ASSUME CheckerIs
  PROVE  Spec => []ValidateKnowsItsOwn
<1> DEFINE Inv == Typed /\ Listed /\ OneSide /\ AllGenuine /\ Validated
<1>1. Init => Inv
  BY InitTyped, InitGenuine DEF Init, Listed, OneSide, Validated
<1>2. Inv /\ [Next]_vars => Inv'
  BY NextTyped, NextListed, NextOneSide, NextGenuine, NextValidated
<1>3. Inv => ValidateKnowsItsOwn
  <2> SUFFICES ASSUME Inv, step = "idle", exit \in {0, 1}, command.kind = "validate",
                      known[1].form \in Forms
               PROVE  ValidateKnowsItsOwn
    BY DEF ValidateKnowsItsOwn
  <2>1. /\ known # <<>> /\ command.schema \in SchemaNames
        /\ exit = 0 <=> Conforms(Value(known[1]), LoadSchema(command.schema))
    BY DEF Validated
  <2>2. Genuine(known[1])
    BY <2>1 DEF AllGenuine
  <2> QED BY <2>1, <2>2, VerdictIs DEF ValidateKnowsItsOwn
<1> QED BY <1>1, <1>2, <1>3, PTL DEF Spec

=============================================================================
