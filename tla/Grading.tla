------------------------------- MODULE Grading -------------------------------
(***************************************************************************)
(* What an answer is worth, and when it is worth nothing said: the         *)
(* adapters' graders, the read channel's container and the sandbox they    *)
(* share.  A grader returns how many of the Wanted checks pass, or dies,   *)
(* and a death drops the task from every arm; so each must tell what the   *)
(* answer did from what the harness did, by the container's log alone.     *)
(*                                                                         *)
(* The answers of a model, the host and its troubles are enumerated:       *)
(* these are pure functions, checked over all of them, and Episode grades  *)
(* with them.                                                              *)
(***************************************************************************)
EXTENDS Integers, FiniteSets

CONSTANTS
  Wanted,      \* the checks that make the score: test cases, or fail-to-pass tests
  Regression   \* the tests that already passed, a gate

ASSUME ChecksAssumption == Wanted \cap Regression = {} /\ IsFiniteSet(Wanted) /\ Wanted # {}

Died == -1
Full == Cardinality(Wanted)

-----------------------------------------------------------------------------
(* The grading host. *)

Hosts ==
  [declared : BOOLEAN, place : {"local", "socket", "remote"}, client : BOOLEAN, daemon : BOOLEAN,
   caps : BOOLEAN, image : BOOLEAN, gradeDir : {"unset", "directory", "missing"},
   logDir : BOOLEAN,
   resolves : BOOLEAN]   \* what we write is what the daemon mounts at /w

\* Whether this process may grade, and can: a local daemon that is down is found out later.
Available(h) == h.declared /\ h.client /\ (h.place = "local" \/ h.daemon)

\* Whether the image is on the grading daemon: one name, or a census of many.
ImagePresent(h) == Available(h) /\ h.daemon /\ h.image

\* The launch gate, asked at every start.
CheckGradingHost(h) ==
  /\ h.declared
  /\ ~(h.place = "remote" /\ h.gradeDir = "unset")
  /\ h.gradeDir # "missing" /\ h.logDir
  /\ Available(h)

\* What goes wrong in every container of this host.
Standing(h) ==
  IF h.gradeDir = "missing" \/ ~h.logDir THEN "no_workspace"
  ELSE IF ~h.declared THEN "undeclared"
  ELSE IF ~h.client THEN "no_client"
  ELSE IF ~(h.daemon /\ h.image) THEN "cannot_start"
  ELSE IF ~h.resolves THEN "empty_mount" ELSE "none"

\* The operator's proof, once per deployment: a container reads back a fresh token.
Preflight(h) ==
  /\ h.declared /\ h.client /\ h.daemon
  /\ h.caps
  /\ ImagePresent(h)
  /\ Standing(h) = "none"

\* A host that passes preflight grades, under its caps, and passes the launch gate unless its
\* payloads have no declared place both machines see (sandbox.py 621-650).
PreflightSuffices ==
  \A h \in Hosts : Preflight(h) =>
    /\ Standing(h) = "none" /\ h.caps
    /\ CheckGradingHost(h) \/ (h.place = "remote" /\ h.gradeDir = "unset")
ASSUME PreflightSufficesChecked == PreflightSuffices

-----------------------------------------------------------------------------
(* The container. *)

\* A workload that reaches the memory or pids cap, or LiveCodeBench's clock of one case on a slow
\* host, in a container that lives on: from the first step, or in the tests that need more.
Starvations == {"starves_at_once", "starves_in_tests"}

\* What may go wrong in one run: what stands on a host the launch gate lets through, a workload
\* that is killed on the clock or starves, and a container that dies before its report, or in it.
Troubles ==
  {Standing(h) : h \in {g \in Hosts : CheckGradingHost(g)}} \cup {"none"}
    \cup {"entrypoint", "timeout", "dies_early", "dies_reporting"} \cup Starvations

\* sandbox.run raises on a container that never started or never ended.  The exit codes 126 and 127
\* count only with a line docker wrote itself; without it they are the program's.
Raises(trouble) ==
  trouble \in {"no_workspace", "undeclared", "no_client", "cannot_start", "entrypoint", "timeout"}

\* A worker's answer: nothing; something that is no patch and no program; or one that runs, with the tests
\* that pass under it and those that need the most.  A test may not be collected at all.
Replies ==
  [text : {"empty"}, passed : {{}}, hungry : {{}}, collected : {TRUE}]
  \cup [text : {"broken"}, passed : {{}}, hungry : {{}}, collected : {TRUE}]
  \cup [text : {"runs"}, passed : SUBSET (Wanted \cup Regression),
        hungry : SUBSET (Wanted \cup Regression), collected : BOOLEAN]

\* The same answer as a container shows it in which it starves: the patch is not applied and no
\* program starts, or the hungry tests fail.
Shown(answer, trouble) ==
  CASE trouble = "starves_at_once" -> [answer EXCEPT !.text = "broken", !.passed = {}]
    [] trouble = "starves_in_tests" -> [answer EXCEPT !.passed = @ \ answer.hungry]
    [] OTHER -> answer

\* What is left of a reply once the program or the patch is taken out of it: nothing, and the
\* grader says so without a container.
EmptyProgram(answer) == answer.text = "empty"   \* extract_code
EmptyPatch(answer) == answer.text = "empty"     \* extract_patch: no diff in it is still a text

\* The log of a run that did not raise.  apply: the runner's own marker that no patch applied.
\* report: what the driver or the test runner printed at its end.
Started(trouble) == trouble \notin {"empty_mount", "dies_early"}
Reported(trouble) ==
  CASE ~Started(trouble) -> "none"
    [] trouble = "dies_reporting" -> "cut"
    [] OTHER -> "whole"
DriverLog(answer, trouble) ==   \* each case under its own clock, so a program that hangs is no trouble
  [report |-> Reported(trouble), passed |-> answer.passed \cap Wanted]
SweLog(answer, trouble) ==      \* _swe_runner: no tests after a patch that does not apply
  [apply |-> Started(trouble) /\ answer.text = "broken",
   report |-> IF answer.text = "broken" THEN "none" ELSE Reported(trouble), passed |-> answer.passed]
SwepLog(answer, trouble) ==     \* swep_entryscript runs on: the tests of the tree as it was
  [report |-> Reported(trouble), passed |-> IF answer.text = "broken" THEN Regression ELSE answer.passed]

\* Full marks need every wanted test, and a broken regression test costs them all.
Gated(passed) == IF Regression \subseteq passed THEN Cardinality(Wanted \cap passed) ELSE 0

-----------------------------------------------------------------------------
(* R2E-Gym: maps from a test's name to its status, compared name by name. *)

Tests == Wanted \cup Regression
StatusMaps == UNION {[collected -> {"PASSED", "FAILED"}] : collected \in SUBSET Tests}
Map(passed) == [test \in Tests |-> IF test \in passed THEN "PASSED" ELSE "FAILED"]

\* The summary block of the log; nothing when there is none.  A cut one lists some of the tests.
R2eParseLog(answer, trouble) ==
  IF answer.text = "broken" \/ Reported(trouble) = "none" THEN <<>>
  ELSE IF Reported(trouble) = "cut" \/ ~answer.collected THEN [test \in Wanted |-> Map(answer.passed)[test]]
  ELSE Map(answer.passed)

\* The tests the issue is about, from the dataset's own log of the tree before the fix.
R2eFailToPass(before, expected) ==
  {test \in DOMAIN expected :
     expected[test] = "PASSED" /\ ~(test \in DOMAIN before /\ before[test] = "PASSED")}

\* The same names, every other status as expected, and then the wanted ones count.
R2eScore(observed, expected, failToPass) ==
  IF \/ DOMAIN observed # DOMAIN expected
     \/ \E test \in DOMAIN expected \ failToPass : observed[test] # expected[test]
  THEN 0 ELSE Cardinality({test \in failToPass : observed[test] = "PASSED"})

Rows == [prompt : BOOLEAN, before : StatusMaps, after : StatusMaps, expected : StatusMaps]
R2eRows(row) ==
  row.prompt /\ row.after = row.expected /\ R2eFailToPass(row.before, row.expected) # {}

\* An admitted row tells the fix from no fix: the reference tree has full marks, the tree before it none.
RowsDiscriminate ==
  \A row \in Rows : R2eRows(row) =>
    LET wanted == R2eFailToPass(row.before, row.expected)
    IN  /\ R2eScore(row.after, row.expected, wanted) = Cardinality(wanted)
        /\ R2eScore(row.before, row.expected, wanted) = 0
ASSUME RowsDiscriminateChecked == RowsDiscriminate

-----------------------------------------------------------------------------
(* The adapters: an empty answer is a genuine failure, a run that raised is no verdict. *)

\* LiveCodeBench: the driver's verdict line, the cases one by one.
LcbVerdict(log) == IF log.report = "whole" THEN Cardinality(log.passed) ELSE Died
LcbGrade(answer, trouble) ==
  IF EmptyProgram(answer) THEN 0
  ELSE IF Raises(trouble) THEN Died ELSE LcbVerdict(DriverLog(Shown(answer, trouble), trouble))

\* SWE-bench Verified: the apply marker first, then a log the shipped parser can read.
SweReport(log) == IF log.report = "whole" THEN Gated(log.passed) ELSE Died
SweGrade(answer, trouble) ==
  IF EmptyPatch(answer) THEN 0 ELSE IF Raises(trouble) THEN Died
  ELSE LET log == SweLog(Shown(answer, trouble), trouble) IN IF log.apply THEN 0 ELSE SweReport(log)

\* SWE-bench Pro: the parser's own report, whatever the patch did.
SwepVerdict(log) == IF log.report = "whole" THEN Gated(log.passed) ELSE Died
SwepGrade(answer, trouble) ==
  IF EmptyPatch(answer) THEN 0
  ELSE IF Raises(trouble) THEN Died ELSE SwepVerdict(SwepLog(Shown(answer, trouble), trouble))

\* Mutant: a log without a pytest summary is a patch that fixed nothing.
R2eGradeSilentZero(answer, trouble) ==
  IF EmptyPatch(answer) THEN 0 ELSE IF Raises(trouble) THEN Died
  ELSE R2eScore(R2eParseLog(Shown(answer, trouble), trouble), Map(Tests), Wanted)

\* R2E-Gym: the apply marker, then the summary.
R2eGrade(answer, trouble) ==
  IF EmptyPatch(answer) THEN 0 ELSE IF Raises(trouble) THEN Died
  ELSE IF Started(trouble) /\ Shown(answer, trouble).text = "broken" THEN 0
  ELSE LET observed == R2eParseLog(Shown(answer, trouble), trouble)
       IN  IF observed = <<>> THEN Died ELSE R2eScore(observed, Map(Tests), Wanted)

\* Humanity's Last Exam: the letter after the last marker, or of the last line; no container.
HleOption(answer) ==
  IF answer.text # "runs" THEN "" ELSE IF Wanted \subseteq answer.passed THEN "gold" ELSE "other"
HleGrade(answer, trouble) == IF HleOption(answer) = "gold" THEN Full ELSE 0

\* A slice spans several benchmarks: the tag decides whose grader is asked.
Benchmarks == {"livecodebench", "swe-bench-verified", "swe-bench-pro", "r2e-gym", "hle"}
Graded(benchmark, answer, trouble) ==
  CASE benchmark = "livecodebench" -> LcbGrade(answer, trouble)
    [] benchmark = "swe-bench-verified" -> SweGrade(answer, trouble)
    [] benchmark = "swe-bench-pro" -> SwepGrade(answer, trouble)
    [] benchmark = "r2e-gym" -> R2eGrade(answer, trouble)
    [] benchmark = "hle" -> HleGrade(answer, trouble)

-----------------------------------------------------------------------------
(* The read channel. *)

\* What an adapter says of it: a runnable verb on its tasks, an environment to run it in, and the
\* protocol at the end of the prompt; two checks before the window spends anything.
Adapters == [declares : BOOLEAN, environment : BOOLEAN, invites : BOOLEAN]
CheckChannel(adapter) == adapter.declares = adapter.environment
CheckProtocol(adapter) == adapter.invites = adapter.declares

\* What becomes of a reply that ends in a verb.
Inspect(adapter) ==
  IF ~adapter.declares THEN "submission" ELSE IF adapter.environment THEN "observation" ELSE "excluded"

\* A worker that was invited is answered, and one that was not has its reply graded.
ChannelAgrees ==
  \A a \in Adapters : CheckChannel(a) /\ CheckProtocol(a) =>
    Inspect(a) = IF a.invites THEN "observation" ELSE "submission"
ASSUME ChannelAgreesChecked == ChannelAgrees

\* A call names a path or a pattern, and what is there.

Calls == [name : {"READ", "LIST", "FIND"},
          escapes : BOOLEAN,   \* an absolute path, or one with ".." in it
          target : {"source", "metadata", "outside", "missing"}]   \* with every link resolved

\* Refused before there is a container.
RefusedPath(call) == call.name # "FIND" /\ call.escapes

\* The reader inside it: content comes from under the root and from no hidden directory, however
\* the path or the walk got there.
Inside(call) == call.target # "outside"
Metadata(call) == call.target = "metadata"
Reader(call) ==
  IF call.name = "FIND"
  THEN IF Inside(call) /\ ~Metadata(call) /\ call.target # "missing" THEN call.target ELSE "nothing"
  ELSE IF ~Inside(call) \/ Metadata(call) \/ call.target = "missing" THEN "error" ELSE call.target

\* A reader that did not print its markers did not run, or was killed: it is its container's one process.
Payload(call, trouble) ==
  IF Reported(trouble) = "whole" /\ trouble \notin Starvations THEN Reader(call) ELSE "died"
InSandbox(call, trouble) == IF Raises(trouble) THEN "died" ELSE Payload(call, trouble)
Observe(call, trouble) == IF RefusedPath(call) THEN "error" ELSE InSandbox(call, trouble)

ReadOutcomes == {IF Observe(c, t) = "died" THEN "died" ELSE "observation" : c \in Calls, t \in Troubles}

\* No worker is shown what is not the repository's source.
ReadsAreConfined ==
  \A c \in Calls, t \in Troubles : Observe(c, t) \notin {"metadata", "outside"}
ASSUME ReadsAreConfinedChecked == ReadsAreConfined

-----------------------------------------------------------------------------
(* What the window may be told of one answer. *)

\* What the log does not show and the graders score: a workload that starved in a container that
\* reports, and an R2E-Gym summary that is cut.
Unseen(benchmark, trouble) ==
  trouble \in Starvations \/ (benchmark = "r2e-gym" /\ trouble = "dies_reporting")

\* The harness decided the score, for all the log shows: it is not the one the same answer gets
\* when nothing goes wrong.
Mistaken(benchmark, answer, trouble) ==
  /\ Graded(benchmark, answer, trouble) # Graded(benchmark, answer, "none")
  /\ ~Unseen(benchmark, trouble)

\* "These are HOST-PROTECTION bounds, and a suite killed by one produces no verdict, which grade turns
\* into an exclusion rather than a zero" (real.py 576-578, with sandbox.py 228-230 and
\* swebench_pro.py 129-131).  The code does not do this.
StarvedIsExcluded ==
  \A b \in Benchmarks, a \in Replies, t \in Starvations :
    Graded(b, a, t) \in {Graded(b, a, "none"), Died}

\* What is left of it: the zero is never a gain.  No answer is worth more for a workload that starved,
\* though a patch that does not apply leaves the tree whose regression tests pass.
StarvedNeverPays ==
  \A b \in Benchmarks, a \in Replies, t \in Starvations :
    Graded(b, a, t) \in 0..Graded(b, a, "none")
ASSUME StarvedNeverPaysChecked == StarvedNeverPays

Verdicts ==
  {[score |-> Graded(b, a, t), mistaken |-> Mistaken(b, a, t)] :
     b \in Benchmarks, a \in Replies, t \in Troubles}
=============================================================================
