--------------------------- MODULE ExecutionCheck ----------------------------
(***************************************************************************)
(* CheckerService._run_with_validation_retries (services/checker.py) over  *)
(* ExecutionCheckerClient.evaluate (services/execution_checker.py): the    *)
(* code in an output is run in the sandbox (sandbox/executor.py) against   *)
(* tests the model generates (services/test_generator.py), in a local      *)
(* process or in a container; without code, or without tests, the model    *)
(* judges.  A program's run of a test is what it prints and how it ends    *)
(* if it is run; what the sandbox makes of it is another matter.           *)
(***************************************************************************)
EXTENDS Naturals, Sequences

CONSTANTS
  Backends,              \* SANDBOX_BACKEND: "local" and "docker"
  MaxValidationRetries,
  MaxCases               \* bound: test cases generated

ASSUME CheckAssumption ==
  /\ Backends \subseteq {"local", "docker"}
  /\ MaxValidationRetries \in Nat /\ MaxCases \in Nat \ {0}

VARIABLE chk  \* backend, code in the output, stage, attempt, tests, their runs, outcome

NoCheck == [backend |-> "local", code |-> "none", stage |-> "none", attempt |-> 1,
            tests |-> "none", runs |-> <<>>, outcome |-> "none"]

\* The stdout of a run, before rstrip; a silent crash leaves nothing on stderr.
Run == [printed : {"expected", "expected and blanks", "other"},
        ended   : {"clean", "crash", "silent crash"}]
       \cup [printed : {"other"}, ended : {"timeout"}]

\* _extract_code: no code, a program that either sandbox runs as it is (Python,
\* JavaScript, Java without a public class), C++, Java with its "public class Main", or
\* a program that does not compile.
Codes == {"none", "portable", "cpp", "java", "broken"}

BeginCheck(codes) == \E backend \in Backends, code \in codes :
  chk' = [NoCheck EXCEPT !.backend = backend, !.code = code,
                         !.stage = IF code = "none" THEN "judge" ELSE "generate"]

Checking == chk.stage # "none" /\ chk.outcome = "none"

\* Mutant: an attempt that fails is not counted.
InvalidUncounted(c) ==
  [c EXCEPT !.stage = IF c.code = "none" THEN "judge" ELSE "generate",
            !.tests = "none", !.runs = <<>>]

\* A payload that is not a CheckerResult, or an error in building one, is retried.
Invalid(c) ==
  IF c.attempt <= MaxValidationRetries
  THEN [c EXCEPT !.attempt = @ + 1,
                 !.stage = IF c.code = "none" THEN "judge" ELSE "generate",
                 !.tests = "none", !.runs = <<>>]
  ELSE [c EXCEPT !.outcome = "service error"]

\* The provider, or the sandbox, raises: no handler on the way.
Raises == chk' = [chk EXCEPT !.outcome = "raised"]

\* LLMCheckerClient, the fallback.
Judge ==
  /\ Checking /\ chk.stage = "judge"
  /\ \/ \E verdict \in {"pass", "fail"} : chk' = [chk EXCEPT !.outcome = verdict]
     \/ chk' = Invalid(chk)
     \/ Raises

\* generate_full: tests, a script, neither, or cases that _parse_cases chokes on.
GenerateTests ==
  /\ Checking /\ chk.stage = "generate"
  /\ \/ \E tests \in {"cases", "script"} :
          chk' = [chk EXCEPT !.tests = tests, !.stage = "run"]
     \/ chk' = [chk EXCEPT !.stage = "judge"]
     \/ chk' = Invalid(chk)
     \/ Raises
-----------------------------------------------------------------------------
(* The sandbox.                                                            *)

\* Mutant: the outputs are compared without rstrip.
PassesExactly(run) == run.printed = "expected" /\ run.ended = "clean"

Passes(run) == run.printed # "other" /\ run.ended = "clean"

\* One container runs all the cases and has one exit code, that of its last echo:
\* how a case ended is lost, and a container that is stopped ends them all.
InContainer(runs) ==
  LET Stopped == \E i \in DOMAIN runs : runs[i].ended = "timeout"
  IN [i \in DOMAIN runs |-> [printed |-> runs[i].printed,
                             ended |-> IF Stopped THEN "timeout" ELSE "clean"]]

\* A local process compiles solution.java, where javac wants no public class Main.
Compiles == chk.code # "broken" /\ ~(chk.backend = "local" /\ chk.code = "java")

\* The harness calls the C++ binary "solution", which the shell does not find: no case
\* prints anything, which is right where nothing is expected.
NotFound ==
  {[i \in DOMAIN chk.runs |-> [printed |-> printed[i], ended |-> "clean"]] :
     printed \in [DOMAIN chk.runs -> {"expected", "other"}]}

\* What run_batch, or run_code of a script, may return: a program that does not compile
\* fails every case, in a container without a word on stderr.
Batches ==
  LET OneContainer == chk.backend = "docker" /\ chk.tests = "cases"
  IN CASE ~Compiles ->
            {[i \in DOMAIN chk.runs |-> [printed |-> "other",
               ended |-> IF chk.backend = "docker" THEN "silent crash" ELSE "crash"]]}
       [] Compiles /\ OneContainer -> IF chk.code = "cpp" THEN NotFound
                                     ELSE {InContainer(chk.runs)}
       [] Compiles /\ ~OneContainer -> {chk.runs}

\* One more case is run; a test script is a single case.  A local process that prints
\* what is not text makes run_batch raise a ValueError.
RunCase ==
  /\ Checking /\ chk.stage = "run"
  /\ chk.tests = "script" => chk.runs = <<>>
  /\ Len(chk.runs) < MaxCases
  /\ \/ \E run \in Run : chk' = [chk EXCEPT !.runs = Append(@, run)]
     \/ chk.backend = "local" /\ chk' = Invalid([chk EXCEPT !.runs = <<>>])
     \/ Raises

\* run_tests, _suite_to_checker_result and the validation of its payload: the pass of
\* a suite has no suggested_fix and is invalid, as is the failure of one whose first
\* failing case has neither an answer nor a word on stderr.  A script that fails
\* always has an error to suggest.
ConcludeSuite ==
  /\ Checking /\ chk.stage = "run" /\ chk.runs # <<>>
  /\ \E results \in Batches :
       LET Failing == {i \in DOMAIN results : ~Passes(results[i])}
           First   == CHOOSE i \in Failing : \A j \in Failing : i <= j
       IN chk' = IF \/ Failing = {}
                    \/ chk.tests = "cases" /\ results[First].ended = "silent crash"
                 THEN Invalid(chk)
                 ELSE [chk EXCEPT !.outcome = "fail"]

CheckStep == Judge \/ GenerateTests \/ RunCase \/ ConcludeSuite

\* The sandbox does not get to run a program that would run elsewhere.
Unrun ==
  \/ chk.backend = "docker" /\ chk.tests = "cases" /\ chk.code = "cpp"
  \/ chk.backend = "local" /\ chk.code = "java"

TestsFail == chk.outcome = "fail" /\ chk.stage = "run"

\* Some run of the program prints something else than the test wants, crashes or is
\* too slow.
HasFailed ==
  \E i \in DOMAIN chk.runs : ~(chk.runs[i].ended = "clean" /\ chk.runs[i].printed # "other")

\* Of programs that the sandbox runs, the tests fail those alone that do not compile or
\* that fail a test for their own part, although one container runs all the cases with
\* one exit code and one time limit (run_batch, _suite_to_checker_result).
FailIsEarned == TestsFail /\ ~Unrun => chk.code = "broken" \/ HasFailed

\* test_execution_checker.py:78-81: code all of whose tests pass gets the verdict pass.
PassedTestsPass ==
  LET Tested == chk.code = "portable" /\ chk.stage = "run" /\ chk.runs # <<>>
      Passed == \A i \in DOMAIN chk.runs : Passes(chk.runs[i])
  IN Tested /\ Passed => chk.outcome \in {"none", "pass", "raised"}
=============================================================================
