-------------------------------- MODULE Suite --------------------------------
(***************************************************************************)
(* t.Test.Suite (Test/Suite.lua, Test.lua): the functions of a table are   *)
(* run in some order and each result is kept by the text of its name.      *)
(* Names of different types have the same text: 1 and "1".                 *)
(***************************************************************************)
EXTENDS LuaTable

CONSTANTS
    Names,      \* the keys of the table that hold functions
    TestTexts,      \* what tostring makes of them
    TextOf      \* [Names -> TestTexts]

ASSUME SuiteAssumption == TextOf \in [Names -> TestTexts] /\ IsFiniteSet(Names)

VARIABLES
    plan,       \* the names that are still to run
    case,       \* the one that runs: [name, pass, status, todo, phase]
    suite,      \* the results by text
    failedTests, \* the results of those that did not pass
    ran         \* history: the names and results in the order they ran

suiteVars == <<plan, case, suite, failedTests, ran>>

NoCase == [phase |-> "none"]
Idle == case.phase = "none"

\* getPlan: the order of pairs() is arbitrary, or that of the names.
SuiteInit ==
    /\ plan \in {p \in [1..Cardinality(Names) -> Names] : \A i, j \in DOMAIN p : p[i] = p[j] => i = j}
    /\ case = NoCase /\ suite = EmptyOht /\ failedTests = EmptyOht /\ ran = <<>>

\* Test(): the case passes unless something happens.  What beforeEach returns is dropped.
BeginCase ==
    /\ Idle /\ plan # <<>>
    /\ case' = [phase |-> "runs", name |-> Head(plan), pass |-> TRUE, status |-> "PASS", todo |-> FALSE]
    /\ plan' = Tail(plan)
    /\ UNCHANGED <<suite, failedTests, ran>>

\* Test.todo(): the case goes on.
Todo ==
    /\ case.phase = "runs" /\ ~case.todo
    /\ case' = [case EXCEPT !.todo = TRUE]
    /\ UNCHANGED <<plan, suite, failedTests, ran>>

\* The function returns, Test.skip() or another error ends it (traceback).
EndWith(pass, status) ==
    /\ case.phase = "runs"
    /\ case' = [case EXCEPT !.phase = "ended", !.pass = pass, !.status = status]
    /\ UNCHANGED <<plan, suite, failedTests, ran>>
Return == EndWith(TRUE, "PASS")
Skip   == EndWith(TRUE, "SKIP")
Fail   == EndWith(FALSE, "FAIL")

\* Mutant: the note is looked at before the error.
OutcomeErrorLast ==
    [pass   |-> case.pass,
     status |-> IF case.todo /\ case.pass THEN "TODO" ELSE case.status]

\* A case that is to be done passes, however it ended.
Outcome == [pass |-> case.todo \/ case.pass, status |-> IF case.todo THEN "TODO" ELSE case.status]

\* The result is kept under the text of its name, replacing one with the same text.
Record ==
    LET text == TextOf[case.name]
    IN  /\ case.phase = "ended"
        /\ suite' = SetByKey(suite, text, Outcome)
        /\ failedTests' = IF Outcome.pass THEN failedTests ELSE SetByKey(failedTests, text, Outcome)
        /\ ran' = Append(ran, [name |-> case.name, result |-> Outcome,
                               shouldPass |-> case.todo \/ case.status # "FAIL"])
        /\ case' = NoCase
        /\ UNCHANGED plan

SuiteNext == BeginCase \/ Todo \/ Return \/ Skip \/ Fail \/ Record

SuiteSpec == SuiteInit /\ [][SuiteNext]_suiteVars

(***************************************************************************)
(* Properties.                                                             *)
(***************************************************************************)

\* The documentation promises the results in order of execution, each under the name of
\* its test, and each failed one in the collection of those (docs/Test.Suite.rst:77-79,
\* 130-134, 144-147).  That is so while the tests that ran have names of different texts,
\* the last conjunct.  It is not so otherwise: the results are kept by tostring(name)
\* (Suite.lua:90, 94), and of the tests 1 and "1" the one that runs later replaces the
\* result of the other, at the position of the other, and one failure stands for both.
\* The other conjuncts say what is then kept: per text one result, that of the last test
\* with it, in the order of the first ones; and as failed exactly the texts of which a
\* test failed that was to succeed, even if a later one of the same text passed.
SuiteReports ==
    /\ \A i \in 1..Len(suite.arr) :
          \E n \in 1..Len(ran) :
              /\ suite.arr[i] = TextOf[ran[n].name] /\ suite.hash[suite.arr[i]] = ran[n].result
              /\ \A m \in (n + 1)..Len(ran) : TextOf[ran[m].name] # suite.arr[i]
    /\ \A n \in 1..Len(ran) : \E i \in 1..Len(suite.arr) : suite.arr[i] = TextOf[ran[n].name]
    /\ \A i, j \in 1..Len(suite.arr) : i < j =>
          \E n \in 1..Len(ran) :
              /\ TextOf[ran[n].name] = suite.arr[i]
              /\ \A m \in 1..n : TextOf[ran[m].name] # suite.arr[j]
    /\ DOMAIN failedTests.hash = {TextOf[ran[n].name] : n \in {m \in 1..Len(ran) : ~ran[m].shouldPass}}
    /\ (\A m, n \in 1..Len(ran) : TextOf[ran[m].name] = TextOf[ran[n].name] => m = n) =>
          /\ Len(suite.arr) = Len(ran)
          /\ \A n \in 1..Len(ran) : /\ suite.arr[n] = TextOf[ran[n].name]
                                    /\ suite.hash[TextOf[ran[n].name]] = ran[n].result
===============================================================================
