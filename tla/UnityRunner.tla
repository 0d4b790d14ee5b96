---------------------------- MODULE UnityRunner ----------------------------
(***************************************************************************)
(* How Unity runs the tests of the ADC activity, unity.c: UNITY_BEGIN, any *)
(* number of RUN_TEST, UNITY_END.  setUp, the test and tearDown are        *)
(* external; what they do here is call assertions (Unity.tla tells which   *)
(* of them fail), fail, ignore or pass the test outright, or return.  An   *)
(* assertion leaves them by a jump to the last frame setjmp has stored.    *)
(***************************************************************************)
EXTENDS Integers, Sequences, FiniteSets

CONSTANTS
  MaxTests,     \* bound: RUN_TESTs of a suite
  MaxCalls,     \* bound: assertions of a test
  MaxSuites     \* bound: times UNITY_BEGIN is called

VARIABLES
  where,        \* "out"side of UnityDefaultTestRun, in one of its two
                \* TEST_PROTECTs, in a function it calls, or at its end
  AbortFrame,   \* the TEST_PROTECT that set it, 0 before any
  CurrentTestFailed, CurrentTestIgnored,
  NumberOfTests, TestFailures, TestIgnores,
  lines,        \* verdicts printed so far
  open,         \* is a suite begun and not ended?
  calls,        \* bound: assertions called in the present test
  suites,       \* bound: suites begun
  deserved,     \* history: what the present test has come to, "PASS" at first
  verdicts,     \* history: what the suite's tests have come to
  teared        \* history: tearDowns begun

flags == <<CurrentTestFailed, CurrentTestIgnored>>
counters == <<NumberOfTests, TestFailures, TestIgnores>>
vars == <<where, AbortFrame, flags, counters, lines, open, calls, suites,
          deserved, verdicts, teared>>

Init ==
  /\ where = "out" /\ AbortFrame = 0
  /\ CurrentTestFailed = FALSE /\ CurrentTestIgnored = FALSE
  /\ NumberOfTests = 0 /\ TestFailures = 0 /\ TestIgnores = 0
  /\ lines = <<>> /\ open = FALSE /\ calls = 0 /\ suites = 0
  /\ deserved = "PASS" /\ verdicts = <<>> /\ teared = 0

UnityBegin ==
  /\ where = "out" /\ ~open /\ suites < MaxSuites
  /\ NumberOfTests' = 0 /\ TestFailures' = 0 /\ TestIgnores' = 0
  /\ CurrentTestFailed' = FALSE /\ CurrentTestIgnored' = FALSE
  /\ open' = TRUE /\ suites' = suites + 1
  /\ lines' = <<>> /\ verdicts' = <<>> /\ teared' = 0
  /\ UNCHANGED <<where, AbortFrame, calls, deserved>>

\* UnityEnd: the summary, and the number of failures for main to return.
UnityEnd ==
  /\ where = "out" /\ open
  /\ lines' = Append(lines, IF TestFailures = 0 THEN "OK" ELSE "FAIL")
  /\ open' = FALSE
  /\ UNCHANGED <<where, AbortFrame, flags, counters, calls, suites, deserved, verdicts, teared>>

-----------------------------------------------------------------------------
(* UnityDefaultTestRun.                                                    *)

\* Up to its first TEST_PROTECT.
RunTest ==
  /\ where = "out" /\ open /\ NumberOfTests < MaxTests
  /\ NumberOfTests' = NumberOfTests + 1
  /\ AbortFrame' = 1 /\ where' = "setUp"
  /\ calls' = 0 /\ deserved' = "PASS"
  /\ UNCHANGED <<flags, TestFailures, TestIgnores, lines, open, suites, verdicts, teared>>

\* The second TEST_PROTECT, reached by return or by a jump to the first.
Protect ==
  /\ where = "protect"
  /\ AbortFrame' = 2
  /\ where' = "tearDown" /\ teared' = teared + 1
  /\ UNCHANGED <<flags, counters, lines, open, calls, suites, deserved, verdicts>>

Follows == [setUp |-> "test", test |-> "protect", tearDown |-> "conclude"]
InUser == where \in DOMAIN Follows

UserReturns ==
  /\ InUser /\ where' = Follows[where]
  /\ UNCHANGED <<AbortFrame, flags, counters, lines, open, calls, suites,
                 deserved, verdicts, teared>>

\* TEST_ABORT.
Abort == where' = IF AbortFrame = 1 THEN "protect" ELSE "conclude"

Called == InUser /\ calls < MaxCalls /\ calls' = calls + 1
Flagged == CurrentTestFailed \/ CurrentTestIgnored

\* RETURN_IF_FAIL_OR_IGNORE, with which every assertion that takes a value
\* begins; what it would find then has no effect.
CallFlagged ==
  /\ Called /\ Flagged /\ Abort
  /\ UNCHANGED <<AbortFrame, flags, counters, lines, open, suites, deserved, verdicts, teared>>

\* An assertion that holds; a TEST_ASSERT that does has no guard at all.
AssertHolds ==
  /\ Called
  /\ UNCHANGED <<where, AbortFrame, flags, counters, lines, open, suites,
                 deserved, verdicts, teared>>

Decide(verdict) ==
  /\ lines' = Append(lines, verdict)
  /\ deserved' = IF deserved = "PASS" THEN verdict ELSE deserved
  /\ UNCHANGED <<AbortFrame, counters, open, suites, verdicts, teared>>

\* Mutant of AssertFails: RETURN_IF_FAIL_OR_IGNORE is missing.
AssertFailsAgain ==
  /\ Called
  /\ CurrentTestFailed' = TRUE /\ UNCHANGED CurrentTestIgnored
  /\ Abort /\ Decide("FAIL")

\* An assertion that does not hold, or UnityFail.
AssertFails ==
  /\ Called /\ ~Flagged
  /\ CurrentTestFailed' = TRUE /\ UNCHANGED CurrentTestIgnored
  /\ Abort /\ Decide("FAIL")

UnityIgnore ==
  /\ Called /\ ~Flagged
  /\ CurrentTestIgnored' = TRUE /\ UNCHANGED CurrentTestFailed
  /\ Abort /\ Decide("IGNORE")

\* TEST_PASS is a bare TEST_ABORT.
TestPass ==
  /\ Called /\ Abort
  /\ UNCHANGED <<AbortFrame, flags, counters, lines, open, suites, deserved, verdicts, teared>>

UnityConcludeTest ==
  /\ where = "conclude"
  /\ TestIgnores' = IF CurrentTestIgnored THEN TestIgnores + 1 ELSE TestIgnores
  /\ TestFailures' = IF CurrentTestFailed /\ ~CurrentTestIgnored
                     THEN TestFailures + 1 ELSE TestFailures
  /\ lines' = IF Flagged THEN lines ELSE Append(lines, "PASS")
  /\ CurrentTestFailed' = FALSE /\ CurrentTestIgnored' = FALSE
  /\ where' = "out"
  /\ verdicts' = Append(verdicts, deserved)
  /\ UNCHANGED <<AbortFrame, NumberOfTests, open, calls, suites, deserved, teared>>

Next ==
  \/ UnityBegin \/ RunTest \/ Protect \/ UnityConcludeTest \/ UnityEnd
  \/ UserReturns \/ AssertHolds \/ CallFlagged \/ AssertFails \/ UnityIgnore \/ TestPass

Spec == Init /\ [][Next]_vars

-----------------------------------------------------------------------------

TypeOK ==
  /\ where \in {"out", "setUp", "test", "protect", "tearDown", "conclude"}
  /\ AbortFrame \in 0 .. 2
  /\ CurrentTestFailed \in BOOLEAN /\ CurrentTestIgnored \in BOOLEAN
  /\ NumberOfTests \in Nat /\ TestFailures \in Nat /\ TestIgnores \in Nat
  /\ lines \in Seq({"PASS", "FAIL", "IGNORE", "OK"})
  /\ open \in BOOLEAN /\ calls \in Nat /\ suites \in Nat
  /\ deserved \in {"PASS", "FAIL", "IGNORE"}
  /\ verdicts \in Seq({"PASS", "FAIL", "IGNORE"}) /\ teared \in Nat

Count(v) == Cardinality({n \in DOMAIN verdicts : verdicts[n] = v})

\* Between two tests of a suite each test has one line of its own, which
\* tells the first thing that went wrong in setUp, the test or tearDown; the
\* counters agree with the lines, and every test was torn down once, however
\* often its functions asserted and wherever they jumped from.
VerdictsTrue ==
  where = "out" /\ open =>
    /\ lines = verdicts /\ teared = Len(verdicts)
    /\ NumberOfTests = Len(verdicts)
    /\ TestFailures = Count("FAIL") /\ TestIgnores = Count("IGNORE")
=============================================================================
