----------------------------- MODULE UbootXtest -----------------------------
(***************************************************************************)
(* The U-Boot "xtest" command (src/host/xtest/u-boot/xtest_cmd.c).  Each   *)
(* call of do_xtest defines the regression suite afresh, opens the TEE     *)
(* context, links every case of the "regression" linker list into the      *)
(* suite, runs the suite and, on every path past the repeat check, ends at *)
(* "out:" where the context is deinitialised.  The shell may call the      *)
(* command any number of times (MaxCalls bounds them); a call repeated by *)
(* an empty command line carries CMD_FLAG_REPEAT.                          *)
(*                                                                         *)
(* ADBG_SUITE_DEFINE and Do_ADBG_RunSuite belong to the ADBG framework,    *)
(* which is not among these sources: the suite is taken to be an          *)
(* automatic variable (an empty list at each call) and the run to pass or *)
(* fail.                                                                   *)
(***************************************************************************)
EXTENDS Naturals, Sequences

CONSTANTS
    CaseIds,   \* the regression linker list, in link order
    MaxCalls   \* bound on the number of xtest commands the shell issues

\* A TAILQ links an entry through its one "link" field, so an entry can sit
\* in the suite list at most once.
TailqOf(S) == {s \in Seq(S) : \A i, j \in DOMAIN s : s[i] = s[j] => i = j}

\* The linker list is not empty, and its entries begin + 0 .. begin + len - 1
\* that add_cases links are distinct objects.
ASSUME CaseIdsAssumption == CaseIds \in TailqOf(STRING) /\ CaseIds # << >>
ASSUME MaxCallsAssumption == MaxCalls \in Nat

PCs == {"idle", "init", "add", "run", "out"}
Ctx == {"closed", "open", "failed"}

VARIABLES
    pc,         \* where the shell or do_xtest is
    ctx,        \* the TEE context xtest_teec_ctx
    suite,      \* ADBG_Suite_regression.cases
    ranCases,   \* the case list the last Do_ADBG_RunSuite ran
    runCtx,     \* the context state when the suite was run
    suiteRc,    \* what the last Do_ADBG_RunSuite returned
    rc,         \* the command's return code
    calls       \* commands issued so far

vars == <<pc, ctx, suite, ranCases, runCtx, suiteRc, rc, calls>>

Init ==
    /\ pc = "idle"
    /\ ctx = "closed"
    /\ suite = << >>
    /\ ranCases = << >>
    /\ runCtx = "closed"
    /\ suiteRc = "none"
    /\ rc = "none"
    /\ calls = 0

\* Slip: the suite defined "static", so its list survives between calls.
InvokeStaticSuite ==
    /\ pc = "idle"
    /\ calls < MaxCalls
    /\ calls' = calls + 1
    /\ ranCases' = << >>
    /\ suiteRc' = "none"
    /\ \/ rc' = "FAILURE" /\ UNCHANGED pc
       \/ rc' = "none" /\ pc' = "init"
    /\ UNCHANGED <<ctx, suite, runCtx>>

\* The shell calls do_xtest: ADBG_SUITE_DEFINE gives an empty suite; a
\* repeated command returns CMD_RET_FAILURE at once.
Invoke ==
    /\ pc = "idle"
    /\ calls < MaxCalls
    /\ calls' = calls + 1
    /\ suite' = << >>
    /\ ranCases' = << >>
    /\ suiteRc' = "none"
    /\ \/ rc' = "FAILURE" /\ UNCHANGED pc          \* CMD_FLAG_REPEAT
       \/ rc' = "none" /\ pc' = "init"
    /\ UNCHANGED <<ctx, runCtx>>

\* Slip: the "goto out" after a failed context init left out.
CtxInitNoGoto ==
    /\ pc = "init"
    /\ pc' = "add"
    /\ \/ ctx' = "open" /\ UNCHANGED rc
       \/ ctx' = "failed" /\ rc' = "FAILURE"
    /\ UNCHANGED <<suite, ranCases, runCtx, suiteRc, calls>>

\* xtest_teec_ctx_init; on failure rc = CMD_RET_FAILURE and "goto out".
CtxInit ==
    /\ pc = "init"
    /\ \/ ctx' = "open" /\ pc' = "add" /\ UNCHANGED rc
       \/ ctx' = "failed" /\ rc' = "FAILURE" /\ pc' = "out"
    /\ UNCHANGED <<suite, ranCases, runCtx, suiteRc, calls>>

\* add_cases: TAILQ_INSERT_TAIL of every linker-list entry, in order.
AddCases ==
    /\ pc = "add"
    /\ suite' = suite \o CaseIds
    /\ pc' = "run"
    /\ UNCHANGED <<ctx, ranCases, runCtx, suiteRc, rc, calls>>

\* Slip: "return CMD_RET_FAILURE" instead of "goto out" when the suite fails.
RunSuiteReturn ==
    /\ pc = "run"
    /\ ranCases' = suite
    /\ runCtx' = ctx
    /\ \/ suiteRc' = "pass" /\ rc' = "SUCCESS" /\ pc' = "out"
       \/ suiteRc' = "fail" /\ rc' = "FAILURE" /\ pc' = "idle"
    /\ UNCHANGED <<ctx, suite, calls>>

\* Do_ADBG_RunSuite; a non-zero result gives CMD_RET_FAILURE, then "out:".
RunSuite ==
    /\ pc = "run"
    /\ ranCases' = suite
    /\ runCtx' = ctx
    /\ \/ suiteRc' = "pass" /\ rc' = "SUCCESS"
       \/ suiteRc' = "fail" /\ rc' = "FAILURE"
    /\ pc' = "out"
    /\ UNCHANGED <<ctx, suite, calls>>

\* out: xtest_teec_ctx_deinit, whether or not the init succeeded; return rc.
Deinit ==
    /\ pc = "out"
    /\ ctx' = "closed"
    /\ pc' = "idle"
    /\ UNCHANGED <<suite, ranCases, runCtx, suiteRc, rc, calls>>

\* The shell issues no more commands.
Quiet ==
    /\ pc = "idle"
    /\ calls = MaxCalls
    /\ UNCHANGED vars

Next == Invoke \/ CtxInit \/ AddCases \/ RunSuite \/ Deinit \/ Quiet

Spec == Init /\ [][Next]_vars

-----------------------------------------------------------------------------
(* Properties.                                                             *)

TypeOK ==
    /\ pc \in PCs
    /\ ctx \in Ctx
    /\ suite \in TailqOf(STRING)
    /\ ranCases \in Seq(STRING)
    /\ runCtx \in Ctx
    /\ suiteRc \in {"none", "pass", "fail"}
    /\ rc \in {"none", "SUCCESS", "FAILURE"}
    /\ calls \in 0..MaxCalls

\* Between commands the TEE context is closed, whichever path the previous
\* command took, so the next command's xtest_teec_ctx_init starts afresh.
ContextClosedBetweenCommands == pc = "idle" => ctx = "closed"

\* The suite a command runs holds every regression case exactly once, in
\* link order, however many commands ran before it.
EachCaseRunOnce == ranCases # << >> => ranCases = CaseIds

\* A command that returns CMD_RET_SUCCESS ran the whole suite, with an open
\* context, and the suite passed.
SuccessMeansSuitePassed ==
    (pc = "idle" /\ rc = "SUCCESS") =>
        /\ suiteRc = "pass"
        /\ runCtx = "open"
        /\ ranCases = CaseIds
=============================================================================
