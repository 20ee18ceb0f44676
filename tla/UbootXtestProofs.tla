-------------------------- MODULE UbootXtestProofs --------------------------
(***************************************************************************)
(* Proofs that the u-boot xtest command closes the TEE context between     *)
(* commands, runs every regression case once per command, and reports     *)
(* success only for a suite that passed in an open context, for every      *)
(* regression list and every number of commands.                          *)
(***************************************************************************)
EXTENDS UbootXtest, TLAPS

(***************************************************************************)
(* The strengthening.  None of the three properties is inductive on its   *)
(* own: they speak of the shell between commands, and the facts that carry *)
(* them there are about the command in progress.  Inside do_xtest the     *)
(* context is open exactly from the successful init to "out:", the suite  *)
(* list is empty until add_cases and is the whole linker list after it,   *)
(* and rc is still unset until the init fails or the suite has run.       *)
(* Between those points the suite is one of the two lists, so it is a     *)
(* TAILQ because the linker list is one.                                  *)
(***************************************************************************)
IInv ==
    /\ TypeOK
    /\ suite \in {<< >>, CaseIds}
    /\ pc \in {"idle", "init"} => ctx = "closed"
    /\ pc \in {"add", "run"} => ctx = "open"
    /\ pc \in {"init", "add"} => suite = << >> /\ rc = "none"
    /\ pc = "run" => suite = CaseIds /\ rc = "none"
    /\ ranCases # << >> => ranCases = CaseIds
    /\ (pc \in {"idle", "out"} /\ rc = "SUCCESS") =>
           /\ suiteRc = "pass"
           /\ runCtx = "open"
           /\ ranCases = CaseIds

\* The empty list followed by the linker list is the linker list.
LEMMA AddToEmpty == << >> \o CaseIds = CaseIds
BY CaseIdsAssumption DEF TailqOf

\* Both lists the suite can hold are TAILQs of case names: the fresh list
\* of ADBG_SUITE_DEFINE and the linker list.
LEMMA SuiteLists ==
    /\ << >> \in TailqOf(STRING)
    /\ CaseIds \in TailqOf(STRING)
    /\ {<< >>, CaseIds} \subseteq Seq(STRING)
BY CaseIdsAssumption DEF TailqOf

\* The command's initial state satisfies the strengthening.
LEMMA InitIInv == Init => IInv
BY MaxCallsAssumption, SuiteLists DEF Init, IInv, TypeOK, PCs, Ctx

\* Every step of the shell or of do_xtest preserves it.
LEMMA NextIInv == IInv /\ [Next]_vars => IInv'
<1> SUFFICES ASSUME IInv, [Next]_vars PROVE IInv'
  OBVIOUS
<1>1. CASE Invoke
  BY <1>1, MaxCallsAssumption, SuiteLists DEF Invoke, IInv, TypeOK, PCs, Ctx
<1>2. CASE CtxInit
  BY <1>2 DEF CtxInit, IInv, TypeOK, PCs, Ctx
<1>3. CASE AddCases
  BY <1>3, AddToEmpty, SuiteLists DEF AddCases, IInv, TypeOK, PCs, Ctx
<1>4. CASE RunSuite
  <2>1. CaseIds # << >>
    BY CaseIdsAssumption
  <2>. QED
    BY <1>4, <2>1, SuiteLists DEF RunSuite, IInv, TypeOK, PCs, Ctx
<1>5. CASE Deinit
  BY <1>5 DEF Deinit, IInv, TypeOK, PCs, Ctx
<1>6. CASE Quiet
  BY <1>6 DEF Quiet, vars, IInv, TypeOK
<1>7. CASE UNCHANGED vars
  BY <1>7 DEF vars, IInv, TypeOK
<1>. QED
  BY <1>1, <1>2, <1>3, <1>4, <1>5, <1>6, <1>7 DEF Next

\* The strengthening holds in every state of every sequence of commands.
THEOREM IInvHolds == Spec => []IInv
BY InitIInv, NextIInv, PTL DEF Spec

\* Type correctness; in particular the suite list is always a TAILQ, each
\* regression case linked at most once, however many commands the shell
\* issues: the suite is an automatic variable that starts empty each call.
THEOREM TypeCorrect == Spec => []TypeOK
<1>1. IInv => TypeOK
  BY DEF IInv
<1>. QED
  BY IInvHolds, <1>1, PTL

\* Whatever path the previous command took (repeat flag, failed context
\* init, failing or passing suite), the shell never sits with the TEE
\* context open: do_xtest always reaches the deinit at "out:".
THEOREM ContextClosedHolds == Spec => []ContextClosedBetweenCommands
<1>1. IInv => ContextClosedBetweenCommands
  BY DEF IInv, ContextClosedBetweenCommands
<1>. QED
  BY IInvHolds, <1>1, PTL

\* Whatever ran before, the suite a command runs is the regression list
\* once: ADBG_SUITE_DEFINE gives each call a fresh list for add_cases.
THEOREM EachCaseRunOnceHolds == Spec => []EachCaseRunOnce
<1>1. IInv => EachCaseRunOnce
  BY DEF IInv, EachCaseRunOnce
<1>. QED
  BY IInvHolds, <1>1, PTL

\* CMD_RET_SUCCESS is returned only by a command whose whole suite ran in
\* an open context and passed.
THEOREM SuccessMeansSuitePassedHolds == Spec => []SuccessMeansSuitePassed
<1>1. IInv => SuccessMeansSuitePassed
  BY DEF IInv, SuccessMeansSuitePassed
<1>. QED
  BY IInvHolds, <1>1, PTL
=============================================================================
