---------------------------- MODULE MC_UbootXtest ----------------------------
(* Three regression cases and eight xtest commands: every order of the    *)
(* paths a command can take (repeat, failed init, suite fails or passes)  *)
(* followed by another command that sees what the previous left behind.  *)
EXTENDS UbootXtest

MCCaseIds == <<"regression_1001", "regression_4001", "regression_10001">>
MCMaxCalls == 8
=============================================================================
