------------------------------ MODULE TrustedUI ------------------------------
(***************************************************************************)
(* The Trusted UI regression cases xtest_tui_1001..1005                   *)
(* (src/host/xtest/xtest_tui_1000.c) and the TUI test TA they drive        *)
(* (src/ta/tui/ta_entry.c).  A host case opens a session, invokes one      *)
(* command, logs what came back and closes the session.  The TA copies    *)
(* the label with strndup, reserves the TUI, displays a screen and reports *)
(* the button pressed; TA_TUI_CMD_VALIDATE_MESSAGES walks three screens    *)
(* with NEXT and PREVIOUS until VALIDATE or CANCEL.                        *)
(*                                                                         *)
(* The TUI implementation is outside this repository: each of its calls   *)
(* may fail, and DisplayScreen returns some button.  With                  *)
(* HonoursRequestedButtons it returns only a button the screen requested  *)
(* (its contract); without, any button.  Labels are not modelled, only    *)
(* their allocations; size_t is SizeBits wide.                             *)
(***************************************************************************)
EXTENDS Naturals, FiniteSets

CONSTANTS
    HonoursRequestedButtons,  \* the TUI returns only requested buttons
    SizeBits                  \* width of size_t

ASSUME HonoursAssumption == HonoursRequestedButtons \in BOOLEAN
ASSUME SizeBitsAssumption == SizeBits \in Nat /\ SizeBits >= 2

SizeMax == 2^SizeBits

\* SIZE_MAX + 1 is a positive number, whatever the width.
ASSUME SizeMaxAssumption == SizeMax \in Nat \ {0}

\* TEE_TUIButtonType
Buttons == {"OK", "CANCEL", "VALIDATE", "PREVIOUS", "NEXT"}

\* The host cases, by the TA command each invokes (TA_TUI_CMD_* = 1..5).
READ_PIN == 1
READ_LOGIN == 2
MESSAGE == 3
VALIDATE_MESSAGE == 4
VALIDATE_MESSAGES == 5
Commands == 1..5

\* Buffer lengths of the TA's entry fields: buf[8], username[17], password[17].
PinLen   == 8
LoginLen == 17

\* Slips in the requested-button tables: screen 2 copied from screen 1
\* (NEXT instead of VALIDATE), and VALIDATE already offered on screen 1.
RequestedNextOnLast(cmd, scr) ==
    IF cmd = VALIDATE_MESSAGES /\ scr = 2 THEN {"PREVIOUS", "CANCEL", "NEXT"}
    ELSE IF cmd = VALIDATE_MESSAGES /\ scr = 1 THEN {"PREVIOUS", "CANCEL", "NEXT"}
    ELSE IF cmd = VALIDATE_MESSAGES THEN {"CANCEL", "NEXT"}
    ELSE IF cmd = MESSAGE THEN {"OK"} ELSE {"CANCEL", "VALIDATE"}
RequestedValidateEarly(cmd, scr) ==
    IF cmd = VALIDATE_MESSAGES /\ scr = 1 THEN {"PREVIOUS", "CANCEL", "VALIDATE"}
    ELSE IF cmd = VALIDATE_MESSAGES /\ scr = 2 THEN {"PREVIOUS", "CANCEL", "VALIDATE"}
    ELSE IF cmd = VALIDATE_MESSAGES THEN {"CANCEL", "NEXT"}
    ELSE IF cmd = MESSAGE THEN {"OK"} ELSE {"CANCEL", "VALIDATE"}

\* scr_cfg.requestedButtons of every screen a command displays.
Requested(cmd, scr) ==
    CASE cmd \in {READ_PIN, READ_LOGIN, VALIDATE_MESSAGE} -> {"CANCEL", "VALIDATE"}
      [] cmd = MESSAGE -> {"OK"}
      [] cmd = VALIDATE_MESSAGES /\ scr = 0 -> {"CANCEL", "NEXT"}
      [] cmd = VALIDATE_MESSAGES /\ scr = 1 -> {"PREVIOUS", "CANCEL", "NEXT"}
      [] cmd = VALIDATE_MESSAGES /\ scr = 2 -> {"PREVIOUS", "CANCEL", "VALIDATE"}

\* The buttons TEE_TUIDisplayScreen may report.
Offered(cmd, scr) ==
    IF HonoursRequestedButtons THEN Requested(cmd, scr) ELSE Buttons

Results == {"SUCCESS", "ERROR", "OUT_OF_MEMORY", "TARGET_DEAD"}
PCs == {"open", "invoke", "strndup", "screen_info", "init_session",
        "loop_top", "display", "out", "returned", "closed", "aborted"}

VARIABLES
    cmd,      \* the command the host case invokes
    pc,       \* host and TA program counter
    texts,    \* label copies allocated by strndup and not yet freed
    tui,      \* the TUI session has been initialised
    scr,      \* cmd_validate_messages' screen index n (a size_t)
    seen,     \* screens displayed by cmd_validate_messages
    reads,    \* indices n of params[n] read by cmd_validate_messages' strndup
    button,   \* the button DisplayScreen reported last
    ret,      \* the TEE_Result the TA returned
    valueA,   \* the value.a output the host reads after the call
    outSize,  \* the memref sizes params[1], params[2] after the call
    panicked  \* the TA called TEE_Panic

vars == <<cmd, pc, texts, tui, scr, seen, reads, button, ret, valueA,
          outSize, panicked>>

Init ==
    /\ cmd \in Commands
    /\ pc = "open"
    /\ texts = 0
    /\ tui = FALSE
    /\ scr = 0
    /\ seen = {}
    /\ reads = {}
    /\ button = "none"
    /\ ret = "SUCCESS"
    /\ valueA = 0
    /\ outSize = <<256, 256>>
    /\ panicked = FALSE

\* xtest_teec_open_session; on failure the host case returns.
OpenSession ==
    /\ pc = "open"
    /\ pc' \in {"invoke", "aborted"}
    /\ UNCHANGED <<cmd, texts, tui, scr, seen, reads, button, ret, valueA,
                   outSize, panicked>>

\* TEEC_InvokeCommand and TA_InvokeCommandEntryPoint's switch.  The host
\* always passes the parameter types the command expects.
Invoke ==
    /\ pc = "invoke"
    /\ pc' = IF cmd = VALIDATE_MESSAGES THEN "screen_info" ELSE "strndup"
    /\ UNCHANGED <<cmd, texts, tui, scr, seen, reads, button, ret, valueA,
                   outSize, panicked>>

\* text = strndup(params[0]) in the single-screen commands.
CopyLabel ==
    /\ pc = "strndup"
    /\ \/ texts' = texts + 1 /\ pc' = "screen_info" /\ UNCHANGED ret
       \/ ret' = "OUT_OF_MEMORY" /\ pc' = "returned" /\ UNCHANGED texts
    /\ UNCHANGED <<cmd, tui, scr, seen, reads, button, valueA, outSize, panicked>>

\* TEE_TUIGetScreenInfo; on failure "goto out".
GetScreenInfo ==
    /\ pc = "screen_info"
    /\ \/ pc' = "init_session" /\ UNCHANGED ret
       \/ ret' = "ERROR" /\ pc' = "out"
    /\ UNCHANGED <<cmd, texts, tui, scr, seen, reads, button, valueA,
                   outSize, panicked>>

\* TEE_TUIInitSession; on failure "goto out".  No command closes it.
InitSession ==
    /\ pc = "init_session"
    /\ \/ /\ tui' = TRUE
          /\ pc' = IF cmd = VALIDATE_MESSAGES THEN "loop_top" ELSE "display"
          /\ UNCHANGED ret
       \/ ret' = "ERROR" /\ pc' = "out" /\ UNCHANGED tui
    /\ UNCHANGED <<cmd, texts, scr, seen, reads, button, valueA, outSize,
                   panicked>>

\* Mutation: the loop's free(text) left out.
LoopTopNoFree ==
    /\ pc = "loop_top"
    /\ reads' = reads \cup {scr}
    /\ \/ /\ ret' = "OUT_OF_MEMORY" /\ pc' = "returned"
          /\ UNCHANGED <<texts, panicked>>
       \/ /\ texts' = texts + 1
          /\ scr \in 0..2
          /\ pc' = "display"
          /\ UNCHANGED <<ret, panicked>>
       \/ /\ texts' = 0
          /\ scr \notin 0..2
          /\ panicked' = TRUE /\ ret' = "TARGET_DEAD" /\ pc' = "returned"
    /\ UNCHANGED <<cmd, tui, scr, seen, button, valueA, outSize>>

\* Top of cmd_validate_messages' loop: free(text), text = strndup(params[n])
\* (returning TEE_ERROR_OUT_OF_MEMORY when it fails), then the switch on n
\* whose default is TEE_Panic(0).
LoopTop ==
    /\ pc = "loop_top"
    /\ reads' = reads \cup {scr}
    /\ \/ /\ texts' = 0
          /\ ret' = "OUT_OF_MEMORY" /\ pc' = "returned"
          /\ UNCHANGED panicked
       \/ /\ texts' = 1
          /\ scr \in 0..2
          /\ pc' = "display"
          /\ UNCHANGED <<ret, panicked>>
       \/ /\ texts' = 0
          /\ scr \notin 0..2
          /\ panicked' = TRUE /\ ret' = "TARGET_DEAD" /\ pc' = "returned"
    /\ UNCHANGED <<cmd, tui, scr, seen, button, valueA, outSize>>

\* Mutation: the else branch that zeroes the sizes left out.
EntryOutputNoReset(c, b, sizes) ==
    CASE c = READ_PIN /\ b = "VALIDATE" -> <<PinLen, sizes[2]>>
      [] c = READ_LOGIN /\ b = "VALIDATE" -> <<LoginLen, LoginLen>>
      [] OTHER -> sizes

\* The memref sizes read_pin and read_login leave after button b.
EntryOutput(c, b, sizes) ==
    CASE c = READ_PIN ->
           IF b = "VALIDATE" THEN <<PinLen, sizes[2]>> ELSE <<0, sizes[2]>>
      [] c = READ_LOGIN ->
           IF b = "VALIDATE" THEN <<LoginLen, LoginLen>> ELSE <<0, 0>>
      [] OTHER -> sizes

\* TEE_TUIDisplayScreen followed by what the command does with the button.
\* Single-screen commands: read_pin / read_login copy the entry fields out
\* on VALIDATE and set the output sizes to 0 otherwise; validate_message
\* sets value.a.  Then "out:".
DisplayOnce ==
    /\ pc = "display"
    /\ cmd # VALIDATE_MESSAGES
    /\ \/ ret' = "ERROR" /\ pc' = "out"
          /\ UNCHANGED <<button, valueA, outSize>>
       \/ \E b \in Offered(cmd, 0) :
            /\ button' = b
            /\ pc' = "out"
            /\ UNCHANGED ret
            /\ outSize' = EntryOutput(cmd, b, outSize)
            /\ valueA' = IF cmd = VALIDATE_MESSAGE
                         THEN IF b = "VALIDATE" THEN 1 ELSE 0
                         ELSE valueA
    /\ UNCHANGED <<cmd, texts, tui, scr, seen, reads, panicked>>

\* cmd_validate_messages' switch on the button b the TUI reported:
\* VALIDATE and CANCEL end the loop and set params[3].value.a, NEXT and
\* PREVIOUS move n (size_t arithmetic), anything else panics.
HandleButton(b) ==
    CASE b \in {"VALIDATE", "CANCEL"} ->
           /\ valueA' = IF b = "VALIDATE" THEN 1 ELSE 0
           /\ pc' = "out"
           /\ UNCHANGED <<scr, ret, texts, panicked>>
      [] b = "NEXT" ->
           /\ scr' = (scr + 1) % SizeMax
           /\ pc' = "loop_top"
           /\ UNCHANGED <<valueA, ret, texts, panicked>>
      [] b = "PREVIOUS" ->
           /\ scr' = (scr + SizeMax - 1) % SizeMax
           /\ pc' = "loop_top"
           /\ UNCHANGED <<valueA, ret, texts, panicked>>
      [] OTHER ->
           /\ panicked' = TRUE /\ ret' = "TARGET_DEAD"
           /\ texts' = 0 /\ pc' = "returned"
           /\ UNCHANGED <<scr, valueA>>

\* cmd_validate_messages: TEE_TUIDisplayScreen of screen n ("goto out" when
\* it fails), then the switch on the button.
DisplayScreen ==
    /\ pc = "display"
    /\ cmd = VALIDATE_MESSAGES
    /\ seen' = seen \cup {scr}
    /\ \/ ret' = "ERROR" /\ pc' = "out"
          /\ UNCHANGED <<button, scr, valueA, texts, panicked>>
       \/ \E b \in Offered(cmd, scr) : button' = b /\ HandleButton(b)
    /\ UNCHANGED <<cmd, tui, reads, outSize>>

\* Mutation: "out:" without free(text).
OutNoFree ==
    /\ pc = "out"
    /\ pc' = "returned"
    /\ UNCHANGED <<cmd, texts, tui, scr, seen, reads, button, ret, valueA,
                   outSize, panicked>>

\* out: free(text); return res.
Out ==
    /\ pc = "out"
    /\ texts' = 0
    /\ pc' = "returned"
    /\ UNCHANGED <<cmd, tui, scr, seen, reads, button, ret, valueA, outSize,
                   panicked>>

\* The host logs what it got and calls TEEC_CloseSession.
CloseSession ==
    /\ pc = "returned"
    /\ pc' = "closed"
    /\ UNCHANGED <<cmd, texts, tui, scr, seen, reads, button, ret, valueA,
                   outSize, panicked>>

\* The host case has returned.
Finished ==
    /\ pc \in {"closed", "aborted"}
    /\ UNCHANGED vars

Next ==
    \/ OpenSession \/ Invoke \/ CopyLabel \/ GetScreenInfo \/ InitSession
    \/ LoopTop \/ DisplayOnce \/ DisplayScreen \/ Out \/ CloseSession
    \/ Finished

Spec == Init /\ [][Next]_vars

-----------------------------------------------------------------------------
(* Properties.                                                             *)

TypeOK ==
    /\ cmd \in Commands
    /\ pc \in PCs
    /\ texts \in 0..2
    /\ tui \in BOOLEAN
    /\ scr \in 0..SizeMax - 1
    /\ seen \subseteq 0..2
    /\ reads \subseteq 0..SizeMax - 1
    /\ button \in Buttons \cup {"none"}
    /\ ret \in Results
    /\ valueA \in {0, 1}
    /\ outSize \in (0..256) \X (0..256)
    /\ panicked \in BOOLEAN

\* cmd_validate_messages only ever reads params[0..2]: n stays in range
\* through any sequence of NEXT and PREVIOUS presses.
ScreenIndexInRange == reads \subseteq 0..2

\* Label copies do not leak: at most one is held at a time (the loop frees
\* the previous screen's before copying the next) and none after return.
LabelFreedOnReturn ==
    /\ texts <= 1
    /\ pc \in {"returned", "closed"} => texts = 0

\* The host reports "accepted" (value.a # 0) only when the TA returned
\* success with VALIDATE pressed, and for the three-screen command only
\* after all three screens were displayed, the last one being screen 2.
AcceptedOnlyWhenValidated ==
    (pc = "closed" /\ valueA = 1) =>
        /\ ret = "SUCCESS"
        /\ button = "VALIDATE"
        /\ cmd = VALIDATE_MESSAGES => seen = 0..2 /\ scr = 2

\* read_pin / read_login hand back entry data only on VALIDATE: when the
\* host logs the output buffers (call succeeded) their sizes are the TA's
\* field lengths after VALIDATE and 0 otherwise, never the host's 256.
OutputOnlyOnValidate ==
    (pc = "closed" /\ ret = "SUCCESS" /\ cmd \in {READ_PIN, READ_LOGIN}) =>
        /\ button = "VALIDATE" => outSize[1] \in {PinLen, LoginLen}
        /\ button # "VALIDATE" => outSize[1] = 0
        /\ cmd = READ_LOGIN => outSize[2] = outSize[1]

\* The parts of the strengthening the proofs use (TrustedUIProofs).
\* A label copy is held only between strndup and "out:".
LabelHeld ==
    /\ texts <= 1
    /\ pc \in {"open", "invoke", "strndup", "returned", "closed", "aborted"}
        => texts = 0

\* Before the display the TA has set neither a result nor value.a, nor
\* moved off screen 0; a screen is displayed only after the switch on n
\* accepted it.
BeforeDisplay ==
    /\ pc = "display" => scr \in 0..2
    /\ pc \in {"open", "invoke", "strndup", "screen_info", "init_session",
              "loop_top", "display"}
        => ret = "SUCCESS" /\ valueA = 0
    /\ pc \in {"open", "invoke", "strndup", "screen_info", "init_session"}
        => scr = 0

\* A successful read_pin / read_login that reached "out:" has set its
\* output sizes from the button.
EntryOutputSet ==
    (pc \in {"out", "returned", "closed"} /\ ret = "SUCCESS"
     /\ cmd \in {READ_PIN, READ_LOGIN}) =>
        /\ button = "VALIDATE" => outSize[1] \in {PinLen, LoginLen}
        /\ button # "VALIDATE" => outSize[1] = 0
        /\ cmd = READ_LOGIN => outSize[2] = outSize[1]

\* value.a is set to 1 only by a successful display answered by VALIDATE.
AcceptedSet == valueA = 1 => ret = "SUCCESS" /\ button = "VALIDATE"

\* The screen index stays in 0..2, and every screen below the current one
\* was displayed before (NEXT moves up by one only after displaying), so
\* VALIDATE on screen 2 follows all three.
ScreenWalk ==
    /\ scr \in 0..2
    /\ reads \subseteq 0..2
    /\ (cmd = VALIDATE_MESSAGES /\ pc \in {"loop_top", "display"})
          => 0..scr - 1 \subseteq seen
    /\ (valueA = 1 /\ cmd = VALIDATE_MESSAGES) => seen = 0..2 /\ scr = 2

\* ScreenWalk holds under the button contract.
Walk == HonoursRequestedButtons => ScreenWalk

\* The inductive invariant behind every TrustedUI theorem: the type and the
\* five facts above, each needed to carry the properties across a step.
IInv == TypeOK /\ LabelHeld /\ BeforeDisplay /\ EntryOutputSet /\ AcceptedSet /\ Walk
=============================================================================
