--------------------------- MODULE TrustedUIProofs ---------------------------
(***************************************************************************)
(* Proofs about the Trusted UI test TA and its host cases, for every      *)
(* width of size_t: the label copies are freed, read_pin / read_login hand *)
(* back data only on VALIDATE, and, when the TUI honours the buttons a     *)
(* screen requested, cmd_validate_messages reads only params[0..2] and    *)
(* reports acceptance only after a walk over all three screens.           *)
(***************************************************************************)
EXTENDS TrustedUI, TLAPS

USE SizeMaxAssumption, HonoursAssumption

\* n + 1 and n - 1 in size_t stay in the type; from a screen of 0..2 they
\* never move past the next screen up or down.
LEMMA SizeArith ==
    /\ \A s \in 0..SizeMax - 1 : /\ (s + 1) % SizeMax \in 0..SizeMax - 1
                                 /\ (s + SizeMax - 1) % SizeMax \in 0..SizeMax - 1
    /\ \A s \in 0..2 : (s + 1) % SizeMax \in 0..s + 1
    /\ \A s \in 1..2 : (s + SizeMax - 1) % SizeMax \in 0..s - 1
BY SMT

\* The sizes read_pin / read_login leave are field lengths or zero.
LEMMA EntryOutputType ==
    ASSUME NEW c \in Commands, NEW b \in Buttons,
           NEW sz \in (0..256) \X (0..256)
    PROVE  EntryOutput(c, b, sz) \in (0..256) \X (0..256)
BY DEF EntryOutput, PinLen, LoginLen, Commands, READ_PIN, READ_LOGIN

\* A button DisplayScreen may report is a TEE_TUIButtonType.
LEMMA OfferedButtons ==
    ASSUME NEW c \in Commands, NEW s \in 0..2
    PROVE  Offered(c, s) \subseteq Buttons
BY DEF Offered, Requested, Buttons, Commands, READ_PIN, READ_LOGIN,
   VALIDATE_MESSAGE, VALIDATE_MESSAGES, MESSAGE

LEMMA InitIInv == Init => IInv
<1> SUFFICES ASSUME Init PROVE IInv
  OBVIOUS
<1>1. TypeOK
  <2>1. outSize \in (0..256) \X (0..256)
    BY DEF Init
  <2>2. scr \in 0..SizeMax - 1 /\ reads \subseteq 0..SizeMax - 1
    BY DEF Init
  <2>3. /\ cmd \in Commands /\ pc \in PCs /\ texts \in 0..2
        /\ seen \subseteq 0..2 /\ button \in Buttons \cup {"none"}
    BY DEF Init, PCs
  <2>4. ret \in Results /\ valueA \in {0, 1}
    BY DEF Init, Results
  <2>5. tui \in BOOLEAN /\ panicked \in BOOLEAN
    BY Zenon DEF Init
  <2>. QED
    BY <2>1, <2>2, <2>3, <2>4, <2>5, Zenon DEF TypeOK
<1>2. ScreenWalk
  BY DEF Init, ScreenWalk
<1>3. Walk
  BY <1>2, Zenon DEF Walk
<1>. QED
  BY <1>1, <1>3 DEF Init, IInv, LabelHeld, BeforeDisplay, EntryOutputSet,
     AcceptedSet

\* Every step of the host case or the TA preserves the strengthening.
LEMMA NextIInv == IInv /\ [Next]_vars => IInv'
<1> SUFFICES ASSUME IInv, [Next]_vars PROVE IInv'
  OBVIOUS
<1>0. TypeOK
  BY DEF IInv
<1>b. tui' \in BOOLEAN /\ panicked' \in BOOLEAN
  BY <1>0, Zenon DEF TypeOK, Next, vars, OpenSession, Invoke, CopyLabel,
     GetScreenInfo, InitSession, LoopTop, DisplayOnce, DisplayScreen,
     HandleButton, Out, CloseSession, Finished
<1>1. CASE OpenSession
  BY <1>1, <1>b DEF OpenSession, IInv, TypeOK, LabelHeld, BeforeDisplay, EntryOutputSet, AcceptedSet, Walk, ScreenWalk, PCs
<1>2. CASE Invoke
  BY <1>2, <1>b DEF Invoke, IInv, TypeOK, LabelHeld, BeforeDisplay, EntryOutputSet, AcceptedSet, Walk, ScreenWalk, PCs
<1>3. CASE CopyLabel
  BY <1>3, <1>b DEF CopyLabel, IInv, TypeOK, LabelHeld, BeforeDisplay, EntryOutputSet, AcceptedSet, Walk, ScreenWalk, PCs, Results
<1>4. CASE GetScreenInfo
  BY <1>4, <1>b DEF GetScreenInfo, IInv, TypeOK, LabelHeld, BeforeDisplay, EntryOutputSet, AcceptedSet, Walk, ScreenWalk, PCs, Results
<1>5. CASE InitSession
  BY <1>5, <1>b DEF InitSession, IInv, TypeOK, LabelHeld, BeforeDisplay, EntryOutputSet, AcceptedSet, Walk, ScreenWalk, PCs, Results
<1>6. CASE LoopTop
  BY <1>6, <1>b DEF LoopTop, IInv, TypeOK, LabelHeld, BeforeDisplay, EntryOutputSet, AcceptedSet, Walk, ScreenWalk, PCs, Results
<1>7. CASE DisplayOnce
  <2>0. /\ pc = "display" /\ cmd # VALIDATE_MESSAGES /\ pc' = "out"
        /\ UNCHANGED <<cmd, texts, tui, scr, seen, reads, panicked>>
        /\ ret = "SUCCESS" /\ valueA = 0
    BY <1>7 DEF DisplayOnce, IInv, BeforeDisplay
  <2>1. CASE ret' = "ERROR" /\ UNCHANGED <<button, valueA, outSize>>
    BY <2>0, <2>1, <1>b DEF IInv, TypeOK, PCs, Results, LabelHeld, BeforeDisplay, EntryOutputSet, AcceptedSet, Walk, ScreenWalk
  <2>2. CASE \E b \in Offered(cmd, 0) :
               /\ button' = b
               /\ UNCHANGED ret
               /\ outSize' = EntryOutput(cmd, b, outSize)
               /\ valueA' = IF cmd = VALIDATE_MESSAGE
                            THEN IF b = "VALIDATE" THEN 1 ELSE 0
                            ELSE valueA
    <3>1. PICK b \in Offered(cmd, 0) :
               /\ button' = b
               /\ UNCHANGED ret
               /\ outSize' = EntryOutput(cmd, b, outSize)
               /\ valueA' = IF cmd = VALIDATE_MESSAGE
                            THEN IF b = "VALIDATE" THEN 1 ELSE 0
                            ELSE valueA
      BY <2>2
    <3>2. b \in Buttons
      BY <1>0, <3>1, OfferedButtons DEF TypeOK
    <3>3. TypeOK'
      <4>1. outSize' \in (0..256) \X (0..256)
        BY <1>0, <3>1, <3>2, EntryOutputType DEF TypeOK
      <4>2. valueA' \in {0, 1}
        BY <2>0, <3>1
      <4>. QED
        BY <1>0, <1>b, <2>0, <3>1, <3>2, <4>1, <4>2 DEF TypeOK, PCs
    <3>4. EntryOutputSet'
      BY <2>0, <3>1 DEF EntryOutputSet, EntryOutput, READ_PIN, READ_LOGIN
    <3>5. AcceptedSet'
      BY <2>0, <3>1 DEF AcceptedSet
    <3>6. (LabelHeld /\ BeforeDisplay)'
      BY <1>0, <2>0, <3>1 DEF IInv, LabelHeld, BeforeDisplay
    <3>7. ASSUME HonoursRequestedButtons PROVE ScreenWalk'
      <4>1. ScreenWalk
        BY <3>7, Zenon DEF IInv, Walk
      <4>. QED
        BY <2>0, <3>1, <4>1 DEF ScreenWalk
    <3>8. Walk'
      BY <3>7, Zenon DEF Walk
    <3>. QED
      BY <3>3, <3>4, <3>5, <3>6, <3>8 DEF IInv
  <2>. QED
    BY <1>7, <2>1, <2>2 DEF DisplayOnce
<1>8. CASE DisplayScreen
  <2>0. /\ pc = "display" /\ cmd = VALIDATE_MESSAGES /\ seen' = seen \cup {scr}
        /\ UNCHANGED <<cmd, tui, reads, outSize>>
        /\ ret = "SUCCESS" /\ valueA = 0 /\ texts <= 1 /\ scr \in 0..2
    BY <1>8 DEF DisplayScreen, IInv, BeforeDisplay, LabelHeld
  <2>w. ASSUME HonoursRequestedButtons
        PROVE  reads \subseteq 0..2 /\ 0..scr - 1 \subseteq seen
    <3>1. ScreenWalk
      BY <2>w, Zenon DEF IInv, Walk
    <3>. QED
      BY <2>0, <3>1 DEF ScreenWalk
  <2>1. CASE ret' = "ERROR" /\ pc' = "out"
             /\ UNCHANGED <<button, scr, valueA, texts, panicked>>
    <3>1. TypeOK'
      BY <1>0, <1>b, <2>0, <2>1 DEF TypeOK, PCs, Results
    <3>2. ASSUME HonoursRequestedButtons PROVE ScreenWalk'
      BY <2>0, <2>1, <2>w, <3>2 DEF ScreenWalk
    <3>3. Walk'
      BY <3>2, Zenon DEF Walk
    <3>. QED
      BY <2>0, <2>1, <3>1, <3>3 DEF IInv, LabelHeld, BeforeDisplay,
         EntryOutputSet, AcceptedSet
  <2>2. CASE \E b \in Offered(cmd, scr) : button' = b /\ HandleButton(b)
    <3>1. PICK b \in Offered(cmd, scr) : button' = b /\ HandleButton(b)
      BY <2>2
    <3>2. b \in Buttons
      BY <1>0, <2>0, <3>1, OfferedButtons DEF TypeOK
    <3>3. ASSUME HonoursRequestedButtons
          PROVE  b \in Requested(VALIDATE_MESSAGES, scr)
      BY <2>0, <3>1, <3>3, Zenon DEF Offered
    <3>4. CASE b \in {"VALIDATE", "CANCEL"}
      <4>1. /\ valueA' = (IF b = "VALIDATE" THEN 1 ELSE 0) /\ pc' = "out"
            /\ UNCHANGED <<scr, ret, texts, panicked>> /\ button' = b
        BY <3>1, <3>4 DEF HandleButton
      <4>2. TypeOK'
        BY <1>0, <1>b, <2>0, <3>2, <4>1 DEF TypeOK, PCs
      <4>3. ASSUME HonoursRequestedButtons PROVE ScreenWalk'
        <5>1. b = "VALIDATE" => scr = 2
          BY <2>0, <3>3, <4>3 DEF Requested, VALIDATE_MESSAGES, READ_PIN,
             READ_LOGIN, VALIDATE_MESSAGE, MESSAGE
        <5>2. reads \subseteq 0..2 /\ 0..scr - 1 \subseteq seen
          BY <2>w, <4>3
        <5>3. ASSUME scr = 2 PROVE seen' = 0..2
          <6>1. 0 \in seen /\ 1 \in seen
            BY <5>2, <5>3
          <6>2. seen \subseteq 0..2
            BY <1>0 DEF TypeOK
          <6>3. seen' = seen \cup {2}
            BY <2>0, <5>3
          <6>4. 0..2 = {0, 1, 2}
            OBVIOUS
          <6>. QED
            BY <6>1, <6>2, <6>3, <6>4, Zenon
        <5>4. scr = 2 => seen' = 0..2
          BY <5>3
        <5>. QED
          BY <2>0, <4>1, <5>1, <5>2, <5>4 DEF ScreenWalk
      <4>4. Walk'
        BY <4>3, Zenon DEF Walk
      <4>5. (LabelHeld /\ BeforeDisplay /\ EntryOutputSet)'
        BY <2>0, <4>1 DEF LabelHeld, BeforeDisplay, EntryOutputSet, READ_PIN,
           READ_LOGIN, VALIDATE_MESSAGES
      <4>6. AcceptedSet'
        <5>1. valueA' = 1 => b = "VALIDATE"
          BY <4>1
        <5>. QED
          BY <2>0, <4>1, <5>1 DEF AcceptedSet
      <4>. QED
        BY <4>2, <4>4, <4>5, <4>6 DEF IInv
    <3>5. CASE b \in {"NEXT", "PREVIOUS"}
      <4>1. /\ scr' = IF b = "NEXT" THEN (scr + 1) % SizeMax
                                    ELSE (scr + SizeMax - 1) % SizeMax
            /\ pc' = "loop_top"
            /\ UNCHANGED <<valueA, ret, texts, panicked>> /\ button' = b
        BY <3>1, <3>5 DEF HandleButton
      <4>2. scr' \in 0..SizeMax - 1
        BY <1>0, <4>1, SizeArith DEF TypeOK
      <4>3. TypeOK'
        BY <1>0, <1>b, <2>0, <3>2, <4>1, <4>2 DEF TypeOK, PCs
      <4>4. ASSUME HonoursRequestedButtons PROVE ScreenWalk'
        <5>1. /\ b = "NEXT" => scr \in 0..1
              /\ b = "PREVIOUS" => scr \in 1..2
          BY <2>0, <3>3, <4>4 DEF Requested, VALIDATE_MESSAGES, READ_PIN,
             READ_LOGIN, VALIDATE_MESSAGE, MESSAGE
        <5>2. reads \subseteq 0..2 /\ 0..scr - 1 \subseteq seen
          BY <2>w, <4>4
        <5>3. scr' \in 0..2 /\ 0..scr' - 1 \subseteq seen'
          <6>1. CASE b = "NEXT"
            <7>1. scr' = (scr + 1) % SizeMax /\ scr \in 0..1
              BY <4>1, <5>1, <6>1
            <7>2. scr' \in 0..scr + 1
              BY <7>1, SizeArith
            <7>. QED
              BY <2>0, <5>2, <7>1, <7>2
          <6>2. CASE b = "PREVIOUS"
            <7>1. scr' = (scr + SizeMax - 1) % SizeMax /\ scr \in 1..2
              BY <4>1, <5>1, <6>2
            <7>2. scr' \in 0..scr - 1
              BY <7>1, SizeArith
            <7>. QED
              BY <2>0, <5>2, <7>1, <7>2
          <6>. QED
            BY <3>5, <6>1, <6>2
        <5>. QED
          BY <2>0, <4>1, <5>2, <5>3 DEF ScreenWalk
      <4>5. Walk'
        BY <4>4, Zenon DEF Walk
      <4>6. (LabelHeld /\ BeforeDisplay /\ EntryOutputSet /\ AcceptedSet)'
        BY <2>0, <4>1 DEF LabelHeld, BeforeDisplay, EntryOutputSet, AcceptedSet
      <4>. QED
        BY <4>3, <4>5, <4>6 DEF IInv
    <3>6. CASE b \notin {"VALIDATE", "CANCEL", "NEXT", "PREVIOUS"}
      <4>1. /\ ret' = "TARGET_DEAD" /\ texts' = 0 /\ pc' = "returned"
            /\ UNCHANGED <<scr, valueA>> /\ button' = b
        BY <3>1, <3>6 DEF HandleButton
      <4>2. ~HonoursRequestedButtons
        <5>1. SUFFICES ASSUME HonoursRequestedButtons PROVE FALSE
          OBVIOUS
        <5>. QED
          BY <2>0, <3>3, <3>6, <5>1 DEF Requested, VALIDATE_MESSAGES,
             READ_PIN, READ_LOGIN, VALIDATE_MESSAGE, MESSAGE
      <4>3. TypeOK'
        BY <1>0, <1>b, <2>0, <3>2, <4>1 DEF TypeOK, PCs, Results
      <4>4. Walk'
        BY <4>2, Zenon DEF Walk
      <4>. QED
        BY <2>0, <4>1, <4>3, <4>4 DEF IInv, LabelHeld, BeforeDisplay,
           EntryOutputSet, AcceptedSet
    <3>. QED
      BY <3>4, <3>5, <3>6
  <2>. QED
    BY <1>8, <2>1, <2>2 DEF DisplayScreen
<1>9. CASE Out
  BY <1>9, <1>b DEF Out, IInv, TypeOK, LabelHeld, BeforeDisplay, EntryOutputSet, AcceptedSet, Walk, ScreenWalk, PCs
<1>10. CASE CloseSession
  BY <1>10, <1>b DEF CloseSession, IInv, TypeOK, LabelHeld, BeforeDisplay, EntryOutputSet, AcceptedSet, Walk, ScreenWalk, PCs
<1>11. CASE Finished
  BY <1>11, <1>b DEF Finished, vars, IInv, TypeOK, LabelHeld, BeforeDisplay, EntryOutputSet, AcceptedSet, Walk, ScreenWalk
<1>12. CASE UNCHANGED vars
  BY <1>12, <1>b DEF vars, IInv, TypeOK, LabelHeld, BeforeDisplay, EntryOutputSet, AcceptedSet, Walk, ScreenWalk
<1>. QED
  BY <1>1, <1>2, <1>3, <1>4, <1>5, <1>6, <1>7, <1>8, <1>9, <1>10, <1>11,
     <1>12 DEF Next

\* The strengthening holds in every reachable state, with or without the
\* button contract.
THEOREM IInvHolds == Spec => []IInv
BY InitIInv, NextIInv, PTL DEF Spec

\* Every reachable state of a host case and its TA command is well typed;
\* in particular the size_t index n never leaves 0..SIZE_MAX.
THEOREM TypeCorrect == Spec => []TypeOK
<1>1. IInv => TypeOK
  BY DEF IInv
<1>. QED
  BY IInvHolds, <1>1, PTL

\* The label copy made by strndup is freed before the next one and on every
\* return of the TA, whichever call failed, for every size_t width.
THEOREM LabelFreedOnReturnHolds == Spec => []LabelFreedOnReturn
<1>1. IInv => LabelFreedOnReturn
  BY DEF IInv, LabelHeld, LabelFreedOnReturn
<1>. QED
  BY IInvHolds, <1>1, PTL

\* read_pin and read_login hand back entry data only on VALIDATE, and the
\* host never logs its own 256-byte buffers as PIN or login, whatever
\* button the TUI returns.
THEOREM OutputOnlyOnValidateHolds == Spec => []OutputOnlyOnValidate
<1>1. IInv => OutputOnlyOnValidate
  BY DEF IInv, EntryOutputSet, OutputOnlyOnValidate
<1>. QED
  BY IInvHolds, <1>1, PTL

\* When the TUI returns only buttons the screen requested, the size_t index
\* of cmd_validate_messages never wraps: params[n] is read for n in 0..2
\* only, for every width of size_t.
THEOREM ScreenIndexInRangeHolds ==
    ASSUME HonoursRequestedButtons
    PROVE  Spec => []ScreenIndexInRange
<1>1. IInv => ScreenIndexInRange
  <2>1. IInv => ScreenWalk
    BY Zenon DEF IInv, Walk
  <2>. QED
    BY <2>1 DEF ScreenWalk, ScreenIndexInRange
<1>. QED
  BY IInvHolds, <1>1, PTL

\* When the TUI honours the requested buttons, the host is told "accepted"
\* only after a successful call answered by VALIDATE, and for the
\* three-screen command only after all three screens, ending on screen 2.
THEOREM AcceptedOnlyWhenValidatedHolds ==
    ASSUME HonoursRequestedButtons
    PROVE  Spec => []AcceptedOnlyWhenValidated
<1>1. IInv => AcceptedOnlyWhenValidated
  <2>1. IInv => ScreenWalk
    BY Zenon DEF IInv, Walk
  <2>. QED
    BY <2>1 DEF IInv, AcceptedSet, ScreenWalk, AcceptedOnlyWhenValidated
<1>. QED
  BY IInvHolds, <1>1, PTL
=============================================================================
