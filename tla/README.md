# TLA+ models of optee_test's key-derivation, Trusted UI and u-boot xtest code

This directory holds TLA+ models of the parts of this repository that have
state and control flow:

- the key-derivation regression case (`src/host/xtest/xtest_10000.c`);
- the Trusted UI test TA (`src/ta/tui/ta_entry.c`) together with its host
  cases (`src/host/xtest/xtest_tui_1000.c`);
- the U-Boot `xtest` command (`src/host/xtest/u-boot/xtest_cmd.c`).

It also holds TLC configurations that check the models on the real catalog,
and TLAPS proofs of every safety invariant that those runs check, for
every value of the constants.

## 1. The system

| Part (spec.md name) | Code | What it does |
|---|---|---|
| KeyDerivationDriver | `xtest_test_derivation_{hkdf,concat_kdf,pbkdf2,scrypt}`, `xtest_tee_test_10001` | Opens one session to the crypt TA. Per vector it makes eleven blocking calls: allocate op, allocate key, populate, set key, free key, allocate output, derive, read secret, compare, free op, free output. Any failure does `goto out`. |
| AttributeEncoder | the `xtest_add_attr*` calls and the hand-built length attributes in each loop | Builds the key-object list and the derive list. These are `params[4]` (`attrs[6]` for scrypt), and the count is reset between the two lists. |
| VectorCatalog | the vectors at lines 57-486 and the four case tables | 10 HKDF cases (three vectors run with and without NULL for empty buffers), 1 Concat-KDF case, 5 PBKDF2 cases (vector 4 is `#if 0`), 5 scrypt cases (only with `CFG_CRYPTO_SCRYPT`). |
| SubcaseRunner/Reporter | `Do_ADBG_BeginSubCase` / `EndSubCase`, `ADBG_EXPECT_*` | Brackets each case and records its pass or fail. The ADBG framework itself is not in `src/`. |
| ScreenNavigator | `cmd_validate_messages` and the four single-screen commands | Copies labels with `strndup`, then calls `TEE_TUIGetScreenInfo`, `TEE_TUIInitSession` and `TEE_TUIDisplayScreen`, and reports the button. |
| TUI host cases | `xtest_tui_1001..1005` | Open a session, invoke one command, log the outputs, close the session. |
| Key-manager self-test | `xtest_tee_test_10002` | One opaque TA call (not modelled). |
| u-boot command | `do_xtest`, `add_cases` in `src/host/xtest/u-boot/xtest_cmd.c` | Refuses a repeated command, opens the TEE context (`goto out` on failure), links the regression linker list into the suite's TAILQ, runs the suite (`goto out` on failure) and deinitialises the context at `out:`. |

How the parts interact:

- The driver takes its inputs from the catalog and its lists from the
  encoder.
- The driver's only partner is the crypt TA, behind the session boundary.
  The TA's answers are the model's nondeterminism: every call may fail, and
  the comparison may mismatch.
- The TUI TA's partner is the TUI implementation. Each of its calls may
  fail, and `DisplayScreen` returns some button.

## 2. Modules

**`KeyDerivation.tla`** models the driver, the encoder and the reporter.
- CONSTANTS:
  - `Cases` is the catalog, a sequence of `Case` records. Bytes are
    abstracted to lengths, and an optional buffer is a length plus whether
    its pointer is non-NULL.
  - `MaxFailures` bounds how many calls fail in one run.
- Variables:
  - `pc` is the host's position: one value per call, plus `open`, `begin`,
    `end`, `close` and `done`.
  - `n` is the loop index.
  - `live` is the set of handles the TA holds for the session. Handles are
    named `<<subcase, kind>>`.
  - `result` is each subcase's ADBG outcome.
  - `params` is the last attribute list sent.
  - `svBits` is the output object's size.
  - `fails` counts the failures so far.
- Actions: one per call: `AllocOp` … `FreeSv`.
  - Each action has a success branch (`Advance` to `Succ[pc]`) and a
    failure branch (`Fail`: mark the subcase failed, jump to `end`), as the
    `if (!ADBG_EXPECT_…) goto out;` does.
  - `PopulateKey` and `DeriveKey` send the encoder's lists even when the
    call fails.
  - `BeginSubCase` and `EndSubCase` bracket the subcase.
  - `LoopsDone`, `OpenSession` and `CloseSession` (which releases every
    handle) model `xtest_tee_test_10001`.
  - The four loops have identical control. The model runs one loop over the
    concatenated catalog and dispatches the encoder on the case's family.

**`KdfCatalog.tla`** holds every vector and case table, as `Case` records.
`SuiteCases(withScrypt)` is the run order of `xtest_tee_test_10001`.

**`TrustedUI.tla`** models one host case and the TA command it invokes.
- CONSTANTS:
  - `HonoursRequestedButtons` says whether the TUI returns only the buttons
    the screen requested.
  - `SizeBits` is the width of `size_t`.
- Variables:
  - `texts` counts the label copies allocated by `strndup` and not yet
    freed.
  - `scr` is the screen index `n`.
  - `seen` is the set of screens displayed.
  - `reads` is the set of indices `n` whose `params[n]` was read.
  - `button`, `ret`, `valueA` and `outSize` are what the host sees.
- Actions follow the code:
  - `Invoke` is the dispatcher.
  - `CopyLabel`, `GetScreenInfo` and `InitSession` are the three setup
    steps, each of which can fail.
  - `LoopTop` is `free`, then `strndup(params[n])`, then the switch whose
    default panics.
  - `DisplayOnce` is the display call of the host's one-screen cases.
  - `DisplayScreen` is `TEE_TUIDisplayScreen` in `cmd_validate_messages`,
    with its error path. `HandleButton` is the `switch (button_type)` after
    it: VALIDATE or CANCEL leave the loop, NEXT and PREVIOUS move `n` modulo
    `SIZE_MAX + 1`, and any other button panics.
  - `Out` is `out: free(text)`.
  - `CloseSession` is the host's `TEEC_CloseSession`.
- A panic ends the TA with `TARGET_DEAD`. The host reads `value.a` and gets
  the 0 it initialised, because the TA writes it only on its success path.

**`SubcaseRunner.tla`** is the abstract specification of a test case built
of subcases (spec.md 4.3), with no code behind it. Its state is a `stage`
(`open`, `idle`, `running`, `closing`, `done`, `aborted`), the current
subcase `cur`, each subcase's `outcome`, and the set `leaked` of resources of
ended subcases still allocated. `Finish` ends the running subcase with a
verdict and may leave resources only when the verdict is `fail`; `Close`
releases them all. `KeyDerivation` instantiates it as `Subcases` with the
refinement mapping:
- `Stage`: `begin` is `idle`, every call step and `end` are `running`,
  `close` is `closing`;
- `Outcome`: `result`, with the current subcase shown `running` while the
  host is inside its body;
- `Leaked`: the live handles of subcases before `n`;
- `cur` is `n`, and `Resources` is the three handle kinds.
`ImplementsSubcaseRunner == Subcases!Spec` is checked as a property. The
eleven body calls are stutters of the abstract runner; `EndSubCase` is its
`Finish`.

**`UbootXtest.tla`** models `do_xtest` over a sequence of shell commands.
- CONSTANTS: `CaseIds`, the regression linker list in link order, and
  `MaxCalls`, the number of commands the shell issues.
- Variables: `pc` (idle in the shell, or at `init`, `add`, `run`, `out` of
  `do_xtest`), `ctx` (the TEE context), `suite` (the suite's TAILQ),
  `ranCases`, `runCtx` and `suiteRc` (what the last `Do_ADBG_RunSuite` ran,
  in which context state, and what it returned), `rc` and `calls`.
- Actions: `Invoke` (the suite is defined afresh; with `CMD_FLAG_REPEAT` the
  command fails at once), `CtxInit`, `AddCases`, `RunSuite`, `Deinit` (the
  `out:` label) and `Quiet` (the shell issues no more commands).
- `ADBG_SUITE_DEFINE` lives in the ADBG framework, outside these sources. The
  model takes it to define an automatic variable, so each call starts with an
  empty list; the suite run is abstracted to pass or fail. `TypeOK` states
  that the suite list is a TAILQ, in which an entry, having one link field,
  appears at most once.

Each module's mutant operators (`…OffByOne`, `…Missing`, `…NoReset`,
`…NoFree`, …) are plausible slips in the code. Each one breaks exactly the
property it is listed against in `PROJECT.json`.

## 3. Runs

| Run | Config | Shows |
|---|---|---|
| `kdf_suite` (pass) | `MC_KeyDerivation.cfg`: the 21 cases `xtest_tee_test_10001` runs with scrypt compiled in, `MaxFailures = 2` | See the list below. |
| `kdf_leak` (violation) | `MC_KeyDerivation_NoLeakAtSubcaseEnd.cfg` | The spec's "every handle freed on every exit path" fails. A single failing call leaves its subcase's handles allocated until the session closes (`goto out` skips the frees). |
| `kdf_optional_variants` (violation) | `MC_KeyDerivation_OptionalVariantsExercised.cfg` | Scrypt vector 1 has an empty salt, but it is only run with the salt absent. The spec requires both variants. |
| `tui_contract` (pass) | `MC_TrustedUI.cfg`: all five cases, 4-bit `size_t`, and a TUI honouring the requested buttons and free to fail | See the list below. |
| `uboot_commands` (pass) | `MC_UbootXtest.cfg`: three regression cases, eight commands | See the list below. |
| `tui_unrestricted` (violation) | `MC_TrustedUI_Unrestricted.cfg` | If the TUI returns an unrequested NEXT on screen 2 or PREVIOUS on screen 0, the TA reads `params[3]` or `params[SIZE_MAX]` before the switch panics. |

What `kdf_suite` shows:
- Every call is made with live handles (`NextCallHandlesLive`).
- A handle of an earlier subcase survives only if that subcase failed
  (`LeakOnlyOnFailure`).
- Every derive list fits its array, carries no key attribute, and requests
  exactly the output object's size (`DeriveRequestConsistent`). A missing
  `param_count = 0` reset is caught by the key-attribute clause. The lists
  would then fill `params[4]` (1 + 3) and `attrs[6]` (4 + 2) exactly, so
  the array does not overflow, and the capacity clause does not fail.
- Every subcase is reported (`EveryVectorReported`).
- The inductive invariants `IInv` and `ProgressInv` hold (see section 4).
- The driver implements the abstract subcase runner, its fairness included
  (`ImplementsSubcaseRunner`).
- The run terminates (`Termination`). This property does not show that
  the run is complete: a loop that stopped early would also terminate.
  `EveryVectorReported` is what catches an early exit.

What `tui_contract` shows:
- The index stays in `0..2` (`ScreenIndexInRange`).
- At most one label copy is held at a time, and none after return
  (`LabelFreedOnReturn`).
- "accepted" needs a successful call, VALIDATE, and a walk over all three
  screens ending on screen 2 (`AcceptedOnlyWhenValidated`).
- PIN and login sizes are set only on VALIDATE and zeroed otherwise
  (`OutputOnlyOnValidate`).
- The inductive invariant `IInv` used by `TrustedUIProofs` holds.

What `uboot_commands` shows:
- Between commands the TEE context is closed, also after a failed init or a
  failing suite (`ContextClosedBetweenCommands`).
- Every suite run holds each regression case exactly once, in link order,
  however many commands ran before (`EachCaseRunOnce`, and the TAILQ shape in
  `TypeOK`).
- `CMD_RET_SUCCESS` means the whole suite ran in an open context and passed
  (`SuccessMeansSuitePassed`).

Why these bounds are enough:
- **Catalog:** the catalog is the real one, so every family, every
  NULL/empty variant and the scrypt six-attribute array are covered.
- **Failures:** `MaxFailures = 2` lets a failure happen at every step of
  every subcase. It also covers two failures in different subcases, which is
  what `LeakOnlyOnFailure` needs to relate.
- **size_t width:** a 4-bit `size_t` wraps in the same way as a 64-bit one.
  `n - 1` from 0 gives the maximum, which is out of `0..3` for any width
  of 2 bits or more (`SizeBitsAssumption`).
- **Commands:** eight commands let every path of `do_xtest` (repeat, failed
  init, failing suite, passing suite) be followed by every other; the state
  carried between commands is only the context, the suite list and the last
  results, so longer sequences reach nothing new. Three cases suffice for a
  re-inserted entry to show.
- **Screens:** the TUI state space is finite (screen index and the set of
  seen screens), so every navigation order is covered.

Fairness: `KeyDerivation` assumes weak fairness of `Next`. The host is one
sequential thread making blocking calls, and each call returns success or an
error. `TrustedUI` assumes no fairness and states no liveness: the loop ends
only when the user presses VALIDATE or CANCEL, and nothing in the code makes
that happen.

## 4. Proofs (`KeyDerivationProofs.tla`)

These hold for every catalog `Cases \in Seq(Case)` and every
`MaxFailures \in Nat` (the module's two ASSUMEs):

- `IInvHolds: Spec => []IInv`
- `TypeCorrect: Spec => []TypeOK`
- `LeakOnlyOnFailureHolds`
- `NextCallHandlesLiveHolds`
- `RefinesSubcaseRunner: Spec => Subcases!Init /\ [][Subcases!Next]_Subcases!vars`

`LeakOnlyOnFailure` is not inductive: a step could free or keep handles of
the current subcase. The strengthening `IInv` adds the following:
- Inside the call sequence, the current subcase is running and `live`
  contains exactly `Held[pc]` of it (the handles allocated and not yet freed
  before that call) plus leaked handles of earlier subcases.
- At `end`, the subcase is running or failed, and a running one holds
  nothing.
- Outside the body, every handle belongs to an earlier subcase.

The proof of `IInv /\ [Next]_vars => IInv'` has one case per action. Each
case has its success branch (lemma `AdvanceStep`) and its failure branch
(lemma `FailStep`). The encoder lemmas (`EncoderType`, by `ConcatProperties`
of SequenceTheorems) give the type of the lists. `NextCallHandlesLive`
follows because the handles a call uses (`Uses[pc]`) are among `Held[pc]`.

The refinement proof (`InitRefines`, `NextRefines`) rests on `IInv`. A body
call leaves the mapped state unchanged (lemmas `BodyStutter`, `BodyCall`):
`Stage` stays `running`, `Outcome` shows the subcase `running` whether or
not the call failed, and only handles of subcase `n` change, which `Leaked`
does not count. `EndSubCase` is `Finish` with the verdict from `result[n]`
and the leaked set `{h \in live : h[1] = n}`; `IInv` gives that a running
subcase at `end` holds no handle, which is the abstract "leaks only on
`fail`".

## 4b. Proofs (`UbootXtestProofs.tla`)

For every non-empty regression list of distinct strings and every
`MaxCalls \in Nat`: `TypeCorrect`, `ContextClosedHolds`,
`EachCaseRunOnceHolds` and `SuccessMeansSuitePassedHolds`, each
`Spec => []P`. The three properties
speak of the shell between commands and are not inductive. The
strengthening `IInv` says what holds inside `do_xtest`: the context is
closed at `init`, open at `add` and `run`; the suite is empty until
`add_cases` and is the linker list at `run`; `rc` is unset until the init
fails or the suite has run; and a `SUCCESS` at `out:` already carries the
passing run. `NextIInv` has one case per action.

The assumption on `CaseIds` says the linker list has no repeated entry
(`CaseIds \in TailqOf(STRING)`). `add_cases` links `begin + n` for
`n < len`, which are `len` distinct objects. With it, `TypeCorrect` proves
that the suite list is always a TAILQ: `IInv` adds that the suite is either
the fresh empty list or the linker list.

## 4c. Proofs (`KeyDerivationRequestProofs.tla`)

For every catalog and every failure bound:
- `ProgressInvHolds: Spec => []ProgressInv`;
- `EveryVectorReportedHolds`;
- `DeriveRequestConsistentHolds`.

Neither property is inductive. `EveryVectorReported` speaks only of `done`,
and `DeriveRequestConsistent` speaks of `params` and `svBits`, which earlier
steps set. `ProgressInv` (in `KeyDerivation.tla`, checked by `kdf_suite`)
states four things:
- the subcases before `n` have been reported;
- at `close` and `done`, `n = N + 1`;
- from `derive` on, `svBits` is the current case's output length times 8;
- from `get_attr` on, `params` is exactly `DeriveParams(Cases[n])`.

It is inductive relative to `IInv`. `IInv` provides the type, `n <= N`
inside the body, and a subcase at `end` that is running or failed. The step
lemma `NextProgress` has one case per action, with lemmas for the failure
branch (`FailProgress`), the success branch (`AdvanceProgress`) and the
calls that touch neither field (`PlainCall`).

The encoder half is proved about the operators alone:
- `AttrFacts`, `OptAttrFacts`, `ConcatIndex`, `ConcatNoKeyIds` and
  `ConcatCarriesLeft/Right` describe `xtest_add_attr` lists and their
  concatenation;
- `DeriveParamsOK` combines them per family, and per NULL and non-NULL
  optional buffer. The derive list has at most 3 attributes (2 for scrypt),
  which fits `params[4]` (`attrs[6]` for scrypt). It has no key-object
  attribute. It carries the family's length attribute with the case's
  output length.

## 4d. Proofs (`TrustedUIProofs.tla`)

These hold for every width of `size_t`. The statements of
`ScreenIndexInRangeHolds` and `AcceptedOnlyWhenValidatedHolds` have the form
`ASSUME HonoursRequestedButtons PROVE Spec => []P`: the index stays in range
only when the TUI returns the buttons the screen asked for, and
`tui_unrestricted` shows what happens otherwise. The theorems are:
- `IInvHolds`;
- `TypeCorrect`;
- `LabelFreedOnReturnHolds`;
- `OutputOnlyOnValidateHolds`;
- `ScreenIndexInRangeHolds`;
- `AcceptedOnlyWhenValidatedHolds`.

The strengthening `IInv` (in `TrustedUI.tla`, checked by `tui_contract`)
has these parts:
- `LabelHeld`: at most one label copy exists, and none outside the loop.
- `BeforeDisplay`:
  - before the first display, `ret` is `SUCCESS` and `value.a` is 0;
  - until `init_session`, `n = 0`;
  - at the display, `n` is in `0..2`.
- `EntryOutputSet`: a successful PIN or login entry has its size set.
- `AcceptedSet`: `value.a = 1` only with `SUCCESS` and VALIDATE.
- `Walk`: under the button contract, `n` is in `0..2`; every screen below `n`
  has been shown; and acceptance means that all three were shown and the
  walk ended on screen 2.

`Walk` is what makes `ScreenIndexInRange` inductive. A NEXT is offered only
below screen 2, and a PREVIOUS only above screen 0. `SizeArith` shows that
`n + 1` and `n - 1` modulo `SIZE_MAX + 1` then stay within `0..2`, whatever
the width.

The prover has no theory of `^`. `TrustedUI.tla` therefore states
`SizeMaxAssumption == SizeMax \in Nat \ {0}`, which is true of `2^SizeBits`
and is evaluated by TLC on every run. The proofs use that assumption and
never expand the power.

## 4e. What is only model-checked

- `Termination`, and the fairness part of `ImplementsSubcaseRunner`. TLAPS
  does not handle liveness or `ENABLED` here; TLC checks both on the real
  catalog.
- The two violations. They are facts about the real catalog
  (`kdf_optional_variants`) and about a TUI that breaks the button contract
  (`tui_unrestricted`); TLC decides them on those instances.
- Anything specific to the real catalog in `KdfCatalog.tla`. The theorems
  quantify over every catalog and never need its values.

Every safety invariant that a passing run checks is also proved as a
theorem, for every value of the constants.

## 5. Not modelled

- The crypt TA's derivation and the byte comparison. A mismatch is one more
  nondeterministic failure.
- The ADBG framework's counters and logs.
- `xtest_tee_test_10002`: one opaque call.
- The TUI TA's BAD_PARAMETERS early returns. No caller in the repository
  passes other parameter types or a NULL label.
- The TUI implementation beyond its results.
- The ADBG framework (`ADBG_SUITE_DEFINE`, `Do_ADBG_RunSuite`, the argument
  filter passed to it) and `xtest_teec_ctx_init/deinit`: they are not among
  these sources. The u-boot model abstracts them to their results.
- The missing `TEE_TUICloseSession` and the unchecked `memcpy` sizes are
  listed as hazards in `PROJECT.json`. No caller in the repository reaches
  them.

## 6. Plan for later sittings

1. Model the key-manager self-test (listed as not modelled in
   `PROJECT.json`) or state why it stays out.
2. Prove the refinement of `SubcaseRunner` with `Outcome` shown to end in
   `pass`/`fail` for every subcase at `done` (the abstract counterpart of
   `EveryVectorReported`).
3. Prove order preservation of `DeriveParams`: the length attribute follows
   the optional buffers, as in the source.
