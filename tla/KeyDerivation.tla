---------------------------- MODULE KeyDerivation ----------------------------
(***************************************************************************)
(* The key-derivation regression case XTEST_TEE_10001 of                   *)
(* src/host/xtest/xtest_10000.c.  The host opens one session to the crypt  *)
(* TA and runs the HKDF, Concat KDF, PBKDF2 and (with CFG_CRYPTO_SCRYPT)   *)
(* scrypt loops one after the other.  Every iteration is one subcase that  *)
(* drives the TA through the same eleven blocking calls; any call that     *)
(* does not return success, and a mismatching derived key, marks the       *)
(* subcase failed and jumps to the "out:" label, which only ends the       *)
(* subcase.  Closing the session at the end releases whatever the TA       *)
(* still holds.                                                            *)
(*                                                                         *)
(* The four loops have the same control flow; they differ in the catalog  *)
(* they iterate over and in the attribute lists they build, so the model   *)
(* runs one loop over the concatenated catalog Cases and dispatches the    *)
(* attribute encoding on the family of the case.  Handles the TA returns   *)
(* are named <<i, kind>>: the operation, key object or output object of    *)
(* subcase i.  A call that fails does not change the TA's handle table.    *)
(***************************************************************************)
EXTENDS Naturals, Sequences, FiniteSets

CONSTANTS
    Cases,        \* the catalog: the subcases of the four loops, in run order
    MaxFailures   \* bound on the failing calls and mismatches in one run

Families == {"HKDF", "CONCAT_KDF", "PBKDF2", "SCRYPT"}
Buffer   == [len : Nat, ptr : BOOLEAN]

\* A case of one of the four tables: the family, the vector number, the
\* length of the primary secret, the two optional buffers (their length and
\* whether the pointer passed is non-NULL), the cost parameters and the
\* output length.  A family reads only its own optional buffers (OptsOf)
\* and its own cost parameters (PBKDF2: iterations; scrypt: N, r, p).
CostLen(f) == CASE f = "PBKDF2" -> 1 [] f = "SCRYPT" -> 3 [] OTHER -> 0

Case == {c \in [fam : Families, vec : Nat, secret : Nat, salt : Buffer,
                info : Buffer, cost : Seq(Nat), out : Nat] :
            Len(c.cost) = CostLen(c.fam)}

OptsOf(f) ==
    CASE f = "HKDF"       -> {"salt", "info"}
      [] f = "CONCAT_KDF" -> {"info"}
      [] f \in {"PBKDF2", "SCRYPT"} -> {"salt"}

ASSUME CasesAssumption == Cases \in Seq(Case)
ASSUME MaxFailuresAssumption == MaxFailures \in Nat

-----------------------------------------------------------------------------
(* AttributeEncoder: the lists built with xtest_add_attr and by hand.     *)

Attr(id, v) == <<[id |-> id, val |-> v]>>

\* An optional buffer is added only when the case's pointer is non-NULL.
OptAttr(c, o, id) == IF c[o].ptr THEN Attr(id, c[o].len) ELSE <<>>

HkdfKeyAttrs(c)     == Attr("HKDF_IKM", c.secret)
HkdfDeriveParams(c) ==
    OptAttr(c, "salt", "HKDF_SALT") \o OptAttr(c, "info", "HKDF_INFO")
        \o Attr("HKDF_OKM_LENGTH", c.out)

ConcatKeyAttrs(c)     == Attr("CONCAT_KDF_Z", c.secret)
ConcatDeriveParams(c) ==
    OptAttr(c, "info", "CONCAT_KDF_OTHER_INFO")
        \o Attr("CONCAT_KDF_DKM_LENGTH", c.out)

Pbkdf2KeyAttrs(c)     == Attr("PBKDF2_PASSWORD", c.secret)
Pbkdf2DeriveParams(c) ==
    OptAttr(c, "salt", "PBKDF2_SALT") \o Attr("PBKDF2_DKM_LENGTH", c.out)
        \o Attr("PBKDF2_ITERATION_COUNT", c.cost[1])

\* scrypt puts N, r and p into the key object, not into the derive list.
ScryptKeyAttrs(c) ==
    Attr("SCRYPT_PASSWORD", c.secret) \o Attr("SCRYPT_N", c.cost[1])
        \o Attr("SCRYPT_R", c.cost[2]) \o Attr("SCRYPT_P", c.cost[3])
ScryptDeriveParams(c) ==
    OptAttr(c, "salt", "SCRYPT_SALT") \o Attr("SCRYPT_DK_LENGTH", c.out)

KeyAttrs(c) ==
    CASE c.fam = "HKDF"       -> HkdfKeyAttrs(c)
      [] c.fam = "CONCAT_KDF" -> ConcatKeyAttrs(c)
      [] c.fam = "PBKDF2"     -> Pbkdf2KeyAttrs(c)
      [] c.fam = "SCRYPT"     -> ScryptKeyAttrs(c)

DeriveParams(c) ==
    CASE c.fam = "HKDF"       -> HkdfDeriveParams(c)
      [] c.fam = "CONCAT_KDF" -> ConcatDeriveParams(c)
      [] c.fam = "PBKDF2"     -> Pbkdf2DeriveParams(c)
      [] c.fam = "SCRYPT"     -> ScryptDeriveParams(c)

\* Size of the TEE_Attribute array of the loop: params[4], or attrs[6].
Capacity(f) == IF f = "SCRYPT" THEN 6 ELSE 4

\* The attribute carrying the requested output length, per family.
LengthAttr(f) ==
    CASE f = "HKDF"       -> "HKDF_OKM_LENGTH"
      [] f = "CONCAT_KDF" -> "CONCAT_KDF_DKM_LENGTH"
      [] f = "PBKDF2"     -> "PBKDF2_DKM_LENGTH"
      [] f = "SCRYPT"     -> "SCRYPT_DK_LENGTH"

KeyAttrIds == {"HKDF_IKM", "CONCAT_KDF_Z", "PBKDF2_PASSWORD",
               "SCRYPT_PASSWORD", "SCRYPT_N", "SCRYPT_R", "SCRYPT_P"}

-----------------------------------------------------------------------------
(* KeyDerivationDriver: the body of one loop iteration.                    *)

\* The calls of one iteration; each is followed, on success, by Succ of it.
Steps == {"alloc_op", "alloc_key", "populate", "set_key", "free_key",
          "alloc_sv", "derive", "get_attr", "compare", "free_op", "free_sv"}

\* Slip: the key object is freed before it is bound to the operation.
SuccFreeKeyFirst ==
    [alloc_op |-> "alloc_key", alloc_key |-> "populate",
     populate |-> "free_key",  free_key  |-> "set_key",
     set_key  |-> "alloc_sv",  alloc_sv  |-> "derive",
     derive   |-> "get_attr",  get_attr  |-> "compare",
     compare  |-> "free_op",   free_op   |-> "free_sv",
     free_sv  |-> "end"]

Succ == [alloc_op |-> "alloc_key", alloc_key |-> "populate",
         populate |-> "set_key",   set_key   |-> "free_key",
         free_key |-> "alloc_sv",  alloc_sv  |-> "derive",
         derive   |-> "get_attr",  get_attr  |-> "compare",
         compare  |-> "free_op",   free_op   |-> "free_sv",
         free_sv  |-> "end"]

Kinds   == {"op", "key", "sv"}
Results == {"pending", "running", "pass", "fail"}
PCs     == Steps \cup {"open", "begin", "end", "close", "done", "aborted"}

VARIABLES
    pc,       \* where the host is in xtest_tee_test_10001
    n,        \* the loop index: the current subcase
    live,     \* the handles the TA holds for this session
    result,   \* the ADBG outcome of every subcase
    params,   \* the attribute list passed by the latest populate or derive
    svBits,   \* the size requested for the latest output object, in bits
    fails     \* failing calls and mismatches so far (bounded by MaxFailures)

vars == <<pc, n, live, result, params, svBits, fails>>

N == Len(Cases)
Handles == (1..N) \X Kinds
AttrIds == KeyAttrIds \cup
           {"HKDF_SALT", "HKDF_INFO", "HKDF_OKM_LENGTH",
            "CONCAT_KDF_OTHER_INFO", "CONCAT_KDF_DKM_LENGTH",
            "PBKDF2_SALT", "PBKDF2_DKM_LENGTH", "PBKDF2_ITERATION_COUNT",
            "SCRYPT_SALT", "SCRYPT_DK_LENGTH"}

Init ==
    /\ pc = "open"
    /\ n = 1
    /\ live = {}
    /\ result = [i \in 1..N |-> "pending"]
    /\ params = <<>>
    /\ svBits = 0
    /\ fails = 0

\* xtest_teec_open_session: on failure the test case returns at once.
OpenSession ==
    /\ pc = "open"
    /\ pc' \in {"begin", "aborted"}
    /\ UNCHANGED <<n, live, result, params, svBits, fails>>

\* Slip: the loop bound written "n <= count".
BeginSubCaseOffByOne ==
    /\ pc = "begin"
    /\ n <= N + 1
    /\ pc' = "alloc_op"
    /\ result' = [result EXCEPT ![n] = "running"]
    /\ params' = <<>>
    /\ UNCHANGED <<n, live, svBits, fails>>

\* Do_ADBG_BeginSubCase at the top of the loop body; param_count = 0.
BeginSubCase ==
    /\ pc = "begin"
    /\ n <= N
    /\ pc' = "alloc_op"
    /\ result' = [result EXCEPT ![n] = "running"]
    /\ params' = <<>>
    /\ UNCHANGED <<n, live, svBits, fails>>

\* Slip: the loop condition written "n < count - 1" (last case skipped).
LoopsDoneEarly ==
    /\ pc = "begin"
    /\ n >= N
    /\ pc' = "close"
    /\ UNCHANGED <<n, live, result, params, svBits, fails>>

\* The loop condition fails after the last case of the last family.
LoopsDone ==
    /\ pc = "begin"
    /\ n > N
    /\ pc' = "close"
    /\ UNCHANGED <<n, live, result, params, svBits, fails>>

\* Slip: "return" instead of "goto out" on a failed expectation.
FailReturn ==
    /\ fails < MaxFailures
    /\ fails' = fails + 1
    /\ result' = [result EXCEPT ![n] = "fail"]
    /\ pc' = "close"

\* A call returns non-success, or ADBG_EXPECT_BUFFER sees a mismatch: the
\* ADBG_EXPECT records the failure and the code does "goto out".
Fail ==
    /\ fails < MaxFailures
    /\ fails' = fails + 1
    /\ result' = [result EXCEPT ![n] = "fail"]
    /\ pc' = "end"

\* The call succeeds and the body goes on with the next call.
Advance ==
    /\ pc' = Succ[pc]
    /\ UNCHANGED <<result, fails>>

\* ta_crypt_cmd_allocate_operation(algo, TEE_MODE_DERIVE, max_size)
AllocOp ==
    /\ pc = "alloc_op"
    /\ \/ live' = live \cup {<<n, "op">>} /\ Advance
       \/ Fail /\ UNCHANGED live
    /\ UNCHANGED <<n, params, svBits>>

\* ta_crypt_cmd_allocate_transient_object(<family key type>, max_size)
AllocKey ==
    /\ pc = "alloc_key"
    /\ \/ live' = live \cup {<<n, "key">>} /\ Advance
       \/ Fail /\ UNCHANGED live
    /\ UNCHANGED <<n, params, svBits>>

\* xtest_add_attr(s) of the secret, then ta_crypt_cmd_populate_transient_object
PopulateKey ==
    /\ pc = "populate"
    /\ params' = KeyAttrs(Cases[n])
    /\ Advance \/ Fail
    /\ UNCHANGED <<n, live, svBits>>

\* ta_crypt_cmd_set_operation_key(op, key_handle)
SetKey ==
    /\ pc = "set_key"
    /\ Advance \/ Fail
    /\ UNCHANGED <<n, live, params, svBits>>

\* Slip: the key object is never freed after the bind.
FreeKeyMissing ==
    /\ pc = "free_key"
    /\ Advance
    /\ UNCHANGED <<n, live, params, svBits>>

\* ta_crypt_cmd_free_transient_object(key_handle)
FreeKey ==
    /\ pc = "free_key"
    /\ \/ live' = live \ {<<n, "key">>} /\ Advance
       \/ Fail /\ UNCHANGED live
    /\ UNCHANGED <<n, params, svBits>>

\* Slip: the output object allocated with the length in bytes, not bits.
AllocSvBytes ==
    /\ pc = "alloc_sv"
    /\ \/ /\ live' = live \cup {<<n, "sv">>}
          /\ svBits' = Cases[n].out
          /\ Advance
       \/ Fail /\ UNCHANGED <<live, svBits>>
    /\ UNCHANGED <<n, params>>

\* ta_crypt_cmd_allocate_transient_object(TEE_TYPE_GENERIC_SECRET, len * 8)
AllocSv ==
    /\ pc = "alloc_sv"
    /\ \/ /\ live' = live \cup {<<n, "sv">>}
          /\ svBits' = Cases[n].out * 8
          /\ Advance
       \/ Fail /\ UNCHANGED <<live, svBits>>
    /\ UNCHANGED <<n, params>>

\* Slip: "param_count = 0" left out before the derive list is built.
DeriveKeyNoReset ==
    /\ pc = "derive"
    /\ params' = params \o DeriveParams(Cases[n])
    /\ Advance \/ Fail
    /\ UNCHANGED <<n, live, svBits>>

\* param_count = 0, the derive list, then ta_crypt_cmd_derive_key(op, sv)
DeriveKey ==
    /\ pc = "derive"
    /\ params' = DeriveParams(Cases[n])
    /\ Advance \/ Fail
    /\ UNCHANGED <<n, live, svBits>>

\* ta_crypt_cmd_get_object_buffer_attribute(sv, TEE_ATTR_SECRET_VALUE)
GetSecret ==
    /\ pc = "get_attr"
    /\ Advance \/ Fail
    /\ UNCHANGED <<n, live, params, svBits>>

\* ADBG_EXPECT_BUFFER(expected, expected_len, out, out_size)
CompareKey ==
    /\ pc = "compare"
    /\ Advance \/ Fail
    /\ UNCHANGED <<n, live, params, svBits>>

\* ta_crypt_cmd_free_operation(op)
FreeOp ==
    /\ pc = "free_op"
    /\ \/ live' = live \ {<<n, "op">>} /\ Advance
       \/ Fail /\ UNCHANGED live
    /\ UNCHANGED <<n, params, svBits>>

\* Slip: the final free of the output object left out.
FreeSvMissing ==
    /\ pc = "free_sv"
    /\ Advance
    /\ UNCHANGED <<n, live, params, svBits>>

\* ta_crypt_cmd_free_transient_object(sv_handle)
FreeSv ==
    /\ pc = "free_sv"
    /\ \/ live' = live \ {<<n, "sv">>} /\ Advance
       \/ Fail /\ UNCHANGED live
    /\ UNCHANGED <<n, params, svBits>>

\* Slip: the loop increment left out.
EndSubCaseNoIncrement ==
    /\ pc = "end"
    /\ result' = [result EXCEPT ![n] = IF @ = "running" THEN "pass" ELSE @]
    /\ pc' = "begin"
    /\ UNCHANGED <<n, live, params, svBits, fails>>

\* out: Do_ADBG_EndSubCase, then n++.  A subcase with no failed expectation
\* passes.
EndSubCase ==
    /\ pc = "end"
    /\ result' = [result EXCEPT ![n] = IF @ = "running" THEN "pass" ELSE @]
    /\ n' = n + 1
    /\ pc' = "begin"
    /\ UNCHANGED <<live, params, svBits, fails>>

\* TEEC_CloseSession: the TA releases every handle of the session.
CloseSession ==
    /\ pc = "close"
    /\ pc' = "done"
    /\ live' = {}
    /\ UNCHANGED <<n, result, params, svBits, fails>>

\* The test case has returned.
Terminated ==
    /\ pc \in {"done", "aborted"}
    /\ UNCHANGED vars

Next ==
    \/ OpenSession \/ BeginSubCase \/ LoopsDone
    \/ AllocOp \/ AllocKey \/ PopulateKey \/ SetKey \/ FreeKey
    \/ AllocSv \/ DeriveKey \/ GetSecret \/ CompareKey \/ FreeOp \/ FreeSv
    \/ EndSubCase \/ CloseSession \/ Terminated

\* Every call is blocking and returns; the host is one thread that never
\* waits on anything else, so it is weakly fair.
Spec == Init /\ [][Next]_vars /\ WF_vars(Next)

-----------------------------------------------------------------------------
(* Properties.                                                             *)

TypeOK ==
    /\ pc \in PCs
    /\ n \in 1..N + 1
    /\ live \subseteq Handles
    /\ result \in [1..N -> Results]
    /\ params \in Seq([id : AttrIds, val : Nat])
    /\ svBits \in Nat
    /\ fails \in 0..MaxFailures

\* The handles each call passes to the TA.
Uses == [alloc_op |-> {}, alloc_key |-> {}, populate |-> {"key"},
         set_key |-> {"op", "key"}, free_key |-> {"key"}, alloc_sv |-> {},
         derive |-> {"op", "sv"}, get_attr |-> {"sv"}, compare |-> {},
         free_op |-> {"op"}, free_sv |-> {"sv"}]

\* No use after free and no double free: whenever the loop body is about to
\* make a call, every handle it passes is one the TA still holds.  In
\* particular the key object is bound to the operation before it is freed.
NextCallHandlesLive ==
    pc \in Steps => \A k \in Uses[pc] : <<n, k>> \in live

\* Handles leak only from failed subcases: a handle of a subcase that has
\* ended is still held only if that subcase was reported failed (every
\* "goto out" skips the frees that follow it, the success path frees all).
LeakOnlyOnFailure ==
    \A h \in live : h[1] < n => result[h[1]] = "fail"

\* The derive request is consistent: the list fits the TEE_Attribute array,
\* carries none of the key object's attributes (param_count was reset), and
\* its length attribute asks for the expected output length, which is also
\* the size the output object was allocated with.
DeriveRequestConsistent ==
    pc \in {"get_attr", "compare", "free_op", "free_sv"} =>
        LET f == Cases[n].fam IN
        /\ Len(params) <= Capacity(f)
        /\ \A k \in 1..Len(params) : params[k].id \notin KeyAttrIds
        /\ \E k \in 1..Len(params) :
               /\ params[k].id = LengthAttr(f)
               /\ params[k].val = Cases[n].out
               /\ params[k].val * 8 = svBits

\* Per-vector isolation: once the session was opened, the test case ends
\* only after every subcase of every family has been run and reported.
EveryVectorReported ==
    pc = "done" => \A i \in 1..N : result[i] \in {"pass", "fail"}

\* The test case always returns.
Termination == <>(pc \in {"done", "aborted"})

\* The handles of the running subcase the TA holds before each call.
Held == [alloc_op |-> {}, alloc_key |-> {"op"}, populate |-> {"op", "key"},
         set_key |-> {"op", "key"}, free_key |-> {"op", "key"},
         alloc_sv |-> {"op"}, derive |-> {"op", "sv"},
         get_attr |-> {"op", "sv"}, compare |-> {"op", "sv"},
         free_op |-> {"op", "sv"}, free_sv |-> {"sv"}]

\* Inductive strengthening of LeakOnlyOnFailure and NextCallHandlesLive:
\* no handle belongs to a later subcase, outside the loop body no handle
\* belongs to the current one, inside it the TA holds exactly the handles
\* the body has allocated and not yet freed, and a subcase that reaches
\* "out:" unfailed holds nothing.
IInv ==
    /\ TypeOK
    /\ \A h \in live : h[1] <= n
    /\ pc \in {"open", "begin", "close", "done", "aborted"} =>
           \A h \in live : h[1] < n
    /\ pc \in Steps =>
           /\ n <= N
           /\ result[n] = "running"
           /\ \A k \in Kinds : <<n, k>> \in live <=> k \in Held[pc]
    /\ pc = "end" =>
           /\ n <= N
           /\ result[n] \in {"running", "fail"}
           /\ result[n] = "running" => \A k \in Kinds : <<n, k>> \notin live
    /\ LeakOnlyOnFailure

\* Inductive strengthening of EveryVectorReported and DeriveRequestConsistent:
\* the subcases before n have been reported, the loops end only past the
\* last case, from the output object's allocation on svBits is the size
\* asked for the current case, and from the derive call on params is
\* exactly that case's derive list (param_count was reset before it).
ProgressInv ==
    /\ \A i \in 1..N : i < n => result[i] \in {"pass", "fail"}
    /\ pc \in {"close", "done"} => n = N + 1
    /\ pc \in {"derive", "get_attr", "compare", "free_op", "free_sv"} =>
           svBits = Cases[n].out * 8
    /\ pc \in {"get_attr", "compare", "free_op", "free_sv"} =>
           params = DeriveParams(Cases[n])

-----------------------------------------------------------------------------
(* Refinement: the driver implements SubcaseRunner.  Inside the loop body  *)
(* the subcase is "running" whatever its calls have recorded so far; its  *)
(* verdict and the handles it leaves become visible at EndSubCase.         *)

Stage ==
    CASE pc = "open"                 -> "open"
      [] pc = "begin"                -> "idle"
      [] pc \in Steps \cup {"end"}   -> "running"
      [] pc = "close"                -> "closing"
      [] pc \in {"done", "aborted"}  -> pc

Outcome ==
    IF pc \in Steps \cup {"end"} THEN [result EXCEPT ![n] = "running"]
                                 ELSE result

Leaked == {h \in live : h[1] < n}

Subcases == INSTANCE SubcaseRunner
    WITH Resources <- Kinds, stage <- Stage, cur <- n, outcome <- Outcome,
         leaked <- Leaked

\* The four derivation loops behave as spec.md 4.3's subcase runner: the
\* vectors run in catalog order one at a time, each ends pass or fail,
\* only a failed one leaves handles behind, and the case ends with the
\* session closed and everything released.
ImplementsSubcaseRunner == Subcases!Spec

\* spec.md section 3: every handle allocated during a vector's run is freed
\* on every exit path (success, mismatch or protocol failure).
NoLeakAtSubcaseEnd ==
    \A h \in live : h[1] >= n

\* spec.md section 4.1: a vector whose optional buffer is zero-length runs
\* twice, once with the buffer present but empty, once with it absent.
OptionalVariantsExercised ==
    pc = "done" =>
        \A i \in 1..N : \A o \in OptsOf(Cases[i].fam) :
            Cases[i][o].len = 0 =>
                \E j \in 1..N :
                    /\ Cases[j].fam = Cases[i].fam
                    /\ Cases[j].vec = Cases[i].vec
                    /\ Cases[j][o].ptr # Cases[i][o].ptr
                    /\ result[j] # "pending"
=============================================================================
