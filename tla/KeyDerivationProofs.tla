------------------------- MODULE KeyDerivationProofs -------------------------
(***************************************************************************)
(* Proofs about KeyDerivation, for every catalog Cases and every failure  *)
(* bound MaxFailures: the type invariant, that the host only ever passes  *)
(* live handles to the TA, and that handles stay behind only after a      *)
(* failed subcase.  All three follow from the inductive invariant IInv.   *)
(***************************************************************************)
EXTENDS KeyDerivation, SequenceTheorems, TLAPS

AttrRec == [id : AttrIds, val : Nat]

\* The one-element list built by xtest_add_attr is a well-typed list.
LEMMA AttrType ==
    ASSUME NEW id \in AttrIds, NEW v \in Nat
    PROVE  Attr(id, v) \in Seq(AttrRec)
BY DEF Attr, AttrRec

\* An optional buffer contributes an empty or a one-element list.
LEMMA OptAttrType ==
    ASSUME NEW c \in Case, NEW o \in {"salt", "info"}, NEW id \in AttrIds
    PROVE  OptAttr(c, o, id) \in Seq(AttrRec)
<1>1. c[o] \in Buffer
  BY DEF Case
<1>2. c[o].len \in Nat
  BY <1>1 DEF Buffer
<1>. QED
  BY <1>2, AttrType DEF OptAttr

\* Concatenating well-typed lists gives a well-typed list.
LEMMA ConcatType ==
    ASSUME NEW s \in Seq(AttrRec), NEW t \in Seq(AttrRec)
    PROVE  s \o t \in Seq(AttrRec)
BY ConcatProperties

\* Both lists the encoder builds for a case are well typed.
LEMMA EncoderType ==
    ASSUME NEW c \in Case
    PROVE  /\ KeyAttrs(c) \in Seq(AttrRec)
           /\ DeriveParams(c) \in Seq(AttrRec)
<1>1. /\ c.fam \in Families
      /\ c.secret \in Nat
      /\ c.out \in Nat
      /\ c.cost \in Seq(Nat)
      /\ Len(c.cost) = CostLen(c.fam)
  BY DEF Case
<1>2. CASE c.fam = "HKDF"
  <2>1. KeyAttrs(c) = HkdfKeyAttrs(c) /\ DeriveParams(c) = HkdfDeriveParams(c)
    BY <1>2 DEF KeyAttrs, DeriveParams
  <2>2. /\ Attr("HKDF_IKM", c.secret) \in Seq(AttrRec)
        /\ OptAttr(c, "salt", "HKDF_SALT") \in Seq(AttrRec)
        /\ OptAttr(c, "info", "HKDF_INFO") \in Seq(AttrRec)
        /\ Attr("HKDF_OKM_LENGTH", c.out) \in Seq(AttrRec)
    BY <1>1, AttrType, OptAttrType DEF AttrIds, KeyAttrIds
  <2>. QED
    BY <2>1, <2>2, ConcatType DEF HkdfKeyAttrs, HkdfDeriveParams
<1>3. CASE c.fam = "CONCAT_KDF"
  <2>1. KeyAttrs(c) = ConcatKeyAttrs(c) /\ DeriveParams(c) = ConcatDeriveParams(c)
    BY <1>3 DEF KeyAttrs, DeriveParams
  <2>2. /\ Attr("CONCAT_KDF_Z", c.secret) \in Seq(AttrRec)
        /\ OptAttr(c, "info", "CONCAT_KDF_OTHER_INFO") \in Seq(AttrRec)
        /\ Attr("CONCAT_KDF_DKM_LENGTH", c.out) \in Seq(AttrRec)
    BY <1>1, AttrType, OptAttrType DEF AttrIds, KeyAttrIds
  <2>. QED
    BY <2>1, <2>2, ConcatType DEF ConcatKeyAttrs, ConcatDeriveParams
<1>4. CASE c.fam = "PBKDF2"
  <2>1. KeyAttrs(c) = Pbkdf2KeyAttrs(c) /\ DeriveParams(c) = Pbkdf2DeriveParams(c)
    BY <1>4 DEF KeyAttrs, DeriveParams
  <2>2. c.cost[1] \in Nat
    BY <1>1, <1>4 DEF CostLen
  <2>3. /\ Attr("PBKDF2_PASSWORD", c.secret) \in Seq(AttrRec)
        /\ OptAttr(c, "salt", "PBKDF2_SALT") \in Seq(AttrRec)
        /\ Attr("PBKDF2_DKM_LENGTH", c.out) \in Seq(AttrRec)
        /\ Attr("PBKDF2_ITERATION_COUNT", c.cost[1]) \in Seq(AttrRec)
    BY <1>1, <2>2, AttrType, OptAttrType DEF AttrIds, KeyAttrIds
  <2>. QED
    BY <2>1, <2>3, ConcatType DEF Pbkdf2KeyAttrs, Pbkdf2DeriveParams
<1>5. CASE c.fam = "SCRYPT"
  <2>1. KeyAttrs(c) = ScryptKeyAttrs(c) /\ DeriveParams(c) = ScryptDeriveParams(c)
    BY <1>5 DEF KeyAttrs, DeriveParams
  <2>2. c.cost[1] \in Nat /\ c.cost[2] \in Nat /\ c.cost[3] \in Nat
    BY <1>1, <1>5 DEF CostLen
  <2>3. /\ Attr("SCRYPT_PASSWORD", c.secret) \in Seq(AttrRec)
        /\ Attr("SCRYPT_N", c.cost[1]) \in Seq(AttrRec)
        /\ Attr("SCRYPT_R", c.cost[2]) \in Seq(AttrRec)
        /\ Attr("SCRYPT_P", c.cost[3]) \in Seq(AttrRec)
        /\ OptAttr(c, "salt", "SCRYPT_SALT") \in Seq(AttrRec)
        /\ Attr("SCRYPT_DK_LENGTH", c.out) \in Seq(AttrRec)
    BY <1>1, <2>2, AttrType, OptAttrType DEF AttrIds, KeyAttrIds
  <2>. QED
    BY <2>1, <2>3, ConcatType DEF ScryptKeyAttrs, ScryptDeriveParams
<1>. QED
  BY <1>1, <1>2, <1>3, <1>4, <1>5 DEF Families

-----------------------------------------------------------------------------

\* The catalog is a finite sequence of cases.
LEMMA CasesType ==
    /\ N \in Nat
    /\ \A i \in 1..N : Cases[i] \in Case
BY CasesAssumption, LenProperties DEF N

LEMMA InitIInv == Init => IInv
<1> SUFFICES ASSUME Init PROVE IInv
  OBVIOUS
<1>1. params \in Seq(AttrRec)
  <2>1. << >> \in Seq(AttrRec)
    BY EmptySeq
  <2>. QED
    BY <2>1 DEF Init
<1>2. pc \in PCs
  BY DEF Init, PCs
<1>3. n \in 1..N + 1 /\ result \in [1..N -> Results]
  BY CasesType DEF Init, Results
<1>4. live \subseteq Handles /\ svBits \in Nat /\ fails \in 0..MaxFailures
  BY MaxFailuresAssumption DEF Init
<1>5. TypeOK
  BY <1>1, <1>2, <1>3, <1>4 DEF TypeOK, AttrRec
<1>. QED
  BY <1>5 DEF Init, IInv, LeakOnlyOnFailure, Steps

-----------------------------------------------------------------------------
(* The loop body.                                                          *)

\* Every call of the body is followed by a call of the body or by "out:".
LEMMA SuccRange == \A s \in Steps : Succ[s] \in Steps \cup {"end"}
BY DEF Steps, Succ

\* The failure branch of any call ("goto out") keeps IInv.
LEMMA FailStep ==
    ASSUME IInv, pc \in Steps, Fail,
           n' = n, live' = live, svBits' = svBits, params' \in Seq(AttrRec)
    PROVE  IInv'
<1>1. n \in 1..N /\ result[n] = "running"
  BY DEF IInv, TypeOK
<1>2. TypeOK'
  BY <1>1, MaxFailuresAssumption DEF Fail, IInv, TypeOK, PCs, Results, AttrRec
<1>3. LeakOnlyOnFailure'
  BY <1>1 DEF Fail, IInv, TypeOK, LeakOnlyOnFailure
<1>4. pc' = "end" /\ result'[n] = "fail"
  BY <1>1 DEF Fail, IInv, TypeOK
<1>5. pc' \notin Steps \cup {"open", "begin", "close", "done", "aborted"}
  BY <1>4 DEF Steps
<1>6. \A h \in live' : h[1] <= n
  BY DEF IInv
<1>. QED
  BY <1>1, <1>2, <1>3, <1>4, <1>5, <1>6 DEF IInv

\* The success branch of a call keeps IInv, provided it changes only the
\* handles of the current subcase and leaves the TA holding exactly the
\* handles the next call expects.
LEMMA AdvanceStep ==
    ASSUME IInv, pc \in Steps, Advance,
           n' = n, svBits' \in Nat, params' \in Seq(AttrRec),
           live' \subseteq Handles,
           \A h \in live' : h[1] # n => h \in live,
           Succ[pc] \in Steps =>
               \A k \in Kinds : <<n, k>> \in live' <=> k \in Held[Succ[pc]],
           Succ[pc] = "end" => \A k \in Kinds : <<n, k>> \notin live'
    PROVE  IInv'
<1>1. n \in 1..N /\ result[n] = "running"
  BY DEF IInv, TypeOK
<1>2. pc' \in Steps \cup {"end"}
  BY SuccRange DEF Advance
<1>3. TypeOK'
  BY <1>1, <1>2 DEF Advance, IInv, TypeOK, PCs, AttrRec
<1>4. \A h \in live' : h[1] <= n
  <2>. TAKE h \in live'
  <2>1. CASE h[1] = n
    BY <1>1, <2>1
  <2>2. CASE h[1] # n
    BY <2>2 DEF IInv
  <2>. QED
    BY <2>1, <2>2
<1>5. LeakOnlyOnFailure'
  BY <1>1 DEF Advance, IInv, LeakOnlyOnFailure
<1>6. pc' \in Steps =>
        \A k \in Kinds : <<n, k>> \in live' <=> k \in Held[pc']
  BY DEF Advance
<1>7. pc' = "end" =>
        /\ result'[n] \in {"running", "fail"}
        /\ result'[n] = "running" => \A k \in Kinds : <<n, k>> \notin live'
  BY <1>1 DEF Advance
<1>8. pc' \in Steps => result'[n] = "running"
  BY <1>1 DEF Advance
<1>9. pc' \notin {"open", "begin", "close", "done", "aborted"}
  BY <1>2 DEF Steps
<1>. QED
  BY <1>1, <1>3, <1>4, <1>5, <1>6, <1>7, <1>8, <1>9 DEF IInv

-----------------------------------------------------------------------------
(* One step of Next keeps IInv: one case per action.                      *)

LEMMA NextIInv == IInv /\ [Next]_vars => IInv'
<1> SUFFICES ASSUME IInv, [Next]_vars PROVE IInv'
  OBVIOUS
<1>0. /\ TypeOK
      /\ N \in Nat
      /\ \A i \in 1..N : Cases[i] \in Case
  BY CasesType DEF IInv
<1>1. CASE OpenSession
  BY <1>1 DEF OpenSession, IInv, TypeOK, PCs, Steps, LeakOnlyOnFailure
<1>2. CASE BeginSubCase
  <2>1. n \in 1..N /\ \A h \in live : h[1] < n
    BY <1>2 DEF BeginSubCase, IInv, TypeOK
  <2>2. << >> \in Seq(AttrRec)
    BY EmptySeq
  <2>3. TypeOK'
    BY <1>0, <1>2, <2>1, <2>2 DEF BeginSubCase, TypeOK, PCs, Steps, Results, AttrRec
  <2>4. \A k \in Kinds : <<n, k>> \notin live'
    BY <1>2, <2>1 DEF BeginSubCase
  <2>5. LeakOnlyOnFailure'
    BY <1>0, <1>2, <2>1 DEF BeginSubCase, IInv, TypeOK, LeakOnlyOnFailure
  <2>. QED
    BY <1>0, <1>2, <2>1, <2>3, <2>4, <2>5 DEF BeginSubCase, IInv, TypeOK, Steps, Held
<1>3. CASE LoopsDone
  BY <1>3 DEF LoopsDone, IInv, TypeOK, PCs, Steps, LeakOnlyOnFailure
<1>4. CASE AllocOp
  <2>1. n \in 1..N /\ pc = "alloc_op" /\ result[n] = "running"
    BY <1>4 DEF AllocOp, IInv, TypeOK, Steps
  <2>2. \A k \in Kinds : <<n, k>> \in live <=> k \in {}
    BY <2>1 DEF IInv, Steps, Held
  <2>3. params' \in Seq(AttrRec)
    BY <1>0, <1>4 DEF AllocOp, TypeOK, AttrRec
  <2>4. CASE live' = live \cup {<<n, "op">>} /\ Advance
    <3>1. Succ[pc] = "alloc_key" /\ Held["alloc_key"] = {"op"}
      BY <2>1 DEF Succ, Held
    <3>2. n' = n /\ live' = live \cup {<<n, "op">>}
      BY <1>4, <2>4 DEF AllocOp
    <3>3. svBits' \in Nat
      BY <1>0, <1>4 DEF AllocOp, TypeOK
    <3>4. \A k \in Kinds : <<n, k>> \in live' <=> k \in {"op"}
      BY <2>2, <3>2 DEF Kinds
    <3>5. live' \subseteq Handles /\ \A h \in live' : h[1] # n => h \in live
      BY <1>0, <2>1, <3>2 DEF TypeOK, Handles, Kinds
    <3>. QED
      BY <2>1, <2>3, <2>4, <3>1, <3>2, <3>3, <3>4, <3>5, AdvanceStep DEF Steps
  <2>5. CASE Fail /\ UNCHANGED live
    BY <1>4, <2>1, <2>3, <2>5, FailStep DEF AllocOp, Steps
  <2>. QED
    BY <1>4, <2>4, <2>5 DEF AllocOp
<1>5. CASE AllocKey
  <2>1. n \in 1..N /\ pc = "alloc_key" /\ result[n] = "running"
    BY <1>5 DEF AllocKey, IInv, TypeOK, Steps
  <2>2. \A k \in Kinds : <<n, k>> \in live <=> k \in {"op"}
    BY <2>1 DEF IInv, Steps, Held
  <2>3. params' \in Seq(AttrRec)
    BY <1>0, <1>5 DEF AllocKey, TypeOK, AttrRec
  <2>4. CASE live' = live \cup {<<n, "key">>} /\ Advance
    <3>1. Succ[pc] = "populate" /\ Held["populate"] = {"op", "key"}
      BY <2>1 DEF Succ, Held
    <3>2. n' = n /\ live' = live \cup {<<n, "key">>}
      BY <1>5, <2>4 DEF AllocKey
    <3>3. svBits' \in Nat
      BY <1>0, <1>5 DEF AllocKey, TypeOK
    <3>4. \A k \in Kinds : <<n, k>> \in live' <=> k \in {"op", "key"}
      BY <2>2, <3>2 DEF Kinds
    <3>5. live' \subseteq Handles /\ \A h \in live' : h[1] # n => h \in live
      BY <1>0, <2>1, <3>2 DEF TypeOK, Handles, Kinds
    <3>. QED
      BY <2>1, <2>3, <2>4, <3>1, <3>2, <3>3, <3>4, <3>5, AdvanceStep DEF Steps
  <2>5. CASE Fail /\ UNCHANGED live
    BY <1>5, <2>1, <2>3, <2>5, FailStep DEF AllocKey, Steps
  <2>. QED
    BY <1>5, <2>4, <2>5 DEF AllocKey
<1>6. CASE PopulateKey
  <2>1. n \in 1..N /\ pc = "populate" /\ result[n] = "running"
    BY <1>6 DEF PopulateKey, IInv, TypeOK, Steps
  <2>2. \A k \in Kinds : <<n, k>> \in live <=> k \in {"op", "key"}
    BY <2>1 DEF IInv, Steps, Held
  <2>3. params' \in Seq(AttrRec)
    BY <1>0, <1>6, <2>1, EncoderType DEF PopulateKey
  <2>4. CASE Advance
    <3>1. Succ[pc] = "set_key" /\ Held["set_key"] = {"op", "key"}
      BY <2>1 DEF Succ, Held
    <3>2. n' = n /\ live' = live
      BY <1>6, <2>4 DEF PopulateKey
    <3>3. svBits' \in Nat
      BY <1>0, <1>6 DEF PopulateKey, TypeOK
    <3>4. \A k \in Kinds : <<n, k>> \in live' <=> k \in {"op", "key"}
      BY <2>2, <3>2 DEF Kinds
    <3>5. live' \subseteq Handles /\ \A h \in live' : h[1] # n => h \in live
      BY <1>0, <2>1, <3>2 DEF TypeOK, Handles, Kinds
    <3>. QED
      BY <2>1, <2>3, <2>4, <3>1, <3>2, <3>3, <3>4, <3>5, AdvanceStep DEF Steps
  <2>5. CASE Fail
    BY <1>6, <2>1, <2>3, <2>5, FailStep DEF PopulateKey, Steps
  <2>. QED
    BY <1>6, <2>4, <2>5 DEF PopulateKey
<1>7. CASE SetKey
  <2>1. n \in 1..N /\ pc = "set_key" /\ result[n] = "running"
    BY <1>7 DEF SetKey, IInv, TypeOK, Steps
  <2>2. \A k \in Kinds : <<n, k>> \in live <=> k \in {"op", "key"}
    BY <2>1 DEF IInv, Steps, Held
  <2>3. params' \in Seq(AttrRec)
    BY <1>0, <1>7 DEF SetKey, TypeOK, AttrRec
  <2>4. CASE Advance
    <3>1. Succ[pc] = "free_key" /\ Held["free_key"] = {"op", "key"}
      BY <2>1 DEF Succ, Held
    <3>2. n' = n /\ live' = live
      BY <1>7, <2>4 DEF SetKey
    <3>3. svBits' \in Nat
      BY <1>0, <1>7 DEF SetKey, TypeOK
    <3>4. \A k \in Kinds : <<n, k>> \in live' <=> k \in {"op", "key"}
      BY <2>2, <3>2 DEF Kinds
    <3>5. live' \subseteq Handles /\ \A h \in live' : h[1] # n => h \in live
      BY <1>0, <2>1, <3>2 DEF TypeOK, Handles, Kinds
    <3>. QED
      BY <2>1, <2>3, <2>4, <3>1, <3>2, <3>3, <3>4, <3>5, AdvanceStep DEF Steps
  <2>5. CASE Fail
    BY <1>7, <2>1, <2>3, <2>5, FailStep DEF SetKey, Steps
  <2>. QED
    BY <1>7, <2>4, <2>5 DEF SetKey
<1>8. CASE FreeKey
  <2>1. n \in 1..N /\ pc = "free_key" /\ result[n] = "running"
    BY <1>8 DEF FreeKey, IInv, TypeOK, Steps
  <2>2. \A k \in Kinds : <<n, k>> \in live <=> k \in {"op", "key"}
    BY <2>1 DEF IInv, Steps, Held
  <2>3. params' \in Seq(AttrRec)
    BY <1>0, <1>8 DEF FreeKey, TypeOK, AttrRec
  <2>4. CASE live' = live \ {<<n, "key">>} /\ Advance
    <3>1. Succ[pc] = "alloc_sv" /\ Held["alloc_sv"] = {"op"}
      BY <2>1 DEF Succ, Held
    <3>2. n' = n /\ live' = live \ {<<n, "key">>}
      BY <1>8, <2>4 DEF FreeKey
    <3>3. svBits' \in Nat
      BY <1>0, <1>8 DEF FreeKey, TypeOK
    <3>4. \A k \in Kinds : <<n, k>> \in live' <=> k \in {"op"}
      BY <2>2, <3>2 DEF Kinds
    <3>5. live' \subseteq Handles /\ \A h \in live' : h[1] # n => h \in live
      BY <1>0, <2>1, <3>2 DEF TypeOK, Handles, Kinds
    <3>. QED
      BY <2>1, <2>3, <2>4, <3>1, <3>2, <3>3, <3>4, <3>5, AdvanceStep DEF Steps
  <2>5. CASE Fail /\ UNCHANGED live
    BY <1>8, <2>1, <2>3, <2>5, FailStep DEF FreeKey, Steps
  <2>. QED
    BY <1>8, <2>4, <2>5 DEF FreeKey
<1>9. CASE AllocSv
  <2>1. n \in 1..N /\ pc = "alloc_sv" /\ result[n] = "running"
    BY <1>9 DEF AllocSv, IInv, TypeOK, Steps
  <2>2. \A k \in Kinds : <<n, k>> \in live <=> k \in {"op"}
    BY <2>1 DEF IInv, Steps, Held
  <2>3. params' \in Seq(AttrRec)
    BY <1>0, <1>9 DEF AllocSv, TypeOK, AttrRec
  <2>4. CASE live' = live \cup {<<n, "sv">>} /\ svBits' = Cases[n].out * 8 /\ Advance
    <3>1. Succ[pc] = "derive" /\ Held["derive"] = {"op", "sv"}
      BY <2>1 DEF Succ, Held
    <3>2. n' = n /\ live' = live \cup {<<n, "sv">>}
      BY <1>9, <2>4 DEF AllocSv
    <3>3. svBits' \in Nat
      BY <1>0, <2>1, <2>4 DEF Case
    <3>4. \A k \in Kinds : <<n, k>> \in live' <=> k \in {"op", "sv"}
      BY <2>2, <3>2 DEF Kinds
    <3>5. live' \subseteq Handles /\ \A h \in live' : h[1] # n => h \in live
      BY <1>0, <2>1, <3>2 DEF TypeOK, Handles, Kinds
    <3>. QED
      BY <2>1, <2>3, <2>4, <3>1, <3>2, <3>3, <3>4, <3>5, AdvanceStep DEF Steps
  <2>5. CASE Fail /\ UNCHANGED <<live, svBits>>
    BY <1>9, <2>1, <2>3, <2>5, FailStep DEF AllocSv, Steps
  <2>. QED
    BY <1>9, <2>4, <2>5 DEF AllocSv
<1>10. CASE DeriveKey
  <2>1. n \in 1..N /\ pc = "derive" /\ result[n] = "running"
    BY <1>10 DEF DeriveKey, IInv, TypeOK, Steps
  <2>2. \A k \in Kinds : <<n, k>> \in live <=> k \in {"op", "sv"}
    BY <2>1 DEF IInv, Steps, Held
  <2>3. params' \in Seq(AttrRec)
    BY <1>0, <1>10, <2>1, EncoderType DEF DeriveKey
  <2>4. CASE Advance
    <3>1. Succ[pc] = "get_attr" /\ Held["get_attr"] = {"op", "sv"}
      BY <2>1 DEF Succ, Held
    <3>2. n' = n /\ live' = live
      BY <1>10, <2>4 DEF DeriveKey
    <3>3. svBits' \in Nat
      BY <1>0, <1>10 DEF DeriveKey, TypeOK
    <3>4. \A k \in Kinds : <<n, k>> \in live' <=> k \in {"op", "sv"}
      BY <2>2, <3>2 DEF Kinds
    <3>5. live' \subseteq Handles /\ \A h \in live' : h[1] # n => h \in live
      BY <1>0, <2>1, <3>2 DEF TypeOK, Handles, Kinds
    <3>. QED
      BY <2>1, <2>3, <2>4, <3>1, <3>2, <3>3, <3>4, <3>5, AdvanceStep DEF Steps
  <2>5. CASE Fail
    BY <1>10, <2>1, <2>3, <2>5, FailStep DEF DeriveKey, Steps
  <2>. QED
    BY <1>10, <2>4, <2>5 DEF DeriveKey
<1>11. CASE GetSecret
  <2>1. n \in 1..N /\ pc = "get_attr" /\ result[n] = "running"
    BY <1>11 DEF GetSecret, IInv, TypeOK, Steps
  <2>2. \A k \in Kinds : <<n, k>> \in live <=> k \in {"op", "sv"}
    BY <2>1 DEF IInv, Steps, Held
  <2>3. params' \in Seq(AttrRec)
    BY <1>0, <1>11 DEF GetSecret, TypeOK, AttrRec
  <2>4. CASE Advance
    <3>1. Succ[pc] = "compare" /\ Held["compare"] = {"op", "sv"}
      BY <2>1 DEF Succ, Held
    <3>2. n' = n /\ live' = live
      BY <1>11, <2>4 DEF GetSecret
    <3>3. svBits' \in Nat
      BY <1>0, <1>11 DEF GetSecret, TypeOK
    <3>4. \A k \in Kinds : <<n, k>> \in live' <=> k \in {"op", "sv"}
      BY <2>2, <3>2 DEF Kinds
    <3>5. live' \subseteq Handles /\ \A h \in live' : h[1] # n => h \in live
      BY <1>0, <2>1, <3>2 DEF TypeOK, Handles, Kinds
    <3>. QED
      BY <2>1, <2>3, <2>4, <3>1, <3>2, <3>3, <3>4, <3>5, AdvanceStep DEF Steps
  <2>5. CASE Fail
    BY <1>11, <2>1, <2>3, <2>5, FailStep DEF GetSecret, Steps
  <2>. QED
    BY <1>11, <2>4, <2>5 DEF GetSecret
<1>12. CASE CompareKey
  <2>1. n \in 1..N /\ pc = "compare" /\ result[n] = "running"
    BY <1>12 DEF CompareKey, IInv, TypeOK, Steps
  <2>2. \A k \in Kinds : <<n, k>> \in live <=> k \in {"op", "sv"}
    BY <2>1 DEF IInv, Steps, Held
  <2>3. params' \in Seq(AttrRec)
    BY <1>0, <1>12 DEF CompareKey, TypeOK, AttrRec
  <2>4. CASE Advance
    <3>1. Succ[pc] = "free_op" /\ Held["free_op"] = {"op", "sv"}
      BY <2>1 DEF Succ, Held
    <3>2. n' = n /\ live' = live
      BY <1>12, <2>4 DEF CompareKey
    <3>3. svBits' \in Nat
      BY <1>0, <1>12 DEF CompareKey, TypeOK
    <3>4. \A k \in Kinds : <<n, k>> \in live' <=> k \in {"op", "sv"}
      BY <2>2, <3>2 DEF Kinds
    <3>5. live' \subseteq Handles /\ \A h \in live' : h[1] # n => h \in live
      BY <1>0, <2>1, <3>2 DEF TypeOK, Handles, Kinds
    <3>. QED
      BY <2>1, <2>3, <2>4, <3>1, <3>2, <3>3, <3>4, <3>5, AdvanceStep DEF Steps
  <2>5. CASE Fail
    BY <1>12, <2>1, <2>3, <2>5, FailStep DEF CompareKey, Steps
  <2>. QED
    BY <1>12, <2>4, <2>5 DEF CompareKey
<1>13. CASE FreeOp
  <2>1. n \in 1..N /\ pc = "free_op" /\ result[n] = "running"
    BY <1>13 DEF FreeOp, IInv, TypeOK, Steps
  <2>2. \A k \in Kinds : <<n, k>> \in live <=> k \in {"op", "sv"}
    BY <2>1 DEF IInv, Steps, Held
  <2>3. params' \in Seq(AttrRec)
    BY <1>0, <1>13 DEF FreeOp, TypeOK, AttrRec
  <2>4. CASE live' = live \ {<<n, "op">>} /\ Advance
    <3>1. Succ[pc] = "free_sv" /\ Held["free_sv"] = {"sv"}
      BY <2>1 DEF Succ, Held
    <3>2. n' = n /\ live' = live \ {<<n, "op">>}
      BY <1>13, <2>4 DEF FreeOp
    <3>3. svBits' \in Nat
      BY <1>0, <1>13 DEF FreeOp, TypeOK
    <3>4. \A k \in Kinds : <<n, k>> \in live' <=> k \in {"sv"}
      BY <2>2, <3>2 DEF Kinds
    <3>5. live' \subseteq Handles /\ \A h \in live' : h[1] # n => h \in live
      BY <1>0, <2>1, <3>2 DEF TypeOK, Handles, Kinds
    <3>. QED
      BY <2>1, <2>3, <2>4, <3>1, <3>2, <3>3, <3>4, <3>5, AdvanceStep DEF Steps
  <2>5. CASE Fail /\ UNCHANGED live
    BY <1>13, <2>1, <2>3, <2>5, FailStep DEF FreeOp, Steps
  <2>. QED
    BY <1>13, <2>4, <2>5 DEF FreeOp
<1>14. CASE FreeSv
  <2>1. n \in 1..N /\ pc = "free_sv" /\ result[n] = "running"
    BY <1>14 DEF FreeSv, IInv, TypeOK, Steps
  <2>2. \A k \in Kinds : <<n, k>> \in live <=> k \in {"sv"}
    BY <2>1 DEF IInv, Steps, Held
  <2>3. params' \in Seq(AttrRec)
    BY <1>0, <1>14 DEF FreeSv, TypeOK, AttrRec
  <2>4. CASE live' = live \ {<<n, "sv">>} /\ Advance
    <3>1. Succ[pc] = "end"
      BY <2>1 DEF Succ, Held
    <3>2. n' = n /\ live' = live \ {<<n, "sv">>}
      BY <1>14, <2>4 DEF FreeSv
    <3>3. svBits' \in Nat
      BY <1>0, <1>14 DEF FreeSv, TypeOK
    <3>4. \A k \in Kinds : <<n, k>> \notin live'
      BY <2>2, <3>2 DEF Kinds
    <3>5. live' \subseteq Handles /\ \A h \in live' : h[1] # n => h \in live
      BY <1>0, <2>1, <3>2 DEF TypeOK, Handles, Kinds
    <3>. QED
      BY <2>1, <2>3, <2>4, <3>1, <3>2, <3>3, <3>4, <3>5, AdvanceStep DEF Steps
  <2>5. CASE Fail /\ UNCHANGED live
    BY <1>14, <2>1, <2>3, <2>5, FailStep DEF FreeSv, Steps
  <2>. QED
    BY <1>14, <2>4, <2>5 DEF FreeSv
<1>15. CASE EndSubCase
  <2>1. n \in 1..N /\ pc = "end"
    BY <1>15 DEF EndSubCase, IInv, TypeOK
  <2>2. TypeOK'
    BY <1>0, <1>15, <2>1 DEF EndSubCase, TypeOK, PCs, Results
  <2>3. \A h \in live' : h[1] < n'
    BY <1>0, <1>15, <2>1 DEF EndSubCase, IInv, TypeOK, Handles
  <2>4. LeakOnlyOnFailure'
    <3>. SUFFICES ASSUME NEW h \in live', h[1] < n' PROVE result'[h[1]] = "fail"
      BY DEF LeakOnlyOnFailure
    <3>1. h \in Handles /\ h = <<h[1], h[2]>> /\ h[2] \in Kinds
      BY <1>0, <1>15 DEF EndSubCase, TypeOK, Handles
    <3>2. CASE h[1] < n
      BY <1>0, <1>15, <2>1, <3>1, <3>2 DEF EndSubCase, IInv, TypeOK, Handles, LeakOnlyOnFailure
    <3>3. CASE h[1] = n
      <4>1. result[n] = "fail"
        BY <1>15, <2>1, <3>1, <3>3 DEF EndSubCase, IInv
      <4>. QED
        BY <1>0, <1>15, <2>1, <3>3, <4>1 DEF EndSubCase, TypeOK
    <3>. QED
      BY <1>0, <1>15, <2>1, <3>1, <3>2, <3>3 DEF EndSubCase, TypeOK, Handles
  <2>5. pc' = "begin" /\ n' = n + 1
    BY <1>15 DEF EndSubCase
  <2>6. \A h \in live' : h[1] <= n'
    BY <1>0, <2>1, <2>2, <2>3, <2>5 DEF TypeOK, Handles
  <2>. QED
    BY <2>2, <2>3, <2>4, <2>5, <2>6 DEF IInv, Steps
<1>16. CASE CloseSession
  BY <1>16 DEF CloseSession, IInv, TypeOK, PCs, Steps, LeakOnlyOnFailure
<1>17. CASE Terminated
  BY <1>17 DEF Terminated, vars, IInv, TypeOK, LeakOnlyOnFailure
<1>18. CASE UNCHANGED vars
  BY <1>18 DEF vars, IInv, TypeOK, LeakOnlyOnFailure
<1>. QED
  BY <1>1, <1>2, <1>3, <1>4, <1>5, <1>6, <1>7, <1>8, <1>9, <1>10, <1>11,
     <1>12, <1>13, <1>14, <1>15, <1>16, <1>17, <1>18 DEF Next

-----------------------------------------------------------------------------
(* Refinement: every step of the driver is a step of SubcaseRunner or     *)
(* leaves its image unchanged.                                             *)

\* The calls of the loop body are invisible to SubcaseRunner: the subcase
\* stays "running", its recorded failure is hidden until "out:", and only
\* the current subcase's handles change, which are not yet "leaked".
LEMMA BodyStutter ==
    ASSUME IInv, pc \in Steps, pc' \in Steps \cup {"end"}, n' = n,
           result' = result \/ result' = [result EXCEPT ![n] = "fail"],
           \A h \in live' : h[1] # n => h \in live,
           \A h \in live : h[1] # n => h \in live'
    PROVE  UNCHANGED Subcases!vars
<1>1. n \in 1..N /\ result \in [1..N -> Results]
  BY DEF IInv, TypeOK
<1>2. Stage' = Stage
  BY DEF Stage, Steps
<1>3. Outcome' = Outcome
  <2>1. Outcome' = [result' EXCEPT ![n] = "running"]
    BY DEF Outcome
  <2>2. Outcome = [result EXCEPT ![n] = "running"]
    BY DEF Outcome
  <2>3. CASE result' = result
    BY <2>1, <2>2, <2>3
  <2>4. CASE result' = [result EXCEPT ![n] = "fail"]
    BY <1>1, <2>1, <2>2, <2>4
  <2>. QED
    BY <2>3, <2>4
<1>4. Leaked' = Leaked
  <2>1. \A h : h[1] < n => h[1] # n
    BY <1>1
  <2>2. \A h : (h \in live' /\ h[1] < n) <=> (h \in live /\ h[1] < n)
    BY <2>1
  <2>. QED
    BY <2>2 DEF Leaked
<1>. QED
  BY <1>2, <1>3, <1>4 DEF Subcases!vars

\* Either branch of a call of the body is such a stutter.
LEMMA BodyCall ==
    ASSUME IInv, pc \in Steps, n' = n, Advance \/ Fail,
           \A h \in live' : h[1] # n => h \in live,
           \A h \in live : h[1] # n => h \in live'
    PROVE  UNCHANGED Subcases!vars
<1>1. CASE Advance
  <2>1. pc' \in Steps \cup {"end"} /\ result' = result
    BY <1>1, SuccRange DEF Advance
  <2>. QED
    BY <2>1, BodyStutter
<1>2. CASE Fail
  <2>1. pc' = "end" /\ result' = [result EXCEPT ![n] = "fail"]
    BY <1>2 DEF Fail
  <2>. QED
    BY <2>1, BodyStutter
<1>. QED
  BY <1>1, <1>2

LEMMA InitRefines == Init => Subcases!Init
BY DEF Init, Subcases!Init, Stage, Outcome, Leaked, Steps

LEMMA NextRefines == IInv /\ [Next]_vars => [Subcases!Next]_Subcases!vars
<1> SUFFICES ASSUME IInv, [Next]_vars PROVE [Subcases!Next]_Subcases!vars
  OBVIOUS
<1>0. /\ TypeOK
      /\ N \in Nat
  BY CasesType DEF IInv
<1>a. Fail => result' = [result EXCEPT ![n] = "fail"]
  BY DEF Fail
<1>b. Advance => pc' = Succ[pc] /\ result' = result
  BY DEF Advance
<1>1. CASE OpenSession
  BY <1>1 DEF OpenSession, Subcases!Next, Subcases!Open, Stage, Outcome, Leaked, Steps
<1>2. CASE BeginSubCase
  <2>1. n \in 1..N
    BY <1>0, <1>2 DEF BeginSubCase, TypeOK
  <2>2. Outcome' = [Outcome EXCEPT ![n] = "running"]
    <3>1. pc' = "alloc_op" /\ pc = "begin" /\ n' = n
      BY <1>2 DEF BeginSubCase
    <3>2. Outcome' = [result' EXCEPT ![n] = "running"]
      BY <3>1 DEF Outcome, Steps
    <3>3. Outcome = result
      BY <3>1 DEF Outcome, Steps
    <3>4. result' = [result EXCEPT ![n] = "running"]
      BY <1>2 DEF BeginSubCase
    <3>. QED
      BY <3>2, <3>3, <3>4, Zenon
  <2>3. Stage = "idle" /\ Stage' = "running" /\ Leaked' = Leaked
    BY <1>2 DEF BeginSubCase, Stage, Leaked, Steps
  <2>. QED
    BY <1>2, <2>1, <2>2, <2>3 DEF BeginSubCase, Subcases!Next, Subcases!Begin
<1>3. CASE LoopsDone
  BY <1>3 DEF LoopsDone, Subcases!Next, Subcases!Exhausted, Stage, Outcome, Leaked, Steps
<1>4. CASE AllocOp
  <2>1. pc \in Steps /\ n' = n
    BY <1>4 DEF AllocOp, Steps
  <2>2. CASE live' = live \cup {<<n, "op">>} /\ Advance
    BY <2>1, <2>2, BodyCall
  <2>3. CASE live' = live /\ Fail
    BY <2>1, <2>3, BodyCall
  <2>. QED
    BY <1>4, <2>2, <2>3 DEF AllocOp
<1>5. CASE AllocKey
  <2>1. pc \in Steps /\ n' = n
    BY <1>5 DEF AllocKey, Steps
  <2>2. CASE live' = live \cup {<<n, "key">>} /\ Advance
    BY <2>1, <2>2, BodyCall
  <2>3. CASE live' = live /\ Fail
    BY <2>1, <2>3, BodyCall
  <2>. QED
    BY <1>5, <2>2, <2>3 DEF AllocKey
<1>6. CASE PopulateKey
  <2>1. pc \in Steps /\ n' = n /\ live' = live /\ (Advance \/ Fail)
    BY <1>6 DEF PopulateKey, Steps
  <2>. QED
    BY <2>1, BodyCall
<1>7. CASE SetKey
  <2>1. pc \in Steps /\ n' = n /\ live' = live /\ (Advance \/ Fail)
    BY <1>7 DEF SetKey, Steps
  <2>. QED
    BY <2>1, BodyCall
<1>8. CASE FreeKey
  <2>1. pc \in Steps /\ n' = n
    BY <1>8 DEF FreeKey, Steps
  <2>2. CASE live' = live \ {<<n, "key">>} /\ Advance
    BY <2>1, <2>2, BodyCall
  <2>3. CASE live' = live /\ Fail
    BY <2>1, <2>3, BodyCall
  <2>. QED
    BY <1>8, <2>2, <2>3 DEF FreeKey
<1>9. CASE AllocSv
  <2>1. pc \in Steps /\ n' = n
    BY <1>9 DEF AllocSv, Steps
  <2>2. CASE live' = live \cup {<<n, "sv">>} /\ Advance
    BY <2>1, <2>2, BodyCall
  <2>3. CASE live' = live /\ Fail
    BY <2>1, <2>3, BodyCall
  <2>. QED
    BY <1>9, <2>2, <2>3 DEF AllocSv
<1>10. CASE DeriveKey
  <2>1. pc \in Steps /\ n' = n /\ live' = live /\ (Advance \/ Fail)
    BY <1>10 DEF DeriveKey, Steps
  <2>. QED
    BY <2>1, BodyCall
<1>11. CASE GetSecret
  <2>1. pc \in Steps /\ n' = n /\ live' = live /\ (Advance \/ Fail)
    BY <1>11 DEF GetSecret, Steps
  <2>. QED
    BY <2>1, BodyCall
<1>12. CASE CompareKey
  <2>1. pc \in Steps /\ n' = n /\ live' = live /\ (Advance \/ Fail)
    BY <1>12 DEF CompareKey, Steps
  <2>. QED
    BY <2>1, BodyCall
<1>13. CASE FreeOp
  <2>1. pc \in Steps /\ n' = n
    BY <1>13 DEF FreeOp, Steps
  <2>2. CASE live' = live \ {<<n, "op">>} /\ Advance
    BY <2>1, <2>2, BodyCall
  <2>3. CASE live' = live /\ Fail
    BY <2>1, <2>3, BodyCall
  <2>. QED
    BY <1>13, <2>2, <2>3 DEF FreeOp
<1>14. CASE FreeSv
  <2>1. pc \in Steps /\ n' = n
    BY <1>14 DEF FreeSv, Steps
  <2>2. CASE live' = live \ {<<n, "sv">>} /\ Advance
    BY <2>1, <2>2, BodyCall
  <2>3. CASE live' = live /\ Fail
    BY <2>1, <2>3, BodyCall
  <2>. QED
    BY <1>14, <2>2, <2>3 DEF FreeSv
<1>15. CASE EndSubCase
  <2>1. n \in 1..N /\ pc = "end" /\ result[n] \in {"running", "fail"}
    <3>1. pc = "end" /\ n \in Nat /\ n >= 1
      BY <1>0, <1>15 DEF EndSubCase, TypeOK
    <3>. QED
      BY <3>1 DEF IInv
  <2>2. result \in [1..N -> Results] /\ live \subseteq Handles
    BY <1>0 DEF TypeOK
  <2> DEFINE r == IF result[n] = "running" THEN "pass" ELSE "fail"
             L == {h \in live : h[1] = n}
  <2>3. L \in SUBSET ({n} \X Kinds)
    BY <2>2 DEF Handles
  <2>4. r = "pass" => L = {}
    <3>. SUFFICES ASSUME result[n] = "running", NEW h \in live, h[1] = n
                  PROVE  FALSE
      OBVIOUS
    <3>1. h = <<n, h[2]>> /\ h[2] \in Kinds
      BY <2>2 DEF Handles
    <3>. QED
      BY <2>1, <3>1 DEF IInv
  <2>5. Outcome' = [Outcome EXCEPT ![n] = r]
    BY <1>15, <2>1, <2>2 DEF EndSubCase, Outcome, Steps
  <2>6. Leaked' = Leaked \cup L
    BY <1>15, <2>1, <2>2 DEF EndSubCase, Leaked, Handles
  <2>7. Stage = "running" /\ Stage' = "idle" /\ n' = n + 1
    BY <1>15, <2>1 DEF EndSubCase, Stage, Steps
  <2>8. r \in {"pass", "fail"}
    OBVIOUS
  <2>9. \E rr \in {"pass", "fail"}, LL \in SUBSET ({n} \X Kinds) :
           /\ rr = "pass" => LL = {}
           /\ Outcome' = [Outcome EXCEPT ![n] = rr]
           /\ Leaked' = Leaked \cup LL
    BY <2>3, <2>4, <2>5, <2>6, <2>8, Zenon
  <2>10. Subcases!Finish
    BY <2>7, <2>9, Zenon DEF Subcases!Finish
  <2>. QED
    BY <2>10 DEF Subcases!Next
<1>16. CASE CloseSession
  BY <1>16 DEF CloseSession, Subcases!Next, Subcases!Close, Stage, Outcome, Leaked, Steps
<1>17. CASE Terminated
  BY <1>17 DEF Terminated, vars, Subcases!vars, Stage, Outcome, Leaked
<1>18. CASE UNCHANGED vars
  BY <1>18 DEF vars, Subcases!vars, Stage, Outcome, Leaked
<1>. QED
  BY <1>1, <1>2, <1>3, <1>4, <1>5, <1>6, <1>7, <1>8, <1>9, <1>10, <1>11,
     <1>12, <1>13, <1>14, <1>15, <1>16, <1>17, <1>18 DEF Next

-----------------------------------------------------------------------------
(* The theorems.                                                           *)

\* IInv holds in every reachable state.
THEOREM IInvHolds == Spec => []IInv
BY InitIInv, NextIInv, PTL DEF Spec

\* Type correctness: every variable keeps its type, in particular every
\* attribute list the loops pass to the TA is a list of well-formed
\* attributes, whatever the catalog.
THEOREM TypeCorrect == Spec => []TypeOK
<1>1. IInv => TypeOK
  BY DEF IInv
<1>. QED
  BY IInvHolds, <1>1, PTL

\* xtest_test_derivation_*: handles the TA still holds after a subcase has
\* ended ("out:" skipped the frees) belong to subcases reported failed; a
\* passing subcase leaves nothing behind.
THEOREM LeakOnlyOnFailureHolds == Spec => []LeakOnlyOnFailure
<1>1. IInv => LeakOnlyOnFailure
  BY DEF IInv
<1>. QED
  BY IInvHolds, <1>1, PTL

\* xtest_test_derivation_*: every call of the loop body passes handles the
\* TA still holds (no use after free, no double free; the key object is
\* bound before it is freed).
THEOREM NextCallHandlesLiveHolds == Spec => []NextCallHandlesLive
<1>1. IInv => NextCallHandlesLive
  <2> SUFFICES ASSUME IInv, pc \in Steps, NEW k \in Uses[pc]
               PROVE  <<n, k>> \in live
    BY DEF NextCallHandlesLive
  <2>1. Uses[pc] \subseteq Held[pc] /\ Uses[pc] \subseteq Kinds
    BY DEF Steps, Uses, Held, Kinds
  <2>. QED
    BY <2>1 DEF IInv
<1>. QED
  BY IInvHolds, <1>1, PTL

\* The four derivation loops implement spec.md 4.3's subcase runner (its
\* safety part): vectors run in order one at a time, each ends pass or fail,
\* only a failed one leaves handles, and closing the session frees them.
THEOREM RefinesSubcaseRunner ==
    Spec => Subcases!Init /\ [][Subcases!Next]_Subcases!vars
BY IInvHolds, InitRefines, NextRefines, PTL DEF Spec

=============================================================================
