---------------------- MODULE KeyDerivationRequestProofs ----------------------
(***************************************************************************)
(* Proofs that the derivation loops send every derive request well formed *)
(* and report every vector, for every catalog Cases and failure bound.    *)
(* The first half is about the attribute encoder alone: each family's     *)
(* derive list fits its TEE_Attribute array, holds none of the key        *)
(* object's attributes and asks for the case's output length.  The second *)
(* half shows ProgressInv inductive relative to IInv and derives          *)
(* DeriveRequestConsistent and EveryVectorReported from the two.          *)
(***************************************************************************)
EXTENDS KeyDerivationProofs

\* No attribute of the list is one of the key object's.
NoKeyIds(s) == \A k \in 1..Len(s) : s[k].id \notin KeyAttrIds

\* The list carries attribute id with value v.
Carries(s, id, v) == \E k \in 1..Len(s) : s[k].id = id /\ s[k].val = v

-----------------------------------------------------------------------------
(* The attribute encoder.                                                  *)

\* xtest_add_attr appends exactly the one attribute it is given.
LEMMA AttrFacts ==
    ASSUME NEW id \in AttrIds, NEW v \in Nat
    PROVE  /\ Len(Attr(id, v)) = 1
           /\ Carries(Attr(id, v), id, v)
           /\ id \notin KeyAttrIds => NoKeyIds(Attr(id, v))
BY DEF Attr, Carries, NoKeyIds

\* An optional buffer adds at most one attribute, and only its own.
LEMMA OptAttrFacts ==
    ASSUME NEW c \in Case, NEW o \in {"salt", "info"}, NEW id \in AttrIds,
           id \notin KeyAttrIds
    PROVE  /\ Len(OptAttr(c, o, id)) <= 1
           /\ NoKeyIds(OptAttr(c, o, id))
<1>1. c[o].len \in Nat
  BY DEF Case, Buffer
<1>2. CASE c[o].ptr
  BY <1>1, <1>2, AttrFacts DEF OptAttr
<1>3. CASE ~c[o].ptr
  BY <1>3 DEF OptAttr, NoKeyIds
<1>. QED
  BY <1>2, <1>3

\* Concatenating two lists adds their lengths, and takes its elements from
\* the first list, then from the second.
LEMMA ConcatIndex ==
    ASSUME NEW s \in Seq(AttrRec), NEW t \in Seq(AttrRec)
    PROVE  /\ Len(s \o t) = Len(s) + Len(t)
           /\ \A i \in 1..Len(s) : (s \o t)[i] = s[i]
           /\ \A i \in 1..Len(t) : (s \o t)[Len(s) + i] = t[i]
<1>1. /\ Len(s \o t) = Len(s) + Len(t)
      /\ \A i \in 1 .. Len(s) + Len(t) :
             (s \o t)[i] = IF i <= Len(s) THEN s[i] ELSE t[i - Len(s)]
  BY ConcatProperties
<1>. QED
  BY <1>1

\* A concatenation of two lists without key attributes has none.
LEMMA ConcatNoKeyIds ==
    ASSUME NEW s \in Seq(AttrRec), NEW t \in Seq(AttrRec),
           NoKeyIds(s), NoKeyIds(t)
    PROVE  NoKeyIds(s \o t)
<1>1. \A i \in 1..Len(s \o t) : i <= Len(s) \/ i - Len(s) \in 1..Len(t)
  BY ConcatIndex
<1>. QED
  BY <1>1, ConcatIndex DEF NoKeyIds

\* A concatenation carries what its first part carries.
LEMMA ConcatCarriesLeft ==
    ASSUME NEW s \in Seq(AttrRec), NEW t \in Seq(AttrRec), NEW id, NEW v,
           Carries(s, id, v)
    PROVE  Carries(s \o t, id, v)
<1>1. PICK k \in 1..Len(s) : s[k].id = id /\ s[k].val = v
  BY DEF Carries
<1>. QED
  BY <1>1, ConcatIndex DEF Carries

\* A concatenation carries what its second part carries.
LEMMA ConcatCarriesRight ==
    ASSUME NEW s \in Seq(AttrRec), NEW t \in Seq(AttrRec), NEW id, NEW v,
           Carries(t, id, v)
    PROVE  Carries(s \o t, id, v)
<1>1. PICK k \in 1..Len(t) : t[k].id = id /\ t[k].val = v
  BY DEF Carries
<1>2. Len(s) + k \in 1..Len(s \o t) /\ (s \o t)[Len(s) + k] = t[k]
  BY <1>1, ConcatIndex
<1>. QED
  BY <1>1, <1>2 DEF Carries

\* The derive list of every case, of every family, is a request the TA
\* can take: it fits params[4] (attrs[6] for scrypt), it holds no key
\* attribute, and it asks for the case's output length.
LEMMA DeriveParamsOK ==
    ASSUME NEW c \in Case
    PROVE  /\ Len(DeriveParams(c)) <= Capacity(c.fam)
           /\ NoKeyIds(DeriveParams(c))
           /\ Carries(DeriveParams(c), LengthAttr(c.fam), c.out)
<1>1. /\ c.fam \in Families
      /\ c.out \in Nat
      /\ c.cost \in Seq(Nat)
      /\ Len(c.cost) = CostLen(c.fam)
  BY DEF Case
<1>2. CASE c.fam = "HKDF"
  <2> DEFINE S == OptAttr(c, "salt", "HKDF_SALT")
             I == OptAttr(c, "info", "HKDF_INFO")
             L == Attr("HKDF_OKM_LENGTH", c.out)
  <2>1. DeriveParams(c) = (S \o I) \o L
    BY <1>2 DEF DeriveParams, HkdfDeriveParams
  <2>2. /\ S \in Seq(AttrRec) /\ I \in Seq(AttrRec) /\ L \in Seq(AttrRec)
        /\ Len(S) <= 1 /\ NoKeyIds(S) /\ Len(I) <= 1 /\ NoKeyIds(I)
        /\ Len(L) = 1 /\ NoKeyIds(L) /\ Carries(L, "HKDF_OKM_LENGTH", c.out)
    BY <1>1, AttrType, OptAttrType, AttrFacts, OptAttrFacts
       DEF AttrIds, KeyAttrIds
  <2>3. /\ S \o I \in Seq(AttrRec)
        /\ Len(S \o I) <= 2 /\ NoKeyIds(S \o I)
    BY <2>2, ConcatType, ConcatIndex, ConcatNoKeyIds
  <2>4. Len((S \o I) \o L) <= 3
    BY <2>2, <2>3, ConcatIndex
  <2>5. NoKeyIds((S \o I) \o L)
    BY <2>2, <2>3, ConcatNoKeyIds
  <2>6. Carries((S \o I) \o L, "HKDF_OKM_LENGTH", c.out)
    BY <2>2, <2>3, ConcatCarriesRight
  <2>. QED
    BY <1>2, <2>1, <2>4, <2>5, <2>6 DEF Capacity, LengthAttr
<1>3. CASE c.fam = "CONCAT_KDF"
  <2> DEFINE I == OptAttr(c, "info", "CONCAT_KDF_OTHER_INFO")
             L == Attr("CONCAT_KDF_DKM_LENGTH", c.out)
  <2>1. DeriveParams(c) = I \o L
    BY <1>3 DEF DeriveParams, ConcatDeriveParams
  <2>2. /\ I \in Seq(AttrRec) /\ L \in Seq(AttrRec)
        /\ Len(I) <= 1 /\ NoKeyIds(I)
        /\ Len(L) = 1 /\ NoKeyIds(L)
        /\ Carries(L, "CONCAT_KDF_DKM_LENGTH", c.out)
    BY <1>1, AttrType, OptAttrType, AttrFacts, OptAttrFacts
       DEF AttrIds, KeyAttrIds
  <2>. QED
    BY <1>3, <2>1, <2>2, ConcatIndex, ConcatNoKeyIds, ConcatCarriesRight
    DEF Capacity, LengthAttr
<1>4. CASE c.fam = "PBKDF2"
  <2> DEFINE S == OptAttr(c, "salt", "PBKDF2_SALT")
             L == Attr("PBKDF2_DKM_LENGTH", c.out)
             T == Attr("PBKDF2_ITERATION_COUNT", c.cost[1])
  <2>1. DeriveParams(c) = (S \o L) \o T
    BY <1>4 DEF DeriveParams, Pbkdf2DeriveParams
  <2>2. c.cost[1] \in Nat
    BY <1>1, <1>4 DEF CostLen
  <2>3. /\ S \in Seq(AttrRec) /\ L \in Seq(AttrRec) /\ T \in Seq(AttrRec)
        /\ Len(S) <= 1 /\ NoKeyIds(S)
        /\ Len(L) = 1 /\ NoKeyIds(L) /\ Carries(L, "PBKDF2_DKM_LENGTH", c.out)
        /\ Len(T) = 1 /\ NoKeyIds(T)
    BY <1>1, <2>2, AttrType, OptAttrType, AttrFacts, OptAttrFacts
       DEF AttrIds, KeyAttrIds
  <2>4. /\ S \o L \in Seq(AttrRec)
        /\ Len(S \o L) <= 2 /\ NoKeyIds(S \o L)
        /\ Carries(S \o L, "PBKDF2_DKM_LENGTH", c.out)
    BY <2>3, ConcatType, ConcatIndex, ConcatNoKeyIds, ConcatCarriesRight
  <2>5. Len((S \o L) \o T) <= 3
    BY <2>3, <2>4, ConcatIndex
  <2>6. NoKeyIds((S \o L) \o T)
    BY <2>3, <2>4, ConcatNoKeyIds
  <2>7. Carries((S \o L) \o T, "PBKDF2_DKM_LENGTH", c.out)
    BY <2>3, <2>4, ConcatCarriesLeft
  <2>. QED
    BY <1>4, <2>1, <2>5, <2>6, <2>7 DEF Capacity, LengthAttr
<1>5. CASE c.fam = "SCRYPT"
  <2> DEFINE S == OptAttr(c, "salt", "SCRYPT_SALT")
             L == Attr("SCRYPT_DK_LENGTH", c.out)
  <2>1. DeriveParams(c) = S \o L
    BY <1>5 DEF DeriveParams, ScryptDeriveParams
  <2>2. /\ S \in Seq(AttrRec) /\ L \in Seq(AttrRec)
        /\ Len(S) <= 1 /\ NoKeyIds(S)
        /\ Len(L) = 1 /\ NoKeyIds(L) /\ Carries(L, "SCRYPT_DK_LENGTH", c.out)
    BY <1>1, AttrType, OptAttrType, AttrFacts, OptAttrFacts
       DEF AttrIds, KeyAttrIds
  <2>. QED
    BY <1>5, <2>1, <2>2, ConcatIndex, ConcatNoKeyIds, ConcatCarriesRight
    DEF Capacity, LengthAttr
<1>. QED
  BY <1>1, <1>2, <1>3, <1>4, <1>5 DEF Families
-----------------------------------------------------------------------------
(* ProgressInv: one step of Next keeps it, given IInv.                     *)

\* The first state reports nothing and has no derive request yet.
LEMMA InitProgress == Init => ProgressInv
BY DEF Init, ProgressInv

\* The failure branch of a call ("goto out") keeps ProgressInv: it records
\* the verdict of the current subcase only, and leaves for "out:".
LEMMA FailProgress ==
    ASSUME IInv, ProgressInv, pc \in Steps, Fail, n' = n
    PROVE  ProgressInv'
<1>1. n \in 1..N /\ result \in [1..N -> Results]
  BY DEF IInv, TypeOK
<1>2. \A i \in 1..N : i < n => result'[i] = result[i]
  BY <1>1 DEF Fail
<1>3. pc' = "end"
  BY DEF Fail
<1>. QED
  BY <1>2, <1>3 DEF ProgressInv, Steps

\* The success branch of a call keeps ProgressInv, provided the call that
\* leads to the derive sets svBits and the derive call sets params.
LEMMA AdvanceProgress ==
    ASSUME IInv, ProgressInv, pc \in Steps, Advance, n' = n,
           Succ[pc] \in {"derive", "get_attr", "compare", "free_op", "free_sv"}
               => svBits' = Cases[n].out * 8,
           Succ[pc] \in {"get_attr", "compare", "free_op", "free_sv"}
               => params' = DeriveParams(Cases[n])
    PROVE  ProgressInv'
<1>1. pc' = Succ[pc] /\ pc' \in Steps \cup {"end"}
  BY SuccRange DEF Advance
<1>. QED
  BY <1>1 DEF Advance, ProgressInv, Steps

\* A call of the body whose success branch changes neither svBits nor
\* params, and whose successor is not the derive call.
LEMMA PlainCall ==
    ASSUME IInv, ProgressInv, pc \in Steps \ {"alloc_sv", "derive"},
           Advance \/ Fail, n' = n, svBits' = svBits,
           Succ[pc] \in {"derive", "get_attr", "compare", "free_op", "free_sv"}
               => params' = params
    PROVE  ProgressInv'
<1>1. CASE Fail
  BY <1>1, FailProgress
<1>2. CASE Advance
  <2>1. Succ[pc] \in {"derive", "get_attr", "compare", "free_op", "free_sv"}
          => pc \in {"get_attr", "compare", "free_op"}
    BY DEF Succ, Steps
  <2>2. Succ[pc] # "get_attr"
    BY DEF Succ, Steps
  <2>. QED
    BY <1>2, <2>1, <2>2, AdvanceProgress DEF ProgressInv
<1>. QED
  BY <1>1, <1>2

LEMMA NextProgress == IInv /\ ProgressInv /\ [Next]_vars => ProgressInv'
<1> SUFFICES ASSUME IInv, ProgressInv, [Next]_vars PROVE ProgressInv'
  OBVIOUS
<1>0. /\ TypeOK
      /\ N \in Nat
  BY CasesType DEF IInv
<1>1. CASE OpenSession
  BY <1>1 DEF OpenSession, ProgressInv
<1>2. CASE BeginSubCase
  <2>1. n \in 1..N /\ result \in [1..N -> Results]
    BY <1>0, <1>2 DEF BeginSubCase, TypeOK
  <2>. QED
    BY <1>2, <2>1 DEF BeginSubCase, ProgressInv
<1>3. CASE LoopsDone
  BY <1>0, <1>3 DEF LoopsDone, ProgressInv, TypeOK
<1>4. CASE AllocOp
  BY <1>4, PlainCall DEF AllocOp, Steps
<1>5. CASE AllocKey
  BY <1>5, PlainCall DEF AllocKey, Steps
<1>6. CASE PopulateKey
  BY <1>6, PlainCall DEF PopulateKey, Steps, Succ
<1>7. CASE SetKey
  BY <1>7, PlainCall DEF SetKey, Steps
<1>8. CASE FreeKey
  BY <1>8, PlainCall DEF FreeKey, Steps
<1>9. CASE AllocSv
  <2>1. CASE Fail
    BY <1>9, <2>1, FailProgress DEF AllocSv, Steps
  <2>2. CASE svBits' = Cases[n].out * 8 /\ Advance
    BY <1>9, <2>2, AdvanceProgress DEF AllocSv, Steps, Succ
  <2>. QED
    BY <1>9, <2>1, <2>2 DEF AllocSv
<1>10. CASE DeriveKey
  <2>1. CASE Fail
    BY <1>10, <2>1, FailProgress DEF DeriveKey, Steps
  <2>2. CASE Advance
    BY <1>10, <2>2, AdvanceProgress DEF DeriveKey, Steps, Succ, ProgressInv
  <2>. QED
    BY <1>10, <2>1, <2>2 DEF DeriveKey
<1>11. CASE GetSecret
  BY <1>11, PlainCall DEF GetSecret, Steps
<1>12. CASE CompareKey
  BY <1>12, PlainCall DEF CompareKey, Steps
<1>13. CASE FreeOp
  BY <1>13, PlainCall DEF FreeOp, Steps
<1>14. CASE FreeSv
  BY <1>14, PlainCall DEF FreeSv, Steps
<1>15. CASE EndSubCase
  <2>1. n \in 1..N /\ result \in [1..N -> Results]
        /\ result[n] \in {"running", "fail"}
    BY <1>0, <1>15 DEF EndSubCase, IInv, TypeOK
  <2>2. result'[n] \in {"pass", "fail"}
    BY <1>15, <2>1 DEF EndSubCase
  <2>3. \A i \in 1..N : i < n => result'[i] = result[i]
    BY <1>15, <2>1 DEF EndSubCase
  <2>. QED
    BY <1>15, <2>1, <2>2, <2>3 DEF EndSubCase, ProgressInv
<1>16. CASE CloseSession
  BY <1>16 DEF CloseSession, ProgressInv
<1>17. CASE Terminated
  BY <1>17 DEF Terminated, vars, ProgressInv
<1>18. CASE UNCHANGED vars
  BY <1>18 DEF vars, ProgressInv
<1>. QED
  BY <1>1, <1>2, <1>3, <1>4, <1>5, <1>6, <1>7, <1>8, <1>9, <1>10, <1>11,
     <1>12, <1>13, <1>14, <1>15, <1>16, <1>17, <1>18 DEF Next
-----------------------------------------------------------------------------
(* The theorems.                                                           *)

\* ProgressInv holds in every reachable state.
THEOREM ProgressInvHolds == Spec => []ProgressInv
BY IInvHolds, InitProgress, NextProgress, PTL DEF Spec

\* Per-vector isolation: a session the test case closes has had every
\* subcase of every family run and reported pass or fail, whatever calls
\* failed on the way and whatever the catalog holds.
THEOREM EveryVectorReportedHolds == Spec => []EveryVectorReported
<1>1. IInv /\ ProgressInv => EveryVectorReported
  <2> SUFFICES ASSUME IInv, ProgressInv, pc = "done", NEW i \in 1..N
               PROVE  result[i] \in {"pass", "fail"}
    BY DEF EveryVectorReported
  <2>1. n = N + 1
    BY DEF ProgressInv
  <2>. QED
    BY <2>1, CasesType DEF ProgressInv
<1>. QED
  BY IInvHolds, ProgressInvHolds, <1>1, PTL

\* xtest_test_derivation_*: every request that ta_crypt_cmd_derive_key got
\* and that the later calls rely on fits the attribute array, holds none of
\* the key object's attributes, and asks for the expected output length,
\* the length (in bits) the output object was allocated with.
THEOREM DeriveRequestConsistentHolds == Spec => []DeriveRequestConsistent
<1>1. IInv /\ ProgressInv => DeriveRequestConsistent
  <2> SUFFICES ASSUME IInv, ProgressInv,
                      pc \in {"get_attr", "compare", "free_op", "free_sv"}
               PROVE  LET f == Cases[n].fam IN
                      /\ Len(params) <= Capacity(f)
                      /\ \A k \in 1..Len(params) : params[k].id \notin KeyAttrIds
                      /\ \E k \in 1..Len(params) :
                             /\ params[k].id = LengthAttr(f)
                             /\ params[k].val = Cases[n].out
                             /\ params[k].val * 8 = svBits
    BY DEF DeriveRequestConsistent
  <2>1. n \in 1..N /\ Cases[n] \in Case
    BY CasesType DEF IInv, TypeOK, Steps
  <2>2. params = DeriveParams(Cases[n]) /\ svBits = Cases[n].out * 8
    BY DEF ProgressInv
  <2>3. /\ Len(params) <= Capacity(Cases[n].fam)
        /\ NoKeyIds(params)
        /\ Carries(params, LengthAttr(Cases[n].fam), Cases[n].out)
    BY <2>1, <2>2, DeriveParamsOK
  <2>4. PICK k \in 1..Len(params) :
               /\ params[k].id = LengthAttr(Cases[n].fam)
               /\ params[k].val = Cases[n].out
    BY <2>3 DEF Carries
  <2>5. params[k].val * 8 = svBits
    BY <2>2, <2>4
  <2>. QED
    BY <2>3, <2>4, <2>5 DEF NoKeyIds
<1>. QED
  BY IInvHolds, ProgressInvHolds, <1>1, PTL
=============================================================================
