------------------------------ MODULE KdfCatalog ------------------------------
(***************************************************************************)
(* The compiled-in test vectors of src/host/xtest/xtest_10000.c and the    *)
(* four case tables built from them, as records of KeyDerivation's Case.  *)
(* A byte array is abstracted to its length (sizeof, or sizeof - 1 for the *)
(* scrypt string literals); the contents only matter to the derivation    *)
(* inside the TA, which is not modelled.                                   *)
(***************************************************************************)
EXTENDS Naturals, Sequences

Buf(len, ptr) == [len |-> len, ptr |-> ptr]
NoBuf         == Buf(0, FALSE)

(* RFC 5869 appendix A: lengths of ikm, salt, info and okm.                *)
HkdfA1 == [ikm |-> 22, salt |-> 13, info |-> 10, okm |-> 42]
HkdfA2 == [ikm |-> 80, salt |-> 80, info |-> 80, okm |-> 82]
HkdfA3 == [ikm |-> 22, salt |-> 0,  info |-> 0,  okm |-> 42]
HkdfA4 == [ikm |-> 11, salt |-> 13, info |-> 10, okm |-> 42]
HkdfA5 == [ikm |-> 80, salt |-> 80, info |-> 80, okm |-> 82]
HkdfA6 == [ikm |-> 22, salt |-> 0,  info |-> 0,  okm |-> 42]
HkdfA7 == [ikm |-> 22, salt |-> 0,  info |-> 0,  okm |-> 42]

\* TEST_HKDF_DATA: with oeb ("omit empty bufs") an empty salt or info is
\* passed as NULL, otherwise as a pointer to the zero-length array.
HkdfCase(vec, v, oeb) ==
    [fam |-> "HKDF", vec |-> vec, secret |-> v.ikm,
     salt |-> Buf(v.salt, ~(oeb /\ v.salt = 0)),
     info |-> Buf(v.info, ~(oeb /\ v.info = 0)),
     cost |-> <<>>, out |-> v.okm]

HkdfCases ==
    << HkdfCase(1, HkdfA1, FALSE), HkdfCase(2, HkdfA2, FALSE),
       HkdfCase(3, HkdfA3, FALSE), HkdfCase(3, HkdfA3, TRUE),
       HkdfCase(4, HkdfA4, FALSE), HkdfCase(5, HkdfA5, FALSE),
       HkdfCase(6, HkdfA6, FALSE), HkdfCase(6, HkdfA6, TRUE),
       HkdfCase(7, HkdfA7, FALSE), HkdfCase(7, HkdfA7, TRUE) >>

(* JWA draft 37 appendix C: z, other_info and derived key.                *)
ConcatKdf1 == [z |-> 32, other_info |-> 31, derived_key |-> 16]

\* TEST_CONCAT_KDF_DATA, the other info taking the place of "info".
ConcatCase(vec, v, oeb) ==
    [fam |-> "CONCAT_KDF", vec |-> vec, secret |-> v.z, salt |-> NoBuf,
     info |-> Buf(v.other_info, ~(oeb /\ v.other_info = 0)),
     cost |-> <<>>, out |-> v.derived_key]

ConcatCases == << ConcatCase(1, ConcatKdf1, FALSE) >>

(* RFC 6070: password, salt, iteration count and derived key length.      *)
Pbkdf2V1 == [password |-> 8,  salt |-> 4,  iter |-> 1,    dkm |-> 20]
Pbkdf2V2 == [password |-> 8,  salt |-> 4,  iter |-> 2,    dkm |-> 20]
Pbkdf2V3 == [password |-> 8,  salt |-> 4,  iter |-> 4096, dkm |-> 20]
Pbkdf2V5 == [password |-> 24, salt |-> 36, iter |-> 4096, dkm |-> 25]
Pbkdf2V6 == [password |-> 9,  salt |-> 5,  iter |-> 4096, dkm |-> 16]

\* TEST_PBKDF2_DATA with oeb = FALSE (RFC6070_TEST).
Pbkdf2Case(vec, v) ==
    [fam |-> "PBKDF2", vec |-> vec, secret |-> v.password,
     salt |-> Buf(v.salt, TRUE), info |-> NoBuf,
     cost |-> <<v.iter>>, out |-> v.dkm]

\* Vector 4 (16777216 iterations) is compiled out by "#if 0".
Pbkdf2Cases ==
    << Pbkdf2Case(1, Pbkdf2V1), Pbkdf2Case(2, Pbkdf2V2),
       Pbkdf2Case(3, Pbkdf2V3), Pbkdf2Case(5, Pbkdf2V5),
       Pbkdf2Case(6, Pbkdf2V6) >>

(* scrypt draft vectors: password and salt sizes (NULL salt for vector 1),*)
(* N, r, p and the derived key length.                                     *)
ScryptV1 == [passwd |-> 0,  salt |-> Buf(0, FALSE), N |-> 16, r |-> 1,  p |-> 1, dk |-> 64]
ScryptV2 == [passwd |-> 7,  salt |-> Buf(5, TRUE),  N |-> 16, r |-> 1,  p |-> 1, dk |-> 64]
ScryptV3 == [passwd |-> 7,  salt |-> Buf(5, TRUE),  N |-> 16, r |-> 1,  p |-> 8, dk |-> 64]
ScryptV4 == [passwd |-> 7,  salt |-> Buf(5, TRUE),  N |-> 16, r |-> 4,  p |-> 8, dk |-> 64]
ScryptV5 == [passwd |-> 10, salt |-> Buf(6, TRUE),  N |-> 4,  r |-> 29, p |-> 1, dk |-> 128]

\* TEST_SCRYPT_DATA
ScryptCase(vec, v) ==
    [fam |-> "SCRYPT", vec |-> vec, secret |-> v.passwd, salt |-> v.salt,
     info |-> NoBuf, cost |-> <<v.N, v.r, v.p>>, out |-> v.dk]

ScryptCases ==
    << ScryptCase(1, ScryptV1), ScryptCase(2, ScryptV2), ScryptCase(3, ScryptV3),
       ScryptCase(4, ScryptV4), ScryptCase(5, ScryptV5) >>

\* xtest_tee_test_10001 runs the families in this order; scrypt only when
\* the build defines CFG_CRYPTO_SCRYPT.
SuiteCases(withScrypt) ==
    HkdfCases \o ConcatCases \o Pbkdf2Cases
        \o (IF withScrypt THEN ScryptCases ELSE << >>)
=============================================================================
