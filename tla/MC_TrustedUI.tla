---------------------------- MODULE MC_TrustedUI ----------------------------
(* TrustedUI with a 4-bit size_t: n wraps to 15 on PREVIOUS from screen 0, *)
(* out of params[0..3] like the 64-bit SIZE_MAX it stands for.            *)
EXTENDS TrustedUI

MCSizeBits == 4
=============================================================================
