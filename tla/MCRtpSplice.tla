------------------------------ MODULE MCRtpSplice ------------------------------
(* Instances of RtpSplice for TLC: two calls whose numbers may wrap around.  *)
EXTENDS RtpSplice

CONSTANTS s1, s2

Streams2 == {s1, s2}
NearTheEnd == {0, Modulus - 2}
===============================================================================
