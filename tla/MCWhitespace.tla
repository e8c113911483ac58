---------------------------- MODULE MCWhitespace -----------------------------
(* Instances of Whitespace for TLC: all valid texts up to a length.          *)
EXTENDS Whitespace

CONSTANTS Letters, MaxLength

SomeTexts == {t \in UNION {[1..n -> Letters] : n \in 0..MaxLength} : ValidUtf8(t)}
AllPaths == {"sse2", "neon", "generic"}
AnyBuild == {"debug", "release"}
=============================================================================
