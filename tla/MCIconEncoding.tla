--------------------------- MODULE MCIconEncoding ---------------------------
(* IconEncoding on small instances.                                        *)
EXTENDS IconEncoding

\* All sequences of up to n of these two bytes: of 27 (00011011) and 228
\* (11100100) no two bits next to each other are alike.
UpTo(n) == UNION {[1..k -> {27, 228}] : k \in 0..n}
Up7 == UpTo(7)
=============================================================================
