----------------------------- MODULE MCDirentAVL -----------------------------
EXTENDS DirentAVL, TLC

\* "a" and "b" collide on key 0; "c" hashes to key 2, the first probe key
\* of 0, so probe sequences of different hashes meet.
MCHashOf == ("a" :> 0) @@ ("b" :> 0) @@ ("c" :> 2)

=============================================================================
