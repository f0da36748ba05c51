---- MODULE MCConfiguration ----
(* Two keys, two values; the file gives the first key, a flag the second.  *)
EXTENDS Configuration

CONSTANTS k1, k2, v1, v2

Dict(a, b) == (k1 :> a) @@ (k2 :> b)
MCKeys == {k1, k2}
MCValues == {v1, v2}
MCInputs == {Dict(v1, v2), Dict(v2, None), Dict(None, v1)}
MCFlags == {Dict(None, None), Dict(None, v1)}
MCFiles == {None, Dict(v1, None)}
====
