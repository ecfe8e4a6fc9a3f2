----------------------------- MODULE MCDirOps -----------------------------
(* A name with its DOS name in one directory, a name in another; the first *)
(* file has the pair, one of the others as a hard link or without pair.    *)
EXTENDS DirOps

CONSTANTS a, b, s
AllNames == {a, b, s}
InDir == [n \in AllNames |-> IF n = b THEN "dst" ELSE "src"]
Links(on) == [n \in AllNames |-> IF n \in DOMAIN on THEN on[n] ELSE "none"]
StartLinks == {Links([n \in {a} |-> "posix"]), Links([n \in {a, b} |-> "posix"]),
               Links([n \in {a, s} |-> IF n = a THEN "win32" ELSE "dos"])}
=============================================================================
