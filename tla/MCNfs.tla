------------------------------- MODULE MCNfs -------------------------------
(***************************************************************************)
(* The server of the run of Nfs: two files, a link to the first and one    *)
(* to that link, an empty file, a directory without the file and one that  *)
(* is not exported.                                                        *)
(***************************************************************************)
EXTENDS Nfs

MCDir == {"a", "b", "e", "l", "k", "m", "x"}

MCKind ==
  [d \in MCDir |-> CASE d \in {"l", "k"} -> "link" [] d = "m" -> "missing"
                     [] d = "x" -> "refused" [] OTHER -> "file"]

MCLinkTo == [d \in MCDir |-> IF d = "k" THEN "l" ELSE "a"]

MCTarget == [d \in MCDir |-> IF MCKind[d] = "link" THEN "a" ELSE d]

MCFileLen == [d \in MCDir |-> CASE d = "e" -> 0 [] d = "b" -> 1 [] OTHER -> 3]
==============================================================================
