----------------------------- MODULE HashChain -----------------------------
(* The files of a release and the hashes they are known by.  The hash of a *)
(* file covers its contents and the hash of the file before it; SHA-256 is *)
(* taken to be injective, so a hash is the contents of all files so far.   *)
EXTENDS Naturals, Sequences

CONSTANT
  Releases   \* sequences of files, as a binary has them embedded

\* ReadDir sorts by name, and names are unique in a directory.
ASSUME ReleasesAssumption ==
  \A r \in Releases :
    /\ r \in Seq([name : Nat, content : STRING])
    /\ \A j, k \in DOMAIN r : j < k => r[j].name < r[k].name

\* Mutant: the hash of the file before is left out.
HashOfContents(r, k) == <<r[k].content>>

\* currentHash of the k-th file.
Hash(r, k) == [j \in 1..k |-> r[j].content]

\* The row of the migrations table that the k-th file leaves.
Row(r, k) == [name |-> r[k].name, hash |-> Hash(r, k)]
\* The batches of files that were run, after a transaction has run the files
\* "which" of r.
AddBatch(log, r, which) ==
  IF which = {} THEN log ELSE Append(log, [files |-> r, ran |-> which])
=============================================================================
