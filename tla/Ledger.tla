------------------------------- MODULE Ledger -------------------------------
(* What the migrations promise: instances of the program that start on one *)
(* database, together or one after the other, crash or fail, change it as  *)
(* if each brought it up to date at once, or did nothing.                  *)
EXTENDS HashChain

VARIABLES
  rows,   \* the migrations table
  log     \* the files that were run, in batches

vars == <<rows, log>>

Init == rows = {} /\ log = <<>>

Missing(r) == {k \in DOMAIN r : \A w \in rows : w.name # r[k].name}

\* A release agrees with all that the table has of its files, and what is
\* missing is run and recorded.
Migrate(r) ==
  /\ \A k \in DOMAIN r \ Missing(r) : Row(r, k) \in rows
  /\ rows' = rows \cup {Row(r, k) : k \in Missing(r)}
  /\ log' = AddBatch(log, r, Missing(r))

Next == \E r \in Releases : Migrate(r)

Spec == Init /\ [][Next]_vars
=============================================================================
