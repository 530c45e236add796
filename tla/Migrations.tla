----------------------------- MODULE Migrations -----------------------------
(***************************************************************************)
(* The start of the program on its database: EstablishDBConnection takes a *)
(* connection out of the pool, and ApplyMigrations compares each embedded  *)
(* file with the migrations table, or runs and records it, all in one      *)
(* transaction at the level READ COMMITTED.  Several instances of the      *)
(* program, of the same or of other releases, may start on one database,   *)
(* and any of them may crash or lose its connection at any moment.         *)
(***************************************************************************)
EXTENDS HashChain

CONSTANTS
  Instances,  \* processes that run the program
  PoolSize    \* connections of a pool: at least 4 by default

ASSUME PoolAssumption == PoolSize \in Nat

VARIABLES
  rows,     \* the migrations table
  log,      \* history: the files that were run, one batch a transaction
  pc,       \* where each instance is
  release,  \* the release each instance is of
  next,     \* the file it is at
  conns,    \* connections it has taken out of its pool
  tx,       \* its transaction: none, open, or broken
  ran,      \* files it has run in its transaction
  mine      \* files it has recorded in its transaction

database == <<rows, log>>
session == <<tx, ran, mine>>
process == <<pc, release, next, conns>>
vars == <<database, process, session>>

Stages == {"off", "connect", "setup", "begin", "check", "exec", "append", "up"}
Starting(i) == pc[i] \notin {"off", "up"}

Goto(i, stage) == pc' = [pc EXCEPT ![i] = stage]

\* The transaction ends, committed or rolled back.
EndTx(i) ==
  /\ tx' = [tx EXCEPT ![i] = "none"]
  /\ ran' = [ran EXCEPT ![i] = {}] /\ mine' = [mine EXCEPT ![i] = {}]

\* log.Fatalf, or a crash: the server rolls back what the process leaves.
Exit(i) ==
  /\ Goto(i, "off") /\ EndTx(i)
  /\ conns' = [conns EXCEPT ![i] = 0] /\ next' = [next EXCEPT ![i] = 1]
  /\ UNCHANGED <<database, release>>

NextName(i) == release[i][next[i]].name
IsApplied(i) == \E w \in rows : w.name = NextName(i)

\* j has inserted the name, which is unique, and not committed it.
HasName(j, n) == \E k \in mine[j] : release[j][k].name = n
-----------------------------------------------------------------------------
Start(i, r) ==
  /\ pc[i] = "off"
  /\ Goto(i, "connect")
  /\ release' = [release EXCEPT ![i] = r]
  /\ UNCHANGED <<database, next, conns, session>>

\* Acquire succeeds: the connection is kept, and never given back.
Connect(i) ==
  /\ pc[i] = "connect" /\ conns[i] < PoolSize
  /\ conns' = [conns EXCEPT ![i] = @ + 1]
  /\ Goto(i, "setup")
  /\ UNCHANGED <<database, release, next, session>>

\* Mutant: an attempt that fails keeps its place in the pool.
RetryKeeps(i) ==
  /\ pc[i] = "connect" /\ conns[i] < PoolSize
  /\ conns' = [conns EXCEPT ![i] = @ + 1]
  /\ UNCHANGED <<database, pc, release, next, session>>

\* Acquire fails, and the loop tries again or, after 20 seconds, gives up.
\* An Acquire that waits for a connection is not interrupted.
ConnectFails(i) ==
  /\ pc[i] = "connect" /\ conns[i] < PoolSize
  /\ Exit(i)

\* GetConn, and the table is created if there is none, which may fail when two
\* instances do it at a time.
Setup(i) ==
  /\ pc[i] = "setup" /\ conns[i] < PoolSize
  /\ conns' = [conns EXCEPT ![i] = @ + 1]
  /\ Goto(i, "begin")
  /\ UNCHANGED <<database, release, next, session>>

SetupFails(i) ==
  /\ pc[i] = "setup" /\ conns[i] < PoolSize
  /\ Exit(i)

BeginTx(i) ==
  /\ pc[i] = "begin"
  /\ tx' = [tx EXCEPT ![i] = "open"]
  /\ Goto(i, "check")
  /\ UNCHANGED <<database, release, next, conns, ran, mine>>

\* Mutant: the hash of a file that was applied is not compared.
CheckNameOnly(i) ==
  /\ pc[i] = "check" /\ tx[i] = "open" /\ next[i] \in DOMAIN release[i] /\ IsApplied(i)
  /\ next' = [next EXCEPT ![i] = @ + 1]
  /\ UNCHANGED <<database, pc, release, conns, session>>

\* The file was applied: its hash must be the one in the table.
CheckApplied(i) ==
  /\ pc[i] = "check" /\ tx[i] = "open" /\ next[i] \in DOMAIN release[i] /\ IsApplied(i)
  /\ \/ /\ Row(release[i], next[i]) \in rows
        /\ next' = [next EXCEPT ![i] = @ + 1]
        /\ UNCHANGED <<database, pc, release, conns, session>>
     \/ /\ Row(release[i], next[i]) \notin rows
        /\ Exit(i)

\* There is no row, or the query failed: the error of the rows is not looked
\* at, and the name that was not read is not the name of the file.
CheckNotApplied(i) ==
  /\ pc[i] = "check" /\ next[i] \in DOMAIN release[i]
  /\ tx[i] = "open" => ~IsApplied(i)
  /\ Goto(i, "exec")
  /\ UNCHANGED <<database, release, next, conns, session>>

\* Mutant: the file is run outside of the transaction.
ExecAtOnce(i) ==
  /\ pc[i] = "exec"
  /\ log' = AddBatch(log, release[i], {next[i]})
  /\ Goto(i, "append")
  /\ UNCHANGED <<rows, release, next, conns, session>>

Exec(i) ==
  /\ pc[i] = "exec" /\ tx[i] = "open"
  /\ ran' = [ran EXCEPT ![i] = @ \cup {next[i]}]
  /\ Goto(i, "append")
  /\ UNCHANGED <<database, release, next, conns, tx, mine>>

\* Mutant: the name is not unique.
AppendAnyway(i) ==
  /\ pc[i] = "append" /\ tx[i] = "open"
  /\ mine' = [mine EXCEPT ![i] = @ \cup {next[i]}]
  /\ next' = [next EXCEPT ![i] = @ + 1]
  /\ Goto(i, "check")
  /\ UNCHANGED <<database, release, conns, tx, ran>>

\* The insert waits for a transaction that has inserted the name, and fails if
\* that is committed.
AppendRow(i) ==
  /\ pc[i] = "append" /\ tx[i] = "open"
  /\ \A j \in Instances \ {i} : ~HasName(j, NextName(i))
  /\ ~IsApplied(i)
  /\ mine' = [mine EXCEPT ![i] = @ \cup {next[i]}]
  /\ next' = [next EXCEPT ![i] = @ + 1]
  /\ Goto(i, "check")
  /\ UNCHANGED <<database, release, conns, tx, ran>>

\* The statement fails: of itself, because the name is taken, or because the
\* transaction is broken.
StatementFails(i) ==
  /\ \/ pc[i] \in {"begin", "exec"}
     \/ pc[i] \in {"check", "append"} /\ tx[i] = "broken"
     \/ pc[i] = "append" /\ IsApplied(i)
  /\ Exit(i)

Committing(i) == pc[i] = "check" /\ next[i] \notin DOMAIN release[i] /\ tx[i] = "open"

CommitRows(i) ==
  /\ Committing(i)
  /\ rows' = rows \cup {Row(release[i], k) : k \in mine[i]}
  /\ log' = AddBatch(log, release[i], ran[i])
  /\ EndTx(i)
  /\ next' = [next EXCEPT ![i] = 1] /\ UNCHANGED release

\* The connection goes back to the pool; the one of the test does not.
Commit(i) ==
  /\ CommitRows(i)
  /\ Goto(i, "up") /\ conns' = [conns EXCEPT ![i] = @ - 1]

\* The answer to the commit is lost.
CommitInDoubt(i) ==
  /\ CommitRows(i)
  /\ Goto(i, "off") /\ conns' = [conns EXCEPT ![i] = 0]

\* The connection breaks: the server rolls back, and the process finds out.
LoseConnection(i) ==
  /\ tx[i] = "open"
  /\ tx' = [tx EXCEPT ![i] = "broken"]
  /\ ran' = [ran EXCEPT ![i] = {}] /\ mine' = [mine EXCEPT ![i] = {}]
  /\ UNCHANGED <<database, process>>

Crash(i) == pc[i] # "off" /\ Exit(i)
-----------------------------------------------------------------------------
Init ==
  /\ rows = {} /\ log = <<>>
  /\ pc = [i \in Instances |-> "off"]
  /\ release \in [Instances -> Releases]
  /\ next = [i \in Instances |-> 1] /\ conns = [i \in Instances |-> 0]
  /\ tx = [i \in Instances |-> "none"]
  /\ ran = [i \in Instances |-> {}] /\ mine = [i \in Instances |-> {}]

Step(i) ==
  \/ Connect(i) \/ ConnectFails(i) \/ Setup(i) \/ SetupFails(i) \/ BeginTx(i)
  \/ CheckApplied(i) \/ CheckNotApplied(i) \/ Exec(i) \/ AppendRow(i) \/ StatementFails(i)
  \/ Commit(i) \/ CommitInDoubt(i)

Next ==
  \E i \in Instances :
    \/ Step(i) \/ LoseConnection(i) \/ Crash(i)
    \/ \E r \in Releases : Start(i, r)

Spec == Init /\ [][Next]_vars

\* A process that has started runs, the database answers it, and whoever waits
\* for a row gets its turn before those that come later.
FairSpec == Spec /\ \A i \in Instances : WF_vars(Step(i)) /\ SF_vars(AppendRow(i))
-----------------------------------------------------------------------------
Batches == [files : Releases, ran : SUBSET (Nat \ {0})]

\* Every variable has its type.
TypeOK ==
  /\ rows \subseteq [name : Nat, hash : Seq(STRING)] /\ log \in Seq(Batches)
  /\ pc \in [Instances -> Stages] /\ release \in [Instances -> Releases]
  /\ next \in [Instances -> Nat \ {0}] /\ conns \in [Instances -> 0..PoolSize]
  /\ tx \in [Instances -> {"none", "open", "broken"}]
  /\ ran \in [Instances -> SUBSET (Nat \ {0})] /\ mine \in [Instances -> SUBSET (Nat \ {0})]

\* The n-th transaction has run a file of the name.
RanIn(b, n) == \E k \in log[b].ran : log[b].files[k].name = n

\* What is run is recorded, with its hash, in the same transaction, and no
\* file is run twice, whoever starts, crashes or starts again meanwhile.
AppliedOnce ==
  /\ \A b \in DOMAIN log : \A k \in log[b].ran : Row(log[b].files, k) \in rows
  /\ \A w \in rows : \E b \in DOMAIN log : RanIn(b, w.name)
  /\ \A b, c \in DOMAIN log : \A w \in rows : RanIn(b, w.name) /\ RanIn(c, w.name) => b = c

\* A program that is up finds every file it has embedded in the database, the
\* same and after the same ones, whatever other releases did meanwhile.
UpIsMigrated ==
  \A i \in Instances : pc[i] = "up" =>
    \A k \in DOMAIN release[i] : Row(release[i], k) \in rows

\* The files of a program that is up were run in their order: the chain keeps
\* a release from putting a file before one that was run.  It does not look at
\* names, so a file that was renamed is run again, and late.
NoRenames ==
  \A r, s \in Releases : \A j \in DOMAIN r, k \in DOMAIN s :
    r[j].content = s[k].content => r[j].name = s[k].name
RanInOrder ==
  NoRenames =>
    \A i \in Instances : pc[i] = "up" =>
      \A j, k \in DOMAIN release[i] : j < k =>
        \A b, c \in DOMAIN log :
          RanIn(b, release[i][j].name) /\ RanIn(c, release[i][k].name) => b <= c

\* Instances that migrate together do it as if one after the other, each at
\* once or not at all.
AtOnce == INSTANCE Ledger
ImplementsLedger == AtOnce!Spec

\* The insert of i waits for the transaction of j.
Waits(i, j) ==
  /\ pc[i] = "append" /\ tx[i] = "open"
  /\ i # j /\ HasName(j, NextName(i))

\* What an instance waits for when it starts is there, or can be done by somebody
\* else: a pool of two connections leaves it one, and there is no circle of
\* instances, of whatever releases, each of which waits for a row of the next.
StartsGoOn ==
  /\ PoolSize > 1 =>
       \A i \in Instances : pc[i] \in {"connect", "setup"} => conns[i] < PoolSize
  /\ \A S \in (SUBSET Instances) \ {{}} : \E j \in S : \A i \in S : ~Waits(i, j)

\* An instance that starts comes up or ends: the connection it keeps leaves it
\* one to migrate with, and no two wait for each other's rows.
StartsEnd == \A i \in Instances : Starting(i) ~> ~Starting(i)
=============================================================================
