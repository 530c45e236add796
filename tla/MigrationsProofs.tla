------------------------- MODULE MigrationsProofs -------------------------
(* Safety of Migrations, and that it implements Ledger, for any instances, *)
(* any releases and any size of the pool.                                  *)
EXTENDS Migrations, WellFoundedInduction, TLAPS

LEMMA SeqFacts ==
  ASSUME NEW S, NEW s \in Seq(S)
  PROVE  DOMAIN s = 1..Len(s) /\ Len(s) \in Nat /\ \A k \in DOMAIN s : s[k] \in S
OBVIOUS

LEMMA ReleaseFacts ==
  ASSUME NEW r \in Releases
  PROVE  /\ DOMAIN r = 1..Len(r) /\ Len(r) \in Nat
         /\ \A k \in DOMAIN r : r[k].name \in Nat /\ r[k].content \in STRING
         /\ \A j, k \in DOMAIN r : r[j].name = r[k].name => j = k
<1>1. r \in Seq([name : Nat, content : STRING])
  BY ReleasesAssumption DEF ReleasesAssumption
<1>2. DOMAIN r = 1..Len(r) /\ Len(r) \in Nat /\ \A k \in DOMAIN r : r[k] \in [name : Nat, content : STRING]
  BY <1>1, SeqFacts
<1>3. \A j, k \in DOMAIN r : j < k => r[j].name < r[k].name
  BY ReleasesAssumption DEF ReleasesAssumption
<1> QED BY <1>2, <1>3

LEMMA RowName == \A r, k : Row(r, k).name = r[k].name
BY DEF Row

LEMMA RowType ==
  ASSUME NEW r \in Releases, NEW k \in DOMAIN r
  PROVE  Row(r, k) \in [name : Nat, hash : Seq(STRING)]
<1>1. k \in Nat /\ 1..k \subseteq DOMAIN r
  BY ReleaseFacts
<1>2. [j \in 1..k |-> r[j].content] \in Seq(STRING)
  BY <1>1, ReleaseFacts
<1> QED BY <1>2, ReleaseFacts DEF Row, Hash

\* What a batch adds to the log.
LEMMA BatchAdded ==
  ASSUME log \in Seq(Batches), NEW r \in Releases, NEW which \in SUBSET (Nat \ {0}),
         log' = AddBatch(log, r, which)
  PROVE  /\ log' \in Seq(Batches)
         /\ which = {} => log' = log
         /\ which # {} =>
              /\ DOMAIN log' = DOMAIN log \cup {Len(log) + 1}
              /\ Len(log) + 1 \notin DOMAIN log
              /\ \A b \in DOMAIN log : log'[b] = log[b]
              /\ log'[Len(log) + 1] = [files |-> r, ran |-> which]
<1>1. CASE which = {}
  BY <1>1 DEF AddBatch
<1>2. CASE which # {}
  <2> DEFINE b == [files |-> r, ran |-> which]
  <2>1. b \in Batches /\ log' = Append(log, b)
    BY <1>2 DEF AddBatch, Batches
  <2> HIDE DEF b
  <2>2. /\ log' \in Seq(Batches) /\ DOMAIN log' = DOMAIN log \cup {Len(log) + 1}
        /\ Len(log) + 1 \notin DOMAIN log /\ log'[Len(log) + 1] = b
        /\ \A c \in DOMAIN log : log'[c] = log[c]
    BY <2>1
  <2> QED BY <1>2, <2>2 DEF b
<1> QED BY <1>1, <1>2
-----------------------------------------------------------------------------
\* What ends a transaction, or a process, keeps the types.
LEMMA ExitType ==
  ASSUME TypeOK, NEW i \in Instances, Exit(i)
  PROVE  TypeOK'
BY PoolAssumption DEF PoolAssumption, TypeOK, Exit, Goto, EndTx, database, Stages

LEMMA CommitRowsType ==
  ASSUME TypeOK, NEW i \in Instances, CommitRows(i), mine[i] \subseteq DOMAIN release[i]
  PROVE  /\ rows' \subseteq [name : Nat, hash : Seq(STRING)] /\ log' \in Seq(Batches)
         /\ next' \in [Instances -> Nat \ {0}] /\ release' = release
         /\ tx' \in [Instances -> {"none", "open", "broken"}]
         /\ ran' \in [Instances -> SUBSET (Nat \ {0})] /\ mine' \in [Instances -> SUBSET (Nat \ {0})]
<1>1. release[i] \in Releases /\ ran[i] \in SUBSET (Nat \ {0}) /\ log \in Seq(Batches)
  BY DEF TypeOK
<1>2. {Row(release[i], k) : k \in mine[i]} \subseteq [name : Nat, hash : Seq(STRING)]
  BY <1>1, RowType
<1>3. rows' \subseteq [name : Nat, hash : Seq(STRING)]
  BY <1>2 DEF CommitRows, TypeOK
<1>4. log' \in Seq(Batches)
  BY <1>1, BatchAdded DEF CommitRows
<1> QED BY <1>3, <1>4 DEF CommitRows, EndTx, TypeOK

(* The invariant.  A transaction has run what it has recorded, and the file *)
(* it is about to record; each file before the one it is at is recorded by *)
(* it or in the table, with the same hash; and nobody else can have or     *)
(* commit the names it has recorded.  A process has one connection from the *)
(* test of the database on, and a second one while it migrates.            *)
Seen(i) ==
  \A k \in DOMAIN release[i] : k < next[i] => k \in mine[i] \/ Row(release[i], k) \in rows
Alone(i) == \A k \in mine[i] : \A w \in rows : w.name # release[i][k].name

Taken(i) ==
  conns[i] = IF pc[i] \in {"off", "connect"} THEN 0
             ELSE IF pc[i] \in {"setup", "up"} THEN 1 ELSE 2

InTx(i) ==
  /\ mine[i] \subseteq DOMAIN release[i]
  /\ ran[i] = mine[i] \cup (IF tx[i] = "open" /\ pc[i] = "append" THEN {next[i]} ELSE {})
  /\ tx[i] # "open" => mine[i] = {}
  /\ pc[i] \in {"exec", "append"} => next[i] \in DOMAIN release[i]
  /\ pc[i] \in {"check", "exec", "append"} <=> tx[i] # "none"
  /\ tx[i] = "open" => Seen(i)
  /\ tx[i] = "none" => next[i] = 1
  /\ Alone(i) /\ Taken(i)
Exclusive ==
  \A i, j \in Instances : i # j =>
    \A k \in mine[i], l \in mine[j] : release[i][k].name # release[j][l].name

TxInv == TypeOK /\ Exclusive /\ \A i \in Instances : InTx(i)

\* Every variable keeps its type.
LEMMA TypeStep == TxInv /\ [Next]_vars => TypeOK'
<1> SUFFICES ASSUME TxInv, [Next]_vars PROVE TypeOK'
  OBVIOUS
<1>0. TypeOK /\ \A i \in Instances : mine[i] \subseteq DOMAIN release[i]
  BY DEF TxInv, InTx
<1> USE PoolAssumption, <1>0 DEF PoolAssumption, database, process, session, Goto, Stages
<1>1. ASSUME NEW i \in Instances, NEW r \in Releases, Start(i, r) PROVE TypeOK'
  BY <1>1 DEF Start, TypeOK
<1>2. ASSUME NEW i \in Instances, Exit(i) PROVE TypeOK'
  BY <1>2, ExitType
<1>3. ASSUME NEW i \in Instances, Connect(i) \/ Setup(i) PROVE TypeOK'
  <2>1. conns' \in [Instances -> 0..PoolSize]
    <3>1. conns[i] \in 0..PoolSize /\ conns[i] < PoolSize /\ conns' = [conns EXCEPT ![i] = conns[i] + 1]
      BY <1>3 DEF Connect, Setup, TypeOK
    <3> QED BY <3>1 DEF TypeOK
  <2>2. pc' \in [Instances -> Stages]
    BY <1>3 DEF Connect, Setup, TypeOK
  <2> QED BY <1>3, <2>1, <2>2 DEF Connect, Setup, TypeOK
<1>4. ASSUME NEW i \in Instances, BeginTx(i) \/ CheckNotApplied(i) PROVE TypeOK'
  BY <1>4 DEF BeginTx, CheckNotApplied, TypeOK
<1>5. ASSUME NEW i \in Instances, CheckApplied(i) PROVE TypeOK'
  <2>1. CASE Exit(i)
    BY <2>1, <1>2
  <2>2. CASE ~Exit(i)
    BY <1>5, <2>2 DEF CheckApplied, TypeOK
  <2> QED BY <2>1, <2>2
<1>6. ASSUME NEW i \in Instances, Exec(i) PROVE TypeOK'
  BY <1>6 DEF Exec, TypeOK
<1>7. ASSUME NEW i \in Instances, AppendRow(i) PROVE TypeOK'
  BY <1>7 DEF AppendRow, TypeOK
<1>8. ASSUME NEW i \in Instances, Commit(i) \/ CommitInDoubt(i) PROVE TypeOK'
  <2>1. CommitRows(i)
    BY <1>8 DEF Commit, CommitInDoubt
  <2>2. pc' \in [Instances -> Stages]
    BY <1>8 DEF Commit, CommitInDoubt, TypeOK
  <2>3. conns' \in [Instances -> 0..PoolSize]
    <3>1. conns[i] = 2 /\ conns[i] \in 0..PoolSize
      BY <1>8 DEF Commit, CommitInDoubt, CommitRows, Committing, TxInv, InTx, Taken, TypeOK
    <3>2. conns' = [conns EXCEPT ![i] = conns[i] - 1] \/ conns' = [conns EXCEPT ![i] = 0]
      BY <1>8 DEF Commit, CommitInDoubt
    <3>3. 0 \in 0..PoolSize /\ conns[i] - 1 \in 0..PoolSize
      BY <3>1
    <3> HIDE PoolAssumption
    <3> QED BY <3>2, <3>3 DEF TypeOK
  <2> QED BY <2>1, <2>2, <2>3, CommitRowsType DEF TypeOK
<1>9. ASSUME NEW i \in Instances, LoseConnection(i) PROVE TypeOK'
  BY <1>9 DEF LoseConnection, TypeOK
<1>10. CASE UNCHANGED vars
  BY <1>10 DEF vars, TypeOK
<1> QED
  BY <1>1, <1>2, <1>3, <1>4, <1>5, <1>6, <1>7, <1>8, <1>9, <1>10
  DEF Next, Step, ConnectFails, SetupFails, StatementFails, Crash
-----------------------------------------------------------------------------
(* One step of an instance, and the others.                                *)
MyVars(i) == <<pc[i], release[i], next[i], conns[i], tx[i], ran[i], mine[i]>>

\* Who does not step, and sees no new row with a name of its own, stays.
LEMMA OtherStays ==
  ASSUME NEW j \in Instances, InTx(j), MyVars(j)' = MyVars(j), rows \subseteq rows', Alone(j)'
  PROVE  InTx(j)'
BY DEF InTx, MyVars, Seen, Taken

LEMMA AloneStays ==
  ASSUME NEW j \in Instances, Alone(j), MyVars(j)' = MyVars(j), UNCHANGED rows
  PROVE  Alone(j)'
BY DEF Alone, MyVars

\* A step changes what belongs to one instance.
LEMMA OneSteps ==
  ASSUME TypeOK, NEW i \in Instances,
         \/ Step(i) \/ LoseConnection(i) \/ Crash(i)
         \/ \E r \in Releases : Start(i, r)
  PROVE  \A j \in Instances : j # i => MyVars(j)' = MyVars(j)
<1>1. ASSUME NEW j \in Instances, j # i, Exit(i) PROVE MyVars(j)' = MyVars(j)
  BY <1>1 DEF Exit, EndTx, Goto, MyVars, TypeOK
<1>2. ASSUME NEW j \in Instances, j # i, CommitRows(i) /\ (Commit(i) \/ CommitInDoubt(i))
      PROVE  MyVars(j)' = MyVars(j)
  BY <1>2 DEF CommitRows, Commit, CommitInDoubt, EndTx, Goto, MyVars, TypeOK
<1>3. ASSUME NEW j \in Instances, j # i, NEW r \in Releases,
             \/ Start(i, r) \/ Connect(i) \/ Setup(i) \/ BeginTx(i) \/ CheckNotApplied(i)
             \/ Exec(i) \/ AppendRow(i) \/ LoseConnection(i)
      PROVE  MyVars(j)' = MyVars(j)
  BY <1>3
  DEF Start, Connect, Setup, BeginTx, CheckNotApplied, Exec, AppendRow, LoseConnection, Goto,
      MyVars, TypeOK, process, session
<1>4. ASSUME NEW j \in Instances, j # i, CheckApplied(i) PROVE MyVars(j)' = MyVars(j)
  BY <1>1, <1>4 DEF CheckApplied, MyVars, TypeOK, session
<1> QED
  BY <1>1, <1>2, <1>3, <1>4
  DEF Step, ConnectFails, SetupFails, StatementFails, Crash, Commit, CommitInDoubt, TypeOK
-----------------------------------------------------------------------------
\* The invariant of the instance that steps.
LEMMA MyStep ==
  ASSUME TxInv, NEW i \in Instances,
         \/ Step(i) \/ LoseConnection(i) \/ Crash(i)
         \/ \E r \in Releases : Start(i, r)
  PROVE  InTx(i)'
<1>0. /\ TypeOK /\ InTx(i) /\ release[i] \in Releases /\ next[i] \in Nat \ {0}
      /\ DOMAIN release[i] = 1..Len(release[i]) /\ Len(release[i]) \in Nat
  BY ReleaseFacts DEF TxInv, TypeOK
<1> USE <1>0
<1>1. CASE Exit(i)
  BY <1>1 DEF Exit, EndTx, Goto, database, TypeOK, InTx, Alone, Taken
<1>2. ASSUME NEW r \in Releases, Start(i, r) PROVE InTx(i)'
  <2>1. mine[i] = {} /\ ran[i] = {} /\ next[i] = 1 /\ tx[i] = "none" /\ conns[i] = 0
    BY <1>2 DEF Start, InTx, Taken
  <2> QED BY <1>2, <2>1 DEF Start, Goto, session, database, TypeOK, InTx, Alone, Taken
<1>3. CASE Connect(i) \/ Setup(i)
  <2>1. mine[i] = {} /\ ran[i] = {} /\ next[i] = 1 /\ tx[i] = "none"
    BY <1>3 DEF Connect, Setup, InTx
  <2>2. Taken(i)'
    BY <1>3 DEF Connect, Setup, Goto, InTx, Taken, TypeOK
  <2> QED BY <1>3, <2>1, <2>2 DEF Connect, Setup, Goto, session, database, TypeOK, InTx, Alone
<1>4. CASE BeginTx(i)
  <2>1. mine[i] = {} /\ ran[i] = {} /\ next[i] = 1 /\ conns[i] = 2
    BY <1>4 DEF BeginTx, InTx, Taken
  <2> QED BY <1>4, <2>1 DEF BeginTx, Goto, database, TypeOK, InTx, Alone, Taken, Seen
<1>5. CASE CheckApplied(i) /\ ~Exit(i)
  <2>1. /\ UNCHANGED <<database, pc, release, conns, session>>
        /\ next' = [next EXCEPT ![i] = next[i] + 1]
        /\ Row(release[i], next[i]) \in rows /\ pc[i] = "check" /\ tx[i] = "open"
    BY <1>5 DEF CheckApplied
  <2>2. Seen(i)'
    <3>1. \A k \in DOMAIN release[i] : k < next[i] + 1 => k < next[i] \/ k = next[i]
      OBVIOUS
    <3> QED BY <2>1, <3>1 DEF InTx, Seen, database, session, TypeOK
  <2> QED BY <2>1, <2>2 DEF InTx, Alone, Taken, database, session, TypeOK
<1>6. CASE CheckNotApplied(i)
  <2>1. pc[i] = "check" /\ conns[i] = 2
    BY <1>6 DEF CheckNotApplied, InTx, Taken
  <2> QED BY <1>6, <2>1 DEF CheckNotApplied, Goto, database, session, TypeOK, InTx, Alone, Taken, Seen
<1>7. CASE Exec(i)
  BY <1>7 DEF Exec, Goto, database, TypeOK, InTx, Alone, Taken, Seen
<1>8. CASE AppendRow(i)
  <2>1. /\ UNCHANGED <<database, release, conns, tx, ran>> /\ pc[i] = "append" /\ tx[i] = "open"
        /\ mine'[i] = mine[i] \cup {next[i]} /\ next'[i] = next[i] + 1 /\ pc'[i] = "check"
    BY <1>8 DEF AppendRow, Goto, TypeOK
  <2>2. Seen(i)'
    <3>1. \A k \in DOMAIN release[i] : k < next[i] + 1 => k < next[i] \/ k = next[i]
      OBVIOUS
    <3> QED BY <2>1, <3>1 DEF InTx, Seen, database
  <2>3. Alone(i)'
    BY <1>8, <2>1 DEF AppendRow, IsApplied, NextName, Alone, InTx, database
  <2> QED BY <2>1, <2>2, <2>3 DEF InTx, Taken
<1>9. CASE CommitRows(i) /\ (Commit(i) \/ CommitInDoubt(i))
  <2>1. mine'[i] = {} /\ ran'[i] = {} /\ tx'[i] = "none" /\ next'[i] = 1
    BY <1>9 DEF CommitRows, EndTx, TypeOK
  <2>2. Taken(i)'
    <3>1. conns[i] = 2
      BY <1>9 DEF CommitRows, Committing, InTx, Taken
    <3> QED BY <1>9, <3>1 DEF Commit, CommitInDoubt, Goto, Taken, TypeOK
  <2>3. pc'[i] \in {"up", "off"}
    BY <1>9 DEF Commit, CommitInDoubt, Goto, TypeOK
  <2> QED BY <2>1, <2>2, <2>3 DEF InTx, Alone
<1>10. CASE LoseConnection(i)
  BY <1>10 DEF LoseConnection, database, process, TypeOK, InTx, Alone, Taken
<1> QED
  BY <1>1, <1>2, <1>3, <1>4, <1>5, <1>6, <1>7, <1>8, <1>9, <1>10
  DEF Step, ConnectFails, SetupFails, StatementFails, Crash, Commit, CommitInDoubt

\* A step that commits nothing changes neither table nor log.
LEMMA RowsChange ==
  ASSUME TypeOK, NEW i \in Instances,
         \/ Step(i) \/ LoseConnection(i) \/ Crash(i)
         \/ \E r \in Releases : Start(i, r)
  PROVE  \/ UNCHANGED database /\ (pc'[i] = "up" => pc[i] = "up" /\ release' = release)
         \/ CommitRows(i) /\ release' = release
<1>1. CASE Exit(i)
  BY <1>1 DEF Exit, Goto, TypeOK
<1>2. ASSUME NEW r \in Releases,
             \/ Start(i, r) \/ Connect(i) \/ Setup(i) \/ BeginTx(i) \/ CheckNotApplied(i)
             \/ Exec(i) \/ AppendRow(i)
      PROVE  UNCHANGED database /\ (pc'[i] = "up" => pc[i] = "up" /\ release' = release)
  BY <1>2
  DEF Start, Connect, Setup, BeginTx, CheckNotApplied, Exec, AppendRow, Goto, TypeOK
<1>3. CASE LoseConnection(i)
  BY <1>3 DEF LoseConnection, process
<1>4. CASE CheckApplied(i)
  BY <1>1, <1>4 DEF CheckApplied
<1>5. CASE Commit(i) \/ CommitInDoubt(i)
  BY <1>5 DEF Commit, CommitInDoubt, CommitRows
<1> QED
  BY <1>1, <1>2, <1>3, <1>4, <1>5
  DEF Step, ConnectFails, SetupFails, StatementFails, Crash, TypeOK

\* What is recorded in a transaction is kept as it is or dropped, but for a
\* row that is appended.
LEMMA MineKeptOrDropped ==
  ASSUME TxInv, NEW i \in Instances,
         \/ Step(i) \/ LoseConnection(i) \/ Crash(i)
         \/ \E r \in Releases : Start(i, r)
  PROVE  \/ AppendRow(i)
         \/ \A j \in Instances :
              mine'[j] = {} \/ (mine'[j] = mine[j] /\ release'[j] = release[j])
<1>0. TypeOK
  BY DEF TxInv
<1>1. \A j \in Instances : j # i => mine'[j] = mine[j] /\ release'[j] = release[j]
  BY <1>0, OneSteps DEF MyVars
<1>2. CASE Exit(i) \/ CommitRows(i) \/ LoseConnection(i)
  <2>1. mine'[i] = {}
    BY <1>0, <1>2 DEF Exit, CommitRows, LoseConnection, EndTx, TypeOK
  <2> QED BY <1>1, <2>1
<1>3. ASSUME NEW r \in Releases, Start(i, r) PROVE mine'[i] = {}
  BY <1>3 DEF Start, session, TxInv, InTx
<1>4. CASE Connect(i) \/ Setup(i) \/ BeginTx(i) \/ CheckNotApplied(i) \/ Exec(i)
  BY <1>1, <1>4 DEF Connect, Setup, BeginTx, CheckNotApplied, Exec, session
<1>5. CASE CheckApplied(i)
  BY <1>1, <1>2, <1>5 DEF CheckApplied, session
<1> QED
  BY <1>1, <1>2, <1>3, <1>4, <1>5
  DEF Step, ConnectFails, SetupFails, StatementFails, Crash, Commit, CommitInDoubt

LEMMA ExclusiveStep ==
  ASSUME TxInv, NEW i \in Instances,
         \/ Step(i) \/ LoseConnection(i) \/ Crash(i)
         \/ \E r \in Releases : Start(i, r)
  PROVE  Exclusive'
<1>1. CASE AppendRow(i)
  <2>1. \A j \in Instances : mine'[j] = IF j = i THEN mine[i] \cup {next[i]} ELSE mine[j]
    BY <1>1 DEF AppendRow, TxInv, TypeOK
  <2>2. \A j \in Instances \ {i} : \A l \in mine[j] : release[j][l].name # release[i][next[i]].name
    BY <1>1 DEF AppendRow, HasName, NextName
  <2> QED BY <1>1, <2>1, <2>2 DEF AppendRow, TxInv, Exclusive
<1>2. CASE ~AppendRow(i)
  BY <1>2, MineKeptOrDropped DEF TxInv, Exclusive
<1> QED BY <1>1, <1>2

LEMMA TxStep == TxInv /\ [Next]_vars => TxInv'
<1> SUFFICES ASSUME TxInv, [Next]_vars PROVE TxInv'
  OBVIOUS
<1>1. TypeOK'
  BY TypeStep
<1>2. CASE UNCHANGED vars
  BY <1>1, <1>2
  DEF vars, database, process, session, TxInv, Exclusive, InTx, Seen, Alone, Taken
<1>3. ASSUME NEW i \in Instances,
             \/ Step(i) \/ LoseConnection(i) \/ Crash(i)
             \/ \E r \in Releases : Start(i, r)
      PROVE  TxInv'
  <2>1. Exclusive' /\ InTx(i)'
    BY <1>3, ExclusiveStep, MyStep
  <2>2. ASSUME NEW j \in Instances, j # i PROVE InTx(j)'
    <3>1. MyVars(j)' = MyVars(j) /\ InTx(j) /\ Alone(j)
      BY <1>3, <2>2, OneSteps DEF TxInv, InTx
    <3>2. CASE UNCHANGED database
      BY <3>1, <3>2, AloneStays, OtherStays DEF database
    <3>3. CASE CommitRows(i)
      <4>1. rows' = rows \cup {Row(release[i], k) : k \in mine[i]}
        BY <3>3 DEF CommitRows
      <4>2. Alone(j)'
        BY <2>2, <3>1, <4>1, RowName DEF Alone, MyVars, TxInv, Exclusive
      <4> QED BY <3>1, <4>1, <4>2, OtherStays
    <3> QED BY <1>3, <3>2, <3>3, RowsChange DEF TxInv
  <2> QED BY <1>1, <2>1, <2>2 DEF TxInv
<1> QED BY <1>2, <1>3 DEF Next

LEMMA TxInit == Init => TxInv
<1> SUFFICES ASSUME Init PROVE TxInv
  OBVIOUS
<1>1. TypeOK
  BY PoolAssumption DEF PoolAssumption, Init, TypeOK, Stages
<1>2. Exclusive /\ \A i \in Instances : InTx(i)
  BY DEF Init, Exclusive, InTx, Alone, Taken
<1> QED BY <1>1, <1>2 DEF TxInv

\* The types of the variables hold, whoever starts, fails or crashes.
THEOREM TypeCorrect == Spec => []TypeOK
<1>1. TxInv => TypeOK
  BY DEF TxInv
<1> QED BY TxInit, TxStep, <1>1, PTL DEF Spec
-----------------------------------------------------------------------------
(* What a commit does.                                                     *)
\* It records what it has run, which is all that the release misses, and the
\* rest of the release is in the table.
LEMMA CommitIsComplete ==
  ASSUME TxInv, NEW i \in Instances, CommitRows(i)
  PROVE  /\ ran[i] = mine[i] /\ mine[i] \subseteq DOMAIN release[i]
         /\ mine[i] = AtOnce!Missing(release[i])
         /\ \A k \in DOMAIN release[i] \ mine[i] : Row(release[i], k) \in rows
<1>1. /\ InTx(i) /\ release[i] \in Releases /\ next[i] \in Nat \ {0}
      /\ next[i] \notin DOMAIN release[i] /\ pc[i] = "check" /\ tx[i] = "open"
  BY DEF CommitRows, Committing, TxInv, TypeOK
<1>2. \A k \in DOMAIN release[i] : k < next[i]
  BY <1>1, ReleaseFacts
<1>3. ran[i] = mine[i] /\ mine[i] \subseteq DOMAIN release[i] /\ Alone(i)
  BY <1>1 DEF InTx
<1>4. \A k \in DOMAIN release[i] \ mine[i] : Row(release[i], k) \in rows
  BY <1>1, <1>2 DEF InTx, Seen
<1>5. mine[i] = AtOnce!Missing(release[i])
  BY <1>3, <1>4, RowName DEF Alone, AtOnce!Missing
<1> QED BY <1>3, <1>4, <1>5

\* A step of Next commits, or changes neither table nor log.
LEMMA NextCommits ==
  ASSUME TypeOK, [Next]_vars
  PROVE  \/ UNCHANGED database
         \/ \E i \in Instances : CommitRows(i)
<1>1. CASE UNCHANGED vars
  BY <1>1 DEF vars
<1>2. CASE Next
  BY <1>2, RowsChange DEF Next
<1> QED BY <1>1, <1>2

\* Instances that start together change the database as if one after the
\* other, each at once or not at all: Migrations implements Ledger.
THEOREM Implements == Spec => ImplementsLedger
<1>1. Init => AtOnce!Init
  BY DEF Init, AtOnce!Init
<1>2. TxInv /\ [Next]_vars => [AtOnce!Next]_(AtOnce!vars)
  <2> SUFFICES ASSUME TxInv, [Next]_vars PROVE [AtOnce!Next]_(AtOnce!vars)
    OBVIOUS
  <2>1. CASE UNCHANGED database
    BY <2>1 DEF database, AtOnce!vars
  <2>2. ASSUME NEW i \in Instances, CommitRows(i) PROVE AtOnce!Next
    <3>1. release[i] \in Releases
      BY DEF TxInv, TypeOK
    <3>2. AtOnce!Migrate(release[i])
      BY <2>2, CommitIsComplete
      DEF CommitRows, AtOnce!Migrate, AtOnce!AddBatch, AddBatch, AtOnce!Row, Row, AtOnce!Hash, Hash
    <3> QED BY <3>1, <3>2 DEF AtOnce!Next
  <2> QED BY <2>1, <2>2, NextCommits DEF TxInv
<1> QED BY TxInit, TxStep, <1>1, <1>2, PTL DEF Spec, ImplementsLedger, AtOnce!Spec
-----------------------------------------------------------------------------
(* The table and the log.  Names are unique in the table, and a batch has  *)
(* in it, or in batches before, all files of its release.                  *)
UniqueNames == \A v, w \in rows : v.name = w.name => v = w
Complete ==
  \A c \in DOMAIN log : \A k \in DOMAIN log[c].files :
    \E b \in DOMAIN log : b <= c /\ RanIn(b, log[c].files[k].name)
OwnFiles == \A c \in DOMAIN log : log[c].ran \subseteq DOMAIN log[c].files

LogInv == TxInv /\ AppliedOnce /\ UpIsMigrated /\ UniqueNames /\ Complete /\ OwnFiles

\* The names that a batch has run are in the table.
LEMMA RanIsRecorded ==
  ASSUME AppliedOnce, NEW b \in DOMAIN log, NEW n, RanIn(b, n)
  PROVE  \E w \in rows : w.name = n
BY RowName DEF AppliedOnce, RanIn

\* What a commit adds, put together.
LEMMA CommitAdds ==
  ASSUME TxInv, NEW i \in Instances, CommitRows(i)
  PROVE  /\ rows \subseteq rows' /\ \A k \in mine[i] : Row(release[i], k) \in rows'
         /\ \A w \in rows' : w \in rows \/ \E k \in mine[i] : w = Row(release[i], k)
         /\ \A k \in mine[i] : \A w \in rows : w.name # release[i][k].name
         /\ mine[i] \subseteq DOMAIN release[i] /\ release[i] \in Releases
         /\ \A k \in DOMAIN release[i] : Row(release[i], k) \in rows'
         /\ DOMAIN log = 1..Len(log) /\ Len(log) \in Nat
<1>1. release[i] \in Releases /\ log \in Seq(Batches) /\ Alone(i)
  BY DEF TxInv, TypeOK, InTx
<1>2. mine[i] \subseteq DOMAIN release[i] /\ \A k \in DOMAIN release[i] \ mine[i] : Row(release[i], k) \in rows
  BY CommitIsComplete
<1>3. rows' = rows \cup {Row(release[i], k) : k \in mine[i]}
  BY DEF CommitRows
<1>4. DOMAIN log = 1..Len(log) /\ Len(log) \in Nat
  BY <1>1, SeqFacts
<1>5. /\ rows \subseteq rows' /\ \A k \in mine[i] : Row(release[i], k) \in rows'
      /\ \A w \in rows' : w \in rows \/ \E k \in mine[i] : w = Row(release[i], k)
  BY <1>3
<1>6. \A k \in DOMAIN release[i] : Row(release[i], k) \in rows'
  BY <1>2, <1>5
<1> QED BY <1>1, <1>2, <1>4, <1>5, <1>6 DEF Alone

\* And to the log.
LEMMA CommitLogs ==
  ASSUME TxInv, NEW i \in Instances, CommitRows(i)
  PROVE  \/ mine[i] = {} /\ log' = log
         \/ /\ DOMAIN log' = DOMAIN log \cup {Len(log) + 1}
            /\ Len(log) + 1 \notin DOMAIN log
            /\ \A b \in DOMAIN log : log'[b] = log[b]
            /\ log'[Len(log) + 1].files = release[i] /\ log'[Len(log) + 1].ran = mine[i]
<1>1. release[i] \in Releases /\ log \in Seq(Batches) /\ mine[i] \in SUBSET (Nat \ {0})
  BY DEF TxInv, TypeOK
<1>2. log' = AddBatch(log, release[i], mine[i])
  BY CommitIsComplete DEF CommitRows
<1>3. /\ mine[i] = {} => log' = log
      /\ mine[i] # {} =>
           /\ DOMAIN log' = DOMAIN log \cup {Len(log) + 1}
           /\ Len(log) + 1 \notin DOMAIN log
           /\ \A b \in DOMAIN log : log'[b] = log[b]
           /\ log'[Len(log) + 1] = [files |-> release[i], ran |-> mine[i]]
  BY <1>1, <1>2, BatchAdded
<1> QED BY <1>3

LEMMA CommitUnique ==
  ASSUME TxInv, UniqueNames, NEW i \in Instances, CommitRows(i)
  PROVE  UniqueNames'
<1>1. \A j, k \in mine[i] : release[i][j].name = release[i][k].name => j = k
  <2>1. mine[i] \subseteq DOMAIN release[i] /\ release[i] \in Releases
    BY CommitAdds
  <2> QED BY <2>1, ReleaseFacts
<1>2. /\ \A w \in rows' : w \in rows \/ \E k \in mine[i] : w = Row(release[i], k)
      /\ \A k \in mine[i] : \A w \in rows : w.name # release[i][k].name
  BY CommitAdds
<1>3. ASSUME NEW v \in rows', NEW w \in rows', v.name = w.name PROVE v = w
  <2>1. CASE v \in rows /\ w \in rows
    BY <1>3, <2>1 DEF UniqueNames
  <2>2. CASE v \notin rows \/ w \notin rows
    BY <1>1, <1>2, <1>3, <2>2, RowName
  <2> QED BY <2>1, <2>2
<1> QED BY <1>3 DEF UniqueNames

LEMMA CommitOnce ==
  ASSUME TxInv, AppliedOnce, NEW i \in Instances, CommitRows(i)
  PROVE  AppliedOnce'
<1> PICK n : n = Len(log) + 1
  OBVIOUS
<1>0. /\ rows \subseteq rows' /\ \A k \in mine[i] : Row(release[i], k) \in rows'
      /\ \A w \in rows' : w \in rows \/ \E k \in mine[i] : w = Row(release[i], k)
      /\ \A k \in mine[i] : \A w \in rows : w.name # release[i][k].name
  BY CommitAdds
<1>1. CASE mine[i] = {} /\ log' = log
  <2>1. rows' = rows
    BY <1>0, <1>1
  <2> QED BY <1>1, <2>1 DEF AppliedOnce, RanIn
<1>2. CASE /\ DOMAIN log' = DOMAIN log \cup {n} /\ n \notin DOMAIN log
           /\ \A b \in DOMAIN log : log'[b] = log[b]
           /\ log'[n].files = release[i] /\ log'[n].ran = mine[i]
  <2>2. \A b \in DOMAIN log : \A m : RanIn(b, m)' <=> RanIn(b, m)
    BY <1>2 DEF RanIn
  <2>3. \A m : RanIn(n, m)' <=> \E k \in mine[i] : release[i][k].name = m
    BY <1>2 DEF RanIn
  <2>4. \A b \in DOMAIN log' : \A k \in log'[b].ran : Row(log'[b].files, k) \in rows'
    BY <1>0, <1>2 DEF AppliedOnce
  <2>5. \A w \in rows' : \E b \in DOMAIN log' : RanIn(b, w.name)'
    <3>1. ASSUME NEW w \in rows PROVE \E b \in DOMAIN log' : RanIn(b, w.name)'
      BY <1>2, <2>2 DEF AppliedOnce
    <3>2. ASSUME NEW w, NEW k \in mine[i], w = Row(release[i], k)
          PROVE  \E b \in DOMAIN log' : RanIn(b, w.name)'
      <4>1. RanIn(n, w.name)'
        BY <2>3, <3>2, RowName
      <4> QED BY <1>2, <4>1
    <3> QED BY <1>0, <3>1, <3>2
  <2>6. ASSUME NEW b \in DOMAIN log', NEW c \in DOMAIN log', NEW w \in rows',
               RanIn(b, w.name)', RanIn(c, w.name)'
        PROVE  b = c
    <3>1. CASE b \in DOMAIN log /\ c \in DOMAIN log
      BY <2>2, <2>6, <3>1, RanIsRecorded DEF AppliedOnce
    <3>2. ASSUME NEW a \in DOMAIN log, RanIn(a, w.name)', RanIn(n, w.name)' PROVE FALSE
      <4>1. PICK k \in mine[i] : release[i][k].name = w.name
        BY <2>3, <3>2
      <4>2. RanIn(a, w.name)
        BY <2>2, <3>2
      <4>3. \E v \in rows : v.name = w.name
        BY <4>2, RanIsRecorded
      <4> QED BY <1>0, <4>1, <4>3
    <3> QED BY <1>2, <2>6, <3>1, <3>2
  <2> QED BY <2>4, <2>5, <2>6 DEF AppliedOnce
<1> QED BY <1>1, <1>2, CommitLogs

LEMMA CommitOrdered ==
  ASSUME TxInv, AppliedOnce, Complete, NEW i \in Instances, CommitRows(i)
  PROVE  Complete'
<1> PICK n : n = Len(log) + 1
  OBVIOUS
<1>0. /\ n \in Nat /\ \A b \in DOMAIN log : b \in Nat /\ b <= n
      /\ \A k \in DOMAIN release[i] : Row(release[i], k) \in rows'
  BY CommitAdds
<1>1. CASE mine[i] = {} /\ log' = log
  BY <1>1 DEF Complete, RanIn
<1>2. CASE /\ DOMAIN log' = DOMAIN log \cup {n} /\ n \notin DOMAIN log
           /\ \A b \in DOMAIN log : log'[b] = log[b]
           /\ log'[n].files = release[i] /\ log'[n].ran = mine[i]
  <2>2. \A b \in DOMAIN log : \A m : RanIn(b, m) => RanIn(b, m)'
    BY <1>2 DEF RanIn
  <2>3. ASSUME NEW k \in DOMAIN release[i], NEW m, m = release[i][k].name
        PROVE  \E b \in DOMAIN log' : b <= n /\ RanIn(b, m)'
    <3> PICK w : w = Row(release[i], k)
      OBVIOUS
    <3>1. w \in rows' /\ w.name = m /\ AppliedOnce'
      BY <1>0, <2>3, CommitOnce, RowName
    <3>2. PICK b \in DOMAIN log' : RanIn(b, w.name)'
      BY <3>1 DEF AppliedOnce
    <3> QED BY <1>0, <1>2, <3>1, <3>2
  <2>4. ASSUME NEW c \in DOMAIN log, NEW k \in DOMAIN log[c].files, NEW m, m = log[c].files[k].name
        PROVE  \E b \in DOMAIN log' : b <= c /\ RanIn(b, m)'
    BY <1>2, <2>2, <2>4 DEF Complete
  <2>5. ASSUME NEW c \in DOMAIN log', NEW k \in DOMAIN log'[c].files
        PROVE  (\E b \in DOMAIN log : b <= c /\ RanIn(b, log[c].files[k].name))'
    <3> PICK m : m = log'[c].files[k].name
      OBVIOUS
    <3>1. \E b \in DOMAIN log' : b <= c /\ RanIn(b, m)'
      BY <1>2, <2>3, <2>4
    <3> QED BY <3>1
  <2> QED BY <2>5 DEF Complete
<1> QED BY <1>1, <1>2, CommitLogs

LEMMA CommitOwn ==
  ASSUME TxInv, OwnFiles, NEW i \in Instances, CommitRows(i)
  PROVE  OwnFiles'
<1>1. mine[i] \subseteq DOMAIN release[i]
  BY CommitAdds
<1> QED BY <1>1, CommitLogs DEF OwnFiles

\* Programs that are up keep the files they have found.
LEMMA UpStep ==
  ASSUME TxInv, UpIsMigrated, [Next]_vars
  PROVE  UpIsMigrated'
<1>1. CASE UNCHANGED vars
  BY <1>1 DEF vars, database, process, UpIsMigrated
<1>2. ASSUME NEW i \in Instances,
             \/ Step(i) \/ LoseConnection(i) \/ Crash(i)
             \/ \E r \in Releases : Start(i, r)
      PROVE  UpIsMigrated'
  <2>1. \A j \in Instances : j # i => pc'[j] = pc[j] /\ release'[j] = release[j]
    BY <1>2, OneSteps DEF TxInv, MyVars
  <2>2. CASE UNCHANGED database /\ (pc'[i] = "up" => pc[i] = "up" /\ release' = release)
    BY <2>1, <2>2 DEF UpIsMigrated, database
  <2>3. CASE CommitRows(i) /\ release' = release
    <3>1. rows \subseteq rows' /\ \A k \in DOMAIN release[i] : Row(release[i], k) \in rows'
      BY <2>3, CommitAdds
    <3> QED BY <2>1, <2>3, <3>1 DEF UpIsMigrated
  <2> QED BY <1>2, <2>2, <2>3, RowsChange DEF TxInv
<1> QED BY <1>1, <1>2 DEF Next

LEMMA LogStep == LogInv /\ [Next]_vars => LogInv'
<1> SUFFICES ASSUME LogInv, [Next]_vars PROVE LogInv'
  OBVIOUS
<1>1. TxInv' /\ UpIsMigrated'
  BY TxStep, UpStep DEF LogInv
<1>2. CASE UNCHANGED database
  BY <1>1, <1>2 DEF LogInv, database, AppliedOnce, UniqueNames, Complete, OwnFiles, RanIn
<1>3. ASSUME NEW i \in Instances, CommitRows(i) PROVE LogInv'
  BY <1>1, <1>3, CommitOnce, CommitUnique, CommitOrdered, CommitOwn DEF LogInv
<1> QED BY <1>2, <1>3, NextCommits DEF LogInv, TxInv

LEMMA LogInit == Init => LogInv
BY TxInit DEF Init, LogInv, AppliedOnce, UpIsMigrated, UniqueNames, Complete, OwnFiles

LEMMA LogAlways == Spec => []LogInv
BY LogInit, LogStep, PTL DEF Spec

\* What is run is recorded with it, and nothing is run twice.
THEOREM FilesRunOnce == Spec => []AppliedOnce
<1>1. LogInv => AppliedOnce
  BY DEF LogInv
<1> QED BY LogAlways, <1>1, PTL

\* A program that is up finds its files in the database, at any time.
THEOREM UpMeansMigrated == Spec => []UpIsMigrated
<1>1. LogInv => UpIsMigrated
  BY DEF LogInv
<1> QED BY LogAlways, <1>1, PTL

\* The chain: who finds a row of its own that another release has left has the
\* files before it in common with that release.
LEMMA SameHashSameFiles ==
  ASSUME NEW r \in Releases, NEW s \in Releases, NEW k \in DOMAIN r, NEW l \in DOMAIN s,
         Row(r, k) = Row(s, l)
  PROVE  k = l /\ \A j \in 1..k : j \in DOMAIN s /\ s[j].content = r[j].content
<1>1. Hash(r, k) = Hash(s, l)
  BY DEF Row
<1>2. k \in Nat /\ l \in Nat /\ 1..l \subseteq DOMAIN s
  BY ReleaseFacts
<1>3. 1..k = 1..l /\ \A j \in 1..k : r[j].content = s[j].content
  BY <1>1 DEF Hash
<1>4. k = l
  <2>1. k \in DOMAIN r /\ l \in DOMAIN s /\ k >= 1 /\ l >= 1
    BY ReleaseFacts
  <2> QED BY <1>2, <1>3, <2>1
<1> QED BY <1>2, <1>3, <1>4

\* The files of a program that is up were run in the order of its release.
THEOREM FilesRunInOrder == Spec => []RanInOrder
<1>1. LogInv => RanInOrder
  <2> SUFFICES ASSUME LogInv, NoRenames, NEW i \in Instances, pc[i] = "up",
                      NEW j \in DOMAIN release[i], NEW k \in DOMAIN release[i], j < k,
                      NEW b \in DOMAIN log, NEW c \in DOMAIN log,
                      RanIn(b, release[i][j].name), RanIn(c, release[i][k].name)
               PROVE  b <= c
    BY DEF RanInOrder
  <2> DEFINE r == release[i]
             s == log[c].files
  <2>1. r \in Releases /\ s \in Releases /\ c \in Nat
    <3>1. log \in Seq(Batches)
      BY DEF LogInv, TxInv, TypeOK
    <3>2. log[c] \in Batches /\ c \in Nat
      BY <3>1, SeqFacts
    <3> QED BY <3>2 DEF LogInv, TxInv, TypeOK, Batches
  <2>2. PICK l \in log[c].ran : s[l].name = r[k].name
    BY DEF RanIn
  <2>3. Row(s, l) \in rows /\ Row(r, k) \in rows /\ Row(r, j) \in rows
    BY DEF LogInv, AppliedOnce, UpIsMigrated
  <2>4. Row(s, l) = Row(r, k)
    BY <2>2, <2>3, RowName DEF LogInv, UniqueNames
  <2>5. j \in DOMAIN s /\ s[j].content = r[j].content
    <3>1. l \in DOMAIN s
      BY <2>2 DEF LogInv, OwnFiles
    <3> QED BY <2>1, <2>4, <3>1, SameHashSameFiles, ReleaseFacts
  <2>6. s[j].name = r[j].name
    BY <2>1, <2>5 DEF NoRenames
  <2>7. PICK a \in DOMAIN log : a <= c /\ RanIn(a, s[j].name)
    BY <2>5 DEF LogInv, Complete
  <2>8. a = b
    BY <2>3, <2>6, <2>7, RowName DEF LogInv, AppliedOnce
  <2> QED BY <2>7, <2>8
<1> QED BY LogAlways, <1>1, PTL
-----------------------------------------------------------------------------
(* StartsGoOn.  An instance has recorded only files before the one it is   *)
(* at, so it waits for a later name than any it keeps others from: along a *)
(* chain of instances that wait the names go up, and never come back.      *)
Before == \A i \in Instances : \A k \in mine[i] : k < next[i]

LEMMA BeforeStep == TxInv /\ Before /\ [Next]_vars => Before'
<1> SUFFICES ASSUME TxInv, Before, [Next]_vars, NEW i \in Instances, NEW k \in mine'[i]
             PROVE  k < next'[i]
  BY DEF Before
<1>0. TypeOK
  BY DEF TxInv
<1>1. ASSUME mine'[i] = {} PROVE FALSE
  BY <1>1
<1>2. ASSUME UNCHANGED <<mine, next>> PROVE k < next'[i]
  BY <1>2 DEF Before
<1>3. ASSUME NEW j \in Instances, EndTx(j), next' = [next EXCEPT ![j] = 1] PROVE k < next'[i]
  BY <1>0, <1>3 DEF EndTx, TypeOK, Before
<1>4. ASSUME NEW j \in Instances, Exit(j) PROVE k < next'[i]
  BY <1>3, <1>4 DEF Exit
<1>5. ASSUME NEW j \in Instances, CheckApplied(j) PROVE k < next'[i]
  <2>1. CASE Exit(j)
    BY <1>4, <2>1
  <2>2. CASE next' = [next EXCEPT ![j] = @ + 1] /\ mine' = mine
    <3>1. k \in mine[i] /\ k < next[i] /\ k \in Nat /\ next[i] \in Nat
      BY <1>0, <2>2 DEF Before, TypeOK
    <3>2. next'[i] \in {next[i], next[i] + 1}
      BY <1>0, <2>2 DEF TypeOK
    <3> QED BY <3>1, <3>2
  <2> QED BY <1>5, <2>1, <2>2 DEF CheckApplied, session
<1>6. ASSUME NEW j \in Instances, AppendRow(j) PROVE k < next'[i]
  <2>1. /\ mine' = [mine EXCEPT ![j] = @ \cup {next[j]}]
        /\ next' = [next EXCEPT ![j] = @ + 1]
    BY <1>6 DEF AppendRow
  <2>2. CASE i # j
    BY <1>0, <2>1, <2>2 DEF Before, TypeOK
  <2>3. CASE i = j
    <3>1. next'[i] = next[i] + 1 /\ next[i] \in Nat
      BY <1>0, <2>1, <2>3 DEF TypeOK
    <3>2. k = next[i] \/ (k \in mine[i] /\ k \in Nat /\ k < next[i])
      BY <1>0, <2>1, <2>3 DEF Before, TypeOK
    <3> QED BY <3>1, <3>2
  <2> QED BY <2>2, <2>3
<1>7. ASSUME NEW j \in Instances, CommitRows(j) PROVE k < next'[i]
  BY <1>3, <1>7 DEF CommitRows
<1>8. ASSUME NEW j \in Instances, LoseConnection(j) PROVE k < next'[i]
  BY <1>0, <1>8 DEF LoseConnection, process, TypeOK, Before
<1>9. ASSUME NEW j \in Instances, Step(j) PROVE k < next'[i]
  BY <1>2, <1>4, <1>5, <1>6, <1>7, <1>9
  DEF Step, Connect, ConnectFails, Setup, SetupFails, BeginTx, CheckNotApplied, Exec,
      StatementFails, Commit, CommitInDoubt, session
<1>10. ASSUME NEW j \in Instances, Crash(j) \/ \E r \in Releases : Start(j, r) PROVE k < next'[i]
  BY <1>2, <1>4, <1>10 DEF Crash, Start, session
<1>11. CASE UNCHANGED vars
  BY <1>2, <1>11 DEF vars, session, process
<1> QED BY <1>8, <1>9, <1>10, <1>11 DEF Next

LEMMA NamesGoUp ==
  ASSUME TxInv, Before, NEW i \in Instances, NEW j \in Instances, NEW l \in Instances,
         Waits(i, j), Waits(j, l)
  PROVE  NextName(i) < NextName(j)
<1>1. PICK k \in mine[j] : release[j][k].name = NextName(i)
  BY DEF Waits, HasName
<1>2. k < next[j]
  BY <1>1 DEF Before
<1>3. k \in DOMAIN release[j] /\ next[j] \in DOMAIN release[j] /\ release[j] \in Releases
  BY <1>1 DEF TxInv, InTx, Waits, TypeOK
<1>4. release[j][k].name < release[j][next[j]].name
  BY <1>2, <1>3, ReleasesAssumption DEF ReleasesAssumption
<1> QED BY <1>1, <1>4 DEF NextName

LEMMA LeastNumber ==
  ASSUME NEW S, S \subseteq Nat, S # {}
  PROVE  \E n \in S : \A m \in S : ~(m < n)
<1>1. PICK n \in S : \A m \in S : <<m, n>> \notin OpToRel(<, Nat)
  BY NatLessThanWellFounded, WFMin
<1>2. \A m \in S : m < n => <<m, n>> \in OpToRel(<, Nat)
  BY DEF OpToRel
<1> QED BY <1>1, <1>2

LEMMA NoCircle ==
  ASSUME TxInv, Before, NEW S, S \subseteq Instances, S # {}
  PROVE  \E j \in S : \A i \in S : ~Waits(i, j)
<1> SUFFICES ASSUME \A j \in S : \E i \in S : Waits(i, j) PROVE FALSE
  OBVIOUS
<1> DEFINE Blocked == {i \in S : \E j \in S : Waits(i, j)}
           Names == {NextName(i) : i \in Blocked}
<1>1. \A j \in S : \E i \in Blocked : Waits(i, j)
  OBVIOUS
<1>2. \A i \in Blocked : NextName(i) \in Nat
  <2> SUFFICES ASSUME NEW i \in Blocked PROVE NextName(i) \in Nat
    OBVIOUS
  <2>1. i \in Instances /\ pc[i] = "append"
    BY DEF Waits
  <2>2. release[i] \in Releases /\ next[i] \in DOMAIN release[i]
    BY <2>1 DEF TxInv, InTx, TypeOK
  <2> QED BY <2>2, ReleaseFacts DEF NextName
<1>3. Names \subseteq Nat /\ Names # {}
  <2>1. PICK i \in Blocked : TRUE
    BY <1>1
  <2>2. NextName(i) \in Names
    BY <2>1
  <2>3. Names \subseteq Nat
    BY <1>2
  <2> QED BY <2>2, <2>3
<1>4. PICK n \in Names : \A m \in Names : ~(m < n)
  BY <1>3, LeastNumber
<1>5. PICK j \in Blocked : NextName(j) = n
  OBVIOUS
<1>6. PICK i \in Blocked : Waits(i, j)
  BY <1>1, <1>5
<1>7. NextName(i) < NextName(j)
  <2>1. PICK l \in S : Waits(j, l)
    BY <1>5
  <2> QED BY <1>5, <1>6, <2>1, NamesGoUp
<1> QED BY <1>4, <1>5, <1>6, <1>7

\* No circle of instances waits for one another's rows, and each has a connection
\* left: the part of StartsEnd that is about every state.
THEOREM StartsAreNotStuck == Spec => []StartsGoOn
<1>1. Init => TxInv /\ Before
  BY TxInit DEF Init, Before
<1>2. (TxInv /\ Before) /\ [Next]_vars => (TxInv /\ Before)'
  BY TxStep, BeforeStep
<1>3. TxInv /\ Before => StartsGoOn
  <2> SUFFICES ASSUME TxInv, Before PROVE StartsGoOn
    OBVIOUS
  <2>1. ASSUME PoolSize > 1, NEW i \in Instances, pc[i] \in {"connect", "setup"}
        PROVE  conns[i] < PoolSize
    <3>1. conns[i] \in {0, 1}
      BY <2>1 DEF TxInv, InTx, Taken
    <3> QED BY <2>1, <3>1, PoolAssumption DEF PoolAssumption
  <2>2. \A S \in (SUBSET Instances) \ {{}} : \E j \in S : \A i \in S : ~Waits(i, j)
    BY NoCircle
  <2> QED BY <2>1, <2>2 DEF StartsGoOn
<1> QED BY <1>1, <1>2, <1>3, PTL DEF Spec
=============================================================================
