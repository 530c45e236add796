------------------------ MODULE RestartServiceProofs ------------------------
(***************************************************************************)
(* What follows from the contract alone, for the clock of whoever keeps it. *)
(***************************************************************************)
EXTENDS RestartService, FiniteSetTheorems, TLAPS

\* Every step keeps the types.
LEMMA TypeStep == TypeOK /\ [Next]_vars => TypeOK'
<1> SUFFICES ASSUME TypeOK, [Next]_vars PROVE TypeOK'
  OBVIOUS
<1> USE DEF TypeOK
<1>1. ASSUME NEW h \in Handlers, NEW c \in Configs, Store(h, c) PROVE TypeOK'
  BY <1>1 DEF Store
<1>2. ASSUME NEW h \in Handlers, Ask(h) PROVE TypeOK'
  BY <1>2 DEF Ask
<1>3. ASSUME NEW h \in Handlers, Take(h) PROVE TypeOK'
  BY <1>3 DEF Take
<1>4. CASE Serve
  BY <1>4 DEF Serve
<1>5. CASE UNCHANGED vars
  BY <1>5 DEF vars
<1> QED BY <1>1, <1>2, <1>3, <1>4, <1>5 DEF Next

\* Types of the contract.
THEOREM TypeCorrect == Spec => []TypeOK
<1>1. Init => TypeOK
  BY DEF Init, TypeOK
<1> QED BY <1>1, TypeStep, PTL DEF Spec

\* How many wait when a handler comes or goes.
LEMMA WaitingCount ==
  ASSUME IsFiniteSet(Handlers), NEW h \in Handlers
  PROVE  /\ Cardinality(Waiting) \in Nat
         /\ h \notin Waiting => Cardinality(Waiting \cup {h}) = Cardinality(Waiting) + 1
         /\ h \in Waiting => Cardinality(Waiting \ {h}) = Cardinality(Waiting) - 1
<1>1. IsFiniteSet(Waiting)
  BY FS_Subset DEF Waiting
<1> QED BY <1>1, FS_CardinalityType, FS_AddElement, FS_RemoveElement

\* Every step keeps the number of answers.
LEMMA AnswerStep ==
  ASSUME IsFiniteSet(Handlers), TypeOK, OneAnswerEach, [Next]_vars
  PROVE  OneAnswerEach'
<1> USE DEF TypeOK, OneAnswerEach
<1>1. ASSUME NEW h \in Handlers, NEW c \in Configs, Store(h, c) PROVE OneAnswerEach'
  <2>1. Waiting' = Waiting
    BY <1>1 DEF Store, Waiting
  <2> QED BY <1>1, <2>1 DEF Store
<1>2. ASSUME NEW h \in Handlers, Ask(h) PROVE OneAnswerEach'
  <2>1. Waiting' = Waiting \cup {h} /\ h \notin Waiting
    BY <1>2 DEF Ask, Waiting
  <2> QED BY <1>2, <2>1, WaitingCount DEF Ask
<1>3. ASSUME NEW h \in Handlers, Take(h) PROVE OneAnswerEach'
  <2>1. Waiting' = Waiting \ {h} /\ h \in Waiting
    BY <1>3 DEF Take, Waiting
  <2> QED BY <1>3, <2>1, WaitingCount DEF Take
<1>4. CASE Serve
  <2>1. Waiting' = Waiting
    BY <1>4 DEF Serve, Waiting
  <2> QED BY <1>4, <2>1 DEF Serve
<1>5. CASE UNCHANGED vars
  BY <1>5 DEF vars, Waiting
<1> QED BY <1>1, <1>2, <1>3, <1>4, <1>5 DEF Next

\* Whoever relies on the contract: those who wait are as many as the restarts
\* to be made and the answers to be taken.
THEOREM AnswersMatch == ASSUME IsFiniteSet(Handlers) PROVE Spec => []OneAnswerEach
<1>1. Init => OneAnswerEach
  <2>1. Init => Waiting = {}
    BY DEF Init, Waiting
  <2> QED BY <2>1, FS_EmptySet DEF Init, OneAnswerEach
<1>2. TypeOK /\ OneAnswerEach /\ [Next]_vars => OneAnswerEach'
  BY AnswerStep
<1> QED BY <1>1, <1>2, TypeCorrect, PTL DEF Spec

\* Every step keeps Settled.
LEMMA SettledStep == TypeOK /\ Settled /\ [Next]_vars => Settled'
<1> SUFFICES ASSUME TypeOK, Settled, [Next]_vars PROVE Settled'
  OBVIOUS
<1> USE DEF TypeOK, Settled, Sending
<1>1. ASSUME NEW h \in Handlers, NEW c \in Configs, Store(h, c) PROVE Settled'
  BY <1>1 DEF Store
<1>2. ASSUME NEW h \in Handlers, Ask(h) PROVE Settled'
  BY <1>2 DEF Ask
<1>3. ASSUME NEW h \in Handlers, Take(h) PROVE Settled'
  <2>1. Sending' = Sending
    BY <1>3 DEF Take
  <2> QED BY <1>3, <2>1 DEF Take
<1>4. CASE Serve
  BY <1>4 DEF Serve
<1>5. CASE UNCHANGED vars
  BY <1>5 DEF vars
<1> QED BY <1>1, <1>2, <1>3, <1>4, <1>5 DEF Next

\* Whoever relies on the contract: with no request to be made and none about to
\* be sent, the clock is on the settings that are stored.
THEOREM SettingsSettle == Spec => []Settled
<1>1. Init => Settled
  BY DEF Init, Settled
<1> QED BY <1>1, SettledStep, TypeCorrect, PTL DEF Spec

\* Whoever relies on the contract: the last one to wait leaves when no restart
\* is still to be made.
THEOREM LastOneIsServed == ASSUME IsFiniteSet(Handlers) PROVE Spec => LastIsServed
<1>1. TypeOK /\ OneAnswerEach
      => [\A h \in Handlers : Take(h) /\ Waiting = {h} => requests = 0]_vars
  <2> SUFFICES ASSUME TypeOK, OneAnswerEach, NEW h \in Handlers, Take(h), Waiting = {h}
               PROVE  requests = 0
    OBVIOUS
  <2>1. Cardinality(Waiting) = 1
    BY FS_Singleton
  <2> QED BY <2>1 DEF TypeOK, OneAnswerEach, Take
<1> QED BY <1>1, TypeCorrect, AnswersMatch, PTL DEF LastIsServed
=============================================================================
