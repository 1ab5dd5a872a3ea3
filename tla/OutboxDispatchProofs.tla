------------------------ MODULE OutboxDispatchProofs ------------------------
(* Theorems about OutboxDispatch, for any events, users, overlapping runs, *)
(* topics and limit.                                                       *)
EXTENDS OutboxDispatch, FiniteSetTheorems, TLAPS

USE OutboxAssumption

-----------------------------------------------------------------------------
(* The inductive invariant.                                                *)

\* A batch fits what remains of the limit and holds rows of a topic that has
\* a handler; the event in the handler's hands has left the batch; what the
\* handler has read, and then saved, covers those the event is owed to.
RunOK(d) ==
  LET x == dispatcher[d] IN
  /\ Cardinality(x.batch) <= x.remaining
  /\ \A e \in x.batch : outbox[e] # "absent" /\ TopicOf[e] # 0
  /\ x.pc = "idle" => x.batch = {}
  /\ x.pc \in {"save", "mark"} =>
       /\ x.event \in Events \ Unsupported
       /\ x.event \notin x.batch
       /\ outbox[x.event] # "absent"
       /\ TopicOf[x.event] # 0
  /\ x.pc = "save" => Owed(x.event) \subseteq x.audience
  /\ x.pc = "mark" => \A u \in Owed(x.event) : notified[x.event][u] >= 1

\* Only a present member has been a member all along.
SteadyOK == \A e \in Events : steady[e] \subseteq members

\* A run that has notified of e and is about to mark it, or that will never
\* notify of e again because it listed its batch after e was processed.
Spent(e) ==
  {d \in Dispatchers :
     \/ dispatcher[d].pc = "mark" /\ dispatcher[d].event = e
     \/ /\ outbox[e] = "processed"
        /\ e \notin dispatcher[d].batch
        /\ ~(dispatcher[d].pc = "save" /\ dispatcher[d].event = e)}

\* Every notification of e is accounted for by a spent run or a lost outcome.
Accounted ==
  \A e \in Events, u \in Users : notified[e][u] <= Cardinality(Spent(e)) + lost[e]

IInv ==
  /\ TypeOK
  /\ \A d \in Dispatchers : RunOK(d)
  /\ SteadyOK
  /\ ProcessedIsDelivered
  /\ RejectedStaysPending
  /\ Accounted

-----------------------------------------------------------------------------
(* Facts about the parts of a state.                                       *)

\* A run that has not started is a run.
LEMMA StoppedType == Stopped \in Runs
BY DEF Stopped, Runs

\* Whoever an event is owed to is in its audience, now.
LEMMA OwedIsAudience ==
  ASSUME SteadyOK, NEW e \in Events PROVE Owed(e) \subseteq Audience(e)
BY DEF SteadyOK, Owed, Audience

\* A set of runs is finite, and a larger one has no fewer members.
LEMMA SpentSize ==
  ASSUME NEW e \in Events
  PROVE  /\ IsFiniteSet(Spent(e)) /\ Cardinality(Spent(e)) \in Nat
         /\ Cardinality(Spent(e)) <= Cardinality(Dispatchers)
         /\ Cardinality(Dispatchers) \in Nat
<1>1. Spent(e) \subseteq Dispatchers
  BY DEF Spent
<1>. QED
  BY <1>1, FS_Subset, FS_CardinalityType

\* A listing fits its limit and holds pending rows of its topic.
LEMMA ListingsFit ==
  ASSUME NEW t \in 0..Topics, NEW n \in Nat, NEW b \in Listings(t, n)
  PROVE  /\ b \in SUBSET Events
         /\ Cardinality(b) <= n
         /\ \A e \in b : outbox[e] = "pending" /\ TopicOf[e] = t
BY DEF Listings, Pending

\* The events that may come next are events of the batch, and the batch gets
\* one smaller without the one that does.
LEMMA EarliestTaken ==
  ASSUME NEW batch \in SUBSET Events, NEW e \in Earliest(batch)
  PROVE  /\ e \in batch
         /\ Cardinality(batch \ {e}) = Cardinality(batch) - 1
         /\ Cardinality(batch) \in Nat \ {0}
<1>1. e \in batch /\ IsFiniteSet(batch)
  BY FS_Subset DEF Earliest
<1>2. Cardinality(batch) \in Nat /\ Cardinality(batch) # 0
  BY <1>1, FS_CardinalityType, FS_EmptySet
<1>. QED
  BY <1>1, <1>2, FS_RemoveElement

-----------------------------------------------------------------------------
(* The tables keep their types.                                            *)

\* Every step keeps the types of the rows and of the history.
LEMMA TablesType ==
  ASSUME IInv, [Next]_vars
  PROVE  /\ outbox' \in [Events -> {"absent", "pending", "processed"}]
         /\ members' \in SUBSET Users
         /\ notified' \in [Events -> [Users -> Nat]]
         /\ steady' \in [Events -> SUBSET Users]
         /\ lost' \in [Events -> Nat]
<1>. USE DEF IInv, TypeOK
<1>1. ASSUME NEW d \in Dispatchers, Save(d) \/ SaveInDoubt(d)
      PROVE  /\ notified' \in [Events -> [Users -> Nat]]
             /\ lost' \in [Events -> Nat]
             /\ UNCHANGED <<outbox, members, steady>>
  <2>. DEFINE e == dispatcher[d].event
  <2>1. e \in Events
    BY <1>1 DEF RunOK, Save, SaveInDoubt
  <2>2. [u \in Users |-> IF u \in dispatcher[d].audience THEN notified[e][u] + 1
                                                        ELSE notified[e][u]]
          \in [Users -> Nat]
    BY <2>1
  <2>3. notified' \in [Events -> [Users -> Nat]]
    BY <1>1, <2>1, <2>2 DEF Save, SaveInDoubt, Notify
  <2>. QED
    <3>1. lost' = lost \/ Lose(e)
      BY <1>1 DEF Save, SaveInDoubt
    <3>2. lost' \in [Events -> Nat]
      BY <2>1, <3>1 DEF Lose
    <3>. QED
      BY <1>1, <2>3, <3>2 DEF Save, SaveInDoubt
<1>2. ASSUME NEW d \in Dispatchers, MarkFails(d) \/ Die(d)
      PROVE  lost' \in [Events -> Nat] /\ UNCHANGED <<outbox, members, notified, steady>>
  BY <1>2 DEF MarkFails, Die, Lose
<1>3. ASSUME NEW d \in Dispatchers, Mark(d)
      PROVE  /\ outbox' \in [Events -> {"absent", "pending", "processed"}]
             /\ UNCHANGED <<members, notified, steady, lost>>
  BY <1>3 DEF Mark
<1>4. ASSUME NEW d \in Dispatchers,
             StartBatch(d) \/ Scan(d) \/ EndBatch(d) \/ Take(d) \/ SaveFails(d)
      PROVE  UNCHANGED <<outbox, members, notified, steady, lost>>
  BY <1>4 DEF StartBatch, Scan, EndBatch, Take, SaveFails
<1>5. ASSUME NEW e \in Events, Publish(e)
      PROVE  /\ outbox' \in [Events -> {"absent", "pending", "processed"}]
             /\ steady' \in [Events -> SUBSET Users]
             /\ UNCHANGED <<members, notified, lost>>
  BY <1>5 DEF Publish
<1>6. ASSUME NEW u \in Users, Join(u) \/ Leave(u)
      PROVE  /\ members' \in SUBSET Users
             /\ steady' \in [Events -> SUBSET Users]
             /\ UNCHANGED <<outbox, notified, lost>>
  BY <1>6 DEF Join, Leave
<1>. QED
  BY <1>1, <1>2, <1>3, <1>4, <1>5, <1>6 DEF Next, Run, Fail, vars

\* Rows stay, nobody becomes owed an event saved earlier, and no notification
\* is taken back.
LEMMA Monotone ==
  ASSUME IInv, [Next]_vars, NEW e \in Events
  PROVE  /\ outbox[e] # "absent" => outbox'[e] # "absent" /\ Owed(e)' \subseteq Owed(e)
         /\ outbox[e] = "processed" => outbox'[e] = "processed"
         /\ \A u \in Users : notified'[e][u] >= notified[e][u]
<1>. USE DEF IInv, TypeOK
<1>0. \A u \in Users : notified[e][u] \in Nat
  OBVIOUS
<1>. DEFINE Stays == \/ outbox'[e] = outbox[e]
                     \/ outbox[e] = "absent"
                     \/ outbox[e] = "pending" /\ outbox'[e] = "processed"
            Shrinks == outbox[e] = "absent" \/ steady'[e] \subseteq steady[e]
            Grows == \A u \in Users : notified'[e][u] >= notified[e][u]
<1>1. ASSUME NEW d \in Dispatchers, Save(d) \/ SaveInDoubt(d)
      PROVE  Grows /\ Stays /\ Shrinks
  <2>1. UNCHANGED <<outbox, steady>> /\ Notify(d)
    BY <1>1 DEF Save, SaveInDoubt
  <2>2. Grows
    BY <1>0, <2>1 DEF Notify
  <2>. QED
    BY <2>1, <2>2
<1>2. ASSUME NEW d \in Dispatchers, Mark(d)
      PROVE  Grows /\ Stays /\ Shrinks
  <2>1. /\ outbox' = [outbox EXCEPT ![dispatcher[d].event] = "processed"]
        /\ UNCHANGED <<notified, steady>>
    BY <1>2 DEF Mark
  <2>2. dispatcher[d].pc = "mark" /\ RunOK(d)
    BY <1>2 DEF Mark
  <2>3. outbox[dispatcher[d].event] \in {"pending", "processed"}
    BY <2>2 DEF RunOK
  <2>. QED
    BY <1>0, <2>1, <2>3
<1>3. ASSUME NEW d \in Dispatchers,
             \/ StartBatch(d) \/ Scan(d) \/ EndBatch(d) \/ Take(d)
             \/ SaveFails(d) \/ MarkFails(d) \/ Die(d)
      PROVE  Grows /\ Stays /\ Shrinks
  <2>1. UNCHANGED <<outbox, notified, steady>>
    BY <1>3 DEF StartBatch, Scan, EndBatch, Take, SaveFails, MarkFails, Die
  <2>. QED
    BY <1>0, <2>1
<1>4. ASSUME NEW f \in Events, Publish(f)
      PROVE  Grows /\ Stays /\ Shrinks
  BY <1>0, <1>4 DEF Publish
<1>5. ASSUME NEW u \in Users, Join(u) \/ Leave(u)
      PROVE  Grows /\ Stays /\ Shrinks
  BY <1>0, <1>5 DEF Join, Leave
<1>6. CASE UNCHANGED vars
  <2>1. UNCHANGED <<outbox, notified, steady>>
    BY <1>6 DEF vars
  <2>. QED
    BY <1>0, <2>1 DEF Owed
<1>7. Grows /\ Stays /\ Shrinks
  BY <1>1, <1>2, <1>3, <1>4, <1>5, <1>6 DEF Next, Run, Fail, vars
<1>. QED
  BY <1>7 DEF Owed

-----------------------------------------------------------------------------
(* The runs.                                                               *)

\* A run that does not move keeps its facts, whatever the others do.
LEMMA RunOKStays ==
  ASSUME IInv, [Next]_vars, NEW d \in Dispatchers, dispatcher'[d] = dispatcher[d]
  PROVE  RunOK(d)'
<1>. DEFINE x == dispatcher[d]
<1>1. x \in Runs /\ RunOK(d)
  BY DEF IInv, TypeOK
<1>2. \A e \in Events :
        outbox[e] # "absent" => outbox'[e] # "absent" /\ Owed(e)' \subseteq Owed(e)
  BY Monotone
<1>3. \A e \in Events, u \in Users :
        notified'[e][u] >= notified[e][u] /\ notified'[e][u] \in Nat /\ notified[e][u] \in Nat
  BY Monotone, TablesType DEF IInv, TypeOK
<1>4. \A e \in Events : Owed(e) \subseteq Users
  BY DEF IInv, TypeOK, Owed
<1>5. x.batch \subseteq Events
  BY <1>1 DEF Runs
<1>. QED
  BY <1>1, <1>2, <1>3, <1>4, <1>5 DEF RunOK

\* A step of a run leaves it with the facts its next step needs.
LEMMA RunOKMoves ==
  ASSUME IInv, NEW d \in Dispatchers, Run(d) \/ Fail(d)
  PROVE  /\ dispatcher' \in [Dispatchers -> Runs]
         /\ \A c \in Dispatchers \ {d} : dispatcher'[c] = dispatcher[c]
         /\ RunOK(d)'
<1>. DEFINE x == dispatcher[d]
            y == dispatcher'[d]
<1>0. /\ dispatcher \in [Dispatchers -> Runs] /\ x \in Runs /\ RunOK(d)
      /\ x.batch \in SUBSET Events /\ x.remaining \in 0..Limit /\ x.topic \in 0..Topics
  BY DEF IInv, TypeOK, Runs
<1>1. CASE StartBatch(d)
  <2>1. dispatcher' = [dispatcher EXCEPT ![d] =
          [x EXCEPT !.pc = "scan", !.topic = 0, !.remaining = Limit]]
        /\ x.pc = "idle" /\ UNCHANGED outbox
    BY <1>1 DEF StartBatch
  <2>2. x.batch = {} /\ Cardinality({}) = 0
    BY <1>0, <2>1, FS_EmptySet DEF RunOK
  <2>0. 0 \in 0..Topics /\ Limit \in 0..Limit
    OBVIOUS
  <2>3. y \in Runs /\ y.pc = "scan" /\ y.batch = {} /\ y.remaining = Limit
    BY <1>0, <2>0, <2>1, <2>2 DEF Runs
  <2>4. RunOK(d)'
    BY <2>2, <2>3 DEF RunOK
  <2>. QED
    BY <1>0, <2>1, <2>3, <2>4
<1>2. CASE Scan(d)
  <2>1. PICK b \in Listings(x.topic + 1, x.remaining) :
          dispatcher' = [dispatcher EXCEPT ![d] =
            [x EXCEPT !.topic = x.topic + 1, !.batch = b]]
    BY <1>2 DEF Scan
  <2>2. x.pc = "scan" /\ x.topic + 1 \in 0..Topics /\ x.topic + 1 # 0 /\ UNCHANGED outbox
    BY <1>0, <1>2 DEF Scan
  <2>3. b \in SUBSET Events /\ Cardinality(b) <= x.remaining
        /\ \A e \in b : outbox[e] = "pending" /\ TopicOf[e] = x.topic + 1
    BY <1>0, <2>2, ListingsFit
  <2>4. y \in Runs /\ y.pc = "scan" /\ y.batch = b /\ y.remaining = x.remaining
    BY <1>0, <2>1, <2>2, <2>3 DEF Runs
  <2>5. RunOK(d)'
    BY <2>2, <2>3, <2>4 DEF RunOK
  <2>. QED
    BY <1>0, <2>1, <2>4, <2>5
<1>3. CASE EndBatch(d) \/ Die(d)
  <2>1. dispatcher' = [dispatcher EXCEPT ![d] = Stopped]
    BY <1>3 DEF EndBatch, Die
  <2>2. y = Stopped /\ Cardinality({}) = 0
    BY <1>0, <2>1, FS_EmptySet
  <2>3. y.pc = "idle" /\ y.batch = {} /\ y.remaining = 0
    BY <2>2 DEF Stopped
  <2>4. RunOK(d)'
    BY <2>2, <2>3 DEF RunOK
  <2>. QED
    BY <1>0, <2>1, <2>4, StoppedType
<1>4. CASE Take(d)
  <2>1. PICK e \in Earliest(x.batch) :
          \/ /\ e \in Unsupported
             /\ dispatcher' = [dispatcher EXCEPT ![d] =
                  [x EXCEPT !.remaining = x.remaining - 1, !.batch = x.batch \ {e}]]
          \/ /\ e \notin Unsupported
             /\ dispatcher' = [dispatcher EXCEPT ![d] =
                  [x EXCEPT !.remaining = x.remaining - 1, !.batch = x.batch \ {e}, !.pc = "save",
                            !.event = e, !.audience = Audience(e)]]
    BY <1>4 DEF Take
  <2>2. x.pc = "scan" /\ UNCHANGED <<outbox, members, steady, notified>>
    BY <1>4 DEF Take
  <2>3. /\ e \in x.batch /\ e \in Events
        /\ Cardinality(x.batch \ {e}) = Cardinality(x.batch) - 1
        /\ Cardinality(x.batch) \in Nat \ {0}
    BY <1>0, EarliestTaken
  <2>4. x.remaining - 1 \in 0..Limit /\ Cardinality(x.batch \ {e}) <= x.remaining - 1
    BY <1>0, <2>3 DEF RunOK
  <2>5. \A f \in x.batch : outbox[f] # "absent" /\ TopicOf[f] # 0
    BY <1>0 DEF RunOK
  <2>6. CASE e \in Unsupported
    <3>1. dispatcher' = [dispatcher EXCEPT ![d] =
                           [x EXCEPT !.remaining = x.remaining - 1, !.batch = x.batch \ {e}]]
      BY <2>1, <2>6
    <3>2. /\ y \in Runs
          /\ y.pc = "scan" /\ y.batch = x.batch \ {e} /\ y.remaining = x.remaining - 1
      BY <1>0, <2>2, <2>4, <3>1 DEF Runs
    <3>3. RunOK(d)'
      BY <2>2, <2>4, <2>5, <3>2 DEF RunOK
    <3>. QED
      BY <1>0, <3>1, <3>2, <3>3
  <2>7. CASE e \notin Unsupported
    <3>1. Audience(e) \in SUBSET Users /\ Owed(e) \subseteq Audience(e)
      BY <2>3, OwedIsAudience DEF IInv, TypeOK, Audience
    <3>2. Owed(e)' = Owed(e)
      BY <2>2 DEF Owed
    <3>3. dispatcher' = [dispatcher EXCEPT ![d] =
            [x EXCEPT !.remaining = x.remaining - 1, !.batch = x.batch \ {e}, !.pc = "save",
                      !.event = e, !.audience = Audience(e)]]
      BY <2>1, <2>7
    <3>4. /\ y \in Runs
          /\ y.pc = "save" /\ y.batch = x.batch \ {e} /\ y.remaining = x.remaining - 1
          /\ y.event = e /\ y.audience = Audience(e)
      BY <1>0, <2>3, <2>4, <3>1, <3>3 DEF Runs
    <3>5. RunOK(d)'
      BY <2>2, <2>3, <2>4, <2>5, <2>7, <3>1, <3>2, <3>4 DEF RunOK
    <3>. QED
      BY <1>0, <3>3, <3>4, <3>5
  <2>. QED
    BY <2>6, <2>7
<1>5. CASE Save(d)
  <2>1. /\ dispatcher' = [dispatcher EXCEPT ![d] = [x EXCEPT !.pc = "mark"]]
        /\ x.pc = "save" /\ UNCHANGED <<outbox, steady>>
        /\ Notify(d)
    BY <1>5 DEF Save
  <2>2. x.event \in Events /\ Owed(x.event) \subseteq x.audience /\ Owed(x.event) \subseteq Users
    BY <1>0, <2>1 DEF RunOK, Owed, IInv, TypeOK
  <2>3. \A u \in x.audience \cap Users : notified'[x.event][u] >= 1
    BY <2>1, <2>2 DEF Notify, IInv, TypeOK
  <2>4. Owed(x.event)' = Owed(x.event)
    BY <2>1 DEF Owed
  <2>. QED
    BY <1>0, <2>1, <2>2, <2>3, <2>4 DEF RunOK, Runs
<1>6. CASE SaveFails(d) \/ SaveInDoubt(d) \/ Mark(d) \/ MarkFails(d)
  <2>1. /\ dispatcher' = [dispatcher EXCEPT ![d] =
             [x EXCEPT !.pc = "scan", !.event = NoEvent, !.audience = {}]]
        /\ x.pc \in {"save", "mark"}
    BY <1>6 DEF SaveFails, SaveInDoubt, Mark, MarkFails, GoOn
  <2>2. \A e \in Events : outbox[e] # "absent" => outbox'[e] # "absent"
    BY <1>6 DEF SaveFails, SaveInDoubt, Mark, MarkFails, IInv, TypeOK
  <2>. QED
    BY <1>0, <2>1, <2>2 DEF RunOK, Runs
<1>. QED
  BY <1>1, <1>2, <1>3, <1>4, <1>5, <1>6 DEF Run, Fail

\* Every run keeps its facts in every step.
LEMMA RunsStep ==
  ASSUME IInv, [Next]_vars
  PROVE  dispatcher' \in [Dispatchers -> Runs] /\ \A d \in Dispatchers : RunOK(d)'
<1>1. CASE \E d \in Dispatchers : Run(d) \/ Fail(d)
  <2>1. PICK d \in Dispatchers : Run(d) \/ Fail(d)
    BY <1>1
  <2>. QED
    BY <2>1, RunOKMoves, RunOKStays
<1>2. CASE UNCHANGED dispatcher
  BY <1>2, RunOKStays DEF IInv, TypeOK
<1>. QED
  BY <1>1, <1>2 DEF Next, Publish, Join, Leave, vars

-----------------------------------------------------------------------------
(* What the outbox and the notifications say of each other.                *)

\* Only a run that has notified everybody an event is owed to marks it.
LEMMA MarkedIsDelivered ==
  ASSUME IInv, [Next]_vars, NEW e \in Events,
         outbox'[e] = "processed", outbox[e] # "processed"
  PROVE  \E d \in Dispatchers :
           /\ Mark(d) /\ dispatcher[d].event = e
           /\ e \notin Unsupported /\ TopicOf[e] # 0
           /\ \A u \in Owed(e) : notified[e][u] >= 1
<1>1. \E d \in Dispatchers : Mark(d)
  BY DEF Next, Run, Fail, Publish, Join, Leave, StartBatch, Scan, EndBatch, Take, Save,
         SaveFails, SaveInDoubt, MarkFails, Die, vars, IInv, TypeOK
<1>2. PICK d \in Dispatchers : Mark(d)
  BY <1>1
<1>3. dispatcher[d].event = e
  BY <1>2 DEF Mark, IInv, TypeOK
<1>4. dispatcher[d].pc = "mark" /\ RunOK(d)
  BY <1>2 DEF Mark, IInv
<1>. QED
  BY <1>2, <1>3, <1>4 DEF RunOK

\* Marking keeps the promise of the outbox, and so does everything else.
LEMMA OutboxStep ==
  ASSUME IInv, [Next]_vars
  PROVE  SteadyOK' /\ ProcessedIsDelivered' /\ RejectedStaysPending'
<1>1. SteadyOK'
  <2>1. ASSUME NEW d \in Dispatchers, Run(d) \/ Fail(d)
        PROVE  UNCHANGED <<steady, members>>
    BY <2>1 DEF Run, Fail, StartBatch, Scan, EndBatch, Take, Save, SaveFails, SaveInDoubt,
                Mark, MarkFails, Die
  <2>2. ASSUME NEW e \in Events, Publish(e)
        PROVE  SteadyOK'
    BY <2>2 DEF Publish, IInv, TypeOK, SteadyOK
  <2>3. ASSUME NEW u \in Users, Join(u) \/ Leave(u)
        PROVE  SteadyOK'
    BY <2>3 DEF Join, Leave, IInv, TypeOK, SteadyOK
  <2>. QED
    BY <2>1, <2>2, <2>3 DEF Next, vars, IInv, SteadyOK
<1>2. ASSUME NEW e \in Events, outbox'[e] = "processed"
      PROVE  \A u \in Owed(e)' : notified'[e][u] >= 1
  <2>1. \A u \in Owed(e) : notified[e][u] >= 1
    BY <1>2, MarkedIsDelivered DEF IInv, ProcessedIsDelivered
  <2>2. outbox[e] # "absent"
    <3>1. outbox[e] = "processed" \/ \E d \in Dispatchers : Mark(d) /\ dispatcher[d].event = e
      BY <1>2, MarkedIsDelivered
    <3>. QED
      BY <3>1 DEF IInv, RunOK, Mark
  <2>3. Owed(e)' \subseteq Owed(e) /\ \A u \in Users : notified'[e][u] >= notified[e][u]
    BY <2>2, Monotone
  <2>4. Owed(e) \subseteq Users
    BY DEF Owed, IInv, TypeOK
  <2>5. \A u \in Users : notified'[e][u] \in Nat /\ notified[e][u] \in Nat
    BY TablesType DEF IInv, TypeOK
  <2>. QED
    BY <2>1, <2>3, <2>4, <2>5
<1>3. RejectedStaysPending'
  BY MarkedIsDelivered DEF RejectedStaysPending, IInv
<1>. QED
  BY <1>1, <1>2, <1>3 DEF ProcessedIsDelivered

-----------------------------------------------------------------------------
(* The account of the notifications.                                       *)

\* Unless it loses an outcome, a run that is spent for e stays so.
LEMMA SpentStays ==
  ASSUME IInv, [Next]_vars, NEW e \in Events, NEW d \in Spent(e),
         \/ dispatcher'[d] = dispatcher[d]
         \/ Run(d)
         \/ Fail(d) /\ ~(dispatcher[d].pc = "mark" /\ dispatcher[d].event = e)
  PROVE  d \in Spent(e)'
<1>. DEFINE x == dispatcher[d]
            y == dispatcher'[d]
<1>0. /\ d \in Dispatchers /\ x \in Runs /\ RunOK(d)
      /\ dispatcher \in [Dispatchers -> Runs]
      /\ outbox[e] = "processed" => outbox'[e] = "processed"
  BY Monotone DEF Spent, IInv, TypeOK
<1>1. CASE y = x
  BY <1>0, <1>1 DEF Spent
<1>2. CASE StartBatch(d)
  <2>1. x.pc = "idle" /\ x.batch = {} /\ y.batch = x.batch /\ y.pc = "scan"
    BY <1>0, <1>2 DEF StartBatch, RunOK, Runs
  <2>. QED
    BY <1>0, <2>1 DEF Spent
<1>3. CASE Scan(d)
  <2>1. PICK b \in Listings(x.topic + 1, x.remaining) :
          dispatcher' = [dispatcher EXCEPT ![d] =
            [x EXCEPT !.topic = x.topic + 1, !.batch = b]]
    BY <1>3 DEF Scan
  <2>2. x.pc = "scan" /\ x.topic + 1 \in 0..Topics /\ x.remaining \in Nat
    BY <1>0, <1>3 DEF Scan, Runs
  <2>3. y.batch = b /\ y.pc = "scan"
    BY <1>0, <2>1, <2>2 DEF Runs
  <2>4. outbox[e] = "processed" => e \notin b
    BY <2>2, ListingsFit
  <2>. QED
    BY <1>0, <2>2, <2>3, <2>4 DEF Spent
<1>4. CASE EndBatch(d) \/ (Die(d) /\ ~(x.pc = "mark" /\ x.event = e))
  <2>1. y.batch = {} /\ y.pc = "idle" /\ ~(x.pc = "mark" /\ x.event = e)
    BY <1>0, <1>4 DEF EndBatch, Die, Stopped
  <2>. QED
    BY <1>0, <2>1 DEF Spent
<1>5. CASE Take(d)
  <2>1. x.pc = "scan"
    BY <1>5 DEF Take
  <2>2. outbox[e] = "processed" /\ e \notin x.batch
    BY <2>1 DEF Spent
  <2>3. PICK f \in Earliest(x.batch) :
          \/ dispatcher' = [dispatcher EXCEPT ![d] =
               [x EXCEPT !.remaining = x.remaining - 1, !.batch = x.batch \ {f}]]
          \/ dispatcher' = [dispatcher EXCEPT ![d] =
               [x EXCEPT !.remaining = x.remaining - 1, !.batch = x.batch \ {f},
                         !.pc = "save", !.event = f, !.audience = Audience(f)]]
    BY <1>5 DEF Take
  <2>4. /\ y.batch = x.batch \ {f}
        /\ y.pc = "scan" \/ (y.pc = "save" /\ y.event = f)
    <3>1. CASE dispatcher' = [dispatcher EXCEPT ![d] =
                 [x EXCEPT !.remaining = x.remaining - 1, !.batch = x.batch \ {f}]]
      BY <1>0, <2>1, <3>1 DEF Runs
    <3>2. CASE dispatcher' = [dispatcher EXCEPT ![d] =
                 [x EXCEPT !.remaining = x.remaining - 1, !.batch = x.batch \ {f},
                           !.pc = "save", !.event = f, !.audience = Audience(f)]]
      BY <1>0, <3>2 DEF Runs
    <3>. QED
      BY <2>3, <3>1, <3>2
  <2>5. f # e
    BY <2>2 DEF Earliest
  <2>. QED
    BY <1>0, <2>2, <2>4, <2>5 DEF Spent
<1>6. CASE Save(d)
  <2>1. y.pc = "mark" /\ y.event = x.event /\ y.batch = x.batch
    BY <1>0, <1>6 DEF Save, Runs
  <2>. QED
    BY <1>0, <2>1 DEF Spent
<1>7. CASE \/ SaveFails(d) \/ SaveInDoubt(d) \/ Mark(d)
           \/ (MarkFails(d) /\ ~(x.pc = "mark" /\ x.event = e))
  <2>0. /\ dispatcher' = [dispatcher EXCEPT ![d] =
             [x EXCEPT !.pc = "scan", !.event = NoEvent, !.audience = {}]]
        /\ x.pc \in {"save", "mark"}
    BY <1>7 DEF SaveFails, SaveInDoubt, Mark, MarkFails, GoOn
  <2>1. y.pc = "scan" /\ y.batch = x.batch
    BY <1>0, <2>0 DEF Runs
  <2>2. x.pc = "mark" /\ x.event = e => Mark(d)
    BY <1>7 DEF SaveFails, SaveInDoubt
  <2>3. x.pc = "mark" /\ x.event = e => outbox'[e] = "processed" /\ e \notin x.batch
    BY <1>0, <2>2 DEF Mark, RunOK, IInv, TypeOK
  <2>. QED
    BY <1>0, <2>0, <2>1, <2>3 DEF Spent
<1>. QED
  BY <1>1, <1>2, <1>3, <1>4, <1>5, <1>6, <1>7 DEF Run, Fail

\* Spent runs are counted in the next state too.
LEMMA SpentSizeNext ==
  ASSUME NEW e \in Events
  PROVE  IsFiniteSet(Spent(e)') /\ Cardinality(Spent(e)') \in Nat
<1>1. Spent(e)' \subseteq Dispatchers
  BY DEF Spent
<1>. QED
  BY <1>1, FS_Subset, FS_CardinalityType

\* A set without one element is at most one smaller.
LEMMA RemoveOne ==
  ASSUME NEW S, IsFiniteSet(S), NEW d
  PROVE  Cardinality(S \ {d}) \in Nat /\ Cardinality(S) <= Cardinality(S \ {d}) + 1
<1>1. CASE d \in S
  <2>1. Cardinality(S \ {d}) = Cardinality(S) - 1 /\ Cardinality(S) \in Nat
    BY FS_CardinalityType, <1>1, FS_RemoveElement
  <2>2. IsFiniteSet(S \ {d})
    BY FS_Subset
  <2>3. Cardinality(S \ {d}) \in Nat
    BY <2>2, FS_CardinalityType
  <2>. QED
    BY <2>1, <2>3
<1>2. CASE d \notin S
  <2>1. S \ {d} = S
    BY <1>2
  <2>2. Cardinality(S) \in Nat
    BY FS_CardinalityType
  <2>. QED
    BY <2>1, <2>2
<1>. QED
  BY <1>1, <1>2

\* A run that notifies of e becomes spent for it, or its outcome is lost; a
\* run that forgets having notified has lost an outcome as well.
LEMMA AccountedMoves ==
  ASSUME IInv, [Next]_vars, NEW d \in Dispatchers, Run(d) \/ Fail(d),
         NEW e \in Events, NEW u \in Users
  PROVE  notified'[e][u] <= Cardinality(Spent(e)') + lost'[e]
<1>. DEFINE x == dispatcher[d]
            S == Spent(e)
            T == Spent(e)'
<1>0. /\ notified[e][u] \in Nat /\ lost[e] \in Nat
      /\ notified[e][u] <= Cardinality(S) + lost[e]
      /\ IsFiniteSet(S) /\ Cardinality(S) \in Nat
      /\ IsFiniteSet(T) /\ Cardinality(T) \in Nat
      /\ x \in Runs /\ dispatcher \in [Dispatchers -> Runs] /\ RunOK(d)
  BY SpentSize, SpentSizeNext DEF IInv, TypeOK, Accounted
<1>1. S \ {d} \subseteq T
  <2>1. ASSUME NEW c \in S \ {d} PROVE c \in T
    <3>1. c \in Dispatchers /\ dispatcher'[c] = dispatcher[c]
      BY RunOKMoves DEF Spent
    <3>. QED
      BY <3>1, SpentStays
  <2>. QED
    BY <2>1
<1>2. CASE Save(d) /\ x.event = e
  <2>1. notified'[e][u] <= notified[e][u] + 1 /\ notified'[e][u] \in Nat /\ lost' = lost
    BY <1>0, <1>2 DEF Save, Notify, IInv, TypeOK
  <2>2. d \notin S /\ d \in T
    <3>1. x.pc = "save" /\ dispatcher' = [dispatcher EXCEPT ![d] = [x EXCEPT !.pc = "mark"]]
      BY <1>2 DEF Save
    <3>2. dispatcher'[d].pc = "mark" /\ dispatcher'[d].event = e
      BY <1>0, <1>2, <3>1 DEF Runs
    <3>. QED
      BY <1>2, <3>1, <3>2 DEF Spent
  <2>3. S \cup {d} \subseteq T
    BY <1>1, <2>2
  <2>4. Cardinality(S \cup {d}) = Cardinality(S) + 1 /\ Cardinality(S \cup {d}) <= Cardinality(T)
    BY <1>0, <2>2, <2>3, FS_AddElement, FS_Subset
  <2>. QED
    BY <1>0, <2>1, <2>4
<1>3. CASE SaveInDoubt(d) /\ x.event = e
  <2>1. notified'[e][u] <= notified[e][u] + 1 /\ notified'[e][u] \in Nat
    BY <1>0, <1>3 DEF SaveInDoubt, Notify, IInv, TypeOK
  <2>2. lost'[e] = lost[e] + 1 /\ x.pc = "save"
    BY <1>0, <1>3 DEF SaveInDoubt, Lose, IInv, TypeOK
  <2>3. d \notin S
    BY <1>3, <2>2 DEF Spent
  <2>4. Cardinality(S) <= Cardinality(T)
    BY <1>0, <1>1, <2>3, FS_Subset
  <2>. QED
    BY <1>0, <2>1, <2>2, <2>4
<1>4. CASE (MarkFails(d) \/ Die(d)) /\ x.pc = "mark" /\ x.event = e
  <2>1. lost'[e] = lost[e] + 1 /\ notified' = notified
    <3>1. Lose(x.event) /\ notified' = notified
      BY <1>4 DEF MarkFails, Die
    <3>. QED
      BY <1>4, <3>1 DEF Lose, IInv, TypeOK
  <2>2. Cardinality(S \ {d}) <= Cardinality(T)
    BY <1>0, <1>1, FS_Subset
  <2>3. Cardinality(S) <= Cardinality(S \ {d}) + 1 /\ Cardinality(S \ {d}) \in Nat
    BY <1>0, RemoveOne
  <2>. QED
    BY <1>0, <2>1, <2>2, <2>3
<1>5. CASE /\ ~(Save(d) /\ x.event = e)
           /\ ~(SaveInDoubt(d) /\ x.event = e)
           /\ ~((MarkFails(d) \/ Die(d)) /\ x.pc = "mark" /\ x.event = e)
  <2>1. S \subseteq T
    <3>1. d \in S => d \in T
      <4>1. Fail(d) => ~(x.pc = "mark" /\ x.event = e)
        BY <1>5 DEF Fail, SaveFails, SaveInDoubt
      <4>. QED
        BY <4>1, SpentStays
    <3>. QED
      BY <1>1, <3>1
  <2>2. notified'[e][u] = notified[e][u]
    <3>1. \/ notified' = notified
          \/ Notify(d) /\ x.event # e
      BY <1>5 DEF Run, Fail, StartBatch, Scan, EndBatch, Take, Save, SaveFails, SaveInDoubt,
                  Mark, MarkFails, Die
    <3>. QED
      BY <3>1 DEF Notify, IInv, TypeOK
  <2>3. lost'[e] >= lost[e] /\ lost'[e] \in Nat
    <3>1. lost' = lost \/ Lose(x.event)
      BY DEF Run, Fail, StartBatch, Scan, EndBatch, Take, Save, SaveFails, SaveInDoubt,
             Mark, MarkFails, Die
    <3>. QED
      <4>1. lost \in [Events -> Nat]
        BY DEF IInv, TypeOK
      <4>. QED
        BY ONLY <1>0, <3>1, <4>1, e \in Events DEF Lose
  <2>4. Cardinality(S) <= Cardinality(T)
    BY <1>0, <2>1, FS_Subset
  <2>. QED
    BY <1>0, <2>2, <2>3, <2>4
<1>. QED
  BY <1>2, <1>3, <1>4, <1>5

\* The account stays right in every step.
LEMMA AccountedStep ==
  ASSUME IInv, [Next]_vars PROVE Accounted'
<1>1. ASSUME NEW d \in Dispatchers, Run(d) \/ Fail(d) PROVE Accounted'
  BY <1>1, AccountedMoves DEF Accounted
<1>2. ASSUME UNCHANGED <<dispatcher, notified, lost>> PROVE Accounted'
  <2>1. ASSUME NEW e \in Events PROVE Cardinality(Spent(e)) <= Cardinality(Spent(e)')
    <3>1. Spent(e) \subseteq Spent(e)'
      BY <1>2, SpentStays DEF Spent
    <3>. QED
      BY <3>1, SpentSizeNext, FS_Subset
  <2>2. \A e \in Events : /\ Cardinality(Spent(e)) \in Nat /\ Cardinality(Spent(e)') \in Nat
                          /\ lost[e] \in Nat
    BY SpentSize, SpentSizeNext DEF IInv, TypeOK
  <2>3. \A e \in Events, u \in Users : notified[e][u] \in Nat
    BY DEF IInv, TypeOK
  <2>. QED
    BY <1>2, <2>1, <2>2, <2>3 DEF Accounted, IInv
<1>. QED
  BY <1>1, <1>2 DEF Next, Publish, Join, Leave, vars

-----------------------------------------------------------------------------
(* The theorems.                                                           *)

\* Before anything is published the account is empty.
LEMMA InitIInv == Init => IInv
<1>. SUFFICES ASSUME Init PROVE IInv
  OBVIOUS
<1>1. TypeOK
  BY StoppedType DEF Init, TypeOK
<1>2. \A d \in Dispatchers : RunOK(d)
  <2>. SUFFICES ASSUME NEW d \in Dispatchers PROVE RunOK(d)
    OBVIOUS
  <2>1. /\ dispatcher[d].pc = "idle" /\ dispatcher[d].batch = {}
        /\ dispatcher[d].remaining = 0
    BY DEF Init, Stopped
  <2>2. Cardinality({}) = 0
    BY FS_EmptySet
  <2>. QED
    BY <2>1, <2>2 DEF RunOK
<1>3. Accounted
  BY <1>1, SpentSize DEF Init, Accounted, TypeOK
<1>. QED
  BY <1>1, <1>2, <1>3 DEF Init, IInv, SteadyOK, ProcessedIsDelivered, RejectedStaysPending

\* Every step of a run, a publisher or a member preserves it.
LEMMA StepIInv == IInv /\ [Next]_vars => IInv'
<1>. SUFFICES ASSUME IInv, [Next]_vars PROVE IInv'
  OBVIOUS
<1>. QED
  BY TablesType, RunsStep, OutboxStep, AccountedStep DEF IInv, TypeOK

\* The inductive invariant holds however runs overlap, fail and die.
THEOREM Invariance == Spec => []IInv
BY InitIInv, StepIInv, PTL DEF Spec

\* Rows, runs and history keep their types; the limit is never overdrawn.
THEOREM TypeCorrect == Spec => []TypeOK
<1>1. IInv => TypeOK
  BY DEF IInv
<1>. QED
  BY Invariance, <1>1, PTL

\* At least once: an event is processed only after everybody it is owed to
\* has been notified.
THEOREM DeliveryCorrect == Spec => []ProcessedIsDelivered
<1>1. IInv => ProcessedIsDelivered
  BY DEF IInv
<1>. QED
  BY Invariance, <1>1, PTL

\* Nothing but its handler's success takes an event out of the outbox.
THEOREM RejectionCorrect == Spec => []RejectedStaysPending
<1>1. IInv => RejectedStaysPending
  BY DEF IInv
<1>. QED
  BY Invariance, <1>1, PTL

\* A user hears of an event at most once for each run that may overlap and
\* once more for each lost outcome.
THEOREM DuplicatesCorrect == Spec => []DuplicatesBounded
<1>1. IInv => DuplicatesBounded
  <2>. SUFFICES ASSUME IInv, NEW e \in Events, NEW u \in Users
                PROVE  notified[e][u] <= Cardinality(Dispatchers) + lost[e]
    BY DEF DuplicatesBounded
  <2>1. notified[e][u] <= Cardinality(Spent(e)) + lost[e]
    BY DEF IInv, Accounted
  <2>2. notified[e][u] \in Nat /\ lost[e] \in Nat
    BY DEF IInv, TypeOK
  <2>. QED
    BY <2>1, <2>2, SpentSize
<1>. QED
  BY Invariance, <1>1, PTL
=============================================================================
