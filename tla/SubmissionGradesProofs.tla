----------------------- MODULE SubmissionGradesProofs -----------------------
(***************************************************************************)
(* What holds of SubmissionGrades for any number of submissions, grades    *)
(* and graders, and of CourseRegisters for any number of registers, pupils *)
(* and recordings.                                                         *)
(*                                                                         *)
(* A grader acts on grades it has read earlier.  They need not be the      *)
(* grade any more, but nothing is ever deleted, so they are in the         *)
(* history, and whatever is in the history and visible has been announced  *)
(* or is about to be.  This is why a grader that finds nothing changed     *)
(* since its first read may stop without a word.                           *)
(*                                                                         *)
(* A recording relies on its two locks: what it has read of a register or  *)
(* of a membership is still so for as long as it holds the row.            *)
(***************************************************************************)
EXTENDS SubmissionGrades, CourseRegisters, TLAPS

\* What a grader has read is in the history, and it logs no change from nothing.
GraderOK ==
  \A g \in Graders, s \in Submissions : grader[g].submission = s =>
    /\ grader[g].pc \in {"select", "write"} => grader[g].previous \in {NoGrade} \cup Recorded(s)
    /\ grader[g].pc = "write" => grader[g].existing \in {NoGrade} \cup Recorded(s)
    /\ grader[g].pc = "audit" => grader[g].previous # NoGrade

IInv == GradingTypeOK /\ HistoryIsReal /\ VisibleGradesAnnounced /\ GraderOK /\ OneOpenAppeal

-----------------------------------------------------------------------------
(* The grade and its history.                                              *)

\* An idle grader is typed.
LEMMA IdleType == NoGrading \in Gradings
<1>1. (CHOOSE s \in Submissions : TRUE) \in Submissions
  BY GradesAssumption
<1>2. (CHOOSE v \in Grades : TRUE) \in Grades
  BY GradesAssumption
<1>. QED
  BY <1>1, <1>2 DEF NoGrading, Gradings, GradeRows

\* What the write of a grader does to its submission.
Writes(g, s) ==
  /\ grader[g].pc = "write" /\ grader[g].submission = s
  /\ grader[g].existing # NoGrade \/ grade[s] = NoGrade
  /\ grade'[s] = grader[g].grade
  /\ history'[s] =
       Append(history[s], [previous |-> grader[g].existing, grade |-> grader[g].grade])
  /\ SideEffects(g)

\* A step leaves the grade of a submission and its history alone, or it is the
\* write of one grader.
LEMMA HistoryStep ==
  ASSUME GradingTypeOK, [GradingNext]_gradingVars, NEW s \in Submissions
  PROVE  \/ UNCHANGED <<grade[s], history[s]>>
         \/ \E g \in Graders : Writes(g, s)
<1>1. CASE UNCHANGED <<grade, history>>
  BY <1>1
<1>2. CASE \E g \in Graders : Write(g)
  <2>1. PICK g \in Graders : Write(g)
    BY <1>2
  <2>2. CASE UNCHANGED <<grade, history>>
    BY <2>2
  <2>3. CASE ~UNCHANGED <<grade, history>>
    <3>1. CASE grader[g].submission = s
      BY <2>1, <2>3, <3>1 DEF Write, Writes, GradingTypeOK
    <3>2. CASE grader[g].submission # s
      BY <2>1, <2>3, <3>2 DEF Write, GradingTypeOK
    <3>. QED
      BY <3>1, <3>2
  <2>. QED
    BY <2>2, <2>3
<1>. QED
  BY <1>1, <1>2 DEF GradingNext, GradingWork, gradingVars, GraderDies, SelectExisting, SavePublished, SaveAudit,
     SaveChanged, BeginGrading, CreateAppeal, UpdateAppeal

\* Append, as functions.
LEMMA Appended ==
  ASSUME NEW S, NEW q \in Seq(S), NEW e \in S
  PROVE  /\ Append(q, e) \in Seq(S) /\ Append(q, e) # <<>>
         /\ Len(q) \in Nat /\ DOMAIN q = 1..Len(q)
         /\ DOMAIN Append(q, e) = 1..(Len(q) + 1)
         /\ Len(Append(q, e)) = Len(q) + 1
         /\ Append(q, e)[Len(q) + 1] = e
         /\ \A i \in 1..Len(q) : Append(q, e)[i] = q[i]
         /\ q = <<>> <=> Len(q) = 0
  OBVIOUS

\* Grades once recorded stay recorded; a write records its grade, and no other.
LEMMA RecordedStep ==
  ASSUME GradingTypeOK, [GradingNext]_gradingVars, NEW s \in Submissions
  PROVE  /\ Recorded(s) \subseteq Recorded(s)'
         /\ \A g \in Graders : Writes(g, s) => Recorded(s)' = Recorded(s) \cup {grader[g].grade}
         /\ (\A g \in Graders : ~Writes(g, s)) => Recorded(s)' = Recorded(s)
<1>1. ASSUME NEW g \in Graders, Writes(g, s)
      PROVE  Recorded(s)' = Recorded(s) \cup {grader[g].grade}
  <2>. DEFINE e == [previous |-> grader[g].existing, grade |-> grader[g].grade]
              q == history[s]
  <2>1. e \in Entries /\ q \in Seq(Entries) /\ e.grade = grader[g].grade
    BY DEF GradingTypeOK, Entries, Gradings
  <2>2. history'[s] = Append(q, e)
    BY <1>1 DEF Writes
  <2>. HIDE DEF e, q
  <2>3. /\ Len(q) \in Nat /\ DOMAIN q = 1..Len(q)
        /\ DOMAIN history'[s] = 1..(Len(q) + 1)
        /\ history'[s][Len(q) + 1] = e
        /\ \A i \in 1..Len(q) : history'[s][i] = q[i]
    BY <2>1, <2>2, Appended
  <2>4. Recorded(s)' = {history'[s][i].grade : i \in 1..(Len(q) + 1)}
    BY <2>3 DEF Recorded
  <2>5. Recorded(s) = {q[i].grade : i \in 1..Len(q)}
    BY <2>3 DEF Recorded, q
  <2>6. 1..(Len(q) + 1) = (1..Len(q)) \cup {Len(q) + 1}
    BY <2>3
  <2>. QED
    BY <2>1, <2>3, <2>4, <2>5, <2>6
<1>2. ASSUME \A g \in Graders : ~Writes(g, s)
      PROVE  Recorded(s)' = Recorded(s)
  BY <1>2, HistoryStep DEF Recorded
<1>. QED
  BY <1>1, <1>2

\* The history stays one: its entries are kept, and the new one continues it.
LEMMA HistoryKept == IInv /\ [GradingNext]_gradingVars => HistoryIsReal'
<1>. SUFFICES ASSUME IInv, [GradingNext]_gradingVars, NEW s \in Submissions
              PROVE  /\ IF history'[s] = <<>> THEN grade'[s] = NoGrade
                          ELSE grade'[s] = history'[s][Len(history'[s])].grade
                     /\ \A i \in DOMAIN history'[s] :
                          IF i = 1 THEN history'[s][i].previous = NoGrade
                          ELSE \E k \in 1..(i - 1) :
                                 history'[s][i].previous = history'[s][k].grade
  BY DEF HistoryIsReal
<1>1. CASE UNCHANGED <<grade[s], history[s]>>
  BY <1>1 DEF IInv, HistoryIsReal
<1>2. CASE \E g \in Graders : Writes(g, s)
  <2>1. PICK g \in Graders : Writes(g, s)
    BY <1>2
  <2>. DEFINE e == [previous |-> grader[g].existing, grade |-> grader[g].grade]
              q == history[s]
  <2>2. /\ e \in Entries /\ e.grade = grader[g].grade /\ e.previous = grader[g].existing
        /\ q \in Seq(Entries)
    BY DEF IInv, GradingTypeOK, Entries, Gradings
  <2>3. history'[s] = Append(q, e) /\ grade'[s] = e.grade
    BY <2>1, <2>2 DEF Writes
  <2>4. e.previous = NoGrade => q = <<>>
    <3>. SUFFICES ASSUME grade[s] = NoGrade, q # <<>> PROVE FALSE
      BY <2>1, <2>2 DEF Writes
    <3>1. grade[s] = q[Len(q)].grade
      BY DEF IInv, HistoryIsReal
    <3>2. q[Len(q)] \in Entries
      BY <2>2
    <3>. QED
      BY <3>1, <3>2, GradesAssumption DEF Entries
  <2>5. e.previous # NoGrade => \E k \in DOMAIN q : e.previous = q[k].grade
    BY <2>1, <2>2 DEF IInv, GraderOK, Writes, Recorded, GradingTypeOK, Gradings
  <2>6. \A i \in DOMAIN q : IF i = 1 THEN q[i].previous = NoGrade
                            ELSE \E k \in 1..(i - 1) : q[i].previous = q[k].grade
    BY DEF IInv, HistoryIsReal
  <2>. HIDE DEF e, q
  <2>7. /\ Append(q, e) # <<>> /\ Len(q) \in Nat /\ DOMAIN q = 1..Len(q)
        /\ DOMAIN Append(q, e) = 1..(Len(q) + 1) /\ Len(Append(q, e)) = Len(q) + 1
        /\ Append(q, e)[Len(q) + 1] = e
        /\ \A i \in 1..Len(q) : Append(q, e)[i] = q[i]
        /\ q = <<>> <=> Len(q) = 0
    BY <2>2, Appended
  <2>8. \A i \in 1..Len(q) : \A k \in 1..(i - 1) : k \in 1..Len(q)
    BY <2>7
  <2>9. ASSUME NEW i \in 1..Len(q)
        PROVE  IF i = 1 THEN Append(q, e)[i].previous = NoGrade
               ELSE \E k \in 1..(i - 1) : Append(q, e)[i].previous = Append(q, e)[k].grade
    BY <2>6, <2>7, <2>8
  <2>10. IF Len(q) + 1 = 1 THEN e.previous = NoGrade
         ELSE \E k \in 1..Len(q) : e.previous = Append(q, e)[k].grade
    BY <2>4, <2>5, <2>7
  <2>11. \A i \in 1..(Len(q) + 1) : i \in 1..Len(q) \/ i = Len(q) + 1
    BY <2>7
  <2>12. Len(q) + 1 - 1 = Len(q)
    BY <2>7
  <2>. QED
    BY <2>3, <2>7, <2>9, <2>10, <2>11, <2>12
<1>. QED
  BY <1>1, <1>2, HistoryStep DEF IInv

-----------------------------------------------------------------------------
(* Types.                                                                  *)

\* After a write, a grader turns to what its first read asks for.
LEMMA SideEffectsType ==
  ASSUME GradingTypeOK, NEW g \in Graders, SideEffects(g)
  PROVE  /\ grader' \in [Graders -> Gradings]
         /\ \A h \in Graders \ {g} : grader'[h] = grader[h]
         /\ \/ grader'[g] = NoGrading
            \/ grader'[g] = [grader[g] EXCEPT !.pc = "publish"]
            \/ grader'[g] = [grader[g] EXCEPT !.pc = "audit"] /\ grader[g].previous # NoGrade
<1>1. \A pc \in {"publish", "audit"} : [grader[g] EXCEPT !.pc = pc] \in Gradings
  BY DEF GradingTypeOK, Gradings
<1>. QED
  BY <1>1, IdleType DEF SideEffects, GraderGoto, GraderStops, GradingTypeOK

\* Every step keeps the types; the audit log never gets a change from nothing.
LEMMA TypesKept == IInv /\ [GradingNext]_gradingVars => GradingTypeOK'
<1>. SUFFICES ASSUME IInv, [GradingNext]_gradingVars PROVE GradingTypeOK'
  OBVIOUS
<1>. USE DEF IInv
<1>1. CASE UNCHANGED gradingVars
  BY <1>1 DEF GradingTypeOK, gradingVars
<1>2. ASSUME NEW g \in Graders, NEW s \in Submissions, NEW v \in Grades, BeginGrading(g, s, v)
      PROVE  GradingTypeOK'
  <2>1. [pc |-> "select", submission |-> s, grade |-> v,
         previous |-> grade[s], existing |-> NoGrade] \in Gradings
    BY DEF GradingTypeOK, Gradings, GradeRows
  <2>. QED
    BY <1>2, <2>1 DEF BeginGrading, GradingTypeOK
<1>3. ASSUME NEW g \in Graders, SelectExisting(g) PROVE GradingTypeOK'
  <2>1. [grader[g] EXCEPT !.pc = "write", !.existing = grade[grader[g].submission]] \in Gradings
    BY DEF GradingTypeOK, Gradings
  <2>. QED
    BY <1>3, <2>1 DEF SelectExisting, GradingTypeOK
<1>4. ASSUME NEW g \in Graders, Write(g) PROVE GradingTypeOK'
  <2>. DEFINE e == [previous |-> grader[g].existing, grade |-> grader[g].grade]
              q == history[grader[g].submission]
  <2>1. e \in Entries /\ q \in Seq(Entries) /\ grader[g].grade \in GradeRows
    BY DEF GradingTypeOK, Entries, Gradings, GradeRows
  <2>2. Append(q, e) \in Seq(Entries)
    BY <2>1, Appended
  <2>3. CASE UNCHANGED <<grade, history>>
    BY <1>4, <2>3, IdleType, SideEffectsType DEF Write, GraderStops, GradingTypeOK
  <2>4. CASE ~UNCHANGED <<grade, history>>
    <3>1. /\ SideEffects(g)
          /\ grade' = [grade EXCEPT ![grader[g].submission] = grader[g].grade]
          /\ history' = [history EXCEPT ![grader[g].submission] = Append(q, e)]
      BY <1>4, <2>4 DEF Write
    <3>2. grader' \in [Graders -> Gradings]
      BY <3>1, SideEffectsType
    <3>3. /\ grade' \in [Submissions -> GradeRows]
          /\ history' \in [Submissions -> Seq(Entries)]
      BY <2>1, <2>2, <3>1 DEF GradingTypeOK
    <3>. QED
      BY <1>4, <3>2, <3>3 DEF Write, GradingTypeOK
  <2>. QED
    BY <2>3, <2>4
<1>5. ASSUME NEW g \in Graders, SavePublished(g) \/ SaveChanged(g) PROVE GradingTypeOK'
  <2>1. \A kind \in {"published", "changed"} :
          [kind |-> kind, grade |-> grader[g].grade] \in Events
    BY DEF GradingTypeOK, Gradings, Events
  <2>2. PICK kind \in {"published", "changed"} : events' =
          [events EXCEPT ![grader[g].submission] =
             @ \cup {[kind |-> kind, grade |-> grader[g].grade]}]
    BY <1>5 DEF SavePublished, SaveChanged
  <2>3. events' \in [Submissions -> SUBSET Events]
    BY <2>1, <2>2 DEF GradingTypeOK
  <2>. QED
    <3>1. grader' \in [Graders -> Gradings]
      BY <1>5, IdleType DEF SavePublished, SaveChanged, GraderStops, GradingTypeOK
    <3>2. UNCHANGED <<grade, history, audits, appeals, lost>>
      BY <1>5 DEF SavePublished, SaveChanged
    <3>. QED
      BY <2>3, <3>1, <3>2 DEF GradingTypeOK
<1>6. ASSUME NEW g \in Graders, SaveAudit(g) PROVE GradingTypeOK'
  <2>1. [previous |-> grader[g].previous, grade |-> grader[g].grade] \in Changes
    BY <1>6 DEF SaveAudit, GraderOK, GradingTypeOK, Gradings, GradeRows, Changes
  <2>2. audits' \in [Submissions -> SUBSET Changes]
    BY <1>6, <2>1 DEF SaveAudit, GradingTypeOK
  <2>3. [grader[g] EXCEPT !.pc = "change"] \in Gradings
    BY DEF GradingTypeOK, Gradings
  <2>. QED
    BY <1>6, <2>2, <2>3 DEF SaveAudit, GraderGoto, GradingTypeOK
<1>7. ASSUME NEW g \in Graders, GraderDies(g) PROVE GradingTypeOK'
  <2>1. lost' \in [Submissions -> SUBSET Grades]
    BY <1>7 DEF GraderDies, GradingTypeOK, Gradings
  <2>. QED
    BY <1>7, <2>1, IdleType DEF GraderDies, GraderStops, GradingTypeOK
<1>8. ASSUME NEW s \in Submissions, CreateAppeal(s) PROVE GradingTypeOK'
  <2>1. "open" \in Appeals
    BY DEF Appeals
  <2>2. Append(appeals[s], "open") \in Seq(Appeals)
    BY <2>1, Appended DEF GradingTypeOK
  <2>. QED
    BY <1>8, <2>2 DEF CreateAppeal, GradingTypeOK
<1>9. ASSUME NEW s \in Submissions, NEW i \in DOMAIN appeals[s],
             NEW status \in Appeals, UpdateAppeal(s, i, status)
      PROVE  GradingTypeOK'
  <2>1. appeals[s] \in Seq(Appeals)
    BY DEF GradingTypeOK
  <2>2. WithStatus(appeals[s], i, status) \in Seq(Appeals)
    BY <2>1 DEF WithStatus
  <2>3. appeals' = [appeals EXCEPT ![s] = WithStatus(appeals[s], i, status)]
    BY <1>9 DEF UpdateAppeal
  <2>4. appeals' \in [Submissions -> Seq(Appeals)]
    BY <2>2, <2>3 DEF GradingTypeOK
  <2>. QED
    BY <1>9, <2>4 DEF UpdateAppeal, GradingTypeOK
<1>. QED
  BY <1>1, <1>2, <1>3, <1>4, <1>5, <1>6, <1>7, <1>8, <1>9 DEF GradingNext, GradingWork

-----------------------------------------------------------------------------
(* Graders.                                                                *)

\* A step moves one grader, or the appeals, or nothing.
LEMMA OneMoves ==
  ASSUME IInv, [GradingNext]_gradingVars, NEW h \in Graders, grader'[h] # grader[h]
  PROVE  \/ \E s \in Submissions, v \in Grades : BeginGrading(h, s, v)
         \/ SelectExisting(h) \/ Write(h) \/ SavePublished(h) \/ SaveAudit(h)
         \/ SaveChanged(h) \/ GraderDies(h)
<1>. USE DEF IInv
<1>1. ASSUME NEW g \in Graders, g # h
      PROVE  /\ ~SelectExisting(g) /\ ~Write(g) /\ ~SavePublished(g) /\ ~SaveAudit(g)
             /\ ~SaveChanged(g) /\ ~GraderDies(g)
             /\ \A s \in Submissions, v \in Grades : ~BeginGrading(g, s, v)
  <2>1. ~Write(g)
    BY <1>1, SideEffectsType DEF Write, GraderStops, GradingTypeOK
  <2>. QED
    BY <1>1, <2>1 DEF SelectExisting, SavePublished, SaveAudit, SaveChanged, GraderDies,
       BeginGrading, GraderStops, GraderGoto, GradingTypeOK
<1>. QED
  BY <1>1 DEF GradingNext, GradingWork, gradingVars, CreateAppeal, UpdateAppeal

\* What graders have read stays in the history.
LEMMA GradersKept == IInv /\ [GradingNext]_gradingVars => GraderOK'
<1>. SUFFICES ASSUME IInv, [GradingNext]_gradingVars, NEW h \in Graders, NEW s \in Submissions,
                     grader'[h].submission = s
              PROVE  /\ grader'[h].pc \in {"select", "write"} =>
                          grader'[h].previous \in {NoGrade} \cup Recorded(s)'
                     /\ grader'[h].pc = "write" =>
                          grader'[h].existing \in {NoGrade} \cup Recorded(s)'
                     /\ grader'[h].pc = "audit" => grader'[h].previous # NoGrade
  BY DEF GraderOK
<1>. USE DEF IInv
<1>1. Recorded(s) \subseteq Recorded(s)'
  BY RecordedStep
<1>2. grade[s] \in {NoGrade} \cup Recorded(s)
  <2>. SUFFICES ASSUME history[s] # <<>> PROVE grade[s] \in Recorded(s)
    BY DEF HistoryIsReal
  <2>1. Len(history[s]) \in DOMAIN history[s]
    BY DEF GradingTypeOK
  <2>. QED
    BY <2>1 DEF HistoryIsReal, Recorded
<1>3. CASE grader'[h] = grader[h]
  BY <1>1, <1>3 DEF GraderOK
<1>4. CASE \E t \in Submissions, v \in Grades : BeginGrading(h, t, v)
  <2>1. PICK t \in Submissions, v \in Grades : BeginGrading(h, t, v)
    BY <1>4
  <2>2. grader'[h] = [pc |-> "select", submission |-> t, grade |-> v,
                      previous |-> grade[t], existing |-> NoGrade]
    BY <2>1 DEF BeginGrading, GradingTypeOK
  <2>. QED
    BY <1>1, <1>2, <2>2
<1>5. CASE SelectExisting(h)
  <2>1. grader'[h] = [grader[h] EXCEPT !.pc = "write", !.existing = grade[grader[h].submission]]
    BY <1>5 DEF SelectExisting, GradingTypeOK
  <2>2. /\ grader'[h].pc = "write" /\ grader'[h].previous = grader[h].previous
        /\ grader'[h].existing = grade[grader[h].submission]
        /\ grader'[h].submission = grader[h].submission
    BY <2>1 DEF GradingTypeOK, Gradings
  <2>. QED
    BY <1>1, <1>2, <1>5, <2>2 DEF SelectExisting, GraderOK
<1>6. CASE Write(h)
  <2>1. \/ grader'[h] = NoGrading
        \/ grader'[h] = [grader[h] EXCEPT !.pc = "publish"]
        \/ grader'[h] = [grader[h] EXCEPT !.pc = "audit"] /\ grader[h].previous # NoGrade
    BY <1>6, SideEffectsType DEF Write, GraderStops, GradingTypeOK
  <2>. QED
    BY <2>1 DEF NoGrading, GradingTypeOK, Gradings
<1>7. CASE SaveAudit(h)
  <2>1. grader'[h] = [grader[h] EXCEPT !.pc = "change"]
    BY <1>7 DEF SaveAudit, GraderGoto, GradingTypeOK
  <2>. QED
    BY <2>1 DEF GradingTypeOK, Gradings
<1>8. CASE SavePublished(h) \/ SaveChanged(h) \/ GraderDies(h)
  BY <1>8 DEF SavePublished, SaveChanged, GraderDies, GraderStops, NoGrading, GradingTypeOK
<1>. QED
  BY <1>3, <1>4, <1>5, <1>6, <1>7, <1>8, OneMoves

-----------------------------------------------------------------------------
(* Announcements.                                                          *)

\* The grades of a submission of which something is known to students, or will
\* be, or was lost.
Known(s) == Announced(s) \cup InHand(s) \cup lost[s]

\* What is announced or lost stays so.
LEMMA AnnouncedGrows ==
  ASSUME IInv, [GradingNext]_gradingVars, NEW s \in Submissions
  PROVE  events[s] \subseteq events'[s] /\ lost[s] \subseteq lost'[s]
<1>. USE DEF IInv
<1>1. CASE UNCHANGED <<events, lost>>
  BY <1>1
<1>2. CASE \E g \in Graders : SavePublished(g) \/ SaveChanged(g)
  BY <1>2 DEF SavePublished, SaveChanged, GradingTypeOK
<1>3. CASE \E g \in Graders : GraderDies(g)
  BY <1>3 DEF GraderDies, GradingTypeOK
<1>. QED
  BY <1>1, <1>2, <1>3 DEF GradingNext, GradingWork, gradingVars, SelectExisting, Write, SaveAudit,
     BeginGrading, CreateAppeal, UpdateAppeal

\* A grader with a grade in hand keeps it, saves it or loses it.
LEMMA KnownGrows ==
  ASSUME IInv, [GradingNext]_gradingVars, NEW s \in Submissions
  PROVE  Known(s) \subseteq Known(s)'
<1>. USE DEF IInv
<1>1. Announced(s) \subseteq Announced(s)' /\ lost[s] \subseteq lost'[s]
  BY AnnouncedGrows DEF Announced
<1>2. ASSUME NEW h \in Graders, grader[h].pc \in {"publish", "audit", "change"},
             grader[h].submission = s
      PROVE  grader[h].grade \in Known(s)'
  <2>1. CASE grader'[h] = grader[h]
    BY <1>2, <2>1 DEF Known, InHand
  <2>2. CASE SaveAudit(h)
    <3>1. grader'[h] = [grader[h] EXCEPT !.pc = "change"]
      BY <2>2 DEF SaveAudit, GraderGoto, GradingTypeOK
    <3>2. /\ grader'[h].pc = "change" /\ grader'[h].submission = s
          /\ grader'[h].grade = grader[h].grade
      BY <1>2, <3>1 DEF GradingTypeOK, Gradings
    <3>. QED
      BY <3>2 DEF Known, InHand
  <2>3. CASE SavePublished(h) \/ SaveChanged(h)
    <3>1. PICK kind \in {"published", "changed"} :
            [kind |-> kind, grade |-> grader[h].grade] \in events'[s]
      BY <1>2, <2>3 DEF SavePublished, SaveChanged, GradingTypeOK
    <3>. QED
      BY <3>1 DEF Known, Announced
  <2>4. CASE GraderDies(h)
    BY <1>2, <2>4 DEF GraderDies, Known, GradingTypeOK
  <2>. QED
    BY <1>2, <2>1, <2>2, <2>3, <2>4, OneMoves DEF BeginGrading, SelectExisting, Write
<1>. QED
  BY <1>1, <1>2 DEF Known, InHand

\* A grader that writes a visible grade has it in hand, unless its first read
\* says that the grade is not new, and then it is known already.
LEMMA WrittenIsKnown ==
  ASSUME IInv, [GradingNext]_gradingVars, NEW s \in Submissions, NEW g \in Graders, Writes(g, s),
         Visible(grader[g].grade)
  PROVE  grader[g].grade \in Known(s)'
<1>. USE DEF IInv
<1>1. CASE grader[g].previous = grader[g].grade
  <2>1. grader[g].grade \in Recorded(s)
    BY <1>1, GradesAssumption DEF Writes, GraderOK, GradingTypeOK, Gradings
  <2>2. grader[g].grade \in Known(s)
    BY <2>1 DEF VisibleGradesAnnounced, Known
  <2>. QED
    BY <2>2, KnownGrows
<1>2. ASSUME grader[g].previous # grader[g].grade,
             NEW pc \in {"publish", "audit"}, GraderGoto(g, pc)
      PROVE  grader[g].grade \in Known(s)'
  <2>1. grader'[g] = [grader[g] EXCEPT !.pc = pc]
    BY <1>2 DEF GraderGoto, GradingTypeOK
  <2>2. /\ grader'[g].pc \in {"publish", "audit"} /\ grader'[g].submission = s
        /\ grader'[g].grade = grader[g].grade
    BY <2>1 DEF Writes, GradingTypeOK, Gradings
  <2>. QED
    BY <2>2 DEF Known, InHand
<1>. QED
  BY <1>1, <1>2 DEF Writes, SideEffects

\* Every visible grade ever recorded stays known.
LEMMA AnnouncementsKept == IInv /\ [GradingNext]_gradingVars => VisibleGradesAnnounced'
<1>. SUFFICES ASSUME IInv, [GradingNext]_gradingVars, NEW s \in Submissions,
                     NEW v \in Recorded(s)', Visible(v)
              PROVE  v \in Known(s)'
  BY DEF VisibleGradesAnnounced, Known
<1>1. CASE v \in Recorded(s)
  BY <1>1, KnownGrows DEF IInv, VisibleGradesAnnounced, Known
<1>2. CASE v \notin Recorded(s)
  <2>1. PICK g \in Graders : Writes(g, s) /\ v = grader[g].grade
    BY <1>2, RecordedStep DEF IInv
  <2>. QED
    BY <2>1, WrittenIsKnown
<1>. QED
  BY <1>1, <1>2

-----------------------------------------------------------------------------
(* Appeals.                                                                *)

\* The index holds: an appeal is opened or reopened only when no other is open.
LEMMA AppealsKept == IInv /\ [GradingNext]_gradingVars => OneOpenAppeal'
<1>. SUFFICES ASSUME IInv, [GradingNext]_gradingVars, NEW s \in Submissions,
                     NEW i \in Open(s)', NEW k \in Open(s)'
              PROVE  i = k
  BY DEF OneOpenAppeal
<1>. USE DEF IInv
<1>1. CASE UNCHANGED appeals[s]
  BY <1>1 DEF OneOpenAppeal, Open
<1>2. CASE CreateAppeal(s)
  <2>. DEFINE e == "open"
              q == appeals[s]
  <2>1. e \in Appeals /\ q \in Seq(Appeals)
    BY DEF GradingTypeOK, Appeals
  <2>2. appeals'[s] = Append(q, e) /\ Open(s) = {}
    BY <1>2 DEF CreateAppeal, GradingTypeOK
  <2>3. \A j \in DOMAIN q : q[j] # "open"
    BY <2>2 DEF Open
  <2>. HIDE DEF e, q
  <2>4. /\ Len(q) \in Nat /\ DOMAIN q = 1..Len(q)
        /\ DOMAIN appeals'[s] = 1..(Len(q) + 1)
        /\ \A j \in 1..Len(q) : appeals'[s][j] = q[j]
    BY <2>1, <2>2, Appended
  <2>5. ASSUME NEW j \in Open(s)' PROVE j = Len(q) + 1
    BY <2>3, <2>4 DEF Open
  <2>. QED
    BY <2>5
<1>3. ASSUME NEW j \in DOMAIN appeals[s], NEW status \in Appeals,
             UpdateAppeal(s, j, status)
      PROVE  i = k
  <2>. DEFINE q == appeals[s]
  <2>1. q \in Seq(Appeals)
    BY DEF GradingTypeOK
  <2>2. appeals'[s] = WithStatus(q, j, status)
    BY <1>3 DEF UpdateAppeal, GradingTypeOK
  <2>3. /\ DOMAIN appeals'[s] = DOMAIN q /\ appeals'[s][j] = status
        /\ \A m \in DOMAIN q \ {j} : appeals'[s][m] = q[m]
    BY <2>1, <2>2 DEF WithStatus
  <2>4. \A m \in Open(s)' : m \in Open(s) \/ (m = j /\ status = "open")
    BY <2>3 DEF Open
  <2>5. status = "open" => Open(s) \subseteq {j}
    BY <1>3 DEF UpdateAppeal
  <2>. QED
    BY <2>4, <2>5 DEF OneOpenAppeal
<1>4. \/ UNCHANGED appeals[s] \/ CreateAppeal(s)
      \/ \E j \in DOMAIN appeals[s], status \in Appeals : UpdateAppeal(s, j, status)
  <2>1. CASE \E t \in Submissions : CreateAppeal(t)
    BY <2>1 DEF CreateAppeal, GradingTypeOK
  <2>2. CASE \E t \in Submissions : \E j \in DOMAIN appeals[t], status \in Appeals :
               UpdateAppeal(t, j, status)
    BY <2>2 DEF UpdateAppeal, GradingTypeOK
  <2>. QED
    BY <2>1, <2>2 DEF GradingNext, GradingWork, gradingVars, BeginGrading, SelectExisting, Write, SavePublished,
       SaveAudit, SaveChanged, GraderDies
<1>. QED
  BY <1>1, <1>2, <1>3, <1>4

-----------------------------------------------------------------------------
(* The invariant and what follows.                                         *)

LEMMA InitOK == GradingInit => IInv
<1>. SUFFICES ASSUME GradingInit PROVE IInv
  OBVIOUS
<1>1. GradingTypeOK
  BY IdleType DEF GradingInit, GradingTypeOK, GradeRows
<1>2. HistoryIsReal /\ VisibleGradesAnnounced /\ OneOpenAppeal
  BY DEF GradingInit, HistoryIsReal, VisibleGradesAnnounced, Recorded, OneOpenAppeal, Open
<1>3. GraderOK
  BY DEF GradingInit, GraderOK, NoGrading
<1>. QED
  BY <1>1, <1>2, <1>3 DEF IInv

LEMMA NextOK == IInv /\ [GradingNext]_gradingVars => IInv'
  BY TypesKept, HistoryKept, GradersKept, AnnouncementsKept, AppealsKept DEF IInv

\* The conjunction of everything below and of what graders have read.
THEOREM Invariance == GradingSpec => []IInv
  BY InitOK, NextOK, PTL DEF GradingSpec

\* Rows, logs and graders keep their types.
THEOREM TypeCorrect == GradingSpec => []GradingTypeOK
<1>1. IInv => GradingTypeOK
  BY DEF IInv
<1>. QED
  BY <1>1, Invariance, PTL

\* However graders race, the history of a submission ends with its grade and
\* names only grades it really had.
THEOREM HistoryCorrect == GradingSpec => []HistoryIsReal
<1>1. IInv => HistoryIsReal
  BY DEF IInv
<1>. QED
  BY <1>1, Invariance, PTL

\* No race of graders leaves a visible grade without an event: only a death
\* between the commit and the event does.
THEOREM AnnouncementCorrect == GradingSpec => []VisibleGradesAnnounced
<1>1. IInv => VisibleGradesAnnounced
  BY DEF IInv
<1>. QED
  BY <1>1, Invariance, PTL

\* A grade has at most one open appeal.
THEOREM AppealsCorrect == GradingSpec => []OneOpenAppeal
<1>1. IInv => OneOpenAppeal
  BY DEF IInv
<1>. QED
  BY <1>1, Invariance, PTL

-----------------------------------------------------------------------------
(* What staff enter by hand.                                               *)

\* What a transaction has read FOR UPDATE is still so.
RecorderOK ==
  \A x \in Recorders : InTransaction(x) =>
    /\ recorder[x].pc \in {"membership", "upsert"} =>
         /\ Accepted(recorder[x].register, recorder[x].mark)
         /\ recorder[x].max = register[recorder[x].register].max
    /\ recorder[x].pc = "upsert" => role[recorder[x].pupil] = "student"

RegistersInv == RegistersTypeOK /\ RecorderOK

\* What the locks of a transaction make of it.
LEMMA RecordingTypes ==
  ASSUME NEW y \in Recordings, y # NoRecord
  PROVE  /\ y.register \in Registers /\ y.pupil \in Pupils /\ y.mark \in Marks
         /\ y.max \in Marks /\ y.pc \in {"register", "membership", "upsert"}
         /\ LET z == [y EXCEPT !.pc = "upsert"]
            IN  /\ z \in Recordings
                /\ z.pc = "upsert" /\ z.register = y.register
                /\ z.pupil = y.pupil /\ z.mark = y.mark /\ z.max = y.max
BY DEF Recordings

LEMMA LockedType ==
  ASSUME NEW y \in Recordings, y # NoRecord, NEW m \in Marks
  PROVE  LET z == [y EXCEPT !.pc = "membership", !.max = m]
         IN  /\ z \in Recordings
             /\ z.pc = "membership" /\ z.register = y.register
             /\ z.pupil = y.pupil /\ z.mark = y.mark /\ z.max = m
BY DEF Recordings

\* A transaction that ends holds nothing.
LEMMA RollbackKeeps ==
  ASSUME RegistersInv, NEW x \in Recorders, recorder' = [recorder EXCEPT ![x] = NoRecord],
         UNCHANGED <<register, role>>,
         records' \in [Registers \X Pupils -> RecordRows \cup {NoRecord}]
  PROVE  RegistersInv'
<1>1. \A y \in Recorders : recorder'[y] = IF y = x THEN NoRecord ELSE recorder[y]
  BY DEF RegistersInv, RegistersTypeOK
<1>2. RegistersTypeOK'
  BY <1>1 DEF RegistersInv, RegistersTypeOK, Recordings
<1>3. RecorderOK'
  BY <1>1 DEF RegistersInv, RecorderOK, InTransaction, Accepted
<1>. QED
  BY <1>2, <1>3 DEF RegistersInv

LEMMA BeginRecordingKeeps ==
  ASSUME RegistersInv, NEW x \in Recorders, NEW r \in Registers, NEW p \in Pupils,
         NEW mark \in Marks, BeginRecording(x, r, p, mark)
  PROVE  RegistersInv'
<1>. DEFINE z == [pc |-> "register", register |-> r, pupil |-> p, mark |-> mark, max |-> mark]
<1>1. z \in Recordings /\ z.pc = "register"
  BY DEF Recordings
<1>2. \A y \in Recorders : recorder'[y] = IF y = x THEN z ELSE recorder[y]
  BY DEF RegistersInv, RegistersTypeOK, BeginRecording
<1>. HIDE DEF z
<1>3. recorder' \in [Recorders -> Recordings]
  BY <1>1, <1>2 DEF RegistersInv, RegistersTypeOK, BeginRecording
<1>4. RegistersTypeOK'
  BY <1>3 DEF RegistersInv, RegistersTypeOK, BeginRecording
<1>5. RecorderOK'
  BY <1>1, <1>2 DEF RegistersInv, RecorderOK, InTransaction, Accepted, BeginRecording
<1>. QED
  BY <1>4, <1>5 DEF RegistersInv

LEMMA LockRegisterKeeps ==
  ASSUME RegistersInv, NEW x \in Recorders, LockRegister(x)
  PROVE  RegistersInv'
<1>. DEFINE y == recorder[x]
            m == register[recorder[x].register].max
            z == [y EXCEPT !.pc = "membership", !.max = m]
<1>0. y \in Recordings /\ y # NoRecord
  BY DEF RegistersInv, RegistersTypeOK, LockRegister, InTransaction
<1>1. CASE ~Accepted(y.register, y.mark)
  BY <1>1, RollbackKeeps DEF LockRegister, Rollback, RegistersInv, RegistersTypeOK
<1>2. CASE Accepted(y.register, y.mark)
  <2>0. y.register \in Registers
    BY <1>0, RecordingTypes
  <2>1. m \in Marks
    <3>1. register[y.register] \in RegisterRows
      BY <1>2, <2>0 DEF RegistersInv, RegistersTypeOK, Accepted
    <3>. QED
      BY <3>1 DEF RegisterRows
  <2>. HIDE DEF m, y
  <2>2. /\ z \in Recordings
        /\ z.pc = "membership" /\ z.register = y.register /\ z.mark = y.mark /\ z.max = m
    BY ONLY <1>0, <2>1, LockedType
  <2>. USE DEF m, y
  <2>3. recorder' = [recorder EXCEPT ![x] = z] /\ UNCHANGED <<register, role, records>>
    BY <1>2 DEF LockRegister
  <2>. HIDE DEF z
  <2>4. \A q \in Recorders : recorder'[q] = IF q = x THEN z ELSE recorder[q]
    BY <2>3 DEF RegistersInv, RegistersTypeOK
  <2>5. RegistersTypeOK'
    BY <2>2, <2>3 DEF RegistersInv, RegistersTypeOK
  <2>6. RecorderOK'
    BY <1>2, <2>2, <2>3, <2>4 DEF RegistersInv, RecorderOK, InTransaction, Accepted
  <2>. QED
    BY <2>5, <2>6 DEF RegistersInv
<1>. QED
  BY <1>1, <1>2

LEMMA LockMembershipKeeps ==
  ASSUME RegistersInv, NEW x \in Recorders, LockMembership(x)
  PROVE  RegistersInv'
<1>. DEFINE y == recorder[x]
            z == [y EXCEPT !.pc = "upsert"]
<1>0. y \in Recordings /\ y # NoRecord
  BY DEF RegistersInv, RegistersTypeOK, LockMembership, InTransaction
<1>1. CASE role[y.pupil] # "student"
  BY <1>1, RollbackKeeps DEF LockMembership, Rollback, RegistersInv, RegistersTypeOK
<1>2. CASE role[y.pupil] = "student"
  <2>1. /\ z \in Recordings
        /\ z.pc = "upsert" /\ z.register = y.register /\ z.mark = y.mark
        /\ z.pupil = y.pupil /\ z.max = y.max
    BY <1>0, RecordingTypes
  <2>2. /\ recorder' = [recorder EXCEPT ![x] = z] /\ UNCHANGED <<register, role, records>>
        /\ y.pc = "membership"
    BY <1>2 DEF LockMembership
  <2>3. /\ Accepted(y.register, y.mark)
        /\ y.max = register[y.register].max
    BY <2>2, <1>0 DEF RegistersInv, RecorderOK, InTransaction
  <2>. HIDE DEF z
  <2>4. \A q \in Recorders : recorder'[q] = IF q = x THEN z ELSE recorder[q]
    BY <2>2 DEF RegistersInv, RegistersTypeOK
  <2>5. RegistersTypeOK'
    BY <2>1, <2>2 DEF RegistersInv, RegistersTypeOK
  <2>6. RecorderOK'
    BY <1>2, <2>1, <2>2, <2>3, <2>4 DEF RegistersInv, RecorderOK, InTransaction, Accepted
  <2>. QED
    BY <2>5, <2>6 DEF RegistersInv
<1>. QED
  BY <1>1, <1>2

\* The one row that an upsert writes, and that it keeps its type.
LEMMA UpsertWrites ==
  ASSUME RegistersInv, NEW x \in Recorders, UpsertRecord(x)
  PROVE  LET y == recorder[x] IN
         /\ y \in Recordings /\ y # NoRecord /\ y.pc = "upsert"
         /\ \A r \in Registers, p \in Pupils :
              records'[<<r, p>>] = IF r = y.register /\ p = y.pupil
                               THEN [mark |-> y.mark, max |-> y.max] ELSE records[<<r, p>>]
         /\ records' \in [Registers \X Pupils -> RecordRows \cup {NoRecord}]
<1>. DEFINE y == recorder[x]
            row == [mark |-> y.mark, max |-> y.max]
<1>1. y \in Recordings /\ y # NoRecord /\ y.pc = "upsert"
  BY DEF RegistersInv, RegistersTypeOK, UpsertRecord, InTransaction
<1>2. <<y.register, y.pupil>> \in Registers \X Pupils /\ row \in RecordRows
  BY <1>1, RecordingTypes DEF RecordRows
<1>3. records' = [records EXCEPT ![<<y.register, y.pupil>>] = row]
  BY DEF UpsertRecord
<1>. HIDE DEF row
<1>4. records \in [Registers \X Pupils -> RecordRows \cup {NoRecord}]
  BY DEF RegistersInv, RegistersTypeOK
<1>5. \A r \in Registers, p \in Pupils :
        records'[<<r, p>>] = IF r = y.register /\ p = y.pupil THEN row ELSE records[<<r, p>>]
  BY <1>2, <1>3, <1>4
<1>6. records' \in [Registers \X Pupils -> RecordRows \cup {NoRecord}]
  BY <1>2, <1>3, <1>4
<1>. QED
  BY <1>1, <1>5, <1>6 DEF row

\* Staff change a register or a membership that no transaction holds.
LEMMA ChangesKeep ==
  ASSUME RegistersInv
  PROVE  /\ \A i \in Items : UpdateManualItem(i) \/ DeleteManualItem(i) => RegistersInv'
         /\ \A p \in Pupils : ChangeMembership(p) => RegistersInv'
<1>0. \A x \in Recorders : InTransaction(x) =>
        recorder[x].register \in Registers /\ recorder[x].pupil \in Pupils
  BY RecordingTypes DEF RegistersInv, RegistersTypeOK, InTransaction
<1>1. ASSUME NEW i \in Items, NEW row \in RegisterRows \cup {Gone}, HoldRegister(i) = {},
             register' = [register EXCEPT ![i] = row], UNCHANGED <<role, recorder>>
      PROVE  /\ register' \in [Registers -> RegisterRows \cup {Gone}]
             /\ RecorderOK'
  <2>1. \A x \in Recorders : InTransaction(x) /\ recorder[x].pc \in {"membership", "upsert"} =>
          recorder[x].register # i
    BY <1>1 DEF HoldRegister
  <2>2. i \in Registers
    BY DEF Registers
  <2>3. \A r \in Registers : r # i => register'[r] = register[r]
    BY <1>1, <2>2 DEF RegistersInv, RegistersTypeOK
  <2>. QED
    BY <1>0, <1>1, <2>1, <2>2, <2>3
       DEF RegistersInv, RegistersTypeOK, RecorderOK, InTransaction, Accepted
<1>2. ASSUME NEW i \in Items, UpdateManualItem(i) PROVE RegistersInv'
  BY <1>1, <1>2 DEF UpdateManualItem, RegistersInv, RegistersTypeOK
<1>3. ASSUME NEW i \in Items, DeleteManualItem(i) PROVE RegistersInv'
  <2>1. records' \in [Registers \X Pupils -> RecordRows \cup {NoRecord}]
    BY <1>3 DEF DeleteManualItem, RegistersInv, RegistersTypeOK
  <2>. QED
    BY <1>1, <1>3, <2>1 DEF DeleteManualItem, RegistersInv, RegistersTypeOK
<1>4. ASSUME NEW p \in Pupils, ChangeMembership(p) PROVE RegistersInv'
  <2>1. \A x \in Recorders : InTransaction(x) /\ recorder[x].pc = "upsert" =>
          recorder[x].pupil # p
    BY <1>4 DEF ChangeMembership, HoldMembership
  <2>2. \A q \in Pupils : q # p => role'[q] = role[q]
    BY <1>4 DEF ChangeMembership, RegistersInv, RegistersTypeOK
  <2>3. RegistersTypeOK'
    BY <1>4 DEF ChangeMembership, RegistersInv, RegistersTypeOK
  <2>4. RecorderOK'
    BY <1>0, <1>4, <2>1, <2>2
       DEF ChangeMembership, RegistersInv, RecorderOK, InTransaction, Accepted
  <2>. QED
    BY <2>3, <2>4 DEF RegistersInv
<1>. QED
  BY <1>2, <1>3, <1>4

LEMMA RegistersStep == RegistersInv /\ [RegistersNext]_registerVars => RegistersInv'
<1>. SUFFICES ASSUME RegistersInv, [RegistersNext]_registerVars PROVE RegistersInv'
  OBVIOUS
<1>1. ASSUME NEW x \in Recorders, UpsertRecord(x) PROVE RegistersInv'
  BY <1>1, UpsertWrites, RollbackKeeps DEF UpsertRecord
<1>2. ASSUME NEW x \in Recorders, RecordingFails(x) PROVE RegistersInv'
  BY <1>2, RollbackKeeps DEF RecordingFails, Rollback, RegistersInv, RegistersTypeOK
<1>3. CASE UNCHANGED registerVars
  BY <1>3 DEF registerVars, RegistersInv, RegistersTypeOK, RecorderOK, InTransaction, Accepted
<1>. QED
  BY <1>1, <1>2, <1>3, BeginRecordingKeeps, LockRegisterKeeps, LockMembershipKeeps, ChangesKeep
     DEF RegistersNext

\* A row that is not there any more, or that changed, was written by an upsert,
\* for what its transaction has locked.
LEMMA RecordStep ==
  ASSUME RegistersInv, [RegistersNext]_registerVars, NEW r \in Registers, NEW p \in Pupils,
         records'[<<r, p>>] \notin {records[<<r, p>>], NoRecord}
  PROVE  /\ Accepted(r, records'[<<r, p>>].mark)
         /\ records'[<<r, p>>].max = register[r].max
         /\ role[p] = "student"
<1>1. ASSUME NEW i \in Items, DeleteManualItem(i) PROVE FALSE
  BY <1>1 DEF DeleteManualItem
<1>2. ASSUME UNCHANGED records PROVE FALSE
  BY <1>2
<1>3. PICK x \in Recorders : UpsertRecord(x)
  BY <1>1, <1>2 DEF RegistersNext, registerVars, BeginRecording, LockRegister, LockMembership,
     RecordingFails, Rollback, UpdateManualItem, ChangeMembership
<1>. DEFINE y == recorder[x]
<1>4. /\ y \in Recordings /\ y # NoRecord /\ y.pc = "upsert"
      /\ records'[<<r, p>>] = IF r = y.register /\ p = y.pupil
                             THEN [mark |-> y.mark, max |-> y.max] ELSE records[<<r, p>>]
  BY ONLY <1>3, UpsertWrites, RegistersInv, r \in Registers, p \in Pupils
<1>5. /\ Accepted(y.register, y.mark) /\ y.max = register[y.register].max
      /\ role[y.pupil] = "student"
  BY <1>4 DEF RegistersInv, RecorderOK, InTransaction
<1>. HIDE DEF y
<1>6. r = y.register /\ p = y.pupil
  BY <1>4
<1>7. [mark |-> y.mark, max |-> y.max].mark = y.mark /\ [mark |-> y.mark, max |-> y.max].max = y.max
  OBVIOUS
<1>. QED
  BY <1>4, <1>5, <1>6, <1>7

LEMMA RegistersInitial == RegistersInit => RegistersInv
BY DEF RegistersInit, RegistersInv, RegistersTypeOK, RecorderOK, InTransaction, Recordings

\* The rows and transactions of CourseRegisters have their types.
THEOREM RegistersTypeCorrect == RegistersSpec => []RegistersTypeOK
<1>. QED
  BY RegistersInitial, RegistersStep, PTL DEF RegistersSpec, RegistersInv

\* Each entry is within what its item or session and the membership of its
\* student are at the moment it is written: they were read by earlier
\* statements, but their rows stay locked (recordGradebookManualGrade,
\* recordAttendanceRecord).
THEOREM EntriesCorrect == RegistersSpec => RecordedAsOfNow
<1>1. RegistersInv /\ [RegistersNext]_registerVars =>
        [\A r \in Registers, p \in Pupils :
           records'[<<r, p>>] \notin {records[<<r, p>>], NoRecord} =>
             /\ Accepted(r, records'[<<r, p>>].mark)
             /\ records'[<<r, p>>].max = register[r].max
             /\ role[p] = "student"]_registerVars
  BY RecordStep
<1>. QED
  BY <1>1, RegistersInitial, RegistersStep, PTL DEF RegistersSpec, RecordedAsOfNow
=============================================================================
