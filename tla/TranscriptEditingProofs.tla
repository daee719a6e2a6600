---------------------- MODULE TranscriptEditingProofs ----------------------
(***************************************************************************)
(* Theorems about TranscriptEditing, for every number of people,           *)
(* transcripts, saves, re-uploads and threads.                             *)
(***************************************************************************)
EXTENDS TranscriptEditing, FiniteSetTheorems, TLAPS

-----------------------------------------------------------------------------
(***************************************************************************)
(* Points.                                                                 *)
(***************************************************************************)

\* The rows created from a document are points, and finitely many.
LEMMA NumberedType ==
  ASSUME NEW text \in Seq(Text), NEW from \in Nat
  PROVE  Numbered(text, from) \in PointSet
<1> DEFINE made(k) == [id |-> from + k, text |-> text[k]]
           rows == {made(k) : k \in 1..Len(text)}
<1>0. Numbered(text, from) = rows
  BY DOMAIN text = 1..Len(text) DEF Numbered
<1>1. Numbered(text, from) \subseteq Point
  BY DEF Numbered, Point
<1>2. IsFiniteSet(1..Len(text))
  BY FS_Interval
<1>3. [k \in 1..Len(text) |-> made(k)] \in Surjection(1..Len(text), rows)
  BY DEF Surjection
<1> QED
  BY <1>0, <1>1, <1>2, <1>3, FS_Surjection DEF PointSet

\* The rank of a row is between one and the number of rows.
LEMMA RankRange ==
  ASSUME NEW rows \in PointSet, NEW i \in Nat
  PROVE  /\ Cardinality(rows) \in Nat
         /\ Rank(rows, i) \in 0..Cardinality(rows)
         /\ (\E p \in rows : p.id = i) => Rank(rows, i) > 0
<1> DEFINE upTo == {p \in rows : p.id <= i}
<1>1. IsFiniteSet(rows) /\ \A p \in rows : p.id \in Nat
  BY DEF PointSet, Point
<1>2. IsFiniteSet(upTo) /\ Cardinality(upTo) <= Cardinality(rows)
  BY <1>1, FS_Subset
<1>3. Cardinality(rows) \in Nat /\ Cardinality(upTo) \in Nat
  BY <1>1, <1>2, FS_CardinalityType
<1>4. ASSUME NEW p \in rows, p.id = i
      PROVE  Cardinality(upTo) > 0
  <2>1. upTo # {}
    BY <1>4
  <2> QED
    BY <1>2, <1>3, <2>1, FS_EmptySet
<1> QED
  BY <1>2, <1>3, <1>4 DEF Rank

\* An update of a row is a point with the id of the row.
LEMMA UpdatedType ==
  ASSUME NEW p \in Point, NEW seen \in PointSet, NEW text \in Seq(Text),
         \E q \in seen : q.id = p.id, Rank(seen, p.id) <= Len(text)
  PROVE  Updated(p, seen, text) \in Point /\ Updated(p, seen, text).id = p.id
<1>1. p.id \in Nat
  BY DEF Point
<1>2. /\ Cardinality(seen) \in Nat
      /\ Rank(seen, p.id) \in 0..Cardinality(seen)
      /\ Rank(seen, p.id) > 0
  BY <1>1, RankRange
<1>3. text[Rank(seen, p.id)] \in Text
  <2>1. Rank(seen, p.id) \in 1..Len(text)
    BY <1>2
  <2> QED
    BY <2>1
<1> QED
  BY <1>3 DEF Updated, Point

\* update_existing_points leaves finitely many points.
LEMMA RewrittenType ==
  ASSUME NEW now \in PointSet, NEW seen \in PointSet,
         NEW text \in Seq(Text), NEW from \in Nat
  PROVE  Rewritten(now, seen, text, from) \in PointSet
<1> DEFINE known == {p \in now : \E q \in seen : q.id = p.id}
           kept == {p \in known : Rank(seen, p.id) <= Len(text)}
           updated == {Updated(p, seen, text) : p \in kept}
           made(k) == [id |-> from + k - Cardinality(seen), text |-> text[k]]
           extra == (Cardinality(seen) + 1)..Len(text)
           created == {made(k) : k \in extra}
<1>1. Cardinality(seen) \in Nat
  BY RankRange, 0 \in Nat
<1>2. IsFiniteSet(now) /\ now \subseteq Point
  BY DEF PointSet
<1>3. (now \ known) \in PointSet
  BY <1>2, FS_Subset DEF PointSet
<1>4. updated \in PointSet
  <2>1. IsFiniteSet(kept)
    BY <1>2, FS_Subset
  <2>2. \A p \in kept : Updated(p, seen, text) \in Point
    BY <1>2, UpdatedType
  <2>3. [p \in kept |-> Updated(p, seen, text)] \in Surjection(kept, updated)
    BY DEF Surjection
  <2>4. updated \subseteq Point
    BY <2>2
  <2> QED
    BY <2>1, <2>3, <2>4, FS_Surjection DEF PointSet
<1>5. created \in PointSet
  <2>1. \A k \in extra : made(k) \in Point
    BY <1>1 DEF Point
  <2>2. [k \in extra |-> made(k)] \in Surjection(extra, created)
    BY DEF Surjection
  <2>3. IsFiniteSet(extra)
    BY <1>1, FS_Interval
  <2> QED
    BY <2>1, <2>2, <2>3, FS_Surjection DEF PointSet
<1>6. IsFiniteSet((now \ known) \cup created \cup updated)
  BY <1>3, <1>4, <1>5, FS_Union DEF PointSet
<1>7. Rewritten(now, seen, text, from) = (now \ known) \cup created \cup updated
  BY DEF Rewritten
<1> QED
  BY <1>3, <1>4, <1>5, <1>6, <1>7 DEF PointSet

\* update_existing_points adds rows or removes rows, never both.
LEMMA RewrittenKeepsIds ==
  ASSUME NEW now \in PointSet, NEW seen \in PointSet,
         NEW text \in Seq(Text), NEW from \in Nat
  PROVE  \/ Ids(now) \subseteq Ids(Rewritten(now, seen, text, from))
         \/ Ids(Rewritten(now, seen, text, from)) \subseteq Ids(now)
<1> DEFINE known == {p \in now : \E q \in seen : q.id = p.id}
           kept == {p \in known : Rank(seen, p.id) <= Len(text)}
           updated == {Updated(p, seen, text) : p \in kept}
           created == {[id |-> from + k - Cardinality(seen), text |-> text[k]] :
                       k \in (Cardinality(seen) + 1)..Len(text)}
<1>1. /\ Cardinality(seen) \in Nat
      /\ \A p \in now : Rank(seen, p.id) \in 0..Cardinality(seen)
  BY RankRange, 0 \in Nat DEF PointSet, Point
<1>2. \A p \in kept : Updated(p, seen, text).id = p.id
  BY UpdatedType DEF PointSet
<1>3. Ids(updated) = Ids(kept)
  BY <1>2 DEF Ids
<1>4. Rewritten(now, seen, text, from) = (now \ known) \cup created \cup updated
  BY DEF Rewritten
<1> HIDE DEF updated
<1>5. CASE Len(text) <= Cardinality(seen)
  <2>1. (Cardinality(seen) + 1)..Len(text) = {}
    BY <1>1, <1>5
  <2>2. created = {}
    BY <2>1
  <2>3. Ids(now \ known) \subseteq Ids(now) /\ Ids(kept) \subseteq Ids(now)
    BY DEF Ids
  <2> HIDE DEF created, known, kept
  <2>4. Ids((now \ known) \cup created \cup updated) = Ids(now \ known) \cup Ids(updated)
    BY <2>2 DEF Ids
  <2> QED
    BY <1>3, <1>4, <2>3, <2>4
<1>6. CASE Cardinality(seen) < Len(text)
  <2>1. \A p \in known : Rank(seen, p.id) <= Len(text)
    BY <1>1, <1>6
  <2>2. kept = known
    BY <2>1
  <2> HIDE DEF created, known, kept
  <2>3. Ids(now) = Ids(now \ known) \cup Ids(known)
    BY DEF Ids, known
  <2>4. Ids((now \ known) \cup created \cup updated)
        = Ids(now \ known) \cup Ids(created) \cup Ids(updated)
    BY DEF Ids
  <2> QED
    BY <1>3, <1>4, <2>2, <2>3, <2>4
<1> QED
  BY <1>1, <1>5, <1>6

-----------------------------------------------------------------------------
(***************************************************************************)
(* Type correctness.  A writer that has left "idle" knows its transcript:  *)
(* without that nothing is known of the points it reads.                   *)
(***************************************************************************)
WritersAtWork ==
  \A w \in Writers :
    /\ task[w].stage = "idle" <=> task[w].t = None
    /\ task[w].stage = "idle" => task[w].slate = None /\ task[w].vtt = None
    /\ task[w].stage = "copied" => task[w].titled

TInv == TypeOK /\ WritersAtWork

LEMMA TInvInit == Init => TInv
<1> SUFFICES ASSUME Init PROVE TInv
  OBVIOUS
<1> USE ConstantsAssumption, NoneAssumption
<1>1. \A t \in Transcripts : t \in Documents /\ [of |-> t, att |-> 0] \in File
  BY DEF File, Documents
<1>2. row \in [Transcripts -> Row]
  BY <1>1 DEF Init, Row
<1>3. points \in [Transcripts -> PointSet] /\ lastId \in [Transcripts -> Nat]
  <2>1. ASSUME NEW t \in Transcripts
        PROVE  Numbered(Paragraphs[t], 0) \in PointSet /\ Len(Paragraphs[t]) \in Nat
    <3>1. Paragraphs[t] \in Seq(Text)
      BY <1>1
    <3> QED
      BY <3>1, NumberedType, 0 \in Nat
  <2> QED
    BY <2>1 DEF Init
<1>4. Idle \in Task
  BY FS_EmptySet DEF Idle, Task, Stages, PointSet
<1>5. task \in [Writers -> Task]
  BY <1>4 DEF Init
<1>6. TypeOK
  <2>1. vtts \subseteq File /\ slates \subseteq File
    BY <1>1 DEF Init
  <2>2. faults \in 0..MaxFaults /\ visits \in 0..MaxVisits
    BY DEF Init
  <2>3. editor \in [Users -> Transcripts \cup {None}]
    BY DEF Init
  <2>4. media \in BOOLEAN /\ deleting \in BOOLEAN /\ aged = {} /\ scan = {}
    BY DEF Init
  <2> QED
    BY <1>2, <1>3, <1>5, <2>1, <2>2, <2>3, <2>4 DEF TypeOK
<1>7. WritersAtWork
  BY DEF Init, WritersAtWork, Idle
<1> QED
  BY <1>6, <1>7 DEF TInv

\* A writer that raised keeps all but its stage and its number of attempts.
LEMMA RaisedType ==
  ASSUME TInv, NEW w \in Writers, task[w].stage # "idle"
  PROVE  /\ Raised(w) \in Task
         /\ Raised(w).t = task[w].t /\ Raised(w).titled = task[w].titled
         /\ Raised(w).slate = task[w].slate /\ Raised(w).vtt = task[w].vtt
         /\ \/ Raised(w).stage = "dead" /\ Raised(w).att = task[w].att
            \/ w \in Saves /\ Raised(w).stage = "queued" /\ Raised(w).att > 0
<1>1. task[w] \in Task /\ MaxRetries \in Nat
  BY ConstantsAssumption DEF TInv, TypeOK
<1>2. CASE w \in Saves /\ task[w].att < MaxRetries
  <2>1. Raised(w) = [task[w] EXCEPT !.stage = "queued", !.att = task[w].att + 1]
    BY <1>2 DEF Raised
  <2>2. task[w].att + 1 \in 0..MaxRetries /\ task[w].att + 1 > 0
    BY <1>1, <1>2 DEF Task
  <2> QED
    BY <1>1, <1>2, <2>1, <2>2 DEF Task, Stages
<1>3. CASE ~(w \in Saves /\ task[w].att < MaxRetries)
  <2>1. Raised(w) = [task[w] EXCEPT !.stage = "dead"]
    BY <1>3 DEF Raised
  <2> QED
    BY <1>1, <2>1 DEF Task, Stages
<1> QED
  BY <1>2, <1>3

\* So the tasks after w raised satisfy their part of the invariant.
LEMMA RaiseType ==
  ASSUME TInv, NEW w \in Writers, task[w].stage # "idle", Raise(w)
  PROVE  task' \in [Writers -> Task] /\ WritersAtWork'
<1>1. task \in [Writers -> Task] /\ task' = [task EXCEPT ![w] = Raised(w)]
  BY DEF TInv, TypeOK, Raise
<1>2. task' \in [Writers -> Task]
  BY <1>1, RaisedType
<1>3. WritersAtWork'
  BY <1>1, RaisedType DEF TInv, WritersAtWork
<1> QED
  BY <1>2, <1>3

\* The tasks after w found the row of t.
LEMMA FoundType ==
  ASSUME TInv, NEW w \in Writers, NEW t \in Transcripts, task' = Found(w, t)
  PROVE  task' \in [Writers -> Task] /\ WritersAtWork'
<1>1. task \in [Writers -> Task] /\ row[t] \in Row /\ t # None
  BY NoneAssumption DEF TInv, TypeOK
<1>2. {} \in PointSet
  BY FS_EmptySet DEF PointSet
<1>3. ASSUME NEW x \in Writers
      PROVE  task'[x] \in Task
  <2> DEFINE alone == AtWorkOn(t) \ {w} = {}
  <2>1. alone \in BOOLEAN
    OBVIOUS
  <2>2. task'[x] =
          IF x = w
          THEN [task[w] EXCEPT !.stage = "loaded", !.t = t,
                  !.is_edit = row[t].is_edit, !.slate = row[t].slate,
                  !.vtt = row[t].vtt, !.seen = {}, !.solo = alone]
          ELSE IF task[x].t = t THEN [task[x] EXCEPT !.solo = FALSE] ELSE task[x]
    BY DEF Found
  <2> HIDE DEF alone
  <2>3. task[x] \in Task
    BY <1>1
  <2>4. CASE x = w
    <3>1. /\ row[t].is_edit \in BOOLEAN
          /\ row[t].slate \in File \cup {None} /\ row[t].vtt \in File \cup {None}
      BY <1>1 DEF Row
    <3>2. t \in Transcripts \cup {None} /\ "loaded" \in Stages
      BY DEF Stages
    <3>3. task'[x] = [stage |-> "loaded", t |-> t, att |-> task[x].att,
                      titled |-> task[x].titled, is_edit |-> row[t].is_edit,
                      slate |-> row[t].slate, vtt |-> row[t].vtt,
                      seen |-> {}, solo |-> alone]
      BY <2>2, <2>3, <2>4 DEF Task
    <3>4. task[x].att \in 0..MaxRetries /\ task[x].titled \in BOOLEAN
      BY <2>3 DEF Task
    <3> QED
      BY <1>2, <2>1, <3>1, <3>2, <3>3, <3>4 DEF Task
  <2>5. CASE x # w
    BY <2>2, <2>3, <2>5 DEF Task
  <2> QED
    BY <2>4, <2>5
<1>4. task' \in [Writers -> Task]
  BY <1>3 DEF Found
<1>5. WritersAtWork'
  BY <1>1 DEF Found, TInv, WritersAtWork, Task
<1> QED
  BY <1>4, <1>5

\* The tasks after w moved on to another stage.
LEMMA MoveType ==
  ASSUME TInv, NEW w \in Writers, task[w].stage # "idle",
         NEW s \in Stages \ {"idle"}, s = "copied" => task[w].titled,
         task' = [task EXCEPT ![w].stage = s]
  PROVE  task' \in [Writers -> Task] /\ WritersAtWork'
<1>1. task \in [Writers -> Task]
  BY DEF TInv, TypeOK
<1>2. task' \in [Writers -> Task]
  BY <1>1 DEF Task
<1>3. WritersAtWork'
  BY <1>1 DEF TInv, WritersAtWork, Task
<1> QED
  BY <1>2, <1>3

\* What a writer names its files by is a file.
LEMMA OwnType ==
  ASSUME TInv, NEW w \in Writers
  PROVE  Own(w) \in File
BY DEF Own, File, Documents, TInv, TypeOK, Task

\* A writer that is at work has a transcript.
LEMMA TaskT ==
  ASSUME TInv, NEW w \in Writers, task[w].stage # "idle"
  PROVE  task[w].t \in Transcripts
BY DEF TInv, TypeOK, WritersAtWork, Task

\* What destroying transcripts does to the types.
LEMMA DestroyedType ==
  ASSUME TInv, NEW ts, Destroyed(ts)
  PROVE  /\ row' \in [Transcripts -> Row] /\ points' \in [Transcripts -> PointSet]
         /\ slates' \subseteq File /\ vtts' \subseteq File
         /\ aged' \subseteq Transcripts
<1>1. Gone \in Row
  BY DEF Gone, Row
<1>2. {} \in PointSet
  BY FS_EmptySet DEF PointSet
<1> QED
  BY <1>1, <1>2 DEF Destroyed, TInv, TypeOK

\* Locking and unlocking a row.
LEMMA LockType ==
  ASSUME NEW r \in Row, NEW b \in BOOLEAN, NEW u \in Users \cup {None}
  PROVE  /\ [r EXCEPT !.is_edit = b] \in Row
         /\ [r EXCEPT !.is_edit = b, !.locked_by = u] \in Row
<1>1. [r EXCEPT !.is_edit = b] \in Row
  BY DEF Row
<1>2. [r EXCEPT !.is_edit = b, !.locked_by = u] \in Row
  BY DEF Row
<1> QED
  BY <1>1, <1>2

\* A save that is queued.
LEMMA QueuedType ==
  ASSUME NEW r \in Task, NEW t \in Transcripts, NEW b \in BOOLEAN
  PROVE  [r EXCEPT !.stage = "queued", !.t = t, !.titled = b] \in Task
BY DEF Task, Stages

\* A writer that moves on with new knowledge of its slate file, or of points.
LEMMA LearnType ==
  ASSUME NEW r \in Task, NEW s \in Stages, NEW f \in File \cup {None},
         NEW rows \in PointSet
  PROVE  /\ [r EXCEPT !.stage = s, !.slate = f] \in Task
         /\ [r EXCEPT !.stage = s, !.seen = rows] \in Task
<1>1. [r EXCEPT !.stage = s, !.slate = f] \in Task
  BY DEF Task
<1>2. [r EXCEPT !.stage = s, !.seen = rows] \in Task
  BY DEF Task
<1> QED
  BY <1>1, <1>2

\* Every action keeps the types.
LEMMA TInvStep == TInv /\ [Next]_vars => TInv'
<1> SUFFICES ASSUME TInv, [Next]_vars PROVE TInv'
  OBVIOUS
<1> USE DEF TInv
<1>1. ASSUME NEW u \in Users, NEW t \in Transcripts, Edit(u, t)
      PROVE  TInv'
  <2>1. row' \in [Transcripts -> Row]
    <3>1. [row[t] EXCEPT !.is_edit = TRUE, !.locked_by = u] \in Row
      BY LockType DEF TypeOK
    <3>2. row' = [row EXCEPT ![t] = [row[t] EXCEPT !.is_edit = TRUE, !.locked_by = u]]
      BY <1>1 DEF Edit, TypeOK
    <3> QED
      BY <3>1, <3>2 DEF TypeOK
  <2>2. aged' \subseteq Transcripts /\ editor' \in [Users -> Transcripts \cup {None}]
    BY <1>1 DEF Edit, TypeOK
  <2>3. visits' \in 0..MaxVisits
    BY <1>1, ConstantsAssumption DEF Edit, TypeOK
  <2> QED
    BY <1>1, <2>1, <2>2, <2>3 DEF Edit, TypeOK, WritersAtWork
<1>2. ASSUME NEW u \in Users, NEW w \in Saves, SaveTranscript(u, w)
      PROVE  TInv'
  <2>1. PICK titled \in Titles :
          task' = [task EXCEPT ![w].stage = "queued", ![w].t = editor[u],
                               ![w].titled = titled]
    BY <1>2 DEF SaveTranscript
  <2>2. /\ w \in Writers /\ task \in [Writers -> Task] /\ titled \in BOOLEAN
        /\ editor[u] \in Transcripts /\ editor[u] # None
    BY <1>2, ConstantsAssumption, NoneAssumption DEF SaveTranscript, Live, TypeOK, Writers
  <2>3. task' \in [Writers -> Task]
    <3>1. [task[w] EXCEPT !.stage = "queued", !.t = editor[u], !.titled = titled] \in Task
      BY <2>2, QueuedType
    <3> QED
      BY <2>1, <2>2, <3>1
  <2>4. WritersAtWork'
    BY <2>1, <2>2 DEF WritersAtWork, Task
  <2> QED
    BY <1>2, <2>3, <2>4 DEF SaveTranscript, TypeOK
<1>3. ASSUME NEW u \in Users, UpdateTranscript(u)
      PROVE  TInv'
  <2>1. row' \in [Transcripts -> Row]
    <3>1. editor[u] \in Transcripts
      BY <1>3 DEF UpdateTranscript, Live
    <3>2. [row[editor[u]] EXCEPT !.is_edit = FALSE] \in Row
      BY <3>1, LockType DEF TypeOK
    <3> QED
      BY <1>3, <3>2 DEF UpdateTranscript, TypeOK
  <2> QED
    BY <1>3, <2>1 DEF UpdateTranscript, TypeOK, WritersAtWork
<1>4. ASSUME NEW u \in Users, Abandon(u)
      PROVE  TInv'
  BY <1>4 DEF Abandon, TypeOK, WritersAtWork
<1>5. ASSUME NEW t \in Transcripts, TouchTranscript(t)
      PROVE  TInv'
  BY <1>5, ConstantsAssumption DEF TouchTranscript, TypeOK, WritersAtWork
<1>6. ASSUME NEW w \in Writers, NEW t \in Transcripts, BeginUpload(w, t)
      PROVE  TInv'
  BY <1>6, FoundType DEF BeginUpload, TypeOK
<1>7. ASSUME NEW t \in Transcripts, DestroyTranscript(t)
      PROVE  TInv'
  BY <1>7, DestroyedType DEF DestroyTranscript, TypeOK, WritersAtWork
<1>8. CASE CheckLocks
  BY <1>8 DEF CheckLocks, TypeOK, WritersAtWork
<1>9. CASE DeleteResourceFile
  BY <1>9, DestroyedType DEF DeleteResourceFile, TypeOK, WritersAtWork
<1>10. CASE BulkDeleteFiles
  BY <1>10, DestroyedType DEF BulkDeleteFiles, TypeOK, WritersAtWork
<1>11. ASSUME NEW w \in Writers, PickUp(w)
       PROVE  TInv'
  <2>1. task' \in [Writers -> Task] /\ WritersAtWork'
    BY <1>11, TaskT, FoundType, RaiseType DEF PickUp
  <2> QED
    BY <1>11, <2>1 DEF PickUp, TypeOK
<1>12. ASSUME NEW w \in Writers, SaveSlate(w)
       PROVE  TInv'
  <2>1. /\ slates' = (slates \ {task[w].slate}) \cup {Own(w)}
        /\ task[w].stage = "loaded" /\ Own(w) \in File
    BY <1>12, OwnType DEF SaveSlate
  <2>2. CASE /\ ReindexWorks /\ aged' = aged \ {task[w].t}
             /\ row' = IF task[w].t \in Live
                       THEN [row EXCEPT ![task[w].t].slate = Own(w)] ELSE row
             /\ task' = [task EXCEPT ![w].stage = "saved", ![w].slate = Own(w)]
    <3>1. row' \in [Transcripts -> Row]
      BY <2>1, <2>2 DEF TypeOK, Row
    <3>2. task' \in [Writers -> Task]
      <4>1. [task[w] EXCEPT !.stage = "saved", !.slate = Own(w)] \in Task
        BY <2>1, FS_EmptySet, LearnType DEF TypeOK, PointSet, Stages
      <4> QED
        BY <2>2, <4>1 DEF TypeOK
    <3>3. WritersAtWork'
      BY <2>1, <2>2 DEF TypeOK, WritersAtWork, Task
    <3> QED
      BY <1>12, <2>1, <2>2, <3>1, <3>2, <3>3 DEF SaveSlate, ReindexWorks, TypeOK
  <2>3. CASE ReindexRaises /\ Raise(w) /\ UNCHANGED <<row, aged>>
    BY <1>12, <2>1, <2>3, RaiseType, ConstantsAssumption DEF SaveSlate, ReindexRaises, TypeOK
  <2> QED
    BY <1>12, <2>2, <2>3 DEF SaveSlate
<1>13. ASSUME NEW w \in Writers, UpdateAttributes(w)
       PROVE  TInv'
  <2>1. row' \in [Transcripts -> Row] /\ aged' \subseteq Transcripts
    <3> DEFINE locked == row[task[w].t].is_edit /\ ~task[w].is_edit
    <3>1. CASE task[w].t \in Live /\ row' = [row EXCEPT ![task[w].t].is_edit = locked]
      <4>1. task[w].t \in Transcripts /\ row[task[w].t] \in Row /\ locked \in BOOLEAN
        BY <3>1 DEF Live, TypeOK
      <4> HIDE DEF locked
      <4>2. [row[task[w].t] EXCEPT !.is_edit = locked] \in Row
        BY <4>1 DEF Row
      <4>3. row' \in [Transcripts -> Row]
        BY <3>1, <4>2 DEF TypeOK
      <4> QED
        BY <1>13, <4>3 DEF UpdateAttributes, TypeOK
    <3>2. CASE row' = row
      BY <1>13, <3>2 DEF UpdateAttributes, TypeOK
    <3> QED
      BY <1>13, <3>1, <3>2 DEF UpdateAttributes
  <2>2. faults' \in 0..MaxFaults
    BY <1>13, ConstantsAssumption DEF UpdateAttributes, ReindexWorks, ReindexRaises, TypeOK
  <2>3. task' \in [Writers -> Task] /\ WritersAtWork'
    BY <1>13, MoveType, RaiseType, "updated" \in Stages \ {"idle"}
       DEF UpdateAttributes, Stages
  <2> QED
    BY <1>13, <2>1, <2>2, <2>3 DEF UpdateAttributes, TypeOK
<1>14. ASSUME NEW w \in Writers, ReadPoints(w)
       PROVE  TInv'
  <2>1. CASE task' = [task EXCEPT ![w].stage = "read", ![w].seen = points[task[w].t]]
    <3>1. points[task[w].t] \in PointSet
      BY <1>14, TaskT DEF ReadPoints, TypeOK
    <3>2. [task[w] EXCEPT !.stage = "read", !.seen = points[task[w].t]] \in Task
      BY <3>1, LearnType DEF TypeOK, Stages
    <3>3. task' \in [Writers -> Task]
      BY <2>1, <3>2 DEF TypeOK
    <3>4. WritersAtWork'
      BY <1>14, <2>1 DEF ReadPoints, TypeOK, WritersAtWork, Task
    <3> QED
      BY <1>14, <3>3, <3>4 DEF ReadPoints, TypeOK
  <2>2. CASE Raise(w)
    BY <1>14, <2>2, RaiseType DEF ReadPoints, TypeOK
  <2> QED
    BY <1>14, <2>1, <2>2 DEF ReadPoints
<1>15. ASSUME NEW w \in Writers, WritePoints(w)
       PROVE  TInv'
  <2> DEFINE t == task[w].t
             extra == Len(Paragraphs[w]) - Cardinality(task[w].seen)
  <2>1. CASE /\ t \in Live
             /\ points' = [points EXCEPT ![t] = Rewritten(@, task[w].seen, Paragraphs[w], lastId[t])]
             /\ lastId' = [lastId EXCEPT ![t] = @ + IF extra > 0 THEN extra ELSE 0]
             /\ task' = [task EXCEPT ![w].stage = "pointed", ![w].seen = {}]
    <3>1. /\ t \in Transcripts /\ task[w] \in Task
          /\ Paragraphs[w] \in Seq(Text) /\ task[w].seen \in PointSet
          /\ points[t] \in PointSet /\ lastId[t] \in Nat
      BY <2>1, ConstantsAssumption DEF Live, TypeOK, Task, Documents
    <3>2. Cardinality(task[w].seen) \in Nat
      BY <3>1, RankRange, 0 \in Nat
    <3>3. points' \in [Transcripts -> PointSet]
      BY <2>1, <3>1, RewrittenType DEF TypeOK
    <3>4. lastId' \in [Transcripts -> Nat]
      <4>1. (IF extra > 0 THEN extra ELSE 0) \in Nat
        BY <3>1, <3>2
      <4> QED
        BY <2>1, <3>1, <4>1 DEF TypeOK
    <3>5. {} \in PointSet
      BY FS_EmptySet DEF PointSet
    <3>6. task' \in [Writers -> Task]
      BY <2>1, <3>1, <3>5 DEF TypeOK, Task, Stages
    <3>7. WritersAtWork'
      BY <1>15, <2>1, <3>1 DEF TypeOK, WritersAtWork, Task, WritePoints
    <3> QED
      BY <1>15, <3>3, <3>4, <3>6, <3>7 DEF WritePoints, TypeOK
  <2>2. CASE Raise(w) /\ UNCHANGED <<points, lastId>>
    BY <1>15, <2>2, RaiseType DEF WritePoints, TypeOK
  <2> QED
    BY <1>15, <2>1, <2>2 DEF WritePoints
<1>16. ASSUME NEW w \in Writers, CopyWebvtt(w)
       PROVE  TInv'
  <2>1. vtts' \subseteq File /\ task[w].stage # "idle"
    BY <1>16, OwnType DEF CopyWebvtt, TypeOK
  <2>2. task' \in [Writers -> Task] /\ WritersAtWork'
    BY <1>16, <2>1, MoveType, RaiseType,
       "done" \in Stages \ {"idle"}, "copied" \in Stages \ {"idle"}
       DEF CopyWebvtt, Stages
  <2> QED
    BY <1>16, <2>1, <2>2 DEF CopyWebvtt, TypeOK
<1>17. ASSUME NEW w \in Writers, CommitWebvtt(w)
       PROVE  TInv'
  <2>1. Own(w) \in File
    BY OwnType
  <2>2. row' \in [Transcripts -> Row] /\ aged' \subseteq Transcripts
    BY <1>17, <2>1 DEF CommitWebvtt, TypeOK, Row
  <2>3. faults' \in 0..MaxFaults
    BY <1>17, ConstantsAssumption DEF CommitWebvtt, ReindexWorks, ReindexRaises, TypeOK
  <2>4. task' \in [Writers -> Task] /\ WritersAtWork'
    BY <1>17, MoveType, RaiseType,
       "done" \in Stages \ {"idle"}, "stored" \in Stages \ {"idle"}
       DEF CommitWebvtt, Stages
  <2>5. vtts' \subseteq File
    BY <1>17, <2>1 DEF CommitWebvtt, TypeOK
  <2> QED
    BY <1>17, <2>2, <2>3, <2>4, <2>5 DEF CommitWebvtt, TypeOK
<1>18. ASSUME NEW w \in Writers, ClearPoints(w)
       PROVE  TInv'
  <2>1. points' \in [Transcripts -> PointSet]
    BY <1>18, FS_EmptySet DEF ClearPoints, TypeOK, PointSet
  <2>2. task' \in [Writers -> Task] /\ WritersAtWork'
    BY <1>18, MoveType, "cleared" \in Stages \ {"idle"} DEF ClearPoints, Stages
  <2> QED
    BY <1>18, <2>1, <2>2 DEF ClearPoints, TypeOK
<1>19. ASSUME NEW w \in Writers, ParseUpload(w)
       PROVE  TInv'
  <2> DEFINE t == task[w].t
  <2>1. task' \in [Writers -> Task] /\ WritersAtWork'
    BY <1>19, MoveType, "done" \in Stages \ {"idle"}, "dead" \in Stages \ {"idle"}
       DEF ParseUpload, Stages
  <2>2. CASE /\ t \in Live
             /\ points' = [points EXCEPT ![t] = @ \cup Numbered(Paragraphs[w], lastId[t])]
             /\ lastId' = [lastId EXCEPT ![t] = @ + Len(Paragraphs[w])]
             /\ UNCHANGED <<row, slates, vtts, aged>>
    <3>1. /\ t \in Transcripts /\ Paragraphs[w] \in Seq(Text)
          /\ points[t] \in PointSet /\ lastId[t] \in Nat
      BY <2>2, ConstantsAssumption DEF Live, TypeOK, Documents
    <3>2. points[t] \cup Numbered(Paragraphs[w], lastId[t]) \in PointSet
      BY <3>1, NumberedType, FS_Union DEF PointSet
    <3>3. points' \in [Transcripts -> PointSet] /\ lastId' \in [Transcripts -> Nat]
      BY <2>2, <3>1, <3>2 DEF TypeOK
    <3> QED
      BY <1>19, <2>1, <2>2, <3>3 DEF ParseUpload, TypeOK
  <2>3. CASE Destroyed({t}) /\ UNCHANGED lastId
    BY <1>19, <2>1, <2>3, DestroyedType DEF ParseUpload, TypeOK
  <2>4. CASE UNCHANGED <<row, points, slates, vtts, aged, lastId>>
    BY <1>19, <2>1, <2>4 DEF ParseUpload, TypeOK
  <2> QED
    BY <1>19, <2>2, <2>3, <2>4 DEF ParseUpload
<1>20. ASSUME NEW w \in Writers, WriterFails(w)
       PROVE  TInv'
  <2>1. task' \in [Writers -> Task] /\ WritersAtWork'
    BY <1>20, MoveType, RaiseType, "dead" \in Stages \ {"idle"}
       DEF WriterFails, Active, Stages
  <2> QED
    BY <1>20, <2>1, ConstantsAssumption DEF WriterFails, TypeOK
<1>21. ASSUME NEW t \in Transcripts, DayPasses(t)
       PROVE  TInv'
  BY <1>21 DEF DayPasses, TypeOK, WritersAtWork
<1>22. ASSUME NEW t \in Transcripts, UnlockTranscript(t)
       PROVE  TInv'
  <2>1. row' \in [Transcripts -> Row]
    <3>1. [row[t] EXCEPT !.is_edit = FALSE] \in Row
      BY LockType DEF TypeOK
    <3> QED
      BY <1>22, <3>1 DEF UnlockTranscript, TypeOK
  <2>2. faults' \in 0..MaxFaults
    BY <1>22, ConstantsAssumption DEF UnlockTranscript, ReindexWorks, ReindexRaises, TypeOK
  <2> QED
    BY <1>22, <2>1, <2>2 DEF UnlockTranscript, TypeOK, WritersAtWork
<1>23. CASE ScanLocks
  BY <1>23 DEF ScanLocks, TypeOK, WritersAtWork
<1>24. CASE UNCHANGED vars
  BY <1>24 DEF vars, TypeOK, WritersAtWork
<1> HIDE DEF TInv
<1>25. CASE UserStep
  BY <1>1, <1>2, <1>3, <1>4, <1>5, <1>6, <1>7, <1>8, <1>9, <1>10, <1>25
     DEF UserStep, Writers
<1>26. ASSUME NEW w \in Writers, JobStep(w) \/ UploadStep(w) \/ WriterFails(w)
       PROVE  TInv'
  BY <1>11, <1>12, <1>13, <1>14, <1>15, <1>16, <1>17, <1>18, <1>19, <1>20, <1>26
     DEF JobStep, UploadStep
<1> QED
  BY <1>21, <1>22, <1>23, <1>24, <1>25, <1>26 DEF Next

\* TypeOK is an invariant whatever the constants: attempts stay within the
\* retries, whoever raises, and the ids of points are natural numbers.
THEOREM TypeCorrect == Spec => []TypeOK
<1>1. TInv => TypeOK
  BY DEF TInv
<1> QED
  BY <1>1, TInvInit, TInvStep, PTL DEF Spec

-----------------------------------------------------------------------------
(***************************************************************************)
(* Annotations keep their points.                                          *)
(***************************************************************************)
LEMMA DestroyedKeepsIds ==
  ASSUME NEW ts, Destroyed(ts)
  PROVE  KeepsPointIds
BY DEF Destroyed, KeepsPointIds, Ids

\* No step trades the points of a transcript for new ones.
LEMMA StepKeepsIds == TInv /\ [Next]_vars => KeepsPointIds
<1> SUFFICES ASSUME TInv, [Next]_vars PROVE KeepsPointIds
  OBVIOUS
<1>1. CASE UNCHANGED points
  BY <1>1 DEF KeepsPointIds
<1>2. ASSUME NEW w \in Writers, WritePoints(w)
      PROVE  KeepsPointIds
  <2> DEFINE t == task[w].t
  <2>1. CASE t \in Live /\ points' = [points EXCEPT ![t] =
               Rewritten(@, task[w].seen, Paragraphs[w], lastId[t])]
    <3>1. /\ t \in Transcripts /\ task[w].seen \in PointSet
          /\ Paragraphs[w] \in Seq(Text)
          /\ points \in [Transcripts -> PointSet] /\ lastId[t] \in Nat
      BY <2>1, ConstantsAssumption DEF TInv, TypeOK, Live, Task, Documents
    <3>2. \/ Ids(points[t]) \subseteq Ids(points'[t])
          \/ Ids(points'[t]) \subseteq Ids(points[t])
      BY <2>1, <3>1, RewrittenKeepsIds
    <3> QED
      BY <2>1, <3>1, <3>2 DEF KeepsPointIds
  <2> QED
    BY <1>1, <1>2, <2>1 DEF WritePoints
<1>3. ASSUME NEW w \in Writers, ClearPoints(w)
      PROVE  KeepsPointIds
  BY <1>3 DEF ClearPoints, KeepsPointIds, Ids, TInv, TypeOK
<1>4. ASSUME NEW w \in Writers, ParseUpload(w)
      PROVE  KeepsPointIds
  <2> DEFINE t == task[w].t
  <2>1. CASE points' = [points EXCEPT ![t] = @ \cup Numbered(Paragraphs[w], lastId[t])]
    BY <2>1 DEF KeepsPointIds, Ids, TInv, TypeOK
  <2> QED
    BY <1>1, <1>4, <2>1, DestroyedKeepsIds DEF ParseUpload
<1>5. ASSUME NEW w \in Writers, JobStep(w) \/ UploadStep(w) \/ WriterFails(w)
      PROVE  KeepsPointIds
  <2>1. \/ UNCHANGED points \/ WritePoints(w) \/ ClearPoints(w) \/ ParseUpload(w)
    BY <1>5 DEF JobStep, UploadStep, WriterFails, PickUp, SaveSlate,
                UpdateAttributes, ReadPoints, CopyWebvtt, CommitWebvtt
  <2> QED
    BY <1>1, <1>2, <1>3, <1>4, <2>1
<1>6. CASE UserStep
  <2>1. UNCHANGED points \/ \E ts : Destroyed(ts)
    BY <1>6 DEF UserStep, Edit, SaveTranscript, UpdateTranscript, Abandon,
                BeginUpload, TouchTranscript, DestroyTranscript, CheckLocks,
                DeleteResourceFile, BulkDeleteFiles
  <2> QED
    BY <1>1, <2>1, DestroyedKeepsIds
<1>7. CASE \/ \E t \in Transcripts : DayPasses(t) \/ UnlockTranscript(t)
           \/ ScanLocks \/ UNCHANGED vars
  BY <1>1, <1>7 DEF DayPasses, UnlockTranscript, ScanLocks, vars
<1> QED
  BY <1>5, <1>6, <1>7 DEF Next

\* The property of the run: an edit updates points in place, whoever else
\* writes them in between, so annotations never lose all their points at once.
THEOREM PointIdsKept == Spec => StepsKeepPointIds
BY TInvInit, TInvStep, StepKeepsIds, PTL DEF Spec, StepsKeepPointIds

-----------------------------------------------------------------------------
(***************************************************************************)
(* No file is lost unowed.  MissingFileIsOwed is not inductive: a writer   *)
(* that replaces "its" old file must not take a file from another row.  So *)
(* every file a row or a writer knows of belongs to one transcript: it was *)
(* the transcript's first file, or was stored by a writer of it.           *)
(***************************************************************************)
Belongs(tasks, f, t) ==
  \/ f = None
  \/ f.of = t
  \/ f.of \in Writers /\ tasks[f.of].t = t

FilesBelong ==
  /\ \A t \in Transcripts :
       Belongs(task, row[t].slate, t) /\ Belongs(task, row[t].vtt, t)
  /\ \A w \in Writers :
       /\ Belongs(task, task[w].slate, task[w].t)
       /\ Belongs(task, task[w].vtt, task[w].t)

IInv == TInv /\ FilesBelong /\ MissingFileIsOwed

\* No file belongs to two transcripts.
LEMMA FilesApart ==
  ASSUME NEW t \in Transcripts, NEW t2 \in Transcripts, t # t2, NEW f,
         f # None, Belongs(task, f, t), Belongs(task, f, t2)
  PROVE  FALSE
BY ConstantsAssumption DEF Belongs

\* A file stays with its transcript while no writer changes its transcript.
LEMMA BelongsStays ==
  ASSUME NEW f, NEW t \in Transcripts, Belongs(task, f, t),
         \A w \in Writers : task[w].t # None => task'[w].t = task[w].t
  PROVE  Belongs(task', f, t)
BY NoneAssumption DEF Belongs

\* What a writer finds, keeps or starts with belongs to its transcript.
LEMMA FilesBelongStay ==
  ASSUME TInv, FilesBelong,
         \A w \in Writers : task[w].t # None => task'[w].t = task[w].t,
         \A t \in Transcripts :
           /\ row'[t].slate \in {row[t].slate, None} \/ Belongs(task', row'[t].slate, t)
           /\ row'[t].vtt \in {row[t].vtt, None} \/ Belongs(task', row'[t].vtt, t),
         \A w \in Writers :
           \/ /\ task'[w].slate = task[w].slate \/ Belongs(task', task'[w].slate, task'[w].t)
              /\ task'[w].vtt = task[w].vtt
           \/ /\ task'[w].t \in Transcripts
              /\ task'[w].slate = row[task'[w].t].slate
              /\ task'[w].vtt = row[task'[w].t].vtt
  PROVE  FilesBelong'
<1>1. ASSUME NEW t \in Transcripts
      PROVE  Belongs(task', row'[t].slate, t) /\ Belongs(task', row'[t].vtt, t)
  <2>1. Belongs(task', row[t].slate, t) /\ Belongs(task', row[t].vtt, t)
    BY BelongsStays DEF FilesBelong
  <2>2. Belongs(task', None, t)
    BY DEF Belongs
  <2> QED
    BY <2>1, <2>2
<1>2. ASSUME NEW w \in Writers
      PROVE  /\ Belongs(task', task'[w].slate, task'[w].t)
             /\ Belongs(task', task'[w].vtt, task'[w].t)
  <2>1. task[w].t \in Transcripts \cup {None}
    BY DEF TInv, TypeOK, Task
  <2>2. CASE task[w].t = None
    <3>1. task[w].slate = None /\ task[w].vtt = None
      BY <2>2 DEF TInv, WritersAtWork
    <3>2. ASSUME NEW t \in Transcripts
          PROVE  Belongs(task', row[t].slate, t) /\ Belongs(task', row[t].vtt, t)
      BY BelongsStays DEF FilesBelong
    <3>3. Belongs(task', None, task'[w].t)
      BY DEF Belongs
    <3> QED
      BY <3>1, <3>2, <3>3
  <2>3. CASE task[w].t # None
    <3>1. task'[w].t = task[w].t /\ task[w].t \in Transcripts
      BY <2>1, <2>3
    <3>2. /\ Belongs(task', task[w].slate, task[w].t)
          /\ Belongs(task', task[w].vtt, task[w].t)
      BY <3>1, BelongsStays DEF FilesBelong
    <3>3. /\ Belongs(task', row[task[w].t].slate, task[w].t)
          /\ Belongs(task', row[task[w].t].vtt, task[w].t)
      BY <3>1, BelongsStays DEF FilesBelong
    <3> QED
      BY <3>1, <3>2, <3>3
  <2> QED
    BY <2>2, <2>3
<1> QED
  BY <1>1, <1>2 DEF FilesBelong

\* A step that replaces no file, and gives up no debt, loses no file.
LEMMA Steady ==
  ASSUME IInv,
         \A w \in Writers : task[w].t # None => task'[w].t = task[w].t,
         \A t \in Transcripts : /\ row'[t].live => row[t].live
                                /\ row'[t].slate = row[t].slate
                                /\ row'[t].vtt = row[t].vtt,
         \A w \in Writers :
           \/ task'[w].slate = task[w].slate /\ task'[w].vtt = task[w].vtt
           \/ /\ task'[w].t \in Transcripts
              /\ task'[w].slate = row[task'[w].t].slate
              /\ task'[w].vtt = row[task'[w].t].vtt,
         slates' = slates, vtts \subseteq vtts',
         \A w \in Writers, t \in Transcripts :
           /\ w \in Saves /\ OwesSlate(w, t) => OwesSlate(w, t)'
           /\ OwesWebvtt(w, t) => OwesWebvtt(w, t)'
  PROVE  FilesBelong' /\ MissingFileIsOwed'
<1>1. FilesBelong'
  BY FilesBelongStay DEF IInv
<1>2. ASSUME NEW t \in Transcripts, row'[t].live
      PROVE  SlateKept(t)' /\ WebvttKept(t)'
  <2>1. SlateKept(t) /\ WebvttKept(t)
    BY <1>2 DEF IInv, MissingFileIsOwed, Live
  <2>2. SlateKept(t)'
    BY <2>1 DEF SlateKept, Writers
  <2>3. WebvttKept(t)'
    BY <2>1 DEF WebvttKept
  <2> QED
    BY <2>2, <2>3
<1> QED
  BY <1>1, <1>2 DEF MissingFileIsOwed, Live

\* Steps that leave the files, and what is known of them, alone.
RowsKeepFiles ==
  \A t \in Transcripts : /\ row'[t].live = row[t].live
                         /\ row'[t].slate = row[t].slate
                         /\ row'[t].vtt = row[t].vtt

LEMMA Aside ==
  ASSUME IInv, RowsKeepFiles, UNCHANGED <<slates, vtts, task>>
  PROVE  FilesBelong' /\ MissingFileIsOwed'
<1>1. \A w \in Writers, t \in Transcripts :
        (OwesSlate(w, t) => OwesSlate(w, t)') /\ (OwesWebvtt(w, t) => OwesWebvtt(w, t)')
  BY DEF OwesSlate, OwesWebvtt
<1> QED
  BY <1>1, Steady DEF RowsKeepFiles

\* A writer that raised owes what it owed, and now the file it was replacing.
LEMMA RaiseKeepsDebts ==
  ASSUME TInv, NEW w \in Writers, task[w].stage # "idle", Raise(w)
  PROVE  /\ \A x \in Writers : /\ task'[x].t = task[x].t
                               /\ task'[x].slate = task[x].slate
                               /\ task'[x].vtt = task[x].vtt
         /\ \A x \in Writers, t \in Transcripts :
              /\ OwesSlate(x, t) => OwesSlate(x, t)'
              /\ OwesWebvtt(x, t) => OwesWebvtt(x, t)'
         /\ \A t \in Transcripts :
              task[w].t = t => /\ OwesSlate(w, t)'
                               /\ task[w].titled => OwesWebvtt(w, t)'
<1>1. task \in [Writers -> Task] /\ task' = [task EXCEPT ![w] = Raised(w)]
  BY DEF TInv, TypeOK, Raise
<1>2. \A x \in Writers : x # w => task'[x] = task[x]
  BY <1>1
<1>3. /\ task'[w].t = task[w].t /\ task'[w].titled = task[w].titled
      /\ task'[w].slate = task[w].slate /\ task'[w].vtt = task[w].vtt
      /\ \/ task'[w].stage = "dead"
         \/ task'[w].stage = "queued" /\ task'[w].att > 0
  BY <1>1, RaisedType
<1> QED
  BY <1>2, <1>3 DEF OwesSlate, OwesWebvtt

LEMMA RaiseAside ==
  ASSUME IInv, NEW w \in Writers, task[w].stage # "idle", Raise(w),
         RowsKeepFiles, UNCHANGED <<slates, vtts>>
  PROVE  FilesBelong' /\ MissingFileIsOwed'
BY RaiseKeepsDebts, Steady DEF IInv, RowsKeepFiles

\* A step of a writer that gives up no debt.
LEMMA MoveAside ==
  ASSUME IInv, NEW w \in Writers, NEW r, task' = [task EXCEPT ![w] = r],
         /\ r.t = task[w].t /\ r.titled = task[w].titled /\ r.att = task[w].att
         /\ r.slate = task[w].slate /\ r.vtt = task[w].vtt,
         \/ r.stage = "dead"
         \/ /\ task[w].stage \notin {"dead", "queued"} /\ ~task[w].titled
            /\ w \in Uploads \/ task[w].stage # "loaded"
         \/ task[w].stage \in {"stored", "cleared"}
         \/ /\ task[w].stage \notin {"dead", "queued", "loaded"}
            /\ r.stage \in {"updated", "read", "pointed", "copied"}
         \/ w \in Uploads /\ task[w].stage = "loaded" /\ r.stage = "copied",
         RowsKeepFiles, slates' = slates, vtts \subseteq vtts'
  PROVE  FilesBelong' /\ MissingFileIsOwed'
<1>1. task \in [Writers -> Task]
  BY DEF IInv, TInv, TypeOK
<1>2. \A x \in Writers, t \in Transcripts :
        /\ x \in Saves /\ OwesSlate(x, t) => OwesSlate(x, t)'
        /\ OwesWebvtt(x, t) => OwesWebvtt(x, t)'
  BY <1>1, ConstantsAssumption DEF OwesSlate, OwesWebvtt
<1>3. \A x \in Writers : /\ task'[x].t = task[x].t
                         /\ task'[x].slate = task[x].slate
                         /\ task'[x].vtt = task[x].vtt
  BY <1>1
<1> QED
  BY <1>2, <1>3, Steady DEF RowsKeepFiles

\* A step in which w finds the row of t.
LEMMA FoundAside ==
  ASSUME IInv, NEW w \in Writers, NEW t \in Transcripts, task' = Found(w, t),
         (task[w].stage = "queued" /\ task[w].t = t) \/ task[w].stage = "idle",
         RowsKeepFiles, UNCHANGED <<slates, vtts>>
  PROVE  FilesBelong' /\ MissingFileIsOwed'
<1>1. task \in [Writers -> Task] /\ t # None
  BY NoneAssumption DEF IInv, TInv, TypeOK
<1>2. /\ task'[w].stage = "loaded" /\ task'[w].t = t /\ task'[w].att = task[w].att
      /\ task'[w].titled = task[w].titled
      /\ task'[w].slate = row[t].slate /\ task'[w].vtt = row[t].vtt
  BY <1>1 DEF Found, Task
<1>3. \A x \in Writers : x # w =>
        /\ task'[x].stage = task[x].stage /\ task'[x].t = task[x].t
        /\ task'[x].att = task[x].att /\ task'[x].titled = task[x].titled
        /\ task'[x].slate = task[x].slate /\ task'[x].vtt = task[x].vtt
  BY <1>1 DEF Found, Task
<1>4. task[w].t # None => task'[w].t = task[w].t
  BY <1>2 DEF IInv, TInv, WritersAtWork
<1>5. \A x \in Writers, t2 \in Transcripts :
        (OwesSlate(x, t2) => OwesSlate(x, t2)') /\ (OwesWebvtt(x, t2) => OwesWebvtt(x, t2)')
  BY <1>2, <1>3 DEF OwesSlate, OwesWebvtt
<1> QED
  BY <1>2, <1>3, <1>4, <1>5, Steady DEF RowsKeepFiles

\* Destroying transcripts takes their own files only.
LEMMA DestroyedAside ==
  ASSUME IInv, NEW ts, Destroyed(ts),
         \A x \in Writers : /\ task'[x].t = task[x].t
                            /\ task'[x].slate = task[x].slate
                            /\ task'[x].vtt = task[x].vtt,
         \A x \in Writers, t \in Transcripts :
           /\ OwesSlate(x, t) => OwesSlate(x, t)'
           /\ OwesWebvtt(x, t) => OwesWebvtt(x, t)',
         ts \subseteq Transcripts
  PROVE  FilesBelong' /\ MissingFileIsOwed'
<1>1. \A t \in Transcripts : row'[t] = IF t \in ts THEN Gone ELSE row[t]
  BY DEF Destroyed
<1>2. FilesBelong'
  BY <1>1, FilesBelongStay DEF IInv, Gone
<1>3. ASSUME NEW t \in Transcripts, row'[t].live
      PROVE  SlateKept(t)' /\ WebvttKept(t)'
  <2>1. t \notin ts /\ row'[t] = row[t] /\ row[t].live
    BY <1>1, <1>3 DEF Gone
  <2>2. SlateKept(t) /\ WebvttKept(t)
    BY <2>1 DEF IInv, MissingFileIsOwed, Live
  <2>3. ASSUME NEW t2 \in ts, NEW f, f # None, Belongs(task, f, t)
        PROVE  f # row[t2].slate /\ f # row[t2].vtt
    <3>1. t2 \in Transcripts /\ t2 # t
      BY <2>1
    <3>2. Belongs(task, row[t2].slate, t2) /\ Belongs(task, row[t2].vtt, t2)
      BY <3>1 DEF IInv, FilesBelong
    <3> QED
      BY <2>3, <3>1, <3>2, FilesApart
  <2>4. Belongs(task, row[t].slate, t) /\ Belongs(task, row[t].vtt, t)
    BY DEF IInv, FilesBelong
  <2>5. None \notin vtts
    BY NoneAssumption DEF IInv, TInv, TypeOK
  <2>6. SlateKept(t)'
    BY <2>1, <2>2, <2>3, <2>4 DEF SlateKept, Destroyed, Writers
  <2>7. WebvttKept(t)'
    BY <2>1, <2>2, <2>3, <2>4, <2>5 DEF WebvttKept, Destroyed
  <2> QED
    BY <2>6, <2>7
<1> QED
  BY <1>2, <1>3 DEF MissingFileIsOwed, Live

\* Replacing the slate file: the row names the new one, or the writer owes it.
LEMMA SaveSlateKeepsFiles ==
  ASSUME IInv, NEW w \in Writers, SaveSlate(w)
  PROVE  FilesBelong' /\ MissingFileIsOwed'
<1> DEFINE t == task[w].t
<1>1. /\ w \in Saves /\ task[w].stage = "loaded" /\ t \in Transcripts
      /\ slates' = (slates \ {task[w].slate}) \cup {Own(w)} /\ vtts' = vtts
      /\ task \in [Writers -> Task] /\ row \in [Transcripts -> Row]
  BY TaskT DEF SaveSlate, IInv, TInv, TypeOK
<1>2. \A t2 \in Transcripts : t2 # t /\ row[t2].slate # None =>
         row[t2].slate # task[w].slate
  BY <1>1, FilesApart DEF IInv, FilesBelong
<1>3. CASE /\ row' = IF t \in Live THEN [row EXCEPT ![t].slate = Own(w)] ELSE row
           /\ task' = [task EXCEPT ![w].stage = "saved", ![w].slate = Own(w)]
  <2>1. /\ task'[w].stage = "saved" /\ task'[w].t = t /\ task'[w].slate = Own(w)
        /\ task'[w].vtt = task[w].vtt /\ task'[w].att = task[w].att
        /\ task'[w].titled = task[w].titled
    BY <1>1, <1>3 DEF Task
  <2>2. \A x \in Writers : x # w => task'[x] = task[x]
    BY <1>1, <1>3
  <2>3. \A t2 \in Transcripts :
          /\ row'[t2].live = row[t2].live /\ row'[t2].vtt = row[t2].vtt
          /\ row'[t2].slate = IF t2 = t /\ t \in Live THEN Own(w) ELSE row[t2].slate
    BY <1>1, <1>3 DEF Row
  <2>4. Belongs(task', Own(w), t)
    BY <2>1 DEF Belongs, Own
  <2>5. FilesBelong'
    BY <2>1, <2>2, <2>3, <2>4, FilesBelongStay DEF IInv
  <2>6. ASSUME NEW t2 \in Transcripts, row'[t2].live
        PROVE  SlateKept(t2)' /\ WebvttKept(t2)'
    <3>1. SlateKept(t2) /\ WebvttKept(t2) /\ t2 \in Live
      BY <2>3, <2>6 DEF IInv, MissingFileIsOwed, Live
    <3>2. SlateKept(t2)'
      BY <1>1, <1>2, <2>1, <2>2, <2>3, <3>1 DEF SlateKept, OwesSlate, Writers
    <3>3. WebvttKept(t2)'
      BY <1>1, <2>1, <2>2, <2>3, <3>1 DEF WebvttKept, OwesWebvtt
    <3> QED
      BY <3>2, <3>3
  <2> QED
    BY <2>5, <2>6 DEF MissingFileIsOwed, Live
<1>4. CASE Raise(w) /\ UNCHANGED row
  <2>1. FilesBelong'
    BY <1>1, <1>4, RaiseKeepsDebts, FilesBelongStay DEF IInv
  <2>2. ASSUME NEW t2 \in Transcripts, row'[t2].live
        PROVE  SlateKept(t2)' /\ WebvttKept(t2)'
    <3>1. SlateKept(t2) /\ WebvttKept(t2)
      BY <1>4, <2>2 DEF IInv, MissingFileIsOwed, Live
    <3>2. SlateKept(t2)'
      BY <1>1, <1>2, <1>4, <3>1, RaiseKeepsDebts DEF SlateKept, IInv, Writers
    <3>3. WebvttKept(t2)'
      BY <1>1, <1>4, <3>1, RaiseKeepsDebts DEF WebvttKept, IInv
    <3> QED
      BY <3>2, <3>3
  <2> QED
    BY <2>1, <2>2 DEF MissingFileIsOwed, Live
<1> QED
  BY <1>3, <1>4 DEF SaveSlate

\* Replacing the WebVTT file, by a job or by an upload.
LEMMA CommitWebvttKeepsFiles ==
  ASSUME IInv, NEW w \in Writers, CommitWebvtt(w)
  PROVE  FilesBelong' /\ MissingFileIsOwed'
<1> DEFINE t == task[w].t
<1>1. /\ task[w].stage = "copied" /\ task[w].titled /\ t \in Transcripts
      /\ vtts' = (vtts \ {task[w].vtt}) \cup {Own(w)} /\ slates' = slates
      /\ task \in [Writers -> Task] /\ row \in [Transcripts -> Row]
      /\ None \notin vtts
  BY TaskT, NoneAssumption DEF CommitWebvtt, IInv, TInv, TypeOK, WritersAtWork
<1>2. \A t2 \in Transcripts : t2 # t /\ row[t2].vtt # None => row[t2].vtt # task[w].vtt
  BY <1>1, FilesApart DEF IInv, FilesBelong
<1>3. CASE /\ row' = IF t \in Live THEN [row EXCEPT ![t].vtt = Own(w)] ELSE row
           /\ task' = [task EXCEPT ![w].stage = IF w \in Saves THEN "done" ELSE "stored"]
  <2>1. /\ task'[w].t = t /\ task'[w].slate = task[w].slate
        /\ task'[w].vtt = task[w].vtt
    BY <1>1, <1>3 DEF Task
  <2>2. \A x \in Writers : x # w => task'[x] = task[x]
    BY <1>1, <1>3
  <2>3. \A t2 \in Transcripts :
          /\ row'[t2].live = row[t2].live /\ row'[t2].slate = row[t2].slate
          /\ row'[t2].vtt = IF t2 = t /\ t \in Live THEN Own(w) ELSE row[t2].vtt
    BY <1>1, <1>3 DEF Row
  <2>4. Belongs(task', Own(w), t)
    BY <2>1 DEF Belongs, Own
  <2>5. FilesBelong'
    BY <2>1, <2>2, <2>3, <2>4, FilesBelongStay DEF IInv
  <2>6. ASSUME NEW t2 \in Transcripts, row'[t2].live
        PROVE  SlateKept(t2)' /\ WebvttKept(t2)'
    <3>1. SlateKept(t2) /\ WebvttKept(t2) /\ t2 \in Live
      BY <2>3, <2>6 DEF IInv, MissingFileIsOwed, Live
    <3>2. SlateKept(t2)'
      BY <1>1, <2>1, <2>2, <2>3, <3>1 DEF SlateKept, OwesSlate, Writers
    <3>3. WebvttKept(t2)'
      BY <1>1, <1>2, <2>1, <2>2, <2>3, <3>1 DEF WebvttKept, OwesWebvtt
    <3> QED
      BY <3>2, <3>3
  <2> QED
    BY <2>5, <2>6 DEF MissingFileIsOwed, Live
<1>4. CASE Raise(w) /\ UNCHANGED row
  <2>1. FilesBelong'
    BY <1>1, <1>4, RaiseKeepsDebts, FilesBelongStay DEF IInv
  <2>2. ASSUME NEW t2 \in Transcripts, row'[t2].live
        PROVE  SlateKept(t2)' /\ WebvttKept(t2)'
    <3>1. SlateKept(t2) /\ WebvttKept(t2)
      BY <1>4, <2>2 DEF IInv, MissingFileIsOwed, Live
    <3>2. SlateKept(t2)'
      BY <1>1, <1>4, <3>1, RaiseKeepsDebts DEF SlateKept, IInv, Writers
    <3>3. WebvttKept(t2)'
      BY <1>1, <1>2, <1>4, <3>1, RaiseKeepsDebts DEF WebvttKept, IInv
    <3> QED
      BY <3>2, <3>3
  <2> QED
    BY <2>1, <2>2 DEF MissingFileIsOwed, Live
<1> QED
  BY <1>3, <1>4 DEF CommitWebvtt

LEMMA IInvInit == Init => IInv
<1> SUFFICES ASSUME Init PROVE IInv
  OBVIOUS
<1>1. FilesBelong
  BY DEF Init, FilesBelong, Belongs, Idle
<1>2. MissingFileIsOwed
  BY DEF Init, MissingFileIsOwed, SlateKept, WebvttKept, Live
<1> QED
  BY <1>1, <1>2, TInvInit DEF IInv

KeepsFiles == FilesBelong' /\ MissingFileIsOwed'

LEMMA IInvStep == IInv /\ [Next]_vars => IInv'
<1> SUFFICES ASSUME IInv, [Next]_vars PROVE KeepsFiles
  BY TInvStep DEF IInv, KeepsFiles
<1>1. /\ task \in [Writers -> Task] /\ row \in [Transcripts -> Row]
      /\ \A w \in Writers : task[w].stage # "idle" => task[w].t \in Transcripts
      /\ TInv
  BY TaskT DEF IInv, TInv, TypeOK
<1>2. UNCHANGED row => RowsKeepFiles
  BY DEF RowsKeepFiles
<1>3. ASSUME NEW u \in Users, NEW w \in Saves, SaveTranscript(u, w)
      PROVE  KeepsFiles
  <2>1. PICK titled \in Titles :
          task' = [task EXCEPT ![w].stage = "queued", ![w].t = editor[u],
                               ![w].titled = titled]
    BY <1>3 DEF SaveTranscript
  <2>2. /\ w \in Writers /\ task[w].stage = "idle" /\ task[w].t = None
        /\ slates' = slates /\ vtts' = vtts /\ RowsKeepFiles
    BY <1>1, <1>2, <1>3 DEF SaveTranscript, TInv, WritersAtWork, Writers
  <2>3. \A x \in Writers : x # w => task'[x] = task[x]
    BY <1>1, <2>1
  <2>4. task'[w].slate = task[w].slate /\ task'[w].vtt = task[w].vtt
    BY <1>1, <2>1, <2>2 DEF Task
  <2>5. \A x \in Writers, t \in Transcripts :
          /\ OwesSlate(x, t) => OwesSlate(x, t)'
          /\ OwesWebvtt(x, t) => OwesWebvtt(x, t)'
    BY <2>2, <2>3 DEF OwesSlate, OwesWebvtt
  <2> QED
    BY <2>2, <2>3, <2>4, <2>5, Steady DEF RowsKeepFiles, KeepsFiles
<1>4. ASSUME NEW w \in Writers, PickUp(w)
      PROVE  KeepsFiles
  BY <1>1, <1>2, <1>4, FoundAside, RaiseAside DEF PickUp, KeepsFiles
<1>5. ASSUME NEW w \in Writers, UpdateAttributes(w)
      PROVE  KeepsFiles
  <2>1. RowsKeepFiles
    BY <1>1, <1>5 DEF UpdateAttributes, RowsKeepFiles, Row
  <2>2. CASE task' = [task EXCEPT ![w].stage = "updated"]
    <3>1. task' = [task EXCEPT ![w] = [task[w] EXCEPT !.stage = "updated"]]
      BY <2>2
    <3> QED
      BY <1>1, <1>5, <2>1, <3>1, MoveAside DEF UpdateAttributes, Task, KeepsFiles
  <2> QED
    BY <1>5, <2>1, <2>2, <1>1, RaiseAside DEF UpdateAttributes, KeepsFiles
<1>6. ASSUME NEW w \in Writers, ReadPoints(w)
      PROVE  KeepsFiles
  <2> DEFINE r == [task[w] EXCEPT !.stage = "read", !.seen = points[task[w].t]]
  <2>1. CASE task' = [task EXCEPT ![w].stage = "read", ![w].seen = points[task[w].t]]
    <3>1. task' = [task EXCEPT ![w] = r]
      BY <2>1
    <3>2. /\ r.t = task[w].t /\ r.titled = task[w].titled /\ r.att = task[w].att
          /\ r.slate = task[w].slate /\ r.vtt = task[w].vtt /\ r.stage = "read"
      BY <1>1 DEF Task
    <3> HIDE DEF r
    <3> QED
      BY <1>2, <1>6, <3>1, <3>2, MoveAside DEF ReadPoints, KeepsFiles
  <2> QED
    BY <1>1, <1>2, <1>6, <2>1, RaiseAside DEF ReadPoints, KeepsFiles
<1>7. ASSUME NEW w \in Writers, WritePoints(w)
      PROVE  KeepsFiles
  <2> DEFINE r == [task[w] EXCEPT !.stage = "pointed", !.seen = {}]
  <2>1. CASE task' = [task EXCEPT ![w].stage = "pointed", ![w].seen = {}]
    <3>1. task' = [task EXCEPT ![w] = r]
      BY <2>1
    <3>2. /\ r.t = task[w].t /\ r.titled = task[w].titled /\ r.att = task[w].att
          /\ r.slate = task[w].slate /\ r.vtt = task[w].vtt /\ r.stage = "pointed"
      BY <1>1 DEF Task
    <3> HIDE DEF r
    <3> QED
      BY <1>2, <1>7, <3>1, <3>2, MoveAside DEF WritePoints, KeepsFiles
  <2> QED
    BY <1>1, <1>2, <1>7, <2>1, RaiseAside DEF WritePoints, KeepsFiles
<1>8. ASSUME NEW w \in Writers, NEW s, task' = [task EXCEPT ![w].stage = s],
             \/ s = "dead"
             \/ /\ task[w].stage \notin {"dead", "queued"} /\ ~task[w].titled
                /\ w \in Uploads \/ task[w].stage # "loaded"
             \/ task[w].stage \in {"stored", "cleared"}
             \/ task[w].stage \notin {"dead", "queued", "loaded"} /\ s = "copied"
             \/ w \in Uploads /\ task[w].stage = "loaded" /\ s = "copied",
             UNCHANGED row, slates' = slates, vtts \subseteq vtts'
      PROVE  KeepsFiles
  <2> DEFINE r == [task[w] EXCEPT !.stage = s]
  <2>1. task' = [task EXCEPT ![w] = r]
    BY <1>8
  <2>2. /\ r.t = task[w].t /\ r.titled = task[w].titled /\ r.att = task[w].att
        /\ r.slate = task[w].slate /\ r.vtt = task[w].vtt /\ r.stage = s
    BY <1>1 DEF Task
  <2> HIDE DEF r
  <2> QED
    BY <1>2, <1>8, <2>1, <2>2, MoveAside DEF KeepsFiles
<1>9. ASSUME NEW w \in Writers, CopyWebvtt(w)
      PROVE  KeepsFiles
  <2>1. CASE Raise(w) /\ UNCHANGED vtts
    BY <1>1, <1>2, <1>9, <2>1, RaiseAside DEF CopyWebvtt, KeepsFiles
  <2>2. CASE ~task[w].titled /\ task' = [task EXCEPT ![w].stage = "done"] /\ UNCHANGED vtts
    BY <1>8, <1>9, <2>2 DEF CopyWebvtt, Writers
  <2>3. CASE task' = [task EXCEPT ![w].stage = "copied"] /\ vtts' = vtts \cup {Own(w)}
    BY <1>8, <1>9, <2>3 DEF CopyWebvtt, Writers
  <2> QED
    BY <1>9, <2>1, <2>2, <2>3 DEF CopyWebvtt
<1>10. ASSUME NEW w \in Writers, ClearPoints(w)
       PROVE  KeepsFiles
  BY <1>8, <1>10 DEF ClearPoints
<1>11. ASSUME NEW w \in Writers, ParseUpload(w)
       PROVE  KeepsFiles
  <2>1. CASE UNCHANGED <<row, slates, vtts>>
    BY <1>8, <1>11, <2>1 DEF ParseUpload
  <2>2. CASE Destroyed({task[w].t}) /\ task' = [task EXCEPT ![w].stage = "dead"]
    <3>1. \A x \in Writers : x # w => task'[x] = task[x]
      BY <1>1, <2>2
    <3>2. /\ task'[w].stage = "dead" /\ task'[w].t = task[w].t
          /\ task'[w].slate = task[w].slate /\ task'[w].vtt = task[w].vtt
          /\ task'[w].titled = task[w].titled
      BY <1>1, <2>2 DEF Task
    <3>3. task[w].t \in Transcripts
      BY <1>1, <1>11 DEF ParseUpload
    <3> QED
      BY <2>2, <3>1, <3>2, <3>3, DestroyedAside DEF OwesSlate, OwesWebvtt, KeepsFiles
  <2> QED
    BY <1>11, <2>1, <2>2 DEF ParseUpload
<1>12. ASSUME NEW w \in Writers, WriterFails(w)
       PROVE  KeepsFiles
  BY <1>1, <1>2, <1>8, <1>12, RaiseAside DEF WriterFails, Active, KeepsFiles
<1>13. ASSUME NEW ts, ts \subseteq Transcripts, Destroyed(ts), UNCHANGED task
       PROVE  KeepsFiles
  BY <1>13, DestroyedAside DEF OwesSlate, OwesWebvtt, KeepsFiles
<1>14. CASE RowsKeepFiles /\ UNCHANGED <<slates, vtts, task>>
  BY <1>14, Aside DEF KeepsFiles
<1>15. ASSUME NEW u \in Users,
              (\E t \in Transcripts : Edit(u, t)) \/ UpdateTranscript(u) \/ Abandon(u)
       PROVE  KeepsFiles
  <2>1. ASSUME NEW t \in Transcripts, Edit(u, t)
        PROVE  RowsKeepFiles
    BY <1>1, <2>1 DEF Edit, RowsKeepFiles, Row
  <2>2. ASSUME UpdateTranscript(u)
        PROVE  RowsKeepFiles
    BY <1>1, <2>2 DEF UpdateTranscript, RowsKeepFiles, Row
  <2>3. ASSUME Abandon(u)
        PROVE  RowsKeepFiles
    BY <1>2, <2>3 DEF Abandon
  <2> QED
    BY <1>14, <1>15, <2>1, <2>2, <2>3 DEF Edit, UpdateTranscript, Abandon
<1>16. ASSUME NEW t \in Transcripts, TouchTranscript(t) \/ DayPasses(t) \/ UnlockTranscript(t)
       PROVE  KeepsFiles
  BY <1>1, <1>14, <1>16 DEF TouchTranscript, DayPasses, UnlockTranscript, RowsKeepFiles, Row
<1>17. CASE CheckLocks \/ ScanLocks \/ UNCHANGED vars
  BY <1>2, <1>14, <1>17 DEF CheckLocks, ScanLocks, vars
<1>18. ASSUME NEW w \in Writers, NEW t \in Transcripts, BeginUpload(w, t)
       PROVE  KeepsFiles
  BY <1>2, <1>18, FoundAside DEF BeginUpload, KeepsFiles
<1>19. ASSUME DeleteResourceFile \/ BulkDeleteFiles \/ \E t \in Transcripts : DestroyTranscript(t)
       PROVE  KeepsFiles
  BY <1>13, <1>19 DEF DeleteResourceFile, BulkDeleteFiles, DestroyTranscript
<1>20. CASE UserStep
  BY <1>3, <1>15, <1>16, <1>17, <1>18, <1>19, <1>20 DEF UserStep, Writers
<1>21. ASSUME NEW w \in Writers, JobStep(w) \/ UploadStep(w) \/ WriterFails(w)
       PROVE  KeepsFiles
  BY <1>4, <1>5, <1>6, <1>7, <1>9, <1>10, <1>11, <1>12, <1>21,
     SaveSlateKeepsFiles, CommitWebvttKeepsFiles DEF JobStep, UploadStep, KeepsFiles
<1>22. KeepsFiles
  BY <1>16, <1>17, <1>20, <1>21 DEF Next
<1> QED
  BY <1>22

\* The property of the run: whatever fails, whoever interferes, a row names a
\* missing file only while a writer that raised, or died, is to blame.
THEOREM NoFileLostUnowed == Spec => []MissingFileIsOwed
<1>1. IInv => MissingFileIsOwed
  BY DEF IInv
<1> QED
  BY <1>1, IInvInit, IInvStep, PTL DEF Spec

-----------------------------------------------------------------------------
(***************************************************************************)
(* A writer that is alone publishes its document.  First the points: a     *)
(* list of rows in the order of their ids gives each row its place in the  *)
(* list as rank.                                                           *)
(***************************************************************************)

\* The points of a transcript have ids of their own, given out in order.
InOrder(rows, last) ==
  /\ \A p \in rows : p.id <= last
  /\ \A p, q \in rows : p.id = q.id => p = q

\* The rows are the paragraphs of the text.
Forms(rows, text) ==
  /\ Cardinality(rows) = Len(text)
  /\ \A p \in rows : p.text = text[Rank(rows, p.id)]

Rows(e, n) == {e[k] : k \in 1..n}

LEMMA Listed ==
  ASSUME NEW n \in Nat, NEW e, \A k \in 1..n : e[k].id \in Nat,
         \A j, k \in 1..n : j < k => e[j].id < e[k].id,
         NEW rows, rows = Rows(e, n)
  PROVE  /\ Cardinality(rows) = n
         /\ \A k \in 1..n : Rank(rows, e[k].id) = k
<1>1. \A j, k \in 1..n : e[j].id <= e[k].id <=> j <= k
  <2> SUFFICES ASSUME NEW j \in 1..n, NEW k \in 1..n
               PROVE  e[j].id <= e[k].id <=> j <= k
    OBVIOUS
  <2>1. j < k \/ j = k \/ k < j
    OBVIOUS
  <2>2. e[j].id \in Nat /\ e[k].id \in Nat /\ j \in Nat /\ k \in Nat
    OBVIOUS
  <2>3. (j < k => e[j].id < e[k].id) /\ (k < j => e[k].id < e[j].id)
    OBVIOUS
  <2> QED
    BY <2>1, <2>2, <2>3
<1>2. ASSUME NEW m \in 0..n
      PROVE  Cardinality({e[k] : k \in 1..m}) = m
  <2> DEFINE f == [k \in 1..m |-> e[k]]
             some == {e[k] : k \in 1..m}
  <2>1. \A j, k \in 1..m : e[j] = e[k] => j = k
    <3> SUFFICES ASSUME NEW j \in 1..m, NEW k \in 1..m, e[j] = e[k] PROVE j = k
      OBVIOUS
    <3>1. j \in 1..n /\ k \in 1..n
      OBVIOUS
    <3>2. e[j].id <= e[k].id /\ e[k].id <= e[j].id
      BY <3>1
    <3> QED
      BY <1>1, <3>1, <3>2
  <2>2. f \in Bijection(1..m, some)
    BY <2>1 DEF Bijection, Injection, Surjection, IsInjective
  <2>3. IsFiniteSet(1..m) /\ Cardinality(1..m) = m
    BY FS_Interval
  <2> QED
    BY <2>2, <2>3, FS_Bijection DEF ExistsBijection
<1>3. Cardinality(rows) = n
  BY <1>2 DEF Rows
<1>4. ASSUME NEW k \in 1..n
      PROVE  {p \in rows : p.id <= e[k].id} = {e[j] : j \in 1..k}
  BY <1>1 DEF Rows
<1>5. ASSUME NEW k \in 1..n PROVE Rank(rows, e[k].id) = k
  <2>1. k \in 0..n
    OBVIOUS
  <2>2. Cardinality({e[j] : j \in 1..k}) = k
    BY <1>2, <2>1
  <2>3. {p \in rows : p.id <= e[k].id} = {e[j] : j \in 1..k}
    BY <1>4
  <2> QED
    BY <2>2, <2>3 DEF Rank
<1> QED
  BY <1>3, <1>5

\* The ranks of rows in order are the numbers from one to how many there are.
LEMMA RanksCover ==
  ASSUME NEW rows \in PointSet, \A p, q \in rows : p.id = q.id => p = q
  PROVE  /\ \A k \in 1..Cardinality(rows) : \E p \in rows : Rank(rows, p.id) = k
         /\ \A p, q \in rows : Rank(rows, p.id) < Rank(rows, q.id) => p.id < q.id
         /\ \A p, q \in rows : Rank(rows, p.id) = Rank(rows, q.id) => p = q
<1> DEFINE c == Cardinality(rows)
           upto(i) == {p \in rows : p.id <= i}
           r == [p \in rows |-> Rank(rows, p.id)]
<1>1. IsFiniteSet(rows) /\ \A p \in rows : p.id \in Nat
  BY DEF PointSet, Point
<1>2. c \in Nat /\ \A p \in rows : Rank(rows, p.id) \in 1..c
  <2>1. ASSUME NEW p \in rows
        PROVE  c \in Nat /\ Rank(rows, p.id) \in 0..c /\ Rank(rows, p.id) > 0
    BY <1>1, RankRange
  <2> QED
    BY <1>1, <2>1, FS_CardinalityType
<1>3. ASSUME NEW p \in rows, NEW q \in rows, p.id < q.id
      PROVE  Rank(rows, p.id) < Rank(rows, q.id)
  <2>1. \A x \in rows : x.id <= p.id => x.id <= q.id
    BY <1>1, <1>3
  <2>2. upto(p.id) \in SUBSET upto(q.id) /\ q \in upto(q.id) /\ q \notin upto(p.id)
    BY <1>1, <1>3, <2>1
  <2>3. IsFiniteSet(upto(q.id))
    BY <1>1, FS_Subset
  <2>4. Rank(rows, p.id) = Cardinality(upto(p.id)) /\ Rank(rows, q.id) = Cardinality(upto(q.id))
    BY DEF Rank
  <2> HIDE DEF upto
  <2>5. /\ Cardinality(upto(p.id)) <= Cardinality(upto(q.id))
        /\ Cardinality(upto(p.id)) # Cardinality(upto(q.id))
    BY <2>2, <2>3, FS_Subset
  <2> QED
    BY <1>2, <2>4, <2>5
<1>4. \A p, q \in rows : Rank(rows, p.id) < Rank(rows, q.id) => p.id < q.id
  <2> SUFFICES ASSUME NEW p \in rows, NEW q \in rows, Rank(rows, p.id) < Rank(rows, q.id)
               PROVE  p.id < q.id
    OBVIOUS
  <2>1. p.id < q.id \/ q.id < p.id \/ p.id = q.id
    BY <1>1
  <2>2. ~ (q.id < p.id) /\ p.id # q.id
    BY <1>2, <1>3
  <2> QED
    BY <2>1, <2>2
<1>5. \A p, q \in rows : Rank(rows, p.id) = Rank(rows, q.id) => p = q
  <2> SUFFICES ASSUME NEW p \in rows, NEW q \in rows, Rank(rows, p.id) = Rank(rows, q.id)
               PROVE  p.id = q.id
    OBVIOUS
  <2>1. p.id < q.id \/ q.id < p.id \/ p.id = q.id
    BY <1>1
  <2> QED
    BY <1>2, <1>3, <2>1
<1>6. r \in Injection(rows, 1..c)
  <2> HIDE DEF c
  <2> QED
    BY <1>2, <1>5 DEF Injection, IsInjective
<1>7. IsFiniteSet(1..c) /\ Cardinality(1..c) = c
  BY <1>2, FS_Interval
<1>8. r \in Surjection(rows, 1..c)
  BY <1>6, <1>7, FS_Injection
<1>9. \A k \in 1..c : \E p \in rows : Rank(rows, p.id) = k
  BY <1>8 DEF Surjection
<1> QED
  BY <1>4, <1>5, <1>9

\* The rows created from a document are its paragraphs.
LEMMA NumberedForms ==
  ASSUME NEW text \in Seq(Text), NEW from \in Nat
  PROVE  Forms(Numbered(text, from), text)
<1> DEFINE n == Len(text)
           e == [k \in 1..n |-> [id |-> from + k, text |-> text[k]]]
           rows == Numbered(text, from)
<1>1. n \in Nat /\ DOMAIN text = 1..n
  OBVIOUS
<1>2. \A k \in 1..n : e[k].id = from + k /\ e[k].text = text[k]
  OBVIOUS
<1>3. rows = Rows(e, n)
  BY <1>1 DEF Numbered, Rows
<1> HIDE DEF e, rows, n
<1>4. /\ \A k \in 1..n : e[k].id \in Nat
      /\ \A j, k \in 1..n : j < k => e[j].id < e[k].id
  BY <1>1, <1>2
<1>5. Cardinality(rows) = n /\ \A k \in 1..n : Rank(rows, e[k].id) = k
  BY <1>1, <1>3, <1>4, Listed
<1>6. ASSUME NEW p \in rows PROVE p.text = text[Rank(rows, p.id)]
  <2>1. PICK k \in 1..n : p = e[k]
    BY <1>3 DEF Rows
  <2> QED
    BY <1>2, <1>5, <2>1
<1> QED
  BY <1>5, <1>6 DEF Forms, rows, n

\* Points that nobody changed since they were read become the paragraphs of the text.
LEMMA RewrittenForms ==
  ASSUME NEW now \in PointSet, NEW text \in Seq(Text), NEW from \in Nat, InOrder(now, from)
  PROVE  Forms(Rewritten(now, now, text, from), text)
<1> DEFINE n == Len(text)
           c == Cardinality(now)
           at(k) == CHOOSE p \in now : Rank(now, p.id) = k
           up(p) == Updated(p, now, text)
           new(k) == [id |-> from + k - c, text |-> text[k]]
           e == [k \in 1..n |-> IF k <= c THEN up(at(k)) ELSE new(k)]
           kept == {p \in now : Rank(now, p.id) <= n}
           rows == Rewritten(now, now, text, from)
<1>1. n \in Nat /\ c \in Nat /\ \A p \in now : p.id \in Nat
  BY RankRange, 0 \in Nat DEF PointSet, Point
<1>2. /\ \A p, q \in now : p.id = q.id => p = q
      /\ \A p \in now : p.id <= from
  BY DEF InOrder
<1>3. \A k \in 1..c : at(k) \in now /\ Rank(now, at(k).id) = k
  BY <1>2, RanksCover
<1>4. \A p \in now : Rank(now, p.id) \in 1..c
  <2> TAKE p \in now
  <2>1. Rank(now, p.id) \in 0..c /\ Rank(now, p.id) > 0
    BY <1>1, RankRange
  <2> QED
    BY <1>1, <2>1
<1>5. \A p \in now : at(Rank(now, p.id)) = p
  BY <1>2, <1>3, <1>4, RanksCover
<1>6. \A p \in now : up(p).id = p.id /\ up(p).text = text[Rank(now, p.id)]
  BY <1>2 DEF Updated, PointSet, Point
<1>7. rows = {up(p) : p \in kept} \cup {new(k) : k \in (c + 1)..n}
  <2>1. {p \in now : \E q \in now : q.id = p.id} = now
    OBVIOUS
  <2> QED
    BY <2>1 DEF Rewritten
<1>8. \A k \in 1..n : /\ k <= c => e[k] = up(at(k))
                      /\ ~ (k <= c) => e[k] = new(k)
  OBVIOUS
<1>9. \A k \in 1..n : new(k).id = from + k - c /\ new(k).text = text[k]
  OBVIOUS
<1> HIDE DEF e, up, new, at, rows, n, c
<1>10. rows = Rows(e, n)
  <2>1. ASSUME NEW x \in rows PROVE \E k \in 1..n : x = e[k]
    <3>1. CASE \E p \in kept : x = up(p)
      <4>1. PICK p \in kept : x = up(p)
        BY <3>1
      <4>2. Rank(now, p.id) \in 1..c /\ Rank(now, p.id) \in 1..n
        BY <1>1, <1>4
      <4> QED
        BY <1>1, <1>5, <1>8, <4>1, <4>2
    <3>2. CASE \E k \in (c + 1)..n : x = new(k)
      <4>1. PICK k \in (c + 1)..n : x = new(k)
        BY <3>2
      <4>2. k \in 1..n /\ ~ (k <= c)
        BY <1>1
      <4> QED
        BY <1>8, <4>1, <4>2
    <3> QED
      BY <1>7, <3>1, <3>2
  <2>2. ASSUME NEW k \in 1..n PROVE e[k] \in rows
    <3>1. CASE k <= c
      <4>1. k \in 1..c
        BY <1>1, <3>1
      <4>2. at(k) \in kept
        BY <1>3, <4>1
      <4> QED
        BY <1>7, <1>8, <3>1, <4>2
    <3>2. CASE ~ (k <= c)
      <4>1. k \in (c + 1)..n
        BY <1>1, <3>2
      <4> QED
        BY <1>7, <1>8, <3>2, <4>1
    <3> QED
      BY <3>1, <3>2
  <2> QED
    BY <2>1, <2>2 DEF Rows
<1>11. \A k \in 1..n : /\ k <= c => e[k].id = at(k).id /\ e[k].id \in Nat /\ e[k].id <= from
                       /\ ~ (k <= c) => e[k].id = from + k - c
                       /\ e[k].text = text[k]
  <2> TAKE k \in 1..n
  <2>1. CASE k <= c
    <3>1. k \in 1..c
      BY <1>1, <2>1
    <3>2. at(k) \in now /\ Rank(now, at(k).id) = k
      BY <1>3, <3>1
    <3> QED
      BY <1>1, <1>2, <1>6, <1>8, <2>1, <3>2
  <2>2. CASE ~ (k <= c)
    BY <1>8, <1>9, <2>2
  <2> QED
    BY <2>1, <2>2
<1>12. \A k \in 1..n : e[k].id \in Nat
  BY <1>1, <1>11
<1>13. \A j, k \in 1..n : j < k => e[j].id < e[k].id
  <2> SUFFICES ASSUME NEW j \in 1..n, NEW k \in 1..n, j < k PROVE e[j].id < e[k].id
    OBVIOUS
  <2>1. CASE k <= c
    <3>1. j \in 1..c /\ k \in 1..c /\ j <= c
      BY <1>1, <2>1
    <3>2. at(j).id < at(k).id
      BY <1>2, <1>3, <3>1, RanksCover
    <3> QED
      BY <1>11, <2>1, <3>1, <3>2
  <2>2. CASE ~ (k <= c)
    BY <1>1, <1>11, <2>2
  <2> QED
    BY <2>1, <2>2
<1>14. Cardinality(rows) = n /\ \A k \in 1..n : Rank(rows, e[k].id) = k
  BY <1>1, <1>10, <1>12, <1>13, Listed
<1>15. ASSUME NEW p \in rows PROVE p.text = text[Rank(rows, p.id)]
  <2>1. PICK k \in 1..n : p = e[k]
    BY <1>10 DEF Rows
  <2> QED
    BY <1>11, <1>14, <2>1
<1> QED
  BY <1>14, <1>15 DEF Forms, rows, n

\* New rows come after those there are.
LEMMA NumberedInOrder ==
  ASSUME NEW rows, NEW text \in Seq(Text), NEW last \in Nat, InOrder(rows, last),
         rows \in PointSet
  PROVE  InOrder(rows \cup Numbered(text, last), last + Len(text))
<1>1. \A p \in rows : p.id \in Nat /\ p.id <= last
  BY DEF InOrder, PointSet, Point
<1>2. \A x \in Numbered(text, last) :
        \E k \in 1..Len(text) : x = [id |-> last + k, text |-> text[k]]
  BY DOMAIN text = 1..Len(text) DEF Numbered
<1>3. \A x \in Numbered(text, last) : x.id \in Nat /\ last < x.id /\ x.id <= last + Len(text)
  BY <1>2
<1>4. \A x, y \in Numbered(text, last) : x.id = y.id => x = y
  <2> SUFFICES ASSUME NEW x \in Numbered(text, last), NEW y \in Numbered(text, last), x.id = y.id
               PROVE  x = y
    OBVIOUS
  <2>1. PICK j \in 1..Len(text) : x = [id |-> last + j, text |-> text[j]]
    BY <1>2
  <2>2. PICK k \in 1..Len(text) : y = [id |-> last + k, text |-> text[k]]
    BY <1>2
  <2> QED
    BY <2>1, <2>2
<1>5. Len(text) \in Nat
  OBVIOUS
<1> QED
  BY <1>1, <1>3, <1>4, <1>5 DEF InOrder

LEMMA RewrittenInOrder ==
  ASSUME NEW now \in PointSet, NEW seen \in PointSet, NEW text \in Seq(Text),
         NEW from \in Nat, InOrder(now, from), NEW extra,
         extra = Len(text) - Cardinality(seen)
  PROVE  InOrder(Rewritten(now, seen, text, from), from + IF extra > 0 THEN extra ELSE 0)
<1> DEFINE c == Cardinality(seen)
           known == {p \in now : \E q \in seen : q.id = p.id}
           kept == {p \in known : Rank(seen, p.id) <= Len(text)}
           up(p) == Updated(p, seen, text)
           new(k) == [id |-> from + k - c, text |-> text[k]]
           rows == Rewritten(now, seen, text, from)
           last == from + IF extra > 0 THEN extra ELSE 0
<1>1. c \in Nat /\ Len(text) \in Nat /\ extra = Len(text) - c
  BY RankRange, 0 \in Nat
<1>2. \A p \in now : p.id \in Nat /\ p.id <= from
  BY DEF InOrder, PointSet, Point
<1>3. \A p \in kept : up(p).id = p.id
  BY UpdatedType DEF PointSet
<1>4. \A x \in rows : \/ x \in now \ known
                      \/ \E p \in kept : x = up(p)
                      \/ \E k \in (c + 1)..Len(text) : x = new(k)
  <2>1. rows = (now \ known) \cup {new(k) : k \in (c + 1)..Len(text)} \cup {up(p) : p \in kept}
    BY DEF Rewritten
  <2> HIDE DEF rows, known, kept, up, new, c
  <2> QED
    BY <2>1
<1>5. \A k \in (c + 1)..Len(text) : new(k).id = from + k - c
  OBVIOUS
<1>6. \A p, q \in now : p.id = q.id => p = q
  BY DEF InOrder
<1>7. kept \subseteq known /\ known \subseteq now
  OBVIOUS
<1> HIDE DEF up, new, rows, known, kept, c
<1>8. \A x \in rows : x.id <= last
  <2> SUFFICES ASSUME NEW x \in rows PROVE x.id <= last
    OBVIOUS
  <2>1. CASE \E p \in now : x.id = p.id
    BY <1>1, <1>2, <2>1
  <2>2. CASE \E k \in (c + 1)..Len(text) : x = new(k)
    <3>1. PICK k \in (c + 1)..Len(text) : x = new(k)
      BY <2>2
    <3>2. x.id = from + k - c /\ k <= Len(text) /\ k > c /\ k \in Int
      BY <1>1, <1>5, <3>1
    <3> QED
      BY <1>1, <3>2
  <2> QED
    BY <1>3, <1>4, <1>7, <2>1, <2>2
<1>9. \A x, y \in rows : x.id = y.id => x = y
  <2> SUFFICES ASSUME NEW x \in rows, NEW y \in rows, x.id = y.id PROVE x = y
    OBVIOUS
  <2> DEFINE Old(z) == \/ z \in now \ known
                       \/ \E p \in kept : z = up(p)
             Made(z) == \E k \in (c + 1)..Len(text) : z = new(k)
  <2>1. (Old(x) \/ Made(x)) /\ (Old(y) \/ Made(y))
    BY <1>4
  <2>2. ASSUME NEW z, Old(z) PROVE \E p \in now : z.id = p.id /\ z.id <= from /\ z.id \in Nat
    BY <1>2, <1>3, <1>7, <2>2
  <2>3. ASSUME NEW z, Made(z) PROVE z.id > from
    <3>1. PICK k \in (c + 1)..Len(text) : z = new(k)
      BY <2>3
    <3>2. z.id = from + k - c /\ k > c /\ k \in Int
      BY <1>1, <1>5, <3>1
    <3> QED
      BY <1>1, <3>2
  <2>4. CASE Old(x) /\ Old(y)
    BY <1>3, <1>6, <1>7, <2>4
  <2>5. CASE Made(x) /\ Made(y)
    <3>1. PICK j \in (c + 1)..Len(text) : x = new(j)
      BY <2>5
    <3>2. PICK k \in (c + 1)..Len(text) : y = new(k)
      BY <2>5
    <3>3. from + j - c = from + k - c
      BY <1>5, <3>1, <3>2
    <3>4. j = k
      BY <1>1, <3>3
    <3> QED
      BY <3>1, <3>2, <3>4
  <2>6. ~ (Old(x) /\ Made(y)) /\ ~ (Old(y) /\ Made(x))
    <3> HIDE DEF Old, Made
    <3>1. ASSUME NEW a, NEW b, Old(a), Made(b), a.id = b.id PROVE FALSE
      <4>1. a.id <= from /\ a.id \in Nat /\ b.id > from
        BY <2>2, <2>3, <3>1
      <4> QED
        BY <3>1, <4>1
    <3> QED
      BY <3>1
  <2> HIDE DEF Old, Made
  <2> QED
    BY <2>1, <2>4, <2>5, <2>6
<1> QED
  BY <1>8, <1>9 DEF InOrder, rows

PointsInOrder == \A t \in Transcripts : InOrder(points[t], lastId[t])

\* Nobody else is at work on the transcript of a writer that is still called solo.
SoloApart ==
  \A w \in Writers :
    /\ task[w].stage = "idle" => ~ task[w].solo
    /\ task[w].solo =>
         \A x \in Writers \ {w} : task[x].t = task[w].t => task[x].stage \notin Active

\* What a writer that is alone has done so far is what the transcript has.
Slated(w) == \/ task[w].stage \in {"saved", "updated", "read", "pointed"}
             \/ w \in Saves /\ task[w].stage \in {"copied", "done"}

Pointed(w) == \/ task[w].stage \in {"pointed", "done"}
              \/ w \in Saves /\ task[w].stage = "copied"

Achieved(w, t) ==
  /\ Slated(w) => row[t].slate = Own(w)
  /\ task[w].stage = "read" => task[w].seen = points[t]
  /\ Pointed(w) => Shows(t, w)
  /\ task[w].stage \in {"stored", "cleared", "done"} => row[t].vtt = Own(w)
  /\ task[w].stage = "cleared" => points[t] = {}

Promise(w) ==
  /\ task[w].stage \in {"stored", "cleared"} => w \in Uploads
  /\ \A t \in Transcripts :
       task[w].t = t /\ task[w].solo /\ task[w].titled /\ row[t].live => Achieved(w, t)

SoloAchieves == \A w \in Writers : Promise(w)

\* A transcript that stays is as it was.
Kept(t) ==
  row'[t].live => /\ row[t].live /\ row'[t].slate = row[t].slate /\ row'[t].vtt = row[t].vtt
                  /\ points'[t] = points[t]

\* A writer is as it was, but that it may no longer be called solo.
Bides(w) ==
  /\ task'[w].stage = task[w].stage /\ task'[w].t = task[w].t /\ task'[w].att = task[w].att
  /\ task'[w].titled = task[w].titled /\ task'[w].seen = task[w].seen
  /\ task'[w].solo => task[w].solo

LEMMA ShowsStays ==
  ASSUME NEW t, NEW d, points'[t] = points[t]
  PROVE  Shows(t, d)' <=> Shows(t, d)
BY DEF Shows

LEMMA Unharmed ==
  ASSUME NEW w \in Writers, Promise(w), Bides(w),
         \A t \in Transcripts : task'[w].solo /\ task[w].t = t => Kept(t)
  PROVE  Promise(w)'
<1>1. ASSUME NEW t \in Transcripts,
             task'[w].t = t, task'[w].solo, task'[w].titled, row'[t].live
      PROVE  Achieved(w, t)'
  <2>1. task[w].t = t /\ task[w].solo /\ task[w].titled
    BY <1>1 DEF Bides
  <2>2. Kept(t)
    BY <1>1, <2>1
  <2>3. Achieved(w, t)
    BY <1>1, <2>1, <2>2 DEF Promise, Kept
  <2>4. /\ row'[t].slate = row[t].slate /\ row'[t].vtt = row[t].vtt /\ points'[t] = points[t]
        /\ (Shows(t, w)' <=> Shows(t, w))
    BY <1>1, <2>2, ShowsStays DEF Kept
  <2>5. Own(w)' = Own(w) /\ (Slated(w)' <=> Slated(w)) /\ (Pointed(w)' <=> Pointed(w))
    BY DEF Own, Slated, Pointed, Bides
  <2> QED
    BY <2>3, <2>4, <2>5 DEF Achieved, Bides
<1>2. task'[w].stage \in {"stored", "cleared"} => w \in Uploads
  BY DEF Bides, Promise
<1> QED
  BY <1>1, <1>2 DEF Promise

\* A writer that has found its row, is queued or has died promises nothing.
LEMMA NoPromise ==
  ASSUME NEW w \in Writers, task'[w].stage \in {"loaded", "queued", "dead"}
  PROVE  Promise(w)'
BY DEF Promise, Achieved, Slated, Pointed

-----------------------------------------------------------------------------
(***************************************************************************)
(* Who is alone.                                                           *)
(***************************************************************************)

\* Who finds a row is alone if nobody is at work on it, and ends the others' being alone.
LEMMA FoundApart ==
  ASSUME TInv, SoloApart, NEW w \in Writers, NEW t \in Transcripts, task' = Found(w, t)
  PROVE  /\ SoloApart'
         /\ task'[w].stage = "loaded"
         /\ \A x \in Writers \ {w} : Bides(x)
<1> DEFINE alone == AtWorkOn(t) \ {w} = {}
<1>0. task \in [Writers -> Task]
  BY DEF TInv, TypeOK
<1>1. /\ task'[w] = [task[w] EXCEPT !.stage = "loaded", !.t = t, !.is_edit = row[t].is_edit,
                       !.slate = row[t].slate, !.vtt = row[t].vtt, !.seen = {}, !.solo = alone]
      /\ \A x \in Writers \ {w} :
           task'[x] = IF task[x].t = t THEN [task[x] EXCEPT !.solo = FALSE] ELSE task[x]
  BY DEF Found
<1>2. alone => \A x \in Writers \ {w} : task[x].t = t => task[x].stage \notin Active
  BY DEF AtWorkOn
<1> HIDE DEF alone
<1>3. task'[w].stage = "loaded" /\ task'[w].t = t /\ task'[w].solo = alone
  BY <1>0, <1>1 DEF Task
<1>4. \A x \in Writers \ {w} :
        /\ Bides(x)
        /\ task[x].t = t => ~ task'[x].solo
  <2> TAKE x \in Writers \ {w}
  <2>1. task[x] \in Task
    BY <1>0
  <2>2. CASE task[x].t = t
    <3>1. task'[x] = [task[x] EXCEPT !.solo = FALSE]
      BY <1>1, <2>2
    <3> QED
      BY <2>1, <3>1 DEF Bides, Task
  <2>3. CASE task[x].t # t
    <3>1. task'[x] = task[x]
      BY <1>1, <2>3
    <3> QED
      BY <2>3, <3>1 DEF Bides
  <2> QED
    BY <2>2, <2>3
<1>5. SoloApart'
  BY <1>2, <1>3, <1>4 DEF SoloApart, Bides
<1> QED
  BY <1>3, <1>4, <1>5

\* A step of a writer that finds no row makes nobody begin to work.
Proceeds(x) ==
  /\ \A y \in Writers \ {x} : task'[y] = task[y]
  /\ task'[x].t = task[x].t /\ task'[x].titled = task[x].titled /\ task'[x].solo = task[x].solo
  /\ task'[x].stage \in Active => task[x].stage \in Active
  /\ task'[x].stage # "idle"

LEMMA ProceedsApart ==
  ASSUME SoloApart, NEW x \in Writers, Proceeds(x)
  PROVE  SoloApart'
<1>1. ASSUME NEW w \in Writers, task'[w].stage = "idle" PROVE ~ task'[w].solo
  BY <1>1 DEF SoloApart, Proceeds
<1>2. ASSUME NEW w \in Writers, NEW y \in Writers \ {w}, task'[w].solo, task'[y].t = task'[w].t
      PROVE  task'[y].stage \notin Active
  <2>1. task[w].solo /\ task[y].t = task[w].t
    BY <1>2 DEF Proceeds
  <2>2. task[y].stage \notin Active
    BY <1>2, <2>1 DEF SoloApart
  <2> QED
    BY <2>2 DEF Proceeds
<1> QED
  BY <1>1, <1>2 DEF SoloApart

LEMMA RaisedSolo ==
  ASSUME TInv, NEW w \in Writers, task[w].stage # "idle", Raise(w)
  PROVE  /\ Proceeds(w) /\ task'[w].stage \in {"queued", "dead"}
<1>1. task \in [Writers -> Task] /\ task' = [task EXCEPT ![w] = Raised(w)]
  BY DEF TInv, TypeOK, Raise
<1>2. /\ Raised(w).t = task[w].t /\ Raised(w).titled = task[w].titled
      /\ Raised(w).solo = task[w].solo /\ Raised(w).stage \in {"queued", "dead"}
  BY <1>1 DEF Raised, Task
<1> QED
  BY <1>1, <1>2 DEF Proceeds, Active

\* Moving on to another stage.
LEMMA MovedOn ==
  ASSUME TInv, NEW w \in Writers, task[w].stage \in Active, NEW s \in Stages \ {"idle"},
         NEW f, NEW rows,
         \/ task' = [task EXCEPT ![w].stage = s]
         \/ task' = [task EXCEPT ![w].stage = s, ![w].slate = f]
         \/ task' = [task EXCEPT ![w].stage = s, ![w].seen = rows]
  PROVE  /\ Proceeds(w) /\ task'[w].stage = s
         /\ Own(w)' = Own(w) /\ task'[w].att = task[w].att
<1>1. task \in [Writers -> Task]
  BY DEF TInv, TypeOK
<1> QED
  BY <1>1 DEF Task, Proceeds, Own, Active

-----------------------------------------------------------------------------
(***************************************************************************)
(* What each step of a writer earns it.                                    *)
(***************************************************************************)

\* A writer goes on: it leaves the other transcripts alone, and leaves its own
\* alone as well while it is not at work.
Advances(x) ==
  /\ Proceeds(x)
  /\ \A t \in Transcripts : t # task[x].t \/ task[x].stage \notin Active => Kept(t)
  /\ Promise(x)'

LEMMA RaisedAdvances ==
  ASSUME TInv, NEW x \in Writers, task[x].stage # "idle", Raise(x), UNCHANGED <<row, points>>
  PROVE  Advances(x)
BY RaisedSolo, NoPromise DEF Advances, Kept

\* A writer that is still alone was alone before it went on.
LEMMA Earned ==
  ASSUME NEW x \in Writers, Proceeds(x), NEW t, t = task[x].t,
         task'[x].stage \in {"stored", "cleared"} => x \in Uploads,
         t \in Transcripts /\ task[x].solo /\ task[x].titled /\ row'[t].live => Achieved(x, t)'
  PROVE  Promise(x)'
BY DEF Promise, Proceeds

LEMMA SaveSlateAdvances ==
  ASSUME TInv, NEW x \in Writers, SaveSlate(x)
  PROVE  Advances(x)
<1>1. PICK t : t = task[x].t
  OBVIOUS
<1>2. x \in Saves /\ task[x].stage = "loaded" /\ task[x].stage \in Active /\ points' = points
  BY DEF SaveSlate, Active, Stages
<1>3. CASE Raise(x) /\ UNCHANGED row
  BY <1>2, <1>3, RaisedAdvances
<1>4. CASE /\ row' = IF t \in Live THEN [row EXCEPT ![t].slate = Own(x)] ELSE row
           /\ task' = [task EXCEPT ![x].stage = "saved", ![x].slate = Own(x)]
  <2>1. Proceeds(x) /\ task'[x].stage = "saved" /\ Own(x)' = Own(x)
    BY <1>2, <1>4, MovedOn DEF Stages
  <2>2. \A u \in Transcripts : u # t => row'[u] = row[u]
    BY <1>4 DEF TInv, TypeOK
  <2>3. t \in Transcripts /\ row'[t].live => row'[t].slate = Own(x)
    BY <1>4 DEF TInv, TypeOK, Row, Live
  <2>4. Promise(x)'
    BY <1>1, <2>1, <2>3, Earned DEF Achieved, Slated, Pointed
  <2> QED
    BY <1>1, <1>2, <2>1, <2>2, <2>4 DEF Advances, Kept
<1> QED
  BY <1>1, <1>3, <1>4 DEF SaveSlate

LEMMA UpdateAttributesAdvances ==
  ASSUME TInv, NEW x \in Writers, UpdateAttributes(x), Promise(x)
  PROVE  Advances(x)
<1>1. PICK t : t = task[x].t
  OBVIOUS
<1>2. task[x].stage = "saved" /\ task[x].stage \in Active /\ points' = points
  BY DEF UpdateAttributes, Active, Stages
<1>3. CASE Raise(x) /\ UNCHANGED row
  BY <1>2, <1>3, RaisedAdvances
<1>4. CASE task' = [task EXCEPT ![x].stage = "updated"]
  <2>1. Proceeds(x) /\ task'[x].stage = "updated" /\ Own(x)' = Own(x)
    BY <1>2, <1>4, MovedOn DEF Stages
  <2>2. \A u \in Transcripts :
          row'[u].live = row[u].live /\ row'[u].slate = row[u].slate /\ row'[u].vtt = row[u].vtt
    BY <1>2, RaisedSolo, <2>1 DEF UpdateAttributes, TInv, TypeOK, Row
  <2>3. ASSUME t \in Transcripts, task[x].solo, task[x].titled, row'[t].live
        PROVE  Achieved(x, t)'
    <3>1. Achieved(x, t)
      BY <1>1, <2>2, <2>3 DEF Promise
    <3> QED
      BY <1>2, <2>1, <2>2, <2>3, <3>1 DEF Achieved, Slated, Pointed
  <2>4. Promise(x)'
    BY <1>1, <2>1, <2>3, Earned
  <2> QED
    BY <1>2, <2>1, <2>2, <2>4 DEF Advances, Kept
<1> QED
  BY <1>3, <1>4 DEF UpdateAttributes

LEMMA ReadPointsAdvances ==
  ASSUME TInv, NEW x \in Writers, ReadPoints(x), Promise(x)
  PROVE  Advances(x)
<1>1. PICK t : t = task[x].t
  OBVIOUS
<1>2. task[x].stage = "updated" /\ task[x].stage \in Active /\ UNCHANGED <<row, points>>
  BY DEF ReadPoints, Active, Stages
<1>3. CASE Raise(x)
  BY <1>2, <1>3, RaisedAdvances
<1>4. CASE task' = [task EXCEPT ![x].stage = "read", ![x].seen = points[t]]
  <2>1. Proceeds(x) /\ task'[x].stage = "read" /\ Own(x)' = Own(x)
    BY <1>2, <1>4, MovedOn DEF Stages
  <2>2. task'[x].seen = points[t]
    BY <1>4 DEF TInv, TypeOK, Task
  <2>3. ASSUME t \in Transcripts, task[x].solo, task[x].titled, row'[t].live
        PROVE  Achieved(x, t)'
    <3>1. Achieved(x, t)
      BY <1>1, <1>2, <2>3 DEF Promise
    <3> QED
      BY <1>2, <2>1, <2>2, <3>1 DEF Achieved, Slated, Pointed
  <2>4. Promise(x)'
    BY <1>1, <2>1, <2>3, Earned
  <2> QED
    BY <1>2, <2>1, <2>4 DEF Advances, Kept
<1> QED
  BY <1>1, <1>3, <1>4 DEF ReadPoints

LEMMA WritePointsAdvances ==
  ASSUME TInv, PointsInOrder, NEW x \in Writers, WritePoints(x), Promise(x)
  PROVE  Advances(x)
<1>1. PICK t : t = task[x].t
  OBVIOUS
<1>2. task[x].stage = "read" /\ task[x].stage \in Active /\ UNCHANGED row
  BY DEF WritePoints, Active, Stages
<1>3. CASE Raise(x) /\ UNCHANGED points
  BY <1>2, <1>3, RaisedAdvances
<1>4. CASE /\ t \in Live
           /\ points' = [points EXCEPT ![t] =
                Rewritten(points[t], task[x].seen, Paragraphs[x], lastId[t])]
           /\ task' = [task EXCEPT ![x].stage = "pointed", ![x].seen = {}]
  <2>1. Proceeds(x) /\ task'[x].stage = "pointed" /\ Own(x)' = Own(x)
    BY <1>2, <1>4, MovedOn DEF Stages
  <2>2. \A u \in Transcripts : u # t => points'[u] = points[u]
    BY <1>4 DEF TInv, TypeOK
  <2>3. ASSUME t \in Transcripts, task[x].solo, task[x].titled, row'[t].live
        PROVE  Achieved(x, t)'
    <3>1. Achieved(x, t)
      BY <1>1, <1>2, <2>3 DEF Promise
    <3>2. points[t] \in PointSet /\ lastId[t] \in Nat /\ InOrder(points[t], lastId[t])
      BY <2>3 DEF TInv, TypeOK, PointsInOrder
    <3>3. Paragraphs[x] \in Seq(Text)
      BY ConstantsAssumption DEF Documents
    <3>4. points'[t] = Rewritten(points[t], points[t], Paragraphs[x], lastId[t])
      BY <1>2, <1>4, <2>3, <3>1 DEF Achieved, TInv, TypeOK
    <3>5. Forms(points'[t], Paragraphs[x])
      BY <3>2, <3>3, <3>4, RewrittenForms
    <3>6. Shows(t, x)'
      BY <3>5 DEF Forms, Shows
    <3> QED
      BY <1>2, <2>1, <3>1, <3>6 DEF Achieved, Slated, Pointed
  <2>4. Promise(x)'
    BY <1>1, <2>1, <2>3, Earned
  <2> QED
    BY <1>1, <1>2, <2>1, <2>2, <2>4 DEF Advances, Kept
<1> QED
  BY <1>1, <1>3, <1>4 DEF WritePoints

LEMMA CopyWebvttAdvances ==
  ASSUME TInv, NEW x \in Writers, CopyWebvtt(x), Promise(x)
  PROVE  Advances(x)
<1>1. PICK t : t = task[x].t
  OBVIOUS
<1>2. /\ task[x].stage = IF x \in Saves THEN "pointed" ELSE "loaded"
      /\ task[x].stage \in Active /\ task[x].stage # "idle" /\ UNCHANGED <<row, points>>
  BY DEF CopyWebvtt, Active, Stages
<1>3. CASE Raise(x)
  BY <1>2, <1>3, RaisedAdvances
<1>4. ASSUME NEW s \in {"copied", "done"}, task' = [task EXCEPT ![x].stage = s],
             s = "done" => ~ task[x].titled
      PROVE  Advances(x)
  <2>1. Proceeds(x) /\ task'[x].stage = s /\ Own(x)' = Own(x)
    BY <1>2, <1>4, MovedOn DEF Stages
  <2>2. Shows(t, x)' <=> Shows(t, x)
    BY <1>2, ShowsStays
  <2>3. ASSUME t \in Transcripts, task[x].solo, task[x].titled, row'[t].live
        PROVE  Achieved(x, t)'
    <3>1. Achieved(x, t)
      BY <1>1, <1>2, <2>3 DEF Promise
    <3>2. s = "copied"
      BY <1>4, <2>3
    <3> QED
      BY <1>2, <2>1, <2>2, <3>1, <3>2 DEF Achieved, Slated, Pointed
  <2>4. Promise(x)'
    BY <1>1, <1>4, <2>1, <2>3, Earned
  <2> QED
    BY <1>2, <2>1, <2>4 DEF Advances, Kept
<1> QED
  BY <1>3, <1>4 DEF CopyWebvtt

LEMMA CommitWebvttAdvances ==
  ASSUME TInv, NEW x \in Writers, CommitWebvtt(x), Promise(x)
  PROVE  Advances(x)
<1> DEFINE s == IF x \in Saves THEN "done" ELSE "stored"
<1>1. PICK t : t = task[x].t
  OBVIOUS
<1>2. task[x].stage = "copied" /\ task[x].stage \in Active /\ points' = points
  BY DEF CommitWebvtt, Active, Stages
<1>3. CASE Raise(x) /\ UNCHANGED row
  BY <1>2, <1>3, RaisedAdvances
<1>4. CASE /\ row' = IF t \in Live THEN [row EXCEPT ![t].vtt = Own(x)] ELSE row
           /\ task' = [task EXCEPT ![x].stage = s]
  <2>0. s \in Stages \ {"idle"}
    BY DEF Stages
  <2>1. Proceeds(x) /\ task'[x].stage = s /\ Own(x)' = Own(x)
    BY <1>2, <1>4, <2>0, MovedOn
  <2>2. \A u \in Transcripts : u # t => row'[u] = row[u]
    BY <1>4 DEF TInv, TypeOK
  <2>3. t \in Transcripts /\ row'[t].live =>
          row[t].live /\ row'[t].slate = row[t].slate /\ row'[t].vtt = Own(x)
    BY <1>4 DEF TInv, TypeOK, Row, Live
  <2>4. ASSUME t \in Transcripts, task[x].solo, task[x].titled, row'[t].live
        PROVE  Achieved(x, t)'
    <3>1. Achieved(x, t)
      BY <1>1, <2>3, <2>4 DEF Promise
    <3>2. Shows(t, x)' <=> Shows(t, x)
      BY <1>2, ShowsStays
    <3> QED
      BY <1>2, <2>1, <2>3, <2>4, <3>1, <3>2 DEF Achieved, Slated, Pointed
  <2>5. task'[x].stage \in {"stored", "cleared"} => x \in Uploads
    BY <2>1 DEF Writers
  <2>6. Promise(x)'
    BY <1>1, <2>1, <2>4, <2>5, Earned
  <2> QED
    BY <1>1, <1>2, <2>1, <2>2, <2>6 DEF Advances, Kept
<1> QED
  BY <1>1, <1>3, <1>4 DEF CommitWebvtt

LEMMA ClearPointsAdvances ==
  ASSUME TInv, NEW x \in Writers, ClearPoints(x), Promise(x)
  PROVE  Advances(x)
<1>1. PICK t : t = task[x].t
  OBVIOUS
<1>2. /\ task[x].stage = "stored" /\ task[x].stage \in Active /\ UNCHANGED row
      /\ points' = [points EXCEPT ![t] = {}] /\ task' = [task EXCEPT ![x].stage = "cleared"]
  BY <1>1 DEF ClearPoints, Active, Stages
<1>3. Proceeds(x) /\ task'[x].stage = "cleared" /\ Own(x)' = Own(x)
  BY <1>2, MovedOn DEF Stages
<1>4. /\ \A u \in Transcripts : u # t => points'[u] = points[u]
      /\ t \in Transcripts => points'[t] = {}
  BY <1>2 DEF TInv, TypeOK
<1>5. ASSUME t \in Transcripts, task[x].solo, task[x].titled, row'[t].live
      PROVE  Achieved(x, t)'
  <2>1. Achieved(x, t)
    BY <1>1, <1>2, <1>5 DEF Promise
  <2> QED
    BY <1>2, <1>3, <1>4, <1>5, <2>1 DEF Achieved, Slated, Pointed
<1>6. Promise(x)'
  BY <1>1, <1>2, <1>3, <1>5, Earned DEF Promise
<1> QED
  BY <1>1, <1>2, <1>3, <1>4, <1>6 DEF Advances, Kept

LEMMA ParseUploadAdvances ==
  ASSUME TInv, NEW x \in Writers, ParseUpload(x), Promise(x)
  PROVE  Advances(x)
<1>1. PICK t : t = task[x].t
  OBVIOUS
<1>2. task[x].stage = "cleared" /\ task[x].stage \in Active /\ x \in Uploads
  BY DEF ParseUpload, Active, Stages, Promise
<1>3. CASE /\ task' = [task EXCEPT ![x].stage = "dead"]
           /\ UNCHANGED <<row, points>> \/ Destroyed({t})
  <2>1. Proceeds(x) /\ task'[x].stage = "dead"
    BY <1>2, <1>3, MovedOn DEF Stages
  <2>2. \A u \in Transcripts : u # t => row'[u] = row[u] /\ points'[u] = points[u]
    BY <1>3 DEF Destroyed
  <2> QED
    BY <1>1, <1>2, <2>1, <2>2, NoPromise DEF Advances, Kept
<1>4. CASE /\ t \in Live /\ UNCHANGED row
           /\ points' = [points EXCEPT ![t] = @ \cup Numbered(Paragraphs[x], lastId[t])]
           /\ task' = [task EXCEPT ![x].stage = "done"]
  <2>1. Proceeds(x) /\ task'[x].stage = "done" /\ Own(x)' = Own(x)
    BY <1>2, <1>4, MovedOn DEF Stages
  <2>2. \A u \in Transcripts : u # t => points'[u] = points[u]
    BY <1>4 DEF TInv, TypeOK
  <2>3. ASSUME t \in Transcripts, task[x].solo, task[x].titled, row'[t].live
        PROVE  Achieved(x, t)'
    <3>1. Achieved(x, t)
      BY <1>1, <1>4, <2>3 DEF Promise
    <3>2. lastId[t] \in Nat /\ Paragraphs[x] \in Seq(Text)
      BY <2>3, ConstantsAssumption DEF TInv, TypeOK, Documents
    <3>3. points'[t] = Numbered(Paragraphs[x], lastId[t])
      BY <1>2, <1>4, <2>3, <3>1 DEF Achieved, TInv, TypeOK
    <3>4. Forms(points'[t], Paragraphs[x])
      BY <3>2, <3>3, NumberedForms
    <3>5. Shows(t, x)'
      BY <3>4 DEF Forms, Shows
    <3>6. x \notin Saves
      BY <1>2, ConstantsAssumption
    <3> QED
      BY <1>2, <1>4, <2>1, <3>1, <3>5, <3>6 DEF Achieved, Slated, Pointed
  <2>4. Promise(x)'
    BY <1>1, <2>1, <2>3, Earned
  <2> QED
    BY <1>1, <1>2, <1>4, <2>1, <2>2, <2>4 DEF Advances, Kept
<1> QED
  BY <1>1, <1>3, <1>4 DEF ParseUpload

-----------------------------------------------------------------------------
(***************************************************************************)
(* The invariant, and what each step does to it.                           *)
(***************************************************************************)
SoloInv == TInv /\ PointsInOrder /\ SoloApart /\ SoloAchieves

KeepsSolo == SoloApart' /\ SoloAchieves'

LEMMA AdvanceKeepsSolo ==
  ASSUME SoloInv, NEW x \in Writers, Advances(x)
  PROVE  KeepsSolo
<1>1. SoloApart'
  BY ProceedsApart DEF SoloInv, Advances
<1>2. ASSUME NEW w \in Writers PROVE Promise(w)'
  <2>1. CASE w = x
    BY <2>1 DEF Advances
  <2>2. CASE w # x
    <3>1. task'[w] = task[w]
      BY <2>2 DEF Advances, Proceeds
    <3>2. ASSUME NEW t \in Transcripts, task'[w].solo, task[w].t = t PROVE Kept(t)
      <4>1. task[x].t = task[w].t => task[x].stage \notin Active
        BY <2>2, <3>1, <3>2 DEF SoloInv, SoloApart
      <4> QED
        BY <3>2, <4>1 DEF Advances
    <3> QED
      BY <3>1, <3>2, Unharmed DEF Bides, SoloInv, SoloAchieves
  <2> QED
    BY <2>1, <2>2
<1> QED
  BY <1>1, <1>2 DEF KeepsSolo, SoloAchieves

LEMMA FindingKeepsSolo ==
  ASSUME SoloInv, NEW w \in Writers, NEW t \in Transcripts, task' = Found(w, t),
         UNCHANGED <<row, points>>
  PROVE  KeepsSolo
<1>1. /\ SoloApart' /\ task'[w].stage = "loaded"
      /\ \A x \in Writers \ {w} : Bides(x)
  BY FoundApart DEF SoloInv
<1>2. \A x \in Writers \ {w} : Promise(x)'
  BY <1>1, Unharmed DEF SoloInv, SoloAchieves, Kept
<1>3. Promise(w)'
  BY <1>1, NoPromise
<1> QED
  BY <1>1, <1>2, <1>3 DEF KeepsSolo, SoloAchieves

LEMMA OthersKeepSolo ==
  ASSUME SoloInv, UNCHANGED task, \A t \in Transcripts : Kept(t)
  PROVE  KeepsSolo
<1>1. \A w \in Writers : Bides(w)
  BY DEF Bides
<1>2. \A w \in Writers : Promise(w)'
  BY <1>1, Unharmed DEF SoloInv, SoloAchieves
<1> QED
  BY <1>2 DEF SoloInv, SoloApart, KeepsSolo, SoloAchieves

\* A save that is queued has not begun, and is not called solo.
LEMMA QueuingKeepsSolo ==
  ASSUME SoloInv, NEW u \in Users, NEW w \in Saves, SaveTranscript(u, w)
  PROVE  KeepsSolo
<1>1. /\ w \in Writers /\ task[w].stage = "idle" /\ ~ task[w].solo
      /\ task \in [Writers -> Task] /\ UNCHANGED <<row, points>>
  BY DEF SaveTranscript, SoloInv, SoloApart, Writers, TInv, TypeOK
<1>2. /\ \A x \in Writers \ {w} : task'[x] = task[x]
      /\ task'[w].stage = "queued" /\ ~ task'[w].solo
  BY <1>1 DEF SaveTranscript, Task
<1>3. SoloApart'
  BY <1>2 DEF SoloInv, SoloApart, Active
<1>4. \A x \in Writers \ {w} : Promise(x)'
  BY <1>1, <1>2, Unharmed DEF Bides, SoloInv, SoloAchieves, Kept
<1>5. Promise(w)'
  BY <1>1, <1>2, NoPromise
<1> QED
  BY <1>3, <1>4, <1>5 DEF KeepsSolo, SoloAchieves

LEMMA WriterKeepsSolo ==
  ASSUME SoloInv, NEW x \in Writers, JobStep(x) \/ UploadStep(x) \/ WriterFails(x)
  PROVE  KeepsSolo
<1>1. TInv /\ PointsInOrder /\ Promise(x)
  BY DEF SoloInv, SoloAchieves
<1>2. CASE PickUp(x)
  <2>1. task[x].stage # "idle" /\ UNCHANGED <<row, points>>
    BY <1>2 DEF PickUp
  <2>2. CASE task[x].t \in Live /\ task' = Found(x, task[x].t)
    <3>1. task[x].t \in Transcripts
      BY <2>2 DEF Live
    <3> QED
      BY <2>1, <2>2, <3>1, FindingKeepsSolo
  <2>3. CASE Raise(x)
    BY <1>1, <2>1, <2>3, RaisedAdvances, AdvanceKeepsSolo
  <2> QED
    BY <1>2, <2>2, <2>3 DEF PickUp
<1>3. CASE WriterFails(x)
  <2>1. task[x].stage \in Active /\ task[x].stage # "idle" /\ UNCHANGED <<row, points>>
    BY <1>3 DEF WriterFails, Active
  <2>2. CASE task' = [task EXCEPT ![x].stage = "dead"]
    <3>1. Proceeds(x) /\ task'[x].stage = "dead"
      BY <1>1, <2>1, <2>2, MovedOn DEF Stages
    <3> QED
      BY <2>1, <3>1, NoPromise, AdvanceKeepsSolo DEF Advances, Kept
  <2> QED
    BY <1>1, <1>3, <2>1, <2>2, RaisedAdvances, AdvanceKeepsSolo DEF WriterFails
<1>4. CASE SaveSlate(x)
  BY <1>1, <1>4, SaveSlateAdvances, AdvanceKeepsSolo
<1>5. CASE UpdateAttributes(x)
  BY <1>1, <1>5, UpdateAttributesAdvances, AdvanceKeepsSolo
<1>6. CASE ReadPoints(x)
  BY <1>1, <1>6, ReadPointsAdvances, AdvanceKeepsSolo
<1>7. CASE WritePoints(x)
  BY <1>1, <1>7, WritePointsAdvances, AdvanceKeepsSolo
<1>8. CASE CopyWebvtt(x)
  BY <1>1, <1>8, CopyWebvttAdvances, AdvanceKeepsSolo
<1>9. CASE CommitWebvtt(x)
  BY <1>1, <1>9, CommitWebvttAdvances, AdvanceKeepsSolo
<1>10. CASE ClearPoints(x)
  BY <1>1, <1>10, ClearPointsAdvances, AdvanceKeepsSolo
<1>11. CASE ParseUpload(x)
  BY <1>1, <1>11, ParseUploadAdvances, AdvanceKeepsSolo
<1> QED
  BY <1>2, <1>3, <1>4, <1>5, <1>6, <1>7, <1>8, <1>9, <1>10, <1>11 DEF JobStep, UploadStep

\* People, deletions and the unlock task change the files and the points of no
\* transcript that stays.
LEMMA SoloKept == SoloInv /\ [Next]_vars => KeepsSolo
<1> SUFFICES ASSUME SoloInv, [Next]_vars PROVE KeepsSolo
  OBVIOUS
<1>1. row \in [Transcripts -> Row]
  BY DEF SoloInv, TInv, TypeOK
<1>2. ASSUME NEW ts, Destroyed(ts) PROVE \A t \in Transcripts : Kept(t)
  BY <1>2 DEF Destroyed, Kept, Gone
<1>3. ASSUME NEW u \in Users, NEW t \in Transcripts, Edit(u, t) PROVE KeepsSolo
  BY <1>1, <1>3, OthersKeepSolo DEF Edit, Kept, Row
<1>4. ASSUME NEW u \in Users, UpdateTranscript(u) \/ Abandon(u) PROVE KeepsSolo
  BY <1>1, <1>4, OthersKeepSolo DEF UpdateTranscript, Abandon, Kept, Row
<1>5. ASSUME NEW w \in Uploads, NEW t \in Transcripts, BeginUpload(w, t) PROVE KeepsSolo
  BY <1>5, FindingKeepsSolo DEF BeginUpload, Writers
<1>6. ASSUME NEW t \in Transcripts,
             TouchTranscript(t) \/ DayPasses(t) \/ UnlockTranscript(t)
      PROVE  KeepsSolo
  BY <1>1, <1>6, OthersKeepSolo DEF TouchTranscript, DayPasses, UnlockTranscript, Kept, Row
<1>7. ASSUME NEW t \in Transcripts, DestroyTranscript(t) PROVE KeepsSolo
  BY <1>2, <1>7, OthersKeepSolo DEF DestroyTranscript
<1>8. CASE DeleteResourceFile \/ BulkDeleteFiles
  BY <1>2, <1>8, OthersKeepSolo DEF DeleteResourceFile, BulkDeleteFiles
<1>9. CASE CheckLocks \/ ScanLocks \/ UNCHANGED vars
  BY <1>9, OthersKeepSolo DEF CheckLocks, ScanLocks, vars, Kept
<1>10. CASE UserStep
  BY <1>3, <1>4, <1>5, <1>6, <1>7, <1>8, <1>9, <1>10, QueuingKeepsSolo DEF UserStep
<1> QED
  BY <1>6, <1>9, <1>10, WriterKeepsSolo DEF Next

\* New points get new ids; a step that creates none keeps those there are.
LEMMA OrderStays ==
  ASSUME PointsInOrder,
         \A t \in Transcripts :
           \/ points'[t] \subseteq points[t] /\ lastId'[t] = lastId[t]
           \/ InOrder(points'[t], lastId'[t])
  PROVE  PointsInOrder'
BY DEF PointsInOrder, InOrder

LEMMA OrderKept == TInv /\ PointsInOrder /\ [Next]_vars => PointsInOrder'
<1> SUFFICES ASSUME TInv, PointsInOrder, [Next]_vars PROVE PointsInOrder'
  OBVIOUS
<1>1. /\ points \in [Transcripts -> PointSet] /\ lastId \in [Transcripts -> Nat]
      /\ \A t \in Transcripts : InOrder(points[t], lastId[t])
      /\ \A x \in Writers : Paragraphs[x] \in Seq(Text)
      /\ \A x \in Writers, t \in Transcripts : task[x].t = t /\ task[x].stage = "read" =>
           task[x].seen \in PointSet
  BY ConstantsAssumption DEF TInv, TypeOK, Task, PointsInOrder, Documents
<1>2. ASSUME NEW x \in Writers, WritePoints(x) PROVE PointsInOrder'
  <2>1. PICK t : t = task[x].t
    OBVIOUS
  <2>2. CASE UNCHANGED <<points, lastId>>
    BY <2>2, OrderStays
  <2>3. PICK extra : extra = Len(Paragraphs[x]) - Cardinality(task[x].seen)
    OBVIOUS
  <2>4. CASE /\ t \in Live
             /\ points' = [points EXCEPT ![t] =
                  Rewritten(points[t], task[x].seen, Paragraphs[x], lastId[t])]
             /\ lastId' = [lastId EXCEPT ![t] = @ + IF extra > 0 THEN extra ELSE 0]
    <3>1. t \in Transcripts /\ task[x].seen \in PointSet
      BY <1>1, <1>2, <2>1, <2>4 DEF Live, WritePoints
    <3>2. points[t] \in PointSet /\ lastId[t] \in Nat /\ InOrder(points[t], lastId[t])
      BY <1>1, <3>1
    <3>3. InOrder(Rewritten(points[t], task[x].seen, Paragraphs[x], lastId[t]),
                  lastId[t] + IF extra > 0 THEN extra ELSE 0)
      BY <1>1, <2>3, <3>1, <3>2, RewrittenInOrder
    <3>4. InOrder(points'[t], lastId'[t])
      BY <1>1, <2>4, <3>1, <3>3
    <3>5. \A u \in Transcripts : u # t => points'[u] = points[u] /\ lastId'[u] = lastId[u]
      BY <1>1, <2>4
    <3> QED
      BY <3>4, <3>5, OrderStays
  <2> QED
    BY <1>2, <2>1, <2>2, <2>3, <2>4 DEF WritePoints
<1>3. ASSUME NEW x \in Writers, ParseUpload(x) PROVE PointsInOrder'
  <2>1. PICK t : t = task[x].t
    OBVIOUS
  <2>2. CASE UNCHANGED <<points, lastId>>
    BY <2>2, OrderStays
  <2>3. CASE Destroyed({t}) /\ UNCHANGED lastId
    BY <2>3, OrderStays DEF Destroyed
  <2>4. CASE /\ t \in Live
             /\ points' = [points EXCEPT ![t] = @ \cup Numbered(Paragraphs[x], lastId[t])]
             /\ lastId' = [lastId EXCEPT ![t] = @ + Len(Paragraphs[x])]
    <3>1. t \in Transcripts
      BY <2>4 DEF Live
    <3>2. points[t] \in PointSet /\ lastId[t] \in Nat /\ InOrder(points[t], lastId[t])
      BY <1>1, <3>1
    <3>3. InOrder(points[t] \cup Numbered(Paragraphs[x], lastId[t]),
                  lastId[t] + Len(Paragraphs[x]))
      BY <1>1, <3>2, NumberedInOrder
    <3>4. InOrder(points'[t], lastId'[t])
      BY <1>1, <2>4, <3>1, <3>3
    <3>5. \A u \in Transcripts : u # t => points'[u] = points[u] /\ lastId'[u] = lastId[u]
      BY <1>1, <2>4
    <3> QED
      BY <3>4, <3>5, OrderStays
  <2> QED
    BY <1>3, <2>1, <2>2, <2>3, <2>4 DEF ParseUpload
<1>4. ASSUME NEW x \in Writers, ClearPoints(x) PROVE PointsInOrder'
  BY <1>1, <1>4, OrderStays DEF ClearPoints
<1>5. ASSUME NEW ts, Destroyed(ts), UNCHANGED lastId PROVE PointsInOrder'
  BY <1>5, OrderStays DEF Destroyed
<1>6. CASE UNCHANGED <<points, lastId>>
  BY <1>6, OrderStays
<1>7. CASE UserStep
  <2>1. CASE \/ DeleteResourceFile \/ BulkDeleteFiles
             \/ \E t \in Transcripts : DestroyTranscript(t)
    BY <1>5, <2>1 DEF DeleteResourceFile, BulkDeleteFiles, DestroyTranscript
  <2> QED
    BY <1>6, <1>7, <2>1 DEF UserStep, Edit, SaveTranscript, UpdateTranscript, Abandon,
       BeginUpload, TouchTranscript, CheckLocks
<1>8. ASSUME NEW x \in Writers, JobStep(x) \/ UploadStep(x) \/ WriterFails(x)
      PROVE  PointsInOrder'
  BY <1>2, <1>3, <1>4, <1>6, <1>8 DEF JobStep, UploadStep, PickUp, SaveSlate,
     UpdateAttributes, ReadPoints, CopyWebvtt, CommitWebvtt, WriterFails
<1> QED
  BY <1>6, <1>7, <1>8 DEF Next, DayPasses, UnlockTranscript, ScanLocks, vars

LEMMA SoloInvInit == Init => SoloInv
<1> SUFFICES ASSUME Init PROVE SoloInv
  OBVIOUS
<1>1. PointsInOrder
  <2>1. ASSUME NEW t \in Transcripts PROVE InOrder(points[t], lastId[t])
    <3>1. Paragraphs[t] \in Seq(Text)
      BY ConstantsAssumption DEF Documents
    <3>2. {} \in PointSet /\ InOrder({}, 0)
      BY FS_EmptySet DEF PointSet, InOrder
    <3>3. InOrder({} \cup Numbered(Paragraphs[t], 0), 0 + Len(Paragraphs[t]))
      BY <3>1, <3>2, NumberedInOrder, 0 \in Nat
    <3>4. points[t] = {} \cup Numbered(Paragraphs[t], 0) /\ lastId[t] = 0 + Len(Paragraphs[t])
      BY <3>1 DEF Init
    <3> QED
      BY <3>3, <3>4
  <2> QED
    BY <2>1 DEF PointsInOrder
<1>2. \A w \in Writers : task[w].stage = "idle" /\ ~ task[w].solo
  BY DEF Init, Idle
<1>3. SoloApart /\ SoloAchieves
  BY <1>2 DEF SoloApart, SoloAchieves, Promise
<1> QED
  BY <1>1, <1>3, TInvInit DEF SoloInv

\* The property of the runs: whoever edits, uploads, deletes or is killed, and
\* whatever earlier writers left behind, a writer that was alone from finding
\* the row to its end has published its own document in every form.
THEOREM SoloWritersPublish == Spec => []SoloWriterPublishes
<1>1. SoloInv /\ [Next]_vars => SoloInv'
  BY TInvStep, OrderKept, SoloKept DEF SoloInv, KeepsSolo
<1>2. SoloInv => SoloWriterPublishes
  <2> SUFFICES ASSUME SoloInv, NEW w \in Writers, task[w].stage = "done", task[w].solo,
                      task[w].titled, task[w].t \in Live
               PROVE  /\ w \in Saves => row[task[w].t].slate = Own(w)
                      /\ row[task[w].t].vtt = Own(w)
                      /\ Shows(task[w].t, w)
    BY DEF SoloWriterPublishes
  <2>1. PICK t : t = task[w].t
    OBVIOUS
  <2>2. Achieved(w, t)
    BY <2>1 DEF SoloInv, SoloAchieves, Promise, Live
  <2> QED
    BY <2>1, <2>2 DEF Achieved, Slated, Pointed
<1> QED
  BY <1>1, <1>2, SoloInvInit, PTL DEF Spec

-----------------------------------------------------------------------------
(***************************************************************************)
(* TranscriptEditing implements EditLease: every step of the editing of    *)
(* transcripts is a step of the lease or leaves the lease as it is.        *)
(***************************************************************************)

\* The unlock task comes upon old rows only where they are locked.
AgedLocked == \A t \in aged : row[t].live /\ row[t].is_edit

\* A re-upload has no document of the editor's to save.
UploadsSaveNoSlate == \A w \in Uploads : task[w].stage # "saved"

LInv == TInv /\ AgedLocked /\ UploadsSaveNoSlate

LStep == [Lease!Next]_(Lease!vars)

-----------------------------------------------------------------------------
(***************************************************************************)
(* The locks.                                                              *)
(***************************************************************************)
RowSame(t) == row'[t].live = row[t].live /\ row'[t].is_edit = row[t].is_edit

\* A step that locks, unlocks and deletes nothing leaves the locks.
LEMMA SameLock ==
  ASSUME \A t \in Transcripts : RowSame(t)
  PROVE  LeaseLock' = LeaseLock
BY DEF LeaseLock, Live, RowSame

\* A row saved unlocked frees a lock that is held, and no other.
LEMMA FreeLock ==
  ASSUME NEW t \in Transcripts, row'[t].live = row[t].live, ~row'[t].is_edit,
         \A x \in Transcripts \ {t} : RowSame(x)
  PROVE  \/ LeaseLock[t] = "held" /\ LeaseLock' = [LeaseLock EXCEPT ![t] = "free"]
         \/ LeaseLock' = LeaseLock
BY DEF LeaseLock, Live, RowSame

-----------------------------------------------------------------------------
(***************************************************************************)
(* The claims.                                                             *)
(***************************************************************************)

\* Windows, jobs and the task that stay as they are keep their claims.
LEMMA SameClaims ==
  ASSUME UNCHANGED <<editor, scan>>,
         \A w \in Saves, t \in Transcripts : MayUnlock(w, t)' <=> MayUnlock(w, t)
  PROVE  LeaseClaims' = LeaseClaims
BY DEF LeaseClaims

OthersKeep(w) ==
  \A x \in Saves \ {w}, t \in Transcripts : MayUnlock(x, t)' <=> MayUnlock(x, t)

\* A job that has no claim any longer has lost at most the one on its transcript.
LEMMA LostClaim ==
  ASSUME UNCHANGED <<editor, scan>>, NEW w \in Saves, OthersKeep(w),
         \A t \in Transcripts : ~MayUnlock(w, t)'
  PROVE  LeaseClaims' =
           [t \in Transcripts |-> IF t \in {task[w].t} THEN LeaseClaims[t] \ {<<"save", w>>}
                                  ELSE LeaseClaims[t]]
<1>1. ASSUME NEW t \in Transcripts
      PROVE  LeaseClaims'[t] = IF t \in {task[w].t} THEN LeaseClaims[t] \ {<<"save", w>>}
                               ELSE LeaseClaims[t]
  <2>1. LeaseClaims'[t] =
          {<<"user", u>> : u \in {u \in Users : editor[u] = t}}
          \cup {<<"save", x>> : x \in {x \in Saves : MayUnlock(x, t)'}}
          \cup (IF t \in scan THEN {<<"cron", None>>} ELSE {})
    BY DEF LeaseClaims
  <2>2. LeaseClaims[t] =
          {<<"user", u>> : u \in {u \in Users : editor[u] = t}}
          \cup {<<"save", x>> : x \in {x \in Saves : MayUnlock(x, t)}}
          \cup (IF t \in scan THEN {<<"cron", None>>} ELSE {})
    BY DEF LeaseClaims
  <2>3. \A x \in Saves : MayUnlock(x, t)' <=> (MayUnlock(x, t) /\ x # w)
    BY DEF OthersKeep
  <2>4. t \notin {task[w].t} => ~MayUnlock(w, t)
    BY DEF MayUnlock
  <2> QED
    BY <2>1, <2>2, <2>3, <2>4
<1> QED
  BY <1>1 DEF LeaseClaims

\* A job that had no claim and has one on a transcript has gained just that.
LEMMA GainedClaim ==
  ASSUME UNCHANGED <<editor, scan>>, NEW w \in Saves, OthersKeep(w),
         NEW s \in Transcripts,
         \A t \in Transcripts : ~MayUnlock(w, t) /\ (MayUnlock(w, t)' <=> t = s)
  PROVE  LeaseClaims' =
           [t \in Transcripts |-> IF t \in {s} THEN LeaseClaims[t] \cup {<<"save", w>>}
                                  ELSE LeaseClaims[t]]
<1>1. ASSUME NEW t \in Transcripts
      PROVE  LeaseClaims'[t] = IF t \in {s} THEN LeaseClaims[t] \cup {<<"save", w>>}
                               ELSE LeaseClaims[t]
  <2>1. LeaseClaims'[t] =
          {<<"user", u>> : u \in {u \in Users : editor[u] = t}}
          \cup {<<"save", x>> : x \in {x \in Saves : MayUnlock(x, t)'}}
          \cup (IF t \in scan THEN {<<"cron", None>>} ELSE {})
    BY DEF LeaseClaims
  <2>2. LeaseClaims[t] =
          {<<"user", u>> : u \in {u \in Users : editor[u] = t}}
          \cup {<<"save", x>> : x \in {x \in Saves : MayUnlock(x, t)}}
          \cup (IF t \in scan THEN {<<"cron", None>>} ELSE {})
    BY DEF LeaseClaims
  <2>3. \A x \in Saves : MayUnlock(x, t)' <=> (MayUnlock(x, t) \/ (x = w /\ t = s))
    BY DEF OthersKeep
  <2> QED
    BY <2>1, <2>2, <2>3
<1> QED
  BY <1>1 DEF LeaseClaims

\* Opening a window gains a claim on its transcript, closing it loses that.
LEMMA WindowClaim ==
  ASSUME TInv, UNCHANGED <<task, scan>>, NEW u \in Users
  PROVE  /\ \A s \in Transcripts :
              editor[u] = None /\ editor' = [editor EXCEPT ![u] = s] =>
                LeaseClaims' = [LeaseClaims EXCEPT ![s] = @ \cup {<<"user", u>>}]
         /\ editor' = [editor EXCEPT ![u] = None] =>
              LeaseClaims' = [t \in Transcripts |->
                IF t \in {editor[u]} THEN LeaseClaims[t] \ {<<"user", u>>} ELSE LeaseClaims[t]]
<1> DEFINE rest(t) == {<<"save", x>> : x \in {x \in Saves : MayUnlock(x, t)}}
                      \cup (IF t \in scan THEN {<<"cron", None>>} ELSE {})
           mine(t) == {<<"user", v>> : v \in {v \in Users : editor[v] = t}}
           then(t) == {<<"user", v>> : v \in {v \in Users : editor'[v] = t}}
<1>1. /\ editor \in [Users -> Transcripts \cup {None}]
      /\ None \notin Transcripts
  BY NoneAssumption DEF TInv, TypeOK
<1>2. ASSUME NEW t \in Transcripts
      PROVE  LeaseClaims[t] = mine(t) \cup rest(t) /\ LeaseClaims'[t] = then(t) \cup rest(t)
  <2>1. \A x \in Saves : MayUnlock(x, t)' <=> MayUnlock(x, t)
    BY DEF MayUnlock
  <2> QED
    BY <2>1 DEF LeaseClaims
<1>3. LeaseClaims = [t \in Transcripts |-> LeaseClaims[t]]
      /\ LeaseClaims' = [t \in Transcripts |-> LeaseClaims'[t]]
  BY DEF LeaseClaims
<1>4. \A t \in Transcripts : <<"user", u>> \notin rest(t)
  OBVIOUS
<1>5. ASSUME NEW s \in Transcripts, editor[u] = None, editor' = [editor EXCEPT ![u] = s]
      PROVE  LeaseClaims' = [LeaseClaims EXCEPT ![s] = @ \cup {<<"user", u>>}]
  <2>1. \A t \in Transcripts :
          then(t) = IF t = s THEN mine(t) \cup {<<"user", u>>} ELSE mine(t)
    BY <1>1, <1>5
  <2> HIDE DEF rest, mine, then
  <2>2. \A t \in Transcripts :
          LeaseClaims'[t] = IF t = s THEN LeaseClaims[t] \cup {<<"user", u>>} ELSE LeaseClaims[t]
    BY <1>2, <2>1
  <2> QED
    BY <1>3, <2>2
<1>6. ASSUME editor' = [editor EXCEPT ![u] = None]
      PROVE  LeaseClaims' = [t \in Transcripts |->
               IF t \in {editor[u]} THEN LeaseClaims[t] \ {<<"user", u>>} ELSE LeaseClaims[t]]
  <2>1. \A t \in Transcripts :
          then(t) = IF t = editor[u] THEN mine(t) \ {<<"user", u>>} ELSE mine(t)
    BY <1>1, <1>6
  <2> HIDE DEF rest, mine, then
  <2>2. \A t \in Transcripts :
          LeaseClaims'[t] = IF t \in {editor[u]} THEN LeaseClaims[t] \ {<<"user", u>>}
                            ELSE LeaseClaims[t]
    BY <1>2, <1>4, <2>1
  <2> QED
    BY <1>3, <2>2
<1> QED
  BY <1>5, <1>6

\* What the task comes upon and what it leaves are its claims.
LEMMA TaskClaim ==
  ASSUME UNCHANGED <<task, editor>>
  PROVE  /\ scan = {} =>
              LeaseClaims' = [t \in Transcripts |->
                IF t \in scan' THEN LeaseClaims[t] \cup {<<"cron", None>>} ELSE LeaseClaims[t]]
         /\ \A ts \in SUBSET Transcripts : scan' = scan \ ts =>
              LeaseClaims' = [t \in Transcripts |->
                IF t \in ts THEN LeaseClaims[t] \ {<<"cron", None>>} ELSE LeaseClaims[t]]
<1> DEFINE rest(t) == {<<"user", v>> : v \in {v \in Users : editor[v] = t}}
                      \cup {<<"save", x>> : x \in {x \in Saves : MayUnlock(x, t)}}
<1>1. ASSUME NEW t \in Transcripts
      PROVE  /\ LeaseClaims[t] = rest(t) \cup (IF t \in scan THEN {<<"cron", None>>} ELSE {})
             /\ LeaseClaims'[t] = rest(t) \cup (IF t \in scan' THEN {<<"cron", None>>} ELSE {})
  <2>1. \A x \in Saves : MayUnlock(x, t)' <=> MayUnlock(x, t)
    BY DEF MayUnlock
  <2> QED
    BY <2>1 DEF LeaseClaims
<1>2. LeaseClaims' = [t \in Transcripts |-> LeaseClaims'[t]]
  BY DEF LeaseClaims
<1>3. \A t \in Transcripts : <<"cron", None>> \notin rest(t)
  OBVIOUS
<1> HIDE DEF rest
<1>4. ASSUME scan = {}
      PROVE  LeaseClaims' = [t \in Transcripts |->
               IF t \in scan' THEN LeaseClaims[t] \cup {<<"cron", None>>} ELSE LeaseClaims[t]]
  BY <1>1, <1>2, <1>4
<1>5. ASSUME NEW ts \in SUBSET Transcripts, scan' = scan \ ts
      PROVE  LeaseClaims' = [t \in Transcripts |->
               IF t \in ts THEN LeaseClaims[t] \ {<<"cron", None>>} ELSE LeaseClaims[t]]
  <2>1. \A t \in Transcripts :
          LeaseClaims'[t] = IF t \in ts THEN LeaseClaims[t] \ {<<"cron", None>>} ELSE LeaseClaims[t]
    BY <1>1, <1>3, <1>5
  <2> QED
    BY <1>2, <2>1
<1> QED
  BY <1>4, <1>5

-----------------------------------------------------------------------------
(***************************************************************************)
(* The steps.                                                              *)
(***************************************************************************)

\* The rows whose lock has been held for a day are locked.
LEMMA AgedInit == Init => AgedLocked
BY DEF Init, AgedLocked

LEMMA AgedStep == LInv /\ [Next]_vars => AgedLocked'
<1> SUFFICES ASSUME LInv, [Next]_vars
             PROVE  AgedLocked'
  OBVIOUS
<1> USE DEF AgedLocked
<1>1. AgedLocked /\ aged \subseteq Transcripts /\ row \in [Transcripts -> Row]
  BY DEF LInv, TInv, TypeOK
<1>2. CASE UNCHANGED <<row, aged>>
  BY <1>1, <1>2
<1>3. ASSUME NEW ts, Destroyed(ts)
      PROVE  AgedLocked'
  BY <1>1, <1>3 DEF Destroyed
<1>4. ASSUME NEW w \in Writers, JobStep(w)
      PROVE  AgedLocked'
  <2>1. CASE SaveSlate(w)
    BY <1>1, <1>2, <2>1 DEF SaveSlate, Row
  <2>2. CASE UpdateAttributes(w)
    BY <1>1, <1>2, <2>2 DEF UpdateAttributes, Row
  <2>3. CASE CommitWebvtt(w)
    BY <1>1, <1>2, <2>3 DEF CommitWebvtt, Row
  <2> QED
    BY <1>2, <1>4, <2>1, <2>2, <2>3 DEF JobStep, PickUp, ReadPoints, WritePoints, CopyWebvtt
<1>5. ASSUME NEW w \in Writers, UploadStep(w) \/ WriterFails(w)
      PROVE  AgedLocked'
  BY <1>2, <1>3, <1>5 DEF UploadStep, WriterFails, ClearPoints, ParseUpload
<1>6. CASE UserStep
  <2>1. ASSUME NEW u \in Users, NEW t \in Transcripts, Edit(u, t)
        PROVE  AgedLocked'
    <3>1. row'[t].live /\ row'[t].is_edit
      BY <1>1, <2>1 DEF Edit, Live, Row
    <3> QED
      BY <1>1, <2>1, <3>1 DEF Edit
  <2>2. ASSUME NEW u \in Users, UpdateTranscript(u)
        PROVE  AgedLocked'
    BY <1>1, <2>2 DEF UpdateTranscript
  <2> QED
    BY <1>1, <1>2, <1>3, <1>6, <2>1, <2>2
    DEF UserStep, SaveTranscript, Abandon, BeginUpload, TouchTranscript,
        DestroyTranscript, CheckLocks, DeleteResourceFile, BulkDeleteFiles
<1>7. ASSUME NEW t \in Transcripts, DayPasses(t) \/ UnlockTranscript(t)
      PROVE  AgedLocked'
  BY <1>1, <1>2, <1>7 DEF DayPasses, UnlockTranscript, Live
<1> QED
  BY <1>2, <1>4, <1>5, <1>6, <1>7 DEF Next, ScanLocks, vars

\* Deleting transcripts is deleting their locks.
LEMMA DestroyedIsDelete ==
  ASSUME NEW ts \in SUBSET Transcripts, Destroyed(ts), LeaseClaims' = LeaseClaims
  PROVE  LStep
<1>1. LeaseLock' = [t \in Transcripts |-> IF t \in ts THEN "gone" ELSE LeaseLock[t]]
  BY DEF Destroyed, LeaseLock, Live, Gone
<1>2. Lease!Delete(ts)
  BY <1>1 DEF Lease!Delete
<1> QED
  BY <1>2 DEF LStep, Lease!Next

\* One with claims who leaves the locks alone may give claims up.
LEMMA GivesUp ==
  ASSUME LeaseLock' = LeaseLock,
         NEW h \in ({"user"} \X Users) \cup ({"save"} \X Saves) \cup {<<"cron", None>>},
         NEW ts \in SUBSET Transcripts,
         LeaseClaims' = [t \in Transcripts |-> IF t \in ts THEN LeaseClaims[t] \ {h}
                                               ELSE LeaseClaims[t]]
  PROVE  LStep
<1>1. Lease!GiveUp(h)
  BY DEF Lease!GiveUp
<1> QED
  BY <1>1 DEF LStep, Lease!Next

\* The record of one writer changes.
LEMMA OneTask ==
  ASSUME TInv, NEW w \in Writers, NEW r, task' = [task EXCEPT ![w] = r],
         r.t = task[w].t, r.is_edit = task[w].is_edit
  PROVE  /\ OthersKeep(w)
         /\ \A t \in Transcripts :
              MayUnlock(w, t)' <=> /\ task[w].t = t /\ task[w].is_edit
                                   /\ r.stage \in {"loaded", "saved"}
<1>1. task \in [Writers -> Task]
  BY DEF TInv, TypeOK
<1>2. OthersKeep(w)
  BY <1>1 DEF OthersKeep, MayUnlock, Writers
<1> QED
  BY <1>1, <1>2 DEF MayUnlock

\* A writer that keeps its claim or has none, and leaves the locks alone.
LEMMA KeepsClaim ==
  ASSUME TInv, NEW w \in Writers, NEW r, task' = [task EXCEPT ![w] = r],
         r.t = task[w].t, r.is_edit = task[w].is_edit, UNCHANGED <<editor, scan>>,
         \/ w \in Uploads
         \/ r.stage \in {"loaded", "saved"} <=> task[w].stage \in {"loaded", "saved"}
  PROVE  LeaseClaims' = LeaseClaims
<1>1. \A x \in Saves, t \in Transcripts : MayUnlock(x, t)' <=> MayUnlock(x, t)
  BY OneTask, ConstantsAssumption DEF OthersKeep, MayUnlock
<1> QED
  BY <1>1, SameClaims

\* A writer that moves on to a stage without a claim, or raises, leaving the
\* locks alone.
LEMMA MovesOn ==
  ASSUME TInv, NEW w \in Writers, NEW r, task' = [task EXCEPT ![w] = r],
         r.t = task[w].t, r.is_edit = task[w].is_edit, UNCHANGED <<editor, scan>>,
         r.stage \notin {"loaded", "saved"}, LeaseLock' = LeaseLock
  PROVE  LStep
<1>1. CASE w \in Uploads
  BY <1>1, KeepsClaim DEF LStep, Lease!vars
<1>2. CASE w \in Saves
  <2>1. OthersKeep(w) /\ \A t \in Transcripts : ~MayUnlock(w, t)'
    BY OneTask
  <2>2. LeaseClaims' =
          [t \in Transcripts |-> IF t \in {task[w].t} \cap Transcripts
                                 THEN LeaseClaims[t] \ {<<"save", w>>} ELSE LeaseClaims[t]]
    BY <1>2, <2>1, LostClaim
  <2>3. <<"save", w>> \in ({"user"} \X Users) \cup ({"save"} \X Saves) \cup {<<"cron", None>>}
    BY <1>2
  <2> QED
    BY <2>2, <2>3, GivesUp
<1> QED
  BY <1>1, <1>2 DEF Writers

\* A writer that raised has no claim.
LEMMA RaisedHasNone ==
  ASSUME TInv, NEW w \in Writers, task[w].stage # "idle"
  PROVE  /\ Raised(w).t = task[w].t /\ Raised(w).is_edit = task[w].is_edit
         /\ Raised(w).stage \notin {"loaded", "saved"}
<1>1. task[w] \in Task
  BY DEF TInv, TypeOK
<1> QED
  BY <1>1 DEF Raised, Task

LEMMA RaiseMovesOn ==
  ASSUME TInv, NEW w \in Writers, task[w].stage # "idle", Raise(w),
         UNCHANGED <<editor, scan>>, LeaseLock' = LeaseLock
  PROVE  LStep
BY RaisedHasNone, MovesOn DEF Raise

\* The stage of a writer changes to one without a claim.
LEMMA StageMovesOn ==
  ASSUME TInv, NEW w \in Writers, NEW s \in Stages \ {"loaded", "saved"},
         task' = [task EXCEPT ![w].stage = s],
         UNCHANGED <<editor, scan>>, LeaseLock' = LeaseLock
  PROVE  LStep
<1> DEFINE r == [task[w] EXCEPT !.stage = s]
<1>1. task[w] \in Task /\ task' = [task EXCEPT ![w] = r]
  BY DEF TInv, TypeOK
<1>2. r.t = task[w].t /\ r.is_edit = task[w].is_edit /\ r.stage = s
  BY <1>1 DEF Task
<1> HIDE DEF r
<1> QED
  BY <1>1, <1>2, MovesOn

\* A writer finds a row, and with it the claim to unlock it.
LEMMA FindsClaim ==
  ASSUME TInv, NEW w \in Writers, NEW t \in Live, task' = Found(w, t),
         task[w].stage \in {"idle", "queued"}, UNCHANGED <<row, editor, scan>>
  PROVE  LStep
<1>1. t \in Transcripts /\ task[w] \in Task /\ task \in [Writers -> Task]
  BY DEF TInv, TypeOK, Live
<1>2. task'[w].t = t /\ task'[w].is_edit = row[t].is_edit /\ task'[w].stage = "loaded"
  BY <1>1 DEF Found, Task
<1>3. \A x \in Writers \ {w} : /\ task'[x].t = task[x].t /\ task'[x].stage = task[x].stage
                               /\ task'[x].is_edit = task[x].is_edit
  BY <1>1 DEF Found, Task
<1>4. OthersKeep(w)
  BY <1>3 DEF OthersKeep, MayUnlock, Writers
<1>5. LeaseLock' = LeaseLock
  BY SameLock DEF RowSame
<1>6. \A x \in Transcripts : ~MayUnlock(w, x) /\ (MayUnlock(w, x)' <=> x = t /\ row[t].is_edit)
  BY <1>2 DEF MayUnlock
<1>7. CASE w \in Uploads \/ ~row[t].is_edit
  <2>1. \A x \in Saves, y \in Transcripts : MayUnlock(x, y)' <=> MayUnlock(x, y)
    BY <1>4, <1>6, <1>7, ConstantsAssumption DEF OthersKeep
  <2> QED
    BY <1>5, <2>1, SameClaims DEF LStep, Lease!vars
<1>8. CASE w \in Saves /\ row[t].is_edit
  <2>1. LeaseClaims' = [x \in Transcripts |-> IF x \in {t} THEN LeaseClaims[x] \cup {<<"save", w>>}
                                              ELSE LeaseClaims[x]]
    BY <1>1, <1>4, <1>6, <1>8, GainedClaim
  <2>2. LeaseLock[t] = "held"
    BY <1>1, <1>8 DEF LeaseLock
  <2>3. Lease!Claim(<<"save", w>>, {t})
    BY <1>5, <2>1, <2>2 DEF Lease!Claim
  <2> QED
    BY <1>1, <1>8, <2>3 DEF LStep, Lease!Next
<1> QED
  BY <1>7, <1>8 DEF Writers

\* A job unlocks the row it knows to be locked, or leaves the lock alone.
LEMMA UpdateAttributesIsRelease ==
  ASSUME TInv, NEW w \in Saves, UpdateAttributes(w)
  PROVE  LStep
<1> DEFINE t == task[w].t
           r == [task[w] EXCEPT !.stage = "updated"]
<1>1. /\ w \in Writers /\ task[w] \in Task /\ t \in Transcripts
      /\ task[w].stage = "saved" /\ row \in [Transcripts -> Row]
      /\ UNCHANGED <<editor, scan>>
  BY TaskT DEF UpdateAttributes, TInv, TypeOK, Writers
<1>2. r.t = t /\ r.is_edit = task[w].is_edit /\ r.stage = "updated"
  BY <1>1 DEF Task
<1>4. CASE UNCHANGED row /\ Raise(w)
  <2>1. LeaseLock' = LeaseLock
    BY <1>4, SameLock DEF RowSame
  <2> QED
    BY <1>1, <1>4, <2>1, RaiseMovesOn
<1>5. CASE task' = [task EXCEPT ![w].stage = "updated"] /\ \A x \in Transcripts : RowSame(x)
  BY <1>1, <1>5, SameLock, StageMovesOn DEF Stages
<1>6. CASE /\ task' = [task EXCEPT ![w].stage = "updated"]
           /\ t \in Live /\ task[w].is_edit
           /\ row' = [row EXCEPT ![t].is_edit = @ /\ ~task[w].is_edit]
  <2>1. row'[t].live = row[t].live /\ ~row'[t].is_edit /\ \A x \in Transcripts \ {t} : RowSame(x)
    BY <1>1, <1>6 DEF RowSame, Row
  <2>2. CASE LeaseLock' = LeaseLock
    BY <1>1, <1>6, <2>2, StageMovesOn DEF Stages
  <2>3. CASE LeaseLock[t] = "held" /\ LeaseLock' = [LeaseLock EXCEPT ![t] = "free"]
    <3>1. OthersKeep(w) /\ \A x \in Transcripts : ~MayUnlock(w, x)'
      BY <1>1, <1>2, <1>6, OneTask
    <3>2. LeaseClaims' = [LeaseClaims EXCEPT ![t] = @ \ {<<"save", w>>}]
      <4>1. LeaseClaims = [x \in Transcripts |-> LeaseClaims[x]]
        BY DEF LeaseClaims
      <4> QED
        BY <1>1, <3>1, <4>1, LostClaim
    <3>3. <<"save", w>> \in LeaseClaims[t]
      BY <1>1, <1>6 DEF LeaseClaims, MayUnlock
    <3>4. Lease!Release(<<"save", w>>, t)
      BY <2>3, <3>2, <3>3 DEF Lease!Release
    <3> QED
      BY <1>1, <3>4 DEF LStep, Lease!Next
  <2> QED
    BY <1>1, <2>1, <2>2, <2>3, FreeLock
<1>7. CASE /\ task' = [task EXCEPT ![w].stage = "updated"]
           /\ t \in Live /\ ~task[w].is_edit
           /\ row' = [row EXCEPT ![t].is_edit = @ /\ ~task[w].is_edit]
  <2>1. \A x \in Transcripts : RowSame(x)
    BY <1>1, <1>7 DEF RowSame, Row
  <2> QED
    BY <1>5, <1>7, <2>1
<1> QED
  BY <1>4, <1>5, <1>6, <1>7 DEF UpdateAttributes, RowSame, Row, Task

LEMMA UploadStages == LInv /\ [Next]_vars => UploadsSaveNoSlate'
<1> SUFFICES ASSUME LInv, [Next]_vars, NEW x \in Uploads
             PROVE  task'[x].stage # "saved"
  BY DEF UploadsSaveNoSlate
<1>1. /\ x \in Writers /\ x \notin Saves /\ task[x].stage # "saved"
      /\ task \in [Writers -> Task]
  BY ConstantsAssumption DEF LInv, UploadsSaveNoSlate, TInv, TypeOK, Writers
<1>2. CASE UNCHANGED task
  BY <1>1, <1>2
<1>3. ASSUME NEW w \in Writers, NEW s, s # "saved", task' = [task EXCEPT ![w].stage = s]
      PROVE  task'[x].stage # "saved"
  BY <1>1, <1>3 DEF Task
<1>4. ASSUME NEW w \in Writers, Raise(w)
      PROVE  task'[x].stage # "saved"
  BY <1>1, <1>4 DEF Raise, Raised, Task
<1>5. ASSUME NEW w \in Writers, NEW t, task' = Found(w, t)
      PROVE  task'[x].stage # "saved"
  BY <1>1, <1>5 DEF Found, Task
<1>6. ASSUME NEW w \in Writers, JobStep(w)
      PROVE  task'[x].stage # "saved"
  <2>1. CASE SaveSlate(w)
    BY <1>1, <1>4, <2>1 DEF SaveSlate
  <2>2. CASE ReadPoints(w) \/ WritePoints(w)
    BY <1>1, <1>4, <2>2 DEF ReadPoints, WritePoints, Task
  <2> QED
    BY <1>3, <1>4, <1>5, <1>6, <2>1, <2>2
    DEF JobStep, PickUp, UpdateAttributes, CopyWebvtt, CommitWebvtt
<1>7. ASSUME NEW w \in Writers, UploadStep(w) \/ WriterFails(w)
      PROVE  task'[x].stage # "saved"
  BY <1>3, <1>4, <1>7 DEF UploadStep, ClearPoints, ParseUpload, WriterFails
<1>8. CASE UserStep
  <2>1. ASSUME NEW u \in Users, NEW w \in Saves, SaveTranscript(u, w)
        PROVE  task'[x].stage # "saved"
    BY <1>1, <2>1 DEF SaveTranscript, Task
  <2> QED
    BY <1>2, <1>5, <1>8, <2>1
    DEF UserStep, Edit, UpdateTranscript, Abandon, BeginUpload, TouchTranscript,
        DestroyTranscript, CheckLocks, DeleteResourceFile, BulkDeleteFiles, Writers
<1> QED
  BY <1>2, <1>6, <1>7, <1>8 DEF Next, DayPasses, UnlockTranscript, ScanLocks, vars

LEMMA LInvInit == Init => LInv
<1>1. Init => UploadsSaveNoSlate
  BY DEF Init, UploadsSaveNoSlate, Idle, Writers
<1> QED
  BY <1>1, TInvInit, AgedInit DEF LInv

LEMMA LInvStep == LInv /\ [Next]_vars => LInv'
BY TInvStep, AgedStep, UploadStages DEF LInv

\* The locks start free and nobody has a claim.
LEMMA LeaseInit == Init => Lease!Init
<1> SUFFICES ASSUME Init PROVE Lease!Init
  OBVIOUS
<1>1. LeaseLock = [t \in Transcripts |-> "free"]
  BY DEF Init, LeaseLock, Live
<1>2. ASSUME NEW t \in Transcripts
      PROVE  LeaseClaims[t] = {}
  BY NoneAssumption DEF Init, LeaseClaims, MayUnlock, Idle, Writers
<1>3. LeaseClaims = [t \in Transcripts |-> {}]
  BY <1>2 DEF LeaseClaims
<1> QED
  BY <1>1, <1>3 DEF Lease!Init

\* Every step of a job or a re-upload is a step of the lease.
LEMMA WriterStepIsLease ==
  ASSUME LInv, NEW w \in Writers, JobStep(w) \/ UploadStep(w) \/ WriterFails(w)
  PROVE  LStep
<1>1. /\ TInv /\ UploadsSaveNoSlate
      /\ task[w] \in Task /\ task \in [Writers -> Task] /\ row \in [Transcripts -> Row]
  BY DEF LInv, TInv, TypeOK
<1>2. UNCHANGED <<editor>>
  BY DEF JobStep, UploadStep, PickUp, SaveSlate, UpdateAttributes, ReadPoints,
         WritePoints, CopyWebvtt, CommitWebvtt, ClearPoints, ParseUpload, WriterFails
<1>3. UNCHANGED <<scan>>
  BY DEF JobStep, UploadStep, PickUp, SaveSlate, UpdateAttributes, ReadPoints,
         WritePoints, CopyWebvtt, CommitWebvtt, ClearPoints, ParseUpload, WriterFails
<1>4. ASSUME Raise(w), task[w].stage # "idle", \A x \in Transcripts : RowSame(x)
      PROVE  LStep
  BY <1>1, <1>2, <1>3, <1>4, SameLock, RaiseMovesOn
<1>5. ASSUME NEW s \in Stages \ {"loaded", "saved"}, task' = [task EXCEPT ![w].stage = s],
             \A x \in Transcripts : RowSame(x)
      PROVE  LStep
  BY <1>1, <1>2, <1>3, <1>5, SameLock, StageMovesOn
<1>6. UNCHANGED row => \A x \in Transcripts : RowSame(x)
  BY DEF RowSame
<1>7. CASE PickUp(w)
  <2>1. task[w].stage = "queued" /\ UNCHANGED row
    BY <1>7 DEF PickUp
  <2>2. CASE task[w].t \in Live /\ task' = Found(w, task[w].t)
    BY <1>1, <1>2, <1>3, <2>1, <2>2, FindsClaim
  <2> QED
    BY <1>4, <1>6, <1>7, <2>1, <2>2 DEF PickUp
<1>8. CASE SaveSlate(w)
  <2>1. \A x \in Transcripts : RowSame(x)
    BY <1>1, <1>8 DEF SaveSlate, RowSame, Row
  <2>2. CASE task' = [task EXCEPT ![w].stage = "saved", ![w].slate = Own(w)]
    <3> DEFINE r == [task[w] EXCEPT !.stage = "saved", !.slate = Own(w)]
    <3>1. task' = [task EXCEPT ![w] = r]
      BY <1>1, <2>2
    <3>2. r.t = task[w].t /\ r.is_edit = task[w].is_edit /\ r.stage = "saved"
      BY <1>1 DEF Task
    <3>3. task[w].stage = "loaded"
      BY <1>8 DEF SaveSlate
    <3> HIDE DEF r
    <3>4. LeaseClaims' = LeaseClaims
      BY <1>1, <1>2, <1>3, <3>1, <3>2, <3>3, KeepsClaim
    <3> QED
      BY <2>1, <3>4, SameLock DEF LStep, Lease!vars
  <2> QED
    BY <1>4, <1>8, <2>1, <2>2 DEF SaveSlate
<1>9. CASE UpdateAttributes(w)
  <2>1. w \in Saves
    BY <1>1, <1>9 DEF UpdateAttributes, UploadsSaveNoSlate, Writers
  <2> QED
    BY <1>1, <1>9, <2>1, UpdateAttributesIsRelease
<1>10. CASE ReadPoints(w)
  <2> DEFINE r == [task[w] EXCEPT !.stage = "read", !.seen = points[task[w].t]]
  <2>1. r.t = task[w].t /\ r.is_edit = task[w].is_edit /\ r.stage = "read"
    BY <1>1 DEF Task
  <2>2. task[w].stage = "updated" /\ UNCHANGED row
    BY <1>10 DEF ReadPoints
  <2>3. Raise(w) \/ task' = [task EXCEPT ![w] = r]
    BY <1>1, <1>10 DEF ReadPoints
  <2> HIDE DEF r
  <2> QED
    BY <1>1, <1>2, <1>3, <1>4, <1>6, <2>1, <2>2, <2>3, SameLock, MovesOn
<1>11. CASE WritePoints(w)
  <2> DEFINE r == [task[w] EXCEPT !.stage = "pointed", !.seen = {}]
  <2>1. r.t = task[w].t /\ r.is_edit = task[w].is_edit /\ r.stage = "pointed"
    BY <1>1 DEF Task
  <2>2. task[w].stage = "read" /\ UNCHANGED row
    BY <1>11 DEF WritePoints
  <2>3. Raise(w) \/ task' = [task EXCEPT ![w] = r]
    BY <1>1, <1>11 DEF WritePoints
  <2> HIDE DEF r
  <2> QED
    BY <1>1, <1>2, <1>3, <1>4, <1>6, <2>1, <2>2, <2>3, SameLock, MovesOn
<1>12. CASE CopyWebvtt(w)
  <2>1. task[w].stage # "idle" /\ UNCHANGED row
    BY <1>12 DEF CopyWebvtt
  <2>2. \/ Raise(w) \/ task' = [task EXCEPT ![w].stage = "done"]
        \/ task' = [task EXCEPT ![w].stage = "copied"]
    BY <1>12 DEF CopyWebvtt
  <2> QED
    BY <1>4, <1>5, <1>6, <2>1, <2>2 DEF Stages
<1>13. CASE CommitWebvtt(w)
  <2>1. \A x \in Transcripts : RowSame(x)
    BY <1>1, <1>13 DEF CommitWebvtt, RowSame, Row
  <2>2. \/ Raise(w) \/ task' = [task EXCEPT ![w].stage = "done"]
        \/ task' = [task EXCEPT ![w].stage = "stored"]
    BY <1>13 DEF CommitWebvtt
  <2>3. task[w].stage = "copied"
    BY <1>13 DEF CommitWebvtt
  <2> QED
    BY <1>4, <1>5, <2>1, <2>2, <2>3 DEF Stages
<1>14. CASE ClearPoints(w)
  BY <1>5, <1>6, <1>14 DEF ClearPoints, Stages
<1>15. CASE ParseUpload(w)
  <2>1. CASE UNCHANGED row
    BY <1>5, <1>6, <1>15, <2>1 DEF ParseUpload, Stages
  <2>2. CASE Destroyed({task[w].t}) /\ task' = [task EXCEPT ![w].stage = "dead"]
    <3>1. task[w].stage = "cleared"
      BY <1>15 DEF ParseUpload
    <3> DEFINE r == [task[w] EXCEPT !.stage = "dead"]
    <3>2. r.t = task[w].t /\ r.is_edit = task[w].is_edit /\ r.stage = "dead"
      BY <1>1 DEF Task
    <3>3. task' = [task EXCEPT ![w] = r]
      BY <1>1, <2>2
    <3> HIDE DEF r
    <3>4. LeaseClaims' = LeaseClaims
      BY <1>1, <1>2, <1>3, <3>1, <3>2, <3>3, KeepsClaim
    <3>5. task[w].t \in Transcripts
      BY <1>1, <3>1, TaskT
    <3> QED
      BY <2>2, <3>4, <3>5, DestroyedIsDelete
  <2> QED
    BY <1>15, <2>1, <2>2 DEF ParseUpload
<1>16. CASE WriterFails(w)
  <2>1. task[w].stage # "idle" /\ UNCHANGED row
    BY <1>16 DEF WriterFails, Active
  <2> QED
    BY <1>4, <1>5, <1>6, <1>16, <2>1 DEF WriterFails, Stages
<1> QED
  BY <1>7, <1>8, <1>9, <1>10, <1>11, <1>12, <1>13, <1>14, <1>15, <1>16
  DEF JobStep, UploadStep

\* Every step of a person is a step of the lease: opening takes it, saving without
\* a document releases it, closing gives the claim up.
LEMMA UserStepIsLease ==
  ASSUME LInv, UserStep
  PROVE  LStep
<1>1. /\ TInv /\ task \in [Writers -> Task] /\ row \in [Transcripts -> Row]
      /\ editor \in [Users -> Transcripts \cup {None}]
  BY DEF LInv, TInv, TypeOK
<1>2. ASSUME UNCHANGED <<row, editor, task, scan>>
      PROVE  LStep
  <2>1. \A w \in Saves, t \in Transcripts : MayUnlock(w, t)' <=> MayUnlock(w, t)
    BY <1>2 DEF MayUnlock
  <2> QED
    BY <1>2, <2>1, SameClaims, SameLock DEF RowSame, LStep, Lease!vars
<1>3. ASSUME NEW ts \in SUBSET Transcripts, Destroyed(ts), UNCHANGED <<editor, task, scan>>
      PROVE  LStep
  <2>1. \A w \in Saves, t \in Transcripts : MayUnlock(w, t)' <=> MayUnlock(w, t)
    BY <1>3 DEF MayUnlock
  <2> QED
    BY <1>3, <2>1, SameClaims, DestroyedIsDelete
<1>4. ASSUME NEW u \in Users, NEW t \in Transcripts, Edit(u, t)
      PROVE  LStep
  <2>1. t \in Live /\ editor[u] = None /\ editor' = [editor EXCEPT ![u] = t]
    BY <1>4 DEF Edit
  <2>2. LeaseClaims' = [LeaseClaims EXCEPT ![t] = @ \cup {<<"user", u>>}]
    BY <1>1, <1>4, <2>1, WindowClaim DEF Edit
  <2>3. /\ row'[t].live = row[t].live /\ row'[t].is_edit
        /\ \A x \in Transcripts \ {t} : RowSame(x)
    BY <1>1, <1>4 DEF Edit, RowSame, Row
  <2>4. LeaseLock' = [LeaseLock EXCEPT ![t] = "held"]
    BY <2>1, <2>3 DEF LeaseLock, Live, RowSame
  <2>5. LeaseLock[t] # "gone"
    BY <2>1 DEF LeaseLock
  <2>6. Lease!Take(<<"user", u>>, t)
    BY <2>2, <2>4, <2>5 DEF Lease!Take
  <2> QED
    BY <2>6 DEF LStep, Lease!Next
<1>5. ASSUME NEW u \in Users, NEW w \in Saves, SaveTranscript(u, w)
      PROVE  LStep
  <2>1. \A x \in Saves, t \in Transcripts : MayUnlock(x, t)' <=> MayUnlock(x, t)
    <3>1. w \in Writers /\ task[w].stage = "idle" /\ task'[w].stage = "queued"
      BY <1>1, <1>5 DEF SaveTranscript, Task, Writers
    <3>2. \A x \in Saves \ {w} : task'[x] = task[x]
      BY <1>1, <1>5 DEF SaveTranscript, Writers
    <3> QED
      BY <3>1, <3>2 DEF MayUnlock
  <2>2. UNCHANGED <<row, editor, scan>>
    BY <1>5 DEF SaveTranscript
  <2> QED
    BY <2>1, <2>2, SameClaims, SameLock DEF RowSame, LStep, Lease!vars
<1>6. ASSUME NEW u \in Users, UpdateTranscript(u)
      PROVE  LStep
  <2> DEFINE t == editor[u]
  <2>1. /\ t \in Transcripts /\ row'[t].live = row[t].live /\ ~row'[t].is_edit
        /\ \A x \in Transcripts \ {t} : RowSame(x)
    BY <1>1, <1>6 DEF UpdateTranscript, Live, RowSame, Row
  <2>2. UNCHANGED <<editor, task, scan>>
    BY <1>6 DEF UpdateTranscript
  <2>3. \A x \in Saves, y \in Transcripts : MayUnlock(x, y)' <=> MayUnlock(x, y)
    BY <2>2 DEF MayUnlock
  <2>4. LeaseClaims' = LeaseClaims
    BY <2>2, <2>3, SameClaims
  <2>5. CASE LeaseLock[t] = "held" /\ LeaseLock' = [LeaseLock EXCEPT ![t] = "free"]
    <3>1. <<"user", u>> \in LeaseClaims[t]
      BY <2>1 DEF LeaseClaims
    <3>2. Lease!Release(<<"user", u>>, t)
      BY <2>4, <2>5, <3>1 DEF Lease!Release
    <3> QED
      BY <2>1, <3>2 DEF LStep, Lease!Next
  <2> QED
    BY <2>1, <2>4, <2>5, FreeLock DEF LStep, Lease!vars
<1>7. ASSUME NEW u \in Users, Abandon(u)
      PROVE  LStep
  <2>1. LeaseLock' = LeaseLock
    BY <1>7, SameLock DEF Abandon, RowSame
  <2>2. LeaseClaims' = [t \in Transcripts |->
          IF t \in {editor[u]} \cap Transcripts THEN LeaseClaims[t] \ {<<"user", u>>}
          ELSE LeaseClaims[t]]
    BY <1>1, <1>7, WindowClaim DEF Abandon
  <2> QED
    BY <2>1, <2>2, GivesUp
<1>8. ASSUME NEW w \in Uploads, NEW t \in Transcripts, BeginUpload(w, t)
      PROVE  LStep
  BY <1>1, <1>8, FindsClaim DEF BeginUpload, Writers
<1> QED
  BY <1>2, <1>3, <1>4, <1>5, <1>6, <1>7, <1>8
  DEF UserStep, TouchTranscript, DestroyTranscript, CheckLocks, DeleteResourceFile,
      BulkDeleteFiles

\* The unlock task claims what it finds and releases, or leaves, what it claimed.
LEMMA TaskStepIsLease ==
  ASSUME LInv, ScanLocks \/ \E t \in Transcripts : DayPasses(t) \/ UnlockTranscript(t)
  PROVE  LStep
<1>1. /\ TInv /\ AgedLocked /\ aged \subseteq Transcripts /\ scan \subseteq Transcripts
      /\ row \in [Transcripts -> Row]
  BY DEF LInv, TInv, TypeOK
<1>2. UNCHANGED <<editor, task>>
  BY DEF ScanLocks, DayPasses, UnlockTranscript
<1>3. CASE ScanLocks
  <2>1. LeaseLock' = LeaseLock
    BY <1>3, SameLock DEF ScanLocks, RowSame
  <2>2. \A t \in aged : LeaseLock[t] = "held"
    BY <1>1 DEF AgedLocked, LeaseLock, Live
  <2>3. LeaseClaims' = [t \in Transcripts |->
          IF t \in aged THEN LeaseClaims[t] \cup {<<"cron", None>>} ELSE LeaseClaims[t]]
    BY <1>2, <1>3, TaskClaim DEF ScanLocks
  <2>4. Lease!Claim(<<"cron", None>>, aged)
    BY <2>1, <2>2, <2>3 DEF Lease!Claim
  <2> QED
    BY <1>1, <2>4 DEF LStep, Lease!Next
<1>4. ASSUME NEW t \in Transcripts, DayPasses(t)
      PROVE  LStep
  <2>1. \A x \in Saves, y \in Transcripts : MayUnlock(x, y)' <=> MayUnlock(x, y)
    BY <1>2 DEF MayUnlock
  <2> QED
    BY <1>4, <2>1, SameClaims, SameLock DEF DayPasses, RowSame, LStep, Lease!vars
<1>5. ASSUME NEW t \in scan,
             row' = [row EXCEPT ![t].is_edit = FALSE], scan' = scan \ {t}
      PROVE  LStep
  <2>1. /\ row'[t].live = row[t].live /\ ~row'[t].is_edit
        /\ \A x \in Transcripts \ {t} : RowSame(x)
    BY <1>1, <1>5 DEF RowSame, Row
  <2>2. LeaseClaims' = [x \in Transcripts |->
          IF x \in {t} THEN LeaseClaims[x] \ {<<"cron", None>>} ELSE LeaseClaims[x]]
    BY <1>1, <1>2, <1>5, TaskClaim
  <2>3. CASE LeaseLock[t] = "held" /\ LeaseLock' = [LeaseLock EXCEPT ![t] = "free"]
    <3>1. LeaseClaims' = [LeaseClaims EXCEPT ![t] = @ \ {<<"cron", None>>}]
      <4>1. LeaseClaims = [x \in Transcripts |-> LeaseClaims[x]]
        BY DEF LeaseClaims
      <4> QED
        BY <2>2, <4>1
    <3>2. <<"cron", None>> \in LeaseClaims[t]
      BY <1>1, <1>5 DEF LeaseClaims
    <3>3. Lease!Release(<<"cron", None>>, t)
      BY <2>3, <3>1, <3>2 DEF Lease!Release
    <3> QED
      BY <1>1, <1>5, <3>3 DEF LStep, Lease!Next
  <2>4. CASE LeaseLock' = LeaseLock
    <3>1. {t} \in SUBSET Transcripts
      BY <1>1, <1>5
    <3> QED
      BY <2>2, <2>4, <3>1, GivesUp
  <2> QED
    BY <1>1, <1>5, <2>1, <2>3, <2>4, FreeLock
<1>6. ASSUME NEW t \in Transcripts, UnlockTranscript(t), scan' = {}, UNCHANGED row
      PROVE  LStep
  <2>1. LeaseLock' = LeaseLock
    BY <1>6, SameLock DEF RowSame
  <2>2. LeaseClaims' = [x \in Transcripts |->
          IF x \in scan THEN LeaseClaims[x] \ {<<"cron", None>>} ELSE LeaseClaims[x]]
    BY <1>1, <1>2, <1>6, TaskClaim
  <2> QED
    BY <1>1, <2>1, <2>2, GivesUp
<1> QED
  BY <1>3, <1>4, <1>5, <1>6 DEF UnlockTranscript

LEMMA LeaseStep == LInv /\ [Next]_vars => LStep
<1> SUFFICES ASSUME LInv, [Next]_vars PROVE LStep
  OBVIOUS
<1>1. CASE UNCHANGED vars
  <2>1. \A w \in Saves, t \in Transcripts : MayUnlock(w, t)' <=> MayUnlock(w, t)
    BY <1>1 DEF vars, MayUnlock
  <2> QED
    BY <1>1, <2>1, SameClaims, SameLock DEF vars, RowSame, LStep, Lease!vars
<1> QED
  BY <1>1, WriterStepIsLease, UserStepIsLease, TaskStepIsLease DEF Next

\* The editing of transcripts implements the lease: whatever windows, jobs, retries
\* and the unlock task do, no lock is released by who has no claim to it.
THEOREM LeaseImplemented == Spec => LeaseKept
<1>1. Spec => []LInv
  BY LInvInit, LInvStep, PTL DEF Spec
<1>2. LInv /\ [Next]_vars => [Lease!Next]_(Lease!vars)
  BY LeaseStep DEF LStep
<1> QED
  BY <1>1, <1>2, LeaseInit, PTL DEF Spec, LeaseKept, Lease!Spec
=============================================================================
