------------------------ MODULE IndexSegmentsProofs ------------------------
(***************************************************************************)
(* What holds of the segments of an index for any number of them, of       *)
(* editors and of requests: ids are unique, creating or deleting a segment *)
(* keeps the segments tiled, and moving one keeps them apart.              *)
(***************************************************************************)
EXTENDS IndexSegments, RankLemmas, FiniteSetTheorems, TLAPS

Fields == {"pc", "op", "ix", "id", "altId", "t", "play", "endTime", "length", "titled",
           "start", "end", "dur", "held", "prev", "fix", "before", "solo"}

Saving == {"neighbours", "shorten", "validate", "write"}
Deleting == {"find", "fix", "delete"}

\* What the proofs need to know of a request.
Formed(r) ==
  /\ DOMAIN r = Fields
  /\ r.pc \in Running \cup Ended /\ r.ix \in Indexes
  /\ r.pc = "twin" => kind.translated
  /\ r.id \in Nat \cup {None} /\ r.altId \in Nat \cup {None} /\ r.prev \in Nat \cup {None}
  /\ r.start \in MaybeTime /\ r.end \in MaybeTime /\ r.endTime \in MaybeTime
  /\ r.play \in MaybeTime /\ r.dur \in Int \cup {None} /\ r.length \in Nat
  /\ r.pc \in Saving \cup {"assign", "twin"} => r.t \in Nat
  /\ r.pc \in Saving \cup Deleting => r.start \in Nat
  /\ r.pc \in {"shorten", "validate", "write"} => r.end # None
  /\ r.pc = "write" => Within(r.start)
  /\ r.pc = "fix" => r.fix \in Nat
  /\ r.before \subseteq Row
  /\ r.solo \in BOOLEAN

RequestsFormed == DOMAIN req = Editors /\ \A e \in Editors : Formed(req[e])

RowsOK ==
  /\ rows \subseteq Row /\ \A x \in rows : Within(x.start)
  /\ \A x, y \in rows : x.id = y.id => x = y
  /\ lastId \in Nat /\ \A x \in rows : x.id <= lastId

TInv == kind \in Kinds /\ made \subseteq Both /\ RowsOK /\ RequestsFormed

-----------------------------------------------------------------------------
(***************************************************************************)
(* The imported segments.                                                  *)
(***************************************************************************)
LEMMA IdleFormed == Formed(Idle)
BY DEF Formed, Idle, Fields, Running, Ended, Saving, Deleting, Indexes, MaybeTime, Both

LEMMA TInvInit == Init => TInv
<1> SUFFICES ASSUME Init PROVE TInv
  OBVIOUS
<1> USE ConstantsAssumption
<1>1. PICK ts \in SUBSET Times, both \in BOOLEAN :
        /\ \A t \in ts : Within(t)
        /\ rows = Imported(ts, both)
        /\ lastId = Cardinality(ts) + IF both THEN Cardinality(ts) ELSE 0
        /\ made = {x.ix : x \in rows}
  BY DEF Init
<1> DEFINE n == Cardinality(ts)
           rank(t) == Cardinality({s \in ts : s <= t})
           later(t) == {s \in ts : s > t}
           end(t) == IF later(t) = {} THEN t ELSE CHOOSE s \in later(t) : \A u \in later(t) : s <= u
           segment(t) == [id |-> rank(t), ix |-> "main", start |-> t, end |-> end(t), dur |-> end(t) - t]
           twin(t) == [id |-> n + rank(t), ix |-> "alt", start |-> t, end |-> t, dur |-> None]
<1>2. ts \in SUBSET Nat /\ IsFiniteSet(ts) /\ n \in Nat
  BY FS_Subset, FS_CardinalityType
<1>3. \A t, u \in ts : rank(t) \in Nat /\ rank(t) <= n /\ (rank(t) = rank(u) => t = u)
  BY <1>2, Ranks
<1>4. \A t \in ts : rank(t) >= 1
  <2> TAKE t \in ts
  <2> DEFINE upto == {s \in ts : s <= t}
  <2>1. upto \in SUBSET ts /\ t \in upto
    BY <1>2
  <2> HIDE DEF upto
  <2>2. Cardinality(upto) \in Nat /\ Cardinality(upto) # 0
    BY <1>2, <2>1, FS_Subset, FS_CardinalityType, FS_EmptySet
  <2> QED
    BY <2>2 DEF upto
<1>5. \A t \in ts : end(t) \in Nat
  <2> TAKE t \in ts
  <2>1. later(t) # {} => \E s \in later(t) : \A u \in later(t) : s <= u
    BY <1>2, LeastNumber
  <2> QED
    BY <1>2, <2>1
<1>6. rows = {segment(t) : t \in ts} \cup IF both THEN {twin(t) : t \in ts} ELSE {}
  BY <1>1 DEF Imported
<1> HIDE DEF n, rank, end
<1>7. RowsOK
  <2>1. \A t \in ts : segment(t) \in Row /\ twin(t) \in Row
    BY <1>2, <1>3, <1>5 DEF Row, Ids, Both, MaybeTime
  <2>2. \A t \in ts : /\ segment(t).id = rank(t) /\ segment(t).start = t /\ segment(t).ix = "main"
                      /\ twin(t).id = n + rank(t) /\ twin(t).start = t /\ twin(t).ix = "alt"
    OBVIOUS
  <2> HIDE DEF segment, twin
  <2>3. \A x \in rows : x \in Row /\ Within(x.start)
    BY <1>1, <1>6, <2>1, <2>2
  <2>4. lastId \in Nat /\ \A x \in rows : x.id <= lastId
    BY <1>1, <1>2, <1>3, <1>6, <2>2 DEF n
  <2>5. \A x, y \in rows : x.id = y.id => x = y
    <3> SUFFICES ASSUME NEW x \in rows, NEW y \in rows, x.id = y.id PROVE x = y
      OBVIOUS
    <3>1. \A t, u \in ts : rank(t) # n + rank(u) /\ (n + rank(t) = n + rank(u) => t = u)
      BY <1>2, <1>3, <1>4
    <3> QED
      BY <1>3, <1>6, <2>2, <3>1
  <2> QED
    BY <2>3, <2>4, <2>5 DEF RowsOK
<1>8. kind \in Kinds /\ made \subseteq Both
  BY <1>1, <1>7 DEF Init, RowsOK, Row
<1> QED
  BY <1>7, <1>8, IdleFormed DEF TInv, RequestsFormed, Init

-----------------------------------------------------------------------------
(***************************************************************************)
(* Rows.                                                                   *)
(***************************************************************************)
LEMMA GetRow ==
  ASSUME RowsOK, NEW id, Stored(id)
  PROVE  Get(id) \in rows /\ Get(id).id = id /\ Get(id) \in Row
BY DEF Stored, Get, RowsOK

\* A row that is saved, if it may be, takes the place of the one with its id.
LEMMA SavedRows ==
  ASSUME RowsOK, kind' = kind, lastId' = lastId, NEW x \in Row,
         \E y \in rows : y.id = x.id, rows' = Saved(x)
  PROVE  RowsOK'
<1>1. Acceptable(x) => Within(x.start)
  BY DEF Acceptable
<1>2. rows' = rows \/ (Within(x.start) /\ rows' = {y \in rows : y.id # x.id} \cup {x})
  BY <1>1 DEF Saved
<1> QED
  BY <1>2 DEF RowsOK, Within

LEMMA NewRow ==
  ASSUME RowsOK, kind' = kind, NEW x \in Row, x.id = lastId + 1, Within(x.start),
         lastId' = lastId + 1, rows' = rows \cup {x}
  PROVE  RowsOK'
<1>1. \A y \in rows : y.id \in Nat /\ y.id # lastId + 1
  BY DEF RowsOK, Row, Ids
<1> QED
  BY <1>1 DEF RowsOK, Within

LEMMA RowsRemoved ==
  ASSUME RowsOK, kind' = kind, lastId' = lastId, rows' \subseteq rows
  PROVE  RowsOK'
BY DEF RowsOK, Within

LEMMA EndingRows ==
  ASSUME RowsOK, kind' = kind, lastId' = lastId, NEW id, Stored(id), NEW t \in Nat,
         rows' = Ending(id, t)
  PROVE  RowsOK'
<1> DEFINE x == [Get(id) EXCEPT !.end = t, !.dur = t - Get(id).start]
<1>1. \A g \in Row, d \in Int : LET q == [g EXCEPT !.end = t, !.dur = d]
                                IN  q \in Row /\ q.id = g.id
  BY DEF Row, MaybeTime
<1>2. Get(id) \in Row /\ t - Get(id).start \in Int
  BY GetRow DEF Row
<1>3. x \in Row /\ x.id = Get(id).id
  BY <1>1, <1>2
<1>4. rows' = Saved(x)
  BY DEF Ending
<1> HIDE DEF x
<1> QED
  BY <1>3, <1>4, GetRow, SavedRows

\* What is saved of a row keeps its id, and starts where it started or where it is moved to.
LEMMA MergedRow ==
  ASSUME NEW x \in Row, NEW r, r.start \in Nat, r.end \in MaybeTime, r.dur \in Int \cup {None}
  PROVE  /\ Merged(x, r) \in Row /\ Merged(x, r).id = x.id /\ Merged(x, r).ix = x.ix
         /\ Merged(x, r).start \in {x.start, r.start}
BY DEF Merged, Row, Ids

LEMMA WriteRows ==
  ASSUME TInv, kind' = kind, NEW e \in Editors, Write(e)
  PROVE  RowsOK'
<1> DEFINE r == req[e]
<1>1. /\ RowsOK /\ r.start \in Nat /\ Within(r.start) /\ r.end \in MaybeTime
      /\ r.dur \in Int \cup {None} /\ r.ix \in Both
  BY DEF TInv, RequestsFormed, Formed, Write, Saving, Indexes, Both
<1>2. CASE r.id = None
  <2> DEFINE x == [id |-> lastId + 1, ix |-> r.ix, start |-> r.start, end |-> r.end, dur |-> r.dur]
  <2>1. x \in Row /\ x.id = lastId + 1 /\ x.start = r.start
    BY <1>1 DEF Row, Ids, RowsOK
  <2>2. rows' = rows \cup {x} /\ lastId' = lastId + 1
    BY <1>2 DEF Write
  <2> HIDE DEF x
  <2> QED
    BY <1>1, <2>1, <2>2, NewRow
<1>3. CASE r.id # None
  <2>1. rows' = {IF x.id = r.id THEN Merged(x, r) ELSE x : x \in rows} /\ lastId' = lastId
    BY <1>3 DEF Write
  <2>2. \A x \in rows : /\ Merged(x, r) \in Row /\ Merged(x, r).id = x.id
                        /\ Within(Merged(x, r).start)
    BY <1>1, MergedRow DEF RowsOK
  <2> HIDE DEF r
  <2> QED
    BY <1>1, <2>1, <2>2 DEF RowsOK, Within
<1> QED
  BY <1>2, <1>3

LEMMA CastTime == \A t \in Nat : Cast(t) \in Nat
BY ConstantsAssumption DEF Cast

LEMMA AssignRows ==
  ASSUME TInv, kind' = kind, NEW e \in Editors, Assign(e)
  PROVE  RowsOK'
<1> DEFINE r == req[e]
           raw == Cast(r.t)
           new == [id |-> lastId + 1, ix |-> r.ix, start |-> raw, end |-> None, dur |-> None]
           x == [Get(r.id) EXCEPT !.start = raw]
<1>1. RowsOK /\ raw \in Nat /\ r.ix \in Both
  BY CastTime DEF TInv, RequestsFormed, Formed, Assign, Indexes, Both
<1>2. CASE UNCHANGED <<rows, lastId>>
  BY <1>1, <1>2 DEF RowsOK, Within
<1>3. CASE Stored(r.id) /\ rows' = Saved(x) /\ lastId' = lastId
  <2>1. x \in Row /\ x.id = Get(r.id).id
    BY <1>1, <1>3, GetRow DEF Row
  <2> HIDE DEF x
  <2> QED
    BY <1>1, <1>3, <2>1, GetRow, SavedRows
<1>4. CASE Acceptable(new) /\ rows' = rows \cup {new} /\ lastId' = lastId + 1
  <2>1. new \in Row /\ new.id = lastId + 1 /\ Within(new.start)
    BY <1>1, <1>4 DEF Row, Ids, MaybeTime, RowsOK, Acceptable
  <2> HIDE DEF new
  <2> QED
    BY <1>1, <1>4, <2>1, NewRow
<1> QED
  BY <1>2, <1>3, <1>4 DEF Assign

LEMMA StepRows ==
  ASSUME TInv, kind' = kind, NEW e \in Editors, Step(e)
  PROVE  RowsOK'
<1>1. RowsOK /\ Formed(req[e])
  BY DEF TInv, RequestsFormed
<1>2. CASE UNCHANGED <<rows, lastId>>
  BY <1>1, <1>2 DEF RowsOK, Within
<1>3. CASE Shorten(e)
  <2>1. req[e].start \in Nat
    BY <1>1, <1>3 DEF Shorten, Formed, Saving
  <2> QED
    BY <1>1, <1>2, <1>3, <2>1, EndingRows DEF Shorten
<1>4. CASE Fix(e)
  <2>1. req[e].fix \in Nat
    BY <1>1, <1>4 DEF Fix, Formed
  <2> QED
    BY <1>1, <1>2, <1>4, <2>1, EndingRows DEF Fix
<1>5. CASE Delete(e)
  BY <1>1, <1>5, RowsRemoved DEF Delete
<1> QED
  BY <1>2, <1>3, <1>4, <1>5, AssignRows, WriteRows
  DEF Step, Neighbours, Validate, Twin, Find

-----------------------------------------------------------------------------
(***************************************************************************)
(* Requests.                                                               *)
(***************************************************************************)
LEMMA RequestChanged ==
  ASSUME RequestsFormed, kind' = kind, NEW e \in Editors, NEW q, Formed(q),
         req' = [req EXCEPT ![e] = q]
  PROVE  RequestsFormed'
<1>1. DOMAIN req' = Editors /\ \A x \in Editors : Formed(req'[x])
  BY DEF RequestsFormed
<1> QED
  BY <1>1 DEF RequestsFormed, Formed, Indexes, Within

LEMMA RequestMovedOn ==
  ASSUME RequestsFormed, kind' = kind, NEW e \in Editors, NEW pc,
         Formed([req[e] EXCEPT !.pc = pc]), Goto(e, pc)
  PROVE  RequestsFormed'
<1>1. req' = [req EXCEPT ![e] = [req[e] EXCEPT !.pc = pc]]
  BY DEF Goto
<1> QED
  BY <1>1, RequestChanged

\* A request that has ended, or that goes on with nothing it still lacks, is well formed.
LEMMA GoneOn ==
  ASSUME NEW r, Formed(r), NEW pc \in Running \cup Ended,
         \/ pc \in Ended
         \/ pc \in Deleting \ {"fix"} /\ r.pc \in Deleting
         \/ pc = "validate" /\ r.pc \in Saving /\ r.end # None
         \/ pc = "write" /\ r.pc \in Saving /\ r.end # None /\ Within(r.start)
         \/ pc = "twin" /\ r.pc \in Saving /\ kind.translated
  PROVE  Formed([r EXCEPT !.pc = pc])
<1> DEFINE q == [r EXCEPT !.pc = pc]
<1>1. DOMAIN q = Fields /\ q.pc = pc /\ \A f \in Fields \ {"pc"} : q[f] = r[f]
  BY DEF Formed, Fields
<1> HIDE DEF q
<1> QED
  BY <1>1 DEF Formed, Fields, Running, Ended, Saving, Deleting

LEMMA BeginForms ==
  ASSUME TInv, kind' = kind, NEW e \in Editors, NEW r, Formed(r), Begin(e, r)
  PROVE  RequestsFormed'
<1> DEFINE q(x) == IF x = e THEN [r EXCEPT !.before = rows,
                                           !.solo = \A y \in Editors \ {e} : req[y].pc \notin Running]
                   ELSE [req[x] EXCEPT !.solo = FALSE]
<1>1. \A s, b, c : Formed(s) /\ b \subseteq Row /\ c \in BOOLEAN =>
        Formed([s EXCEPT !.before = b, !.solo = c]) /\ Formed([s EXCEPT !.solo = c])
  <2> SUFFICES ASSUME NEW s, Formed(s), NEW b \in SUBSET Row, NEW c \in BOOLEAN
               PROVE  Formed([s EXCEPT !.before = b, !.solo = c]) /\ Formed([s EXCEPT !.solo = c])
    OBVIOUS
  <2> DEFINE s1 == [s EXCEPT !.before = b, !.solo = c]
             s2 == [s EXCEPT !.solo = c]
  <2>1. /\ DOMAIN s1 = Fields /\ s1.before = b /\ s1.solo = c
        /\ \A f \in Fields \ {"before", "solo"} : s1[f] = s[f]
        /\ DOMAIN s2 = Fields /\ s2.solo = c /\ \A f \in Fields \ {"solo"} : s2[f] = s[f]
    BY DEF Formed, Fields
  <2> HIDE DEF s1, s2
  <2>2. Formed(s1)
    BY <2>1 DEF Formed, Fields
  <2>3. Formed(s2)
    BY <2>1 DEF Formed, Fields
  <2> QED
    BY <2>2, <2>3 DEF s1, s2
<1>2. \A x \in Editors : Formed(q(x))
  BY <1>1 DEF TInv, RequestsFormed, RowsOK
<1>3. DOMAIN req' = Editors /\ \A x \in Editors : req'[x] = q(x)
  BY DEF Begin
<1> HIDE DEF q
<1>4. \A x \in Editors : Formed(req'[x])
  BY <1>2, <1>3
<1> QED
  BY <1>3, <1>4 DEF RequestsFormed, Formed, Indexes, Within

\* Each form begins a well-formed request.
LEMMA CreateFormed ==
  ASSUME kind \in Kinds, NEW e \in Editors, NEW t \in Times, NEW play \in kind.playTimes,
         NEW endTime \in kind.endTimes, NEW length \in kind.lengths,
         NEW titled \in [Both -> kind.titles], Create(e, t, play, endTime, length, titled)
  PROVE  \E r : /\ Formed(r) /\ Begin(e, r) /\ r.pc = "neighbours" /\ r.op = "create"
                /\ r.ix = "main" /\ r.id = None /\ r.altId = None /\ r.start = r.t
<1> DEFINE r == [Idle EXCEPT !.pc = "neighbours", !.op = "create", !.t = t,
                   !.play = play, !.endTime = endTime, !.length = length,
                   !.titled = titled, !.start = t]
<1>1. Begin(e, r)
  BY DEF Create
<1>2. kind \in Kind /\ Times \subseteq Nat
  BY ConstantsAssumption
<1>3. t \in Nat /\ play \in MaybeTime /\ endTime \in MaybeTime /\ length \in Nat
  BY <1>2 DEF Kind, MaybeTime
<1>4. Formed(r)
  BY <1>3 DEF Formed, Idle, Fields, Running, Ended, Saving, Deleting, Indexes, MaybeTime, Both
<1>5. /\ r.pc = "neighbours" /\ r.op = "create" /\ r.ix = "main" /\ r.id = None /\ r.altId = None
      /\ r.start = r.t
  BY DEF Idle
<1> HIDE DEF r
<1> QED
  BY <1>1, <1>4, <1>5

LEMMA UpdateFormed ==
  ASSUME kind \in Kinds, RowsOK, NEW e \in Editors, NEW x \in In("main"), NEW t \in Times,
         NEW play \in kind.playTimes, NEW endTime \in kind.endTimes, NEW length \in kind.lengths,
         NEW titled \in [Both -> kind.titles], Update(e, x, t, play, endTime, length, titled)
  PROVE  \E r : /\ Formed(r) /\ Begin(e, r) /\ r.pc = "assign" /\ r.op = "update"
                /\ r.ix = "main" /\ r.id = x.id
                /\ (\E y \in In("alt") : y.start = x.start)
                     => \E y \in In("alt") : y.start = x.start /\ r.altId = y.id
                /\ r.altId = None \/ \E y \in In("alt") : r.altId = y.id
<1> DEFINE r(alt) == [Idle EXCEPT !.pc = "assign", !.op = "update", !.id = x.id,
                        !.altId = alt, !.t = t, !.play = play, !.endTime = endTime,
                        !.length = length, !.titled = titled]
<1>1. x \in Row /\ \A y \in In("alt") : y.id \in Nat
  BY DEF In, RowsOK, Row, Ids
<1>2. PICK alt \in Nat \cup {None} :
        /\ Begin(e, r(alt))
        /\ (\E y \in In("alt") : y.start = x.start)
             => \E y \in In("alt") : y.start = x.start /\ alt = y.id
        /\ alt = None \/ \E y \in In("alt") : alt = y.id
  <2> DEFINE alts == IF \E y \in In("alt") : y.start = x.start
                     THEN {y.id : y \in {y \in In("alt") : y.start = x.start}} ELSE {None}
  <2>1. alts \subseteq Nat \cup {None}
    BY <1>1
  <2>2. \E alt \in alts : Begin(e, r(alt))
    BY DEF Update
  <2>3. \A alt \in alts : (\E y \in In("alt") : y.start = x.start)
                            => \E y \in In("alt") : y.start = x.start /\ alt = y.id
    OBVIOUS
  <2>4. \A alt \in alts : alt = None \/ \E y \in In("alt") : alt = y.id
    OBVIOUS
  <2> HIDE DEF alts, r
  <2> QED
    BY <2>1, <2>2, <2>3, <2>4
<1>3. kind \in Kind /\ Times \subseteq Nat
  BY ConstantsAssumption
<1>4. t \in Nat /\ play \in MaybeTime /\ endTime \in MaybeTime /\ length \in Nat /\ x.id \in Nat
  BY <1>1, <1>3 DEF Kind, MaybeTime, Row, Ids
<1> DEFINE q == r(alt)
<1>5. /\ DOMAIN q = Fields /\ q.pc = "assign" /\ q.id = x.id /\ q.altId = alt /\ q.t = t
      /\ q.play = play /\ q.endTime = endTime /\ q.length = length /\ q.op = "update"
      /\ q.ix = "main"
      /\ \A f \in Fields \ {"pc", "op", "id", "altId", "t", "play", "endTime", "length", "titled"} :
           q[f] = Idle[f]
  BY DEF Idle, Fields
<1>6. Begin(e, q)
  BY <1>2
<1> HIDE DEF q, r
<1>7. Formed(q)
  BY <1>4, <1>5, IdleFormed DEF Formed, Fields, Running, Saving, Deleting
<1> QED
  BY <1>2, <1>5, <1>6, <1>7

LEMMA DestroyFormed ==
  ASSUME RowsOK, NEW e \in Editors, NEW x \in In("main"), Destroy(e, x)
  PROVE  \E r : /\ Formed(r) /\ Begin(e, r) /\ r.pc = "find" /\ r.op = "destroy"
                /\ r.ix = "main" /\ r.id = x.id /\ r.start = x.start
<1> DEFINE r == [Idle EXCEPT !.pc = "find", !.op = "destroy", !.id = x.id,
                   !.start = x.start, !.end = x.end, !.dur = x.dur]
<1>1. Begin(e, r)
  BY DEF Destroy
<1>2. x.id \in Nat /\ x.start \in Nat /\ x.end \in MaybeTime /\ x.dur \in Int \cup {None}
  BY DEF In, RowsOK, Row, Ids
<1>3. Formed(r)
  BY <1>2 DEF Formed, Idle, Fields, Running, Ended, Saving, Deleting, Indexes, MaybeTime, Both
<1>4. r.pc = "find" /\ r.op = "destroy" /\ r.ix = "main" /\ r.id = x.id /\ r.start = x.start
  BY DEF Idle
<1> HIDE DEF r
<1> QED
  BY <1>1, <1>3, <1>4

LEMMA SubmitForms ==
  ASSUME TInv, kind' = kind, NEW e \in Editors, Submit(e)
  PROVE  RequestsFormed' /\ UNCHANGED <<rows, lastId>> /\ made' \subseteq Both
<1>1. kind \in Kinds /\ made \subseteq Both /\ RowsOK
  BY DEF TInv
<1>2. UNCHANGED <<rows, lastId>> /\ made' \subseteq Both
  BY <1>1 DEF Submit, Create, Update, Destroy, Both
<1>3. \E r : Formed(r) /\ Begin(e, r)
  BY <1>1, CreateFormed, UpdateFormed, DestroyFormed DEF Submit
<1> QED
  BY <1>2, <1>3, BeginForms

\* Some segment of those that start later starts first.
LEMMA EarliestThere ==
  ASSUME RowsOK, NEW xs \in SUBSET rows, xs # {}
  PROVE  LET x == CHOOSE x \in Earliest(xs) : TRUE
         IN  x \in xs /\ x.start \in Nat /\ \A y \in xs : x.start <= y.start
<1>1. \A x \in xs : x.start \in Nat
  BY DEF RowsOK, Row
<1>2. PICK m \in {x.start : x \in xs} : \A n \in {x.start : x \in xs} : m <= n
  BY <1>1, LeastNumber
<1>3. \E x \in Earliest(xs) : TRUE
  BY <1>2 DEF Earliest
<1> DEFINE x == CHOOSE x \in Earliest(xs) : TRUE
<1>4. x \in Earliest(xs)
  BY <1>3
<1> HIDE DEF x
<1> QED
  BY <1>1, <1>4 DEF Earliest, x

LEMMA AssignForms ==
  ASSUME TInv, kind' = kind, NEW e \in Editors, Assign(e)
  PROVE  RequestsFormed'
<1> DEFINE r == req[e]
           next(x, id) == [r EXCEPT !.pc = "neighbours", !.id = id, !.start = Wanted(r),
                             !.end = x.end, !.dur = x.dur,
                             !.held = [start |-> x.start, end |-> x.end, dur |-> x.dur]]
           raw == Cast(r.t)
           new == [id |-> lastId + 1, ix |-> r.ix, start |-> raw, end |-> None, dur |-> None]
           moved == [Get(r.id) EXCEPT !.start = raw]
<1>1. /\ RowsOK /\ RequestsFormed /\ Formed(r) /\ r.pc = "assign" /\ lastId + 1 \in Nat
      /\ Wanted(r) \in Nat
  BY DEF TInv, RequestsFormed, RowsOK, Assign, Formed, Wanted, MaybeTime
<1>2. \A x, id : id \in Nat \cup {None} /\ x.end \in MaybeTime /\ x.dur \in Int \cup {None}
                   => Formed(next(x, id))
  <2> SUFFICES ASSUME NEW x, NEW id \in Nat \cup {None}, x.end \in MaybeTime, x.dur \in Int \cup {None}
               PROVE  Formed(next(x, id))
    OBVIOUS
  <2> DEFINE q == next(x, id)
  <2>1. /\ DOMAIN q = Fields /\ q.pc = "neighbours" /\ q.id = id /\ q.start = Wanted(r)
        /\ q.end = x.end /\ q.dur = x.dur
        /\ \A f \in Fields \ {"pc", "id", "start", "end", "dur", "held"} : q[f] = r[f]
    BY <1>1 DEF Formed, Fields
  <2> HIDE DEF q, r, next
  <2>2. Formed(q)
    BY <1>1, <2>1 DEF Formed, Fields, Running, Saving, Deleting, MaybeTime
  <2> QED
    BY <2>2 DEF q
<1>3. \/ Goto(e, "failed")
      \/ Stored(r.id) /\ req' = [req EXCEPT ![e] = next(moved, moved.id)]
      \/ Stored(r.id) /\ req' = [req EXCEPT ![e] = next(Get(r.id), r.id)]
      \/ req' = [req EXCEPT ![e] = next(new, new.id)]
      \/ req' = [req EXCEPT ![e] = next(Nothing, None)]
  BY DEF Assign
<1>4. CASE Goto(e, "failed")
  BY <1>1, <1>4, GoneOn, RequestMovedOn DEF Ended
<1>5. CASE Stored(r.id) /\ req' = [req EXCEPT ![e] = next(moved, moved.id)]
  <2>1. \A g \in Row, s \in Nat : LET m == [g EXCEPT !.start = s]
                                 IN  m.id \in Nat /\ m.end \in MaybeTime /\ m.dur \in Int \cup {None}
    BY DEF Row, Ids
  <2>2. raw \in Nat
    BY <1>1, CastTime DEF Formed
  <2>3. moved.id \in Nat /\ moved.end \in MaybeTime /\ moved.dur \in Int \cup {None}
    BY <1>1, <1>5, <2>1, <2>2, GetRow
  <2> HIDE DEF next, moved
  <2>4. Formed(next(moved, moved.id))
    BY <1>2, <2>3
  <2> QED
    BY <1>1, <1>5, <2>4, RequestChanged
<1>6. CASE Stored(r.id) /\ req' = [req EXCEPT ![e] = next(Get(r.id), r.id)]
  <2>1. r.id \in Nat /\ Get(r.id).end \in MaybeTime /\ Get(r.id).dur \in Int \cup {None}
    BY <1>1, <1>6, GetRow DEF Row, Ids
  <2> HIDE DEF next
  <2>2. Formed(next(Get(r.id), r.id))
    BY <1>2, <2>1
  <2> QED
    BY <1>1, <1>6, <2>2, RequestChanged
<1>7. CASE req' = [req EXCEPT ![e] = next(new, new.id)]
  <2>1. new.id \in Nat /\ new.end \in MaybeTime /\ new.dur \in Int \cup {None}
    BY <1>1 DEF MaybeTime
  <2> HIDE DEF next, new
  <2>2. Formed(next(new, new.id))
    BY <1>2, <2>1
  <2> QED
    BY <1>1, <1>7, <2>2, RequestChanged
<1>8. CASE req' = [req EXCEPT ![e] = next(Nothing, None)]
  <2>1. Nothing.end \in MaybeTime /\ Nothing.dur \in Int \cup {None}
    BY DEF Nothing, MaybeTime
  <2> HIDE DEF next
  <2>2. Formed(next(Nothing, None))
    BY <1>2, <2>1
  <2> QED
    BY <1>1, <1>8, <2>2, RequestChanged
<1> QED
  BY <1>3, <1>4, <1>5, <1>6, <1>7, <1>8

\* The end that Neighbours computes: the earliest later start, or the media's.
EndOf(ix, t, length) ==
  IF Later(ix, t) # {} THEN (CHOOSE x \in Earliest(Later(ix, t)) : TRUE).start
  ELSE IF length = 0 THEN t ELSE length

LEMMA EndIsTime ==
  ASSUME RowsOK, NEW ix, NEW t \in Nat, NEW length \in Nat
  PROVE  EndOf(ix, t, length) \in Nat
BY EarliestThere DEF EndOf, Later, In

LEMMA NeighboursForms ==
  ASSUME TInv, kind' = kind, NEW e \in Editors, Neighbours(e)
  PROVE  RequestsFormed'
<1> DEFINE r == req[e]
           end == EndOf(r.ix, r.start, r.length)
           given == [r EXCEPT !.end = r.endTime, !.pc = "validate"]
           last == [r EXCEPT !.end = end, !.dur = end - r.start, !.pc = "validate"]
           next(p) == [r EXCEPT !.end = end, !.dur = end - r.start, !.pc = "shorten", !.prev = p.id]
<1>1. /\ RowsOK /\ RequestsFormed /\ Formed(r) /\ r.pc = "neighbours"
      /\ r.start \in Nat /\ r.length \in Nat /\ end \in Nat /\ end - r.start \in Int
  <2>1. RowsOK /\ RequestsFormed /\ Formed(r) /\ r.pc = "neighbours"
    BY DEF TInv, RequestsFormed, Neighbours
  <2>2. r.start \in Nat /\ r.length \in Nat
    BY <2>1 DEF Formed, Saving
  <2> QED
    BY <2>1, <2>2, EndIsTime
<1>2. \/ r.endTime # None /\ req' = [req EXCEPT ![e] = given]
      \/ req' = [req EXCEPT ![e] = last]
      \/ \E p \in Earlier(r.ix, r.start) : req' = [req EXCEPT ![e] = next(p)]
  BY <1>1 DEF Neighbours, EndOf, Latest, Formed, Fields
<1> HIDE DEF end
<1>3. CASE r.endTime # None /\ req' = [req EXCEPT ![e] = given]
  <2>1. /\ DOMAIN given = Fields /\ given.pc = "validate" /\ given.end = r.endTime
        /\ \A f \in Fields \ {"pc", "end"} : given[f] = r[f]
    BY <1>1 DEF Formed, Fields
  <2> HIDE DEF given, r
  <2>2. Formed(given)
    BY <1>1, <1>3, <2>1 DEF Formed, Fields, Running, Saving, Deleting
  <2> QED
    BY <1>1, <1>3, <2>2, RequestChanged DEF r
<1>4. CASE req' = [req EXCEPT ![e] = last]
  <2>1. /\ DOMAIN last = Fields /\ last.pc = "validate" /\ last.end = end /\ last.dur = end - r.start
        /\ \A f \in Fields \ {"pc", "end", "dur"} : last[f] = r[f]
    BY <1>1 DEF Formed, Fields
  <2> HIDE DEF last, r
  <2>2. Formed(last)
    BY <1>1, <2>1, ConstantsAssumption DEF Formed, Fields, Running, Saving, Deleting, MaybeTime
  <2> QED
    BY <1>1, <1>4, <2>2, RequestChanged DEF r
<1>5. CASE \E p \in Earlier(r.ix, r.start) : req' = [req EXCEPT ![e] = next(p)]
  <2>1. PICK p \in Earlier(r.ix, r.start) : req' = [req EXCEPT ![e] = next(p)]
    BY <1>5
  <2>2. p.id \in Nat
    BY <1>1 DEF Earlier, In, RowsOK, Row, Ids
  <2> DEFINE q == next(p)
  <2>3. /\ DOMAIN q = Fields /\ q.pc = "shorten" /\ q.end = end /\ q.dur = end - r.start
        /\ q.prev = p.id /\ \A f \in Fields \ {"pc", "end", "dur", "prev"} : q[f] = r[f]
    BY <1>1 DEF Formed, Fields
  <2>4. req' = [req EXCEPT ![e] = q]
    BY <2>1
  <2> HIDE DEF q, r, next
  <2>5. Formed(q)
    BY <1>1, <2>2, <2>3, ConstantsAssumption
    DEF Formed, Fields, Running, Saving, Deleting, MaybeTime
  <2> QED
    BY <1>1, <2>4, <2>5, RequestChanged DEF r
<1> QED
  BY <1>2, <1>3, <1>4, <1>5

LEMMA TwinForms ==
  ASSUME TInv, kind' = kind, NEW e \in Editors, Twin(e)
  PROVE  RequestsFormed'
<1> DEFINE r == req[e]
           twin == [r EXCEPT !.ix = "alt", !.id = r.altId, !.end = None, !.dur = None,
                      !.held = Nothing, !.prev = None]
           again == [twin EXCEPT !.pc = "assign", !.start = None]
           anew == [twin EXCEPT !.pc = "neighbours", !.start = Wanted(twin)]
<1>1. RequestsFormed /\ Formed(r) /\ r.pc = "twin" /\ kind.translated /\ r.t \in Nat
  BY DEF TInv, RequestsFormed, Twin, Formed
<1>2. /\ DOMAIN twin = Fields /\ twin.ix = "alt" /\ twin.id = r.altId /\ twin.end = None
      /\ twin.dur = None /\ twin.prev = None
      /\ \A f \in Fields \ {"ix", "id", "end", "dur", "held", "prev"} : twin[f] = r[f]
  BY <1>1 DEF Formed, Fields
<1>3. req' = [req EXCEPT ![e] = again] \/ req' = [req EXCEPT ![e] = anew]
  BY DEF Twin
<1> HIDE DEF twin
<1>4. Wanted(twin) \in Nat
  BY <1>1, <1>2 DEF Wanted, Formed, Fields, MaybeTime
<1>5. /\ DOMAIN again = Fields /\ again.pc = "assign" /\ again.start = None
      /\ DOMAIN anew = Fields /\ anew.pc = "neighbours" /\ anew.start = Wanted(twin)
      /\ \A f \in Fields \ {"pc", "start"} : again[f] = twin[f] /\ anew[f] = twin[f]
  BY <1>2 DEF Fields
<1> HIDE DEF again, anew, r
<1>6. Formed(again)
  BY <1>1, <1>2, <1>5 DEF Formed, Fields, Running, Saving, Deleting, Indexes, MaybeTime
<1>7. Formed(anew)
  BY <1>1, <1>2, <1>4, <1>5 DEF Formed, Fields, Running, Saving, Deleting, Indexes, MaybeTime
<1> QED
  BY <1>1, <1>3, <1>6, <1>7, RequestChanged DEF r

LEMMA FindForms ==
  ASSUME TInv, kind' = kind, NEW e \in Editors, Find(e)
  PROVE  RequestsFormed'
<1> DEFINE r == req[e]
           fix == IF Later(r.ix, r.start) = {} THEN Seconds(r.end)
                  ELSE (CHOOSE x \in Earliest(Later(r.ix, r.start)) : TRUE).start
           next(p) == [r EXCEPT !.pc = "fix", !.prev = p.id, !.fix = fix]
<1>1. RowsOK /\ RequestsFormed /\ Formed(r) /\ r.pc = "find"
  BY DEF TInv, RequestsFormed, Find
<1>2. \/ Goto(e, "delete")
      \/ \E p \in Earlier(r.ix, r.start) : req' = [req EXCEPT ![e] = next(p)]
  BY <1>1 DEF Find, Latest, Formed, Fields
<1>3. CASE Goto(e, "delete")
  BY <1>1, <1>3, GoneOn, RequestMovedOn DEF Deleting, Running
<1>4. CASE \E p \in Earlier(r.ix, r.start) : req' = [req EXCEPT ![e] = next(p)]
  <2>1. PICK p \in Earlier(r.ix, r.start) : req' = [req EXCEPT ![e] = next(p)]
    BY <1>4
  <2>2. p.id \in Nat
    BY <1>1 DEF Earlier, In, RowsOK, Row, Ids
  <2>3. fix \in Nat
    <3>1. Later(r.ix, r.start) \subseteq rows /\ Seconds(r.end) \in Nat
      BY <1>1 DEF Later, In, Seconds, Formed, MaybeTime
    <3> QED
      BY <1>1, <3>1, EarliestThere
  <2> DEFINE q == next(p)
  <2>4. /\ DOMAIN q = Fields /\ q.pc = "fix" /\ q.prev = p.id /\ q.fix = fix
        /\ \A f \in Fields \ {"pc", "prev", "fix"} : q[f] = r[f]
    BY <1>1 DEF Formed, Fields
  <2>5. req' = [req EXCEPT ![e] = q]
    BY <2>1
  <2> HIDE DEF q, r, next, fix
  <2>6. Formed(q)
    BY <1>1, <2>2, <2>3, <2>4 DEF Formed, Fields, Running, Saving, Deleting
  <2> QED
    BY <1>1, <2>5, <2>6, RequestChanged DEF r
<1> QED
  BY <1>2, <1>3, <1>4

LEMMA DeleteForms ==
  ASSUME TInv, kind' = kind, NEW e \in Editors, Delete(e)
  PROVE  RequestsFormed'
<1> DEFINE r == req[e]
           next(x) == [r EXCEPT !.pc = "find", !.ix = "alt", !.id = x.id, !.start = x.start,
                         !.end = x.end, !.dur = x.dur, !.prev = None, !.fix = None]
<1>1. RowsOK /\ RequestsFormed /\ Formed(r) /\ r.pc = "delete"
  BY DEF TInv, RequestsFormed, Delete
<1>2. \/ Goto(e, "done") \/ Goto(e, "failed")
      \/ kind.translated /\ \E x \in In("alt") : req' = [req EXCEPT ![e] = next(x)]
  BY <1>1 DEF Delete, Formed, Fields
<1>3. CASE Goto(e, "done") \/ Goto(e, "failed")
  <2>1. Formed([r EXCEPT !.pc = "done"]) /\ Formed([r EXCEPT !.pc = "failed"])
    BY <1>1, GoneOn DEF Ended
  <2> QED
    BY <1>1, <1>3, <2>1, RequestMovedOn
<1>4. CASE kind.translated /\ \E x \in In("alt") : req' = [req EXCEPT ![e] = next(x)]
  <2>1. PICK x \in In("alt") : req' = [req EXCEPT ![e] = next(x)]
    BY <1>4
  <2>2. x.id \in Nat /\ x.start \in Nat /\ x.end \in MaybeTime /\ x.dur \in Int \cup {None}
    BY <1>1 DEF In, RowsOK, Row, Ids
  <2> DEFINE q == next(x)
  <2>3. /\ DOMAIN q = Fields /\ q.pc = "find" /\ q.ix = "alt" /\ q.id = x.id /\ q.start = x.start
        /\ q.end = x.end /\ q.dur = x.dur /\ q.prev = None
        /\ \A f \in Fields \ {"pc", "ix", "id", "start", "end", "dur", "prev", "fix"} : q[f] = r[f]
    BY <1>1 DEF Formed, Fields
  <2>4. req' = [req EXCEPT ![e] = q]
    BY <2>1
  <2> HIDE DEF q, r, next
  <2>5. Formed(q)
    BY <1>1, <1>4, <2>2, <2>3 DEF Formed, Fields, Running, Saving, Deleting, Indexes, MaybeTime
  <2> QED
    BY <1>1, <2>4, <2>5, RequestChanged DEF r
<1> QED
  BY <1>2, <1>3, <1>4

LEMMA StepForms ==
  ASSUME TInv, kind' = kind, NEW e \in Editors, Step(e)
  PROVE  RequestsFormed' /\ made' \subseteq Both
<1> DEFINE r == req[e]
<1>1. RowsOK /\ RequestsFormed /\ Formed(r) /\ made \subseteq Both
  BY DEF TInv, RequestsFormed
<1>2. made' \subseteq Both
  BY <1>1 DEF Step, Assign, Neighbours, Shorten, Validate, Write, Twin, Find, Fix, Delete, Both
<1>3. \A pc : Formed([r EXCEPT !.pc = pc]) /\ Goto(e, pc) => RequestsFormed'
  BY <1>1, RequestMovedOn
<1>4. Formed([r EXCEPT !.pc = "failed"]) /\ Formed([r EXCEPT !.pc = "refused"])
      /\ Formed([r EXCEPT !.pc = "done"])
  BY <1>1, GoneOn DEF Ended
<1>5. CASE Shorten(e)
  <2>1. r.pc = "shorten" /\ (Goto(e, "validate") \/ Goto(e, "failed"))
    BY <1>5 DEF Shorten
  <2>2. CASE r.end # None
    <3>1. Formed([r EXCEPT !.pc = "validate"])
      BY <1>1, <2>1, <2>2, GoneOn DEF Running, Saving
    <3> QED
      BY <1>2, <1>3, <1>4, <2>1, <3>1
  <2>3. r.end # None
    BY <1>1, <2>1 DEF Formed
  <2> QED
    BY <2>2, <2>3
<1>6. CASE Fix(e)
  <2>1. r.pc = "fix" /\ (Goto(e, "delete") \/ Goto(e, "failed"))
    BY <1>6 DEF Fix
  <2>2. Formed([r EXCEPT !.pc = "delete"])
    BY <1>1, <2>1, GoneOn DEF Running, Deleting
  <2> QED
    BY <1>2, <1>3, <1>4, <2>1, <2>2
<1>7. CASE Validate(e)
  <2> DEFINE x == [id |-> r.id, ix |-> r.ix, start |-> r.start, end |-> r.end, dur |-> r.dur]
  <2>1. r.pc = "validate" /\ (Goto(e, "refused") \/ (Acceptable(x) /\ Goto(e, "write")))
    BY <1>7 DEF Validate
  <2>2. Acceptable(x) => Within(r.start)
    BY DEF Acceptable
  <2>3. Acceptable(x) => Formed([r EXCEPT !.pc = "write"])
    BY <1>1, <2>1, <2>2, GoneOn DEF Running, Saving, Formed
  <2> QED
    BY <1>2, <1>3, <1>4, <2>1, <2>3
<1>8. CASE Write(e)
  <2>1. r.pc = "write" /\ (Goto(e, "done") \/ (kind.translated /\ Goto(e, "twin")))
    BY <1>8 DEF Write
  <2>2. kind.translated => Formed([r EXCEPT !.pc = "twin"])
    BY <1>1, <2>1, GoneOn DEF Running, Saving
  <2> QED
    BY <1>2, <1>3, <1>4, <2>1, <2>2
<1> QED
  BY <1>2, <1>5, <1>6, <1>7, <1>8, AssignForms, NeighboursForms, TwinForms, FindForms, DeleteForms
  DEF Step

-----------------------------------------------------------------------------
LEMMA TInvNext == TInv /\ [Next]_vars => TInv'
<1> SUFFICES ASSUME TInv, [Next]_vars PROVE TInv'
  OBVIOUS
<1>1. CASE UNCHANGED vars
  BY <1>1 DEF vars, TInv, RowsOK, RequestsFormed, Formed, Indexes, Within
<1>2. ASSUME NEW e \in Editors, Submit(e), kind' = kind PROVE TInv'
  <2>1. RequestsFormed' /\ UNCHANGED <<rows, lastId>> /\ made' \subseteq Both
    BY <1>2, SubmitForms
  <2> QED
    BY <1>2, <2>1, RowsRemoved DEF TInv
<1>3. ASSUME NEW e \in Editors, Step(e), kind' = kind PROVE TInv'
  BY <1>3, StepRows, StepForms DEF TInv
<1> QED
  BY <1>1, <1>2, <1>3 DEF Next

LEMMA AlwaysTInv == Spec => []TInv
BY TInvInit, TInvNext, PTL DEF Spec

\* Whatever the interleaving of the requests, each segment has an id of its own,
\* no newer than the newest, starts within the media, and every request holds
\* times and ids of the right kind (file_index_point.rb, schema.rb).
THEOREM SegmentTypes == Spec => []TypeOK
<1>1. TInv => TypeOK
  BY DEF TInv, RowsOK, RequestsFormed, Formed, TypeOK, Both, Ids
<1> QED
  BY <1>1, AlwaysTInv, PTL

-----------------------------------------------------------------------------
(***************************************************************************)
(* Tilings: what adding a segment to one, or taking one out of it, does.   *)
(***************************************************************************)
LatestBefore(S, t, p) == p \in S /\ p.start < t /\ \A z \in S : z.start < t => z.start <= p.start
EarliestAfter(S, t, y) == y \in S /\ y.start > t /\ \A z \in S : z.start > t => y.start <= z.start

Meets(x, t) == x.end = t /\ x.dur = t - x.start

\* No two start together, and each meets the one that starts next.
TiledSet(S) ==
  /\ \A x, y \in S : x.start = y.start => x = y
  /\ \A x, y \in S :
       x.start < y.start /\ (\A z \in S : ~(x.start < z.start /\ z.start < y.start))
         => Meets(x, y.start)

LEMMA TiledIsTiledSet ==
  ASSUME NEW rs, rs \subseteq Row, NEW ix
  PROVE  Tiled(rs, ix) <=> TiledSet(Of(rs, ix))
<1> DEFINE S == Of(rs, ix)
<1>1. \A x \in S : x.start \in Nat
  BY DEF Of, Row
<1>2. Tiled(rs, ix) <=>
        \A x, y \in S :
          (x # y /\ x.start <= y.start /\ \A z \in S : z.start \notin (x.start + 1)..(y.start - 1))
            => x.start < y.start /\ x.end = y.start /\ x.dur = y.start - x.start
  BY DEF Tiled
<1> HIDE DEF S
<1>3. \A x, y, z \in S :
        z.start \in (x.start + 1)..(y.start - 1) <=> x.start < z.start /\ z.start < y.start
  BY <1>1
<1>4. Tiled(rs, ix) => TiledSet(S)
  BY <1>1, <1>2, <1>3 DEF TiledSet, Meets
<1>5. TiledSet(S) => Tiled(rs, ix)
  BY <1>1, <1>2, <1>3 DEF TiledSet, Meets
<1> QED
  BY <1>4, <1>5 DEF S

\* A segment that starts where none does, and the one before it made to meet it.
LEMMA InsertRow ==
  ASSUME NEW S, NEW T, NEW n, \A x \in S \cup T \cup {n} : x.start \in Nat,
         TiledSet(S), \A x \in S : x.start # n.start,
         \A y : EarliestAfter(S, n.start, y) => Meets(n, y.start),
         \/ T = S /\ \A x \in S : ~(x.start < n.start)
         \/ \E p, q : /\ LatestBefore(S, n.start, p) /\ T = (S \ {p}) \cup {q}
                      /\ q.start = p.start /\ Meets(q, n.start)
  PROVE  TiledSet(T \cup {n})
<1>1. CASE T = S /\ \A x \in S : ~(x.start < n.start)
  BY <1>1 DEF TiledSet, EarliestAfter
<1>2. CASE \E p, q : /\ LatestBefore(S, n.start, p) /\ T = (S \ {p}) \cup {q}
                     /\ q.start = p.start /\ Meets(q, n.start)
  <2>1. PICK p, q : /\ LatestBefore(S, n.start, p) /\ T = (S \ {p}) \cup {q}
                    /\ q.start = p.start /\ Meets(q, n.start)
    BY <1>2
  <2>2. p \in S /\ p.start < n.start /\ \A z \in S : z.start < n.start => z.start <= p.start
    BY <2>1 DEF LatestBefore
  <2>3. \A x, y \in T \cup {n} : x.start = y.start => x = y
    BY <2>1, <2>2 DEF TiledSet
  <2>4. ASSUME NEW x \in T \cup {n}, NEW y \in T \cup {n}, x.start < y.start,
               \A z \in T \cup {n} : ~(x.start < z.start /\ z.start < y.start)
        PROVE  Meets(x, y.start)
    <3>1. \A z \in S : \E w \in T : w.start = z.start
      BY <2>1, <2>2
    <3>2. \A z \in S : ~(x.start < z.start /\ z.start < y.start)
      BY <2>4, <3>1
    <3>3. CASE x = n
      <4>1. \E v \in S : v.start = y.start
        BY <2>1, <2>2, <2>4, <3>3
      <4>2. PICK v \in S : v.start = y.start
        BY <4>1
      <4>3. EarliestAfter(S, n.start, v)
        BY <2>4, <3>2, <3>3, <4>2 DEF EarliestAfter
      <4> QED
        BY <3>3, <4>2, <4>3
    <3>4. CASE y = n
      <4>1. x \in T /\ \E v \in S : v.start = x.start
        BY <2>1, <2>2, <2>4, <3>4
      <4>2. x.start = p.start
        BY <2>2, <2>4, <3>2, <3>4, <4>1
      <4>3. x = q
        BY <2>1, <2>3, <4>1, <4>2
      <4> QED
        BY <2>1, <3>4, <4>3
    <3>5. CASE x \in T /\ y \in T /\ x = q
      BY <2>1, <2>2, <2>4, <3>5
    <3>6. CASE x \in T /\ y \in T /\ x # q
      <4>1. x \in S /\ \E v \in S : v.start = y.start
        BY <2>1, <2>2, <3>6
      <4> QED
        BY <2>4, <3>2, <4>1 DEF TiledSet
    <3> QED
      BY <3>3, <3>4, <3>5, <3>6
  <2> QED
    BY <2>3, <2>4 DEF TiledSet
<1> QED
  BY <1>1, <1>2

\* A segment taken out, and the one before it made to meet the one after it.
LEMMA RemoveRow ==
  ASSUME NEW S, NEW T, NEW d \in S, \A x \in S \cup T : x.start \in Nat, TiledSet(S),
         \/ T = S /\ (\/ \A x \in S : ~(x.start < d.start)
                      \/ \A x \in S : ~(x.start > d.start))
         \/ \E p, q : /\ LatestBefore(S, d.start, p) /\ T = (S \ {p}) \cup {q}
                      /\ q.start = p.start
                      /\ \A y : EarliestAfter(S, d.start, y) => Meets(q, y.start)
  PROVE  TiledSet(T \ {d})
<1>1. CASE T = S /\ (\/ \A x \in S : ~(x.start < d.start)
                     \/ \A x \in S : ~(x.start > d.start))
  BY <1>1 DEF TiledSet
<1>2. CASE \E p, q : /\ LatestBefore(S, d.start, p) /\ T = (S \ {p}) \cup {q}
                     /\ q.start = p.start
                     /\ \A y : EarliestAfter(S, d.start, y) => Meets(q, y.start)
  <2>1. PICK p, q : /\ LatestBefore(S, d.start, p) /\ T = (S \ {p}) \cup {q}
                    /\ q.start = p.start
                    /\ \A y : EarliestAfter(S, d.start, y) => Meets(q, y.start)
    BY <1>2
  <2> DEFINE U == T \ {d}
  <2>2. p \in S /\ p.start < d.start /\ \A z \in S : z.start < d.start => z.start <= p.start
    BY <2>1 DEF LatestBefore
  <2>3. \A x, y \in U : x.start = y.start => x = y
    BY <2>1, <2>2 DEF TiledSet
  <2>4. ASSUME NEW x \in U, NEW y \in U, x.start < y.start,
               \A z \in U : ~(x.start < z.start /\ z.start < y.start)
        PROVE  Meets(x, y.start)
    <3>0. /\ x.start # d.start /\ y.start # d.start
          /\ (\E v \in S : v.start = x.start) /\ (\E v \in S : v.start = y.start)
      BY <2>1, <2>2 DEF TiledSet
    <3>1. \A z \in S \ {d} : \E w \in U : w.start = z.start
      BY <2>1, <2>2
    <3>2. \A z \in S \ {d} : ~(x.start < z.start /\ z.start < y.start)
      BY <2>4, <3>1
    <3>3. PICK v \in S : v.start = y.start
      BY <3>0
    <3>4. CASE x.start < d.start /\ d.start < y.start
      <4>1. x.start = p.start
        BY <2>2, <3>0, <3>2, <3>4
      <4>2. x = q
        BY <2>1, <2>2, <4>1 DEF TiledSet
      <4>3. EarliestAfter(S, d.start, v)
        BY <3>2, <3>3, <3>4 DEF EarliestAfter
      <4> QED
        BY <2>1, <3>3, <4>2, <4>3
    <3>5. CASE ~(x.start < d.start /\ d.start < y.start)
      <4>1. x # q
        BY <2>1, <2>2, <2>4, <3>0, <3>3, <3>5
      <4>2. x \in S
        BY <2>1, <4>1
      <4> QED
        BY <2>4, <3>2, <3>3, <3>5, <4>2 DEF TiledSet
    <3> QED
      BY <3>4, <3>5
  <2> QED
    BY <2>3, <2>4 DEF TiledSet
<1> QED
  BY <1>1, <1>2

-----------------------------------------------------------------------------
(***************************************************************************)
(* A request that nobody disturbs, step by step; rs are the rows there are. *)
(***************************************************************************)
Kept(r, rs, ix) == Tiled(r.before, ix) => Tiled(rs, ix)
Same(r, rs, ix) == Of(rs, ix) = Of(r.before, ix)

NewSegment(r, id) == [id |-> id, ix |-> r.ix, start |-> r.start, end |-> r.end, dur |-> r.dur]

\* Untouched until its turn comes, and settled afterwards: the other index.
OtherIndex(r, rs) ==
  /\ r.ix = "main" => Same(r, rs, "alt")
  /\ r.ix = "alt" => Kept(r, rs, "main")

\* Adding the segment that r holds would leave the index tiled.
Fits(r, rs) == Tiled(r.before, r.ix) => \A id : TiledSet(Of(rs, r.ix) \cup {NewSegment(r, id)})

Creating(r, rs) ==
  /\ r.pc \in Saving \cup {"twin"} /\ r.id = None /\ r.altId = None
  /\ OtherIndex(r, rs)
  /\ r.pc \in {"neighbours", "shorten"} => Same(r, rs, r.ix)
  /\ r.pc = "shorten" =>
       /\ \A y : EarliestAfter(Of(rs, r.ix), r.start, y) => r.end = y.start /\ r.dur = y.start - r.start
       /\ \E p : LatestBefore(Of(rs, r.ix), r.start, p) /\ p.id = r.prev
  /\ r.pc = "validate" => (Within(r.start) /\ (\A x \in Of(rs, r.ix) : x.start # r.start) => Fits(r, rs))
  /\ r.pc = "write" => Fits(r, rs)
  /\ r.pc = "twin" => r.ix = "main" /\ Kept(r, rs, "main")

Removing(r, rs) ==
  /\ r.pc \in Deleting
  /\ OtherIndex(r, rs)
  /\ r.pc \in {"find", "fix"} =>
       /\ Same(r, rs, r.ix)
       /\ \E d \in Of(rs, r.ix) : d.id = r.id /\ d.start = r.start
  /\ r.pc = "fix" =>
       /\ \E p : LatestBefore(Of(rs, r.ix), r.start, p) /\ p.id = r.prev
       /\ \A y : EarliestAfter(Of(rs, r.ix), r.start, y) => r.fix = y.start
  /\ r.pc = "delete" =>
       /\ \A x \in rs : x.id = r.id => x.ix = r.ix
       /\ Tiled(r.before, r.ix) => TiledSet({x \in Of(rs, r.ix) : x.id # r.id})

\* What holds of a request that has been alone.
OnCourse(r, rs) ==
  r.solo /\ r.endTime = None =>
    /\ r.op = "create" /\ r.pc \in Running => Creating(r, rs)
    /\ r.op = "destroy" /\ r.pc \in Running => Removing(r, rs)
    /\ r.op \in {"create", "destroy"} /\ r.pc = "done" => \A ix \in Indexes : Kept(r, rs, ix)

TileInv ==
  \A e \in Editors :
    /\ req[e].solo => \A x \in Editors \ {e} : req[x].pc \notin Running
    /\ OnCourse(req[e], rows)

\* A step of e changes no other request, and ends the course of those that were
\* alone, unless e was.
LEMMA Carried ==
  ASSUME RequestsFormed, TileInv, kind' = kind, NEW e \in Editors, req[e].pc \in Running,
         NEW q, req' = [req EXCEPT ![e] = q], q.solo = req[e].solo,
         NEW rs, rows' = rs, OnCourse(q, rs)
  PROVE  TileInv'
<1>1. \A x \in Editors : req'[x] = IF x = e THEN q ELSE req[x]
  BY DEF RequestsFormed
<1>2. \A x \in Editors : req'[x].solo => \A y \in Editors \ {x} : req'[y].pc \notin Running
  BY <1>1 DEF TileInv
<1>3. \A x \in Editors \ {e} : ~req[x].solo
  BY DEF TileInv
<1>4. \A x \in Editors : OnCourse(req'[x], rows')
  BY <1>1, <1>3 DEF OnCourse
<1> QED
  BY <1>2, <1>4 DEF TileInv, OnCourse, Creating, Removing, Indexes, Within

LEMMA TileInvInit == Init => TileInv
BY DEF Init, TileInv, Idle, OnCourse, Running, Ended

LEMMA TileInvStutters == TileInv /\ UNCHANGED vars => TileInv'
BY DEF vars, TileInv, OnCourse, Creating, Removing, Indexes, Within

LEMMA BeginTiles ==
  ASSUME TInv, kind' = kind, rows' = rows, NEW e \in Editors, NEW r, Formed(r), Begin(e, r),
         \A s \in BOOLEAN : OnCourse([r EXCEPT !.before = rows, !.solo = s], rows)
  PROVE  TileInv'
<1> DEFINE alone == \A y \in Editors \ {e} : req[y].pc \notin Running
           q(x) == IF x = e THEN [r EXCEPT !.before = rows, !.solo = alone]
                   ELSE [req[x] EXCEPT !.solo = FALSE]
<1>1. \A x \in Editors : req'[x] = q(x)
  BY DEF Begin
<1>2. /\ q(e).solo = alone
      /\ \A x \in Editors \ {e} : ~q(x).solo /\ q(x).pc = req[x].pc
  BY DEF TInv, RequestsFormed, Formed, Fields
<1>3. OnCourse(q(e), rows)
  OBVIOUS
<1>4. \A x \in Editors \ {e} : OnCourse(q(x), rows)
  BY <1>2 DEF OnCourse
<1> HIDE DEF q
<1>5. \A x \in Editors : req'[x].solo => \A y \in Editors \ {x} : req'[y].pc \notin Running
  BY <1>1, <1>2
<1>6. \A x \in Editors : OnCourse(req'[x], rows')
  BY <1>1, <1>3, <1>4
<1> QED
  BY <1>5, <1>6 DEF TileInv, OnCourse, Creating, Removing, Indexes, Within

LEMMA SubmitTiles ==
  ASSUME TInv, kind' = kind, NEW e \in Editors, Submit(e)
  PROVE  TileInv'
<1>1. rows' = rows /\ kind \in Kinds /\ RowsOK
  BY SubmitForms DEF TInv
<1>2. ASSUME NEW r, Formed(r), Begin(e, r),
             \/ /\ r.pc = "neighbours" /\ r.op = "create" /\ r.ix = "main"
                /\ r.id = None /\ r.altId = None
             \/ r.op = "update"
             \/ /\ r.pc = "find" /\ r.op = "destroy" /\ r.ix = "main"
                /\ \E x \in Of(rows, "main") : r.id = x.id /\ r.start = x.start
      PROVE  TileInv'
  <2>1. ASSUME NEW s \in BOOLEAN PROVE OnCourse([r EXCEPT !.before = rows, !.solo = s], rows)
    <3> DEFINE q == [r EXCEPT !.before = rows, !.solo = s]
    <3>1. q.before = rows /\ \A f \in Fields \ {"before", "solo"} : q[f] = r[f]
      BY <1>2 DEF Formed, Fields
    <3> HIDE DEF q
    <3>2. OnCourse(q, rows)
      BY <1>2, <3>1 DEF OnCourse, Creating, Removing, OtherIndex, Same, Saving, Deleting, Running, Fields
    <3> QED
      BY <3>2 DEF q
  <2> QED
    BY <1>1, <1>2, <2>1, BeginTiles
<1>3. \A x \in In("main") : x \in Of(rows, "main")
  BY DEF In, Of
<1>4. ASSUME NEW t \in Times, NEW play \in kind.playTimes, NEW endTime \in kind.endTimes,
             NEW length \in kind.lengths, NEW titled \in [Both -> kind.titles],
             \/ Create(e, t, play, endTime, length, titled)
             \/ \E x \in In("main") : Update(e, x, t, play, endTime, length, titled)
      PROVE  TileInv'
  BY <1>1, <1>2, <1>4, CreateFormed, UpdateFormed
<1>5. ASSUME NEW x \in In("main"), Destroy(e, x)
      PROVE  TileInv'
  BY <1>1, <1>2, <1>3, <1>5, DestroyFormed
<1> QED
  BY <1>4, <1>5 DEF Submit

\* A step changes neither what was asked for nor what it started from.
LEMMA StepOfOne ==
  ASSUME TInv, NEW e \in Editors, Step(e)
  PROVE  /\ req[e].pc \in Running /\ req' = [req EXCEPT ![e] = req'[e]]
         /\ req'[e].solo = req[e].solo /\ req'[e].endTime = req[e].endTime
         /\ req'[e].op = req[e].op /\ req'[e].play = req[e].play
         /\ req'[e].t = req[e].t /\ req'[e].before = req[e].before
<1> DEFINE r == req[e]
           same(q) == /\ q.solo = r.solo /\ q.endTime = r.endTime /\ q.op = r.op
                      /\ q.play = r.play /\ q.t = r.t /\ q.before = r.before
<1>1. DOMAIN req = Editors /\ DOMAIN r = Fields
  BY DEF TInv, RequestsFormed, Formed
<1>2. r.pc \in Running
  BY DEF Step, Assign, Neighbours, Shorten, Validate, Write, Twin, Find, Fix, Delete, Running
<1>3. ASSUME NEW pc, Goto(e, pc) PROVE \E q : req' = [req EXCEPT ![e] = q] /\ same(q)
  <2>1. req' = [req EXCEPT ![e] = [r EXCEPT !.pc = pc]] /\ same([r EXCEPT !.pc = pc])
    BY <1>1, <1>3 DEF Goto, Fields
  <2> QED
    BY <2>1
<1>4. \E q : req' = [req EXCEPT ![e] = q] /\ same(q)
  <2>1. CASE Assign(e)
    <3> DEFINE next(x, id) == [r EXCEPT !.pc = "neighbours", !.id = id, !.start = Wanted(r),
                                 !.end = x.end, !.dur = x.dur,
                                 !.held = [start |-> x.start, end |-> x.end, dur |-> x.dur]]
    <3>1. Goto(e, "failed") \/ \E x, id : req' = [req EXCEPT ![e] = next(x, id)]
      BY <2>1 DEF Assign
    <3>2. \A x, id : same(next(x, id))
      BY <1>1 DEF Fields
    <3> HIDE DEF next, same
    <3> QED
      BY <1>3, <3>1, <3>2
  <2>2. CASE Neighbours(e)
    <3> DEFINE given == [r EXCEPT !.end = r.endTime, !.pc = "validate"]
               ended(m) == [r EXCEPT !.end = m, !.dur = m - r.start, !.pc = "validate"]
               next(m, v) == [r EXCEPT !.end = m, !.dur = m - r.start, !.pc = "shorten", !.prev = v]
    <3>1. \/ req' = [req EXCEPT ![e] = given]
          \/ \E m : req' = [req EXCEPT ![e] = ended(m)]
          \/ \E m, v : req' = [req EXCEPT ![e] = next(m, v)]
      BY <1>1, <2>2 DEF Neighbours, Fields
    <3>2. same(given) /\ \A m, v : same(ended(m)) /\ same(next(m, v))
      BY <1>1 DEF Fields
    <3> HIDE DEF given, ended, next, same
    <3> QED
      BY <3>1, <3>2
  <2>3. CASE Twin(e)
    <3> DEFINE twin == [r EXCEPT !.ix = "alt", !.id = r.altId, !.end = None, !.dur = None,
                          !.held = Nothing, !.prev = None]
               next(c, v) == [twin EXCEPT !.pc = c, !.start = v]
    <3>1. \E c, v : req' = [req EXCEPT ![e] = next(c, v)]
      BY <2>3 DEF Twin
    <3>2. \A c, v : same(next(c, v))
      BY <1>1 DEF Fields
    <3> HIDE DEF next, same
    <3> QED
      BY <3>1, <3>2
  <2>4. CASE Find(e)
    <3> DEFINE next(v, x) == [r EXCEPT !.pc = "fix", !.prev = v, !.fix = x]
    <3>1. Goto(e, "delete") \/ \E v, x : req' = [req EXCEPT ![e] = next(v, x)]
      BY <2>4 DEF Find
    <3>2. \A v, x : same(next(v, x))
      BY <1>1 DEF Fields
    <3> HIDE DEF next, same
    <3> QED
      BY <1>3, <3>1, <3>2
  <2>5. CASE Delete(e)
    <3> DEFINE next(x) == [r EXCEPT !.pc = "find", !.ix = "alt", !.id = x.id, !.start = x.start,
                             !.end = x.end, !.dur = x.dur, !.prev = None, !.fix = None]
    <3>1. Goto(e, "done") \/ Goto(e, "failed") \/ \E x : req' = [req EXCEPT ![e] = next(x)]
      BY <2>5 DEF Delete
    <3>2. \A x : same(next(x))
      BY <1>1 DEF Fields
    <3> HIDE DEF next, same
    <3> QED
      BY <1>3, <3>1, <3>2
  <2>6. CASE Shorten(e) \/ Validate(e) \/ Write(e) \/ Fix(e)
    <3>1. \E pc : Goto(e, pc)
      BY <2>6 DEF Shorten, Validate, Write, Fix
    <3> QED
      BY <1>3, <3>1
  <2> QED
    BY <2>1, <2>2, <2>3, <2>4, <2>5, <2>6 DEF Step
<1> QED
  BY <1>1, <1>2, <1>4

\* The neighbours are the ones the tilings speak of.
LEMMA NeighboursRight ==
  ASSUME RowsOK, NEW ix, NEW t \in Nat
  PROVE  LET S == Of(rows, ix) IN
         /\ Earlier(ix, t) = {} <=> \A x \in S : ~(x.start < t)
         /\ Later(ix, t) = {} <=> \A x \in S : ~(x.start > t)
         /\ \A p \in Latest(Earlier(ix, t)) : LatestBefore(S, t, p)
         /\ Later(ix, t) # {} => \A y : EarliestAfter(S, t, y) =>
              (CHOOSE x \in Earliest(Later(ix, t)) : TRUE).start = y.start
<1> DEFINE S == Of(rows, ix)
           first == CHOOSE x \in Earliest(Later(ix, t)) : TRUE
<1>1. In(ix) = S /\ \A x \in S : x.start \in Nat
  BY DEF In, Of, RowsOK, Row
<1>2. Earlier(ix, t) = {x \in S : x.start < t} /\ Later(ix, t) = {x \in S : x.start > t}
  BY <1>1 DEF Earlier, Later
<1>3. \A p \in Latest(Earlier(ix, t)) : LatestBefore(S, t, p)
  BY <1>2 DEF Latest, LatestBefore
<1>4. ASSUME Later(ix, t) # {}, NEW y, EarliestAfter(S, t, y) PROVE first.start = y.start
  <2>1. Later(ix, t) \in SUBSET rows
    BY <1>2 DEF Of
  <2>2. first \in Later(ix, t) /\ \A z \in Later(ix, t) : first.start <= z.start
    BY <1>4, <2>1, EarliestThere
  <2> HIDE DEF first
  <2>3. y \in Later(ix, t) /\ \A z \in Later(ix, t) : y.start <= z.start
    BY <1>2, <1>4 DEF EarliestAfter
  <2>4. first.start \in Nat /\ y.start \in Nat
    BY <1>1, <1>2, <2>2, <2>3
  <2> QED
    BY <2>2, <2>3, <2>4
<1> QED
  BY <1>2, <1>3, <1>4

\* What rewriting the end of a segment does to the rows.
LEMMA EndingOf ==
  ASSUME RowsOK, NEW p \in rows, NEW t \in Nat
  PROVE  \E d : /\ d.start = p.start /\ d.id = p.id /\ d.ix = p.ix
                /\ d.end = t /\ d.dur = t - p.start
                /\ Ending(p.id, t) \in {rows, (rows \ {p}) \cup {d}}
                /\ Acceptable(d) => Ending(p.id, t) = (rows \ {p}) \cup {d}
<1> DEFINE d == [p EXCEPT !.end = t, !.dur = t - p.start]
<1>1. Get(p.id) = p
  BY DEF Get, RowsOK
<1>2. d.start = p.start /\ d.id = p.id /\ d.ix = p.ix /\ d.end = t /\ d.dur = t - p.start
  BY DEF RowsOK, Row
<1>3. Ending(p.id, t) = Saved(d)
  BY <1>1 DEF Ending
<1> HIDE DEF d
<1>4. {y \in rows : y.id # d.id} = rows \ {p}
  BY <1>2 DEF RowsOK
<1>5. /\ Ending(p.id, t) \in {rows, (rows \ {p}) \cup {d}}
      /\ Acceptable(d) => Ending(p.id, t) = (rows \ {p}) \cup {d}
  BY <1>3, <1>4 DEF Saved
<1> QED
  BY <1>2, <1>5

-----------------------------------------------------------------------------
(***************************************************************************)
(* Creating, one step at a time.                                           *)
(***************************************************************************)
\* What a request knows once it has looked at the segments around its own.
LEMMA NeighboursFound ==
  ASSUME TInv, NEW e \in Editors, NEW q, req'[e] = q, req[e].endTime = None, Neighbours(e)
  PROVE  LET r == req[e] IN
         /\ q.end = EndOf(r.ix, r.start, r.length) /\ q.dur = q.end - r.start
         /\ \A f \in Fields \ {"pc", "end", "dur", "prev"} : q[f] = r[f]
         /\ \/ q.pc = "validate" /\ Earlier(r.ix, r.start) = {}
            \/ q.pc = "shorten" /\ \E p \in Latest(Earlier(r.ix, r.start)) : q.prev = p.id
<1> DEFINE r == req[e]
           end == EndOf(r.ix, r.start, r.length)
           ended == [r EXCEPT !.end = end, !.dur = end - r.start]
           last == [ended EXCEPT !.pc = "validate"]
           next(v) == [ended EXCEPT !.pc = "shorten", !.prev = v]
<1>1. DOMAIN req = Editors /\ DOMAIN r = Fields
  BY DEF TInv, RequestsFormed, Formed
<1>2. \/ /\ Earlier(r.ix, r.start) = {}
         /\ req' = [req EXCEPT ![e] = [ended EXCEPT !.pc = "validate"]]
      \/ \E p \in Latest(Earlier(r.ix, r.start)) :
           req' = [req EXCEPT ![e] = [ended EXCEPT !.pc = "shorten", !.prev = p.id]]
  BY DEF Neighbours, EndOf
<1> HIDE DEF end
<1>3. /\ DOMAIN ended = Fields /\ ended.end = end /\ ended.dur = end - r.start
      /\ \A f \in Fields \ {"end", "dur"} : ended[f] = r[f]
  BY <1>1 DEF Fields
<1>4. \/ q = last /\ Earlier(r.ix, r.start) = {}
      \/ \E p \in Latest(Earlier(r.ix, r.start)) : q = next(p.id)
  BY <1>1, <1>2
<1> HIDE DEF ended
<1>5. /\ last.pc = "validate" /\ \A f \in Fields \ {"pc"} : last[f] = ended[f]
      /\ \A v : /\ next(v).pc = "shorten" /\ next(v).prev = v
                /\ \A f \in Fields \ {"pc", "prev"} : next(v)[f] = ended[f]
  BY <1>3 DEF Fields
<1> HIDE DEF last, next
<1> QED
  BY <1>3, <1>4, <1>5 DEF Fields, end

LEMMA CreateNeighbours ==
  ASSUME TInv, NEW e \in Editors, NEW q, req'[e] = q, Creating(req[e], rows), req[e].endTime = None, Neighbours(e)
  PROVE  Creating(q, rows')
<1> DEFINE r == req[e]
           S == Of(rows, r.ix)
           end == EndOf(r.ix, r.start, r.length)
<1>1. /\ RowsOK /\ DOMAIN req = Editors /\ DOMAIN r = Fields /\ r.before \subseteq Row
      /\ r.start \in Nat /\ r.pc = "neighbours" /\ rows' = rows
  BY DEF TInv, RequestsFormed, Formed, Neighbours, Saving
<1>2. /\ q.end = end /\ q.dur = end - r.start
      /\ q.id = r.id /\ q.altId = r.altId /\ q.ix = r.ix /\ q.start = r.start /\ q.before = r.before
      /\ \/ q.pc = "validate" /\ Earlier(r.ix, r.start) = {}
         \/ q.pc = "shorten" /\ \E p \in Latest(Earlier(r.ix, r.start)) : q.prev = p.id
  BY NeighboursFound DEF Fields
<1>3. \A y : EarliestAfter(S, r.start, y) => end = y.start
  BY <1>1, NeighboursRight DEF EndOf, EarliestAfter
<1>4. Same(r, rows, r.ix) /\ OtherIndex(r, rows) /\ r.id = None /\ r.altId = None
  BY <1>1 DEF Creating
<1> HIDE DEF end
<1>5. CASE q.pc = "validate" /\ Earlier(r.ix, r.start) = {}
  <2>1. ASSUME Tiled(r.before, r.ix), \A x \in S : x.start # r.start, NEW id
        PROVE  TiledSet(S \cup {NewSegment(q, id)})
    <3> DEFINE n == NewSegment(q, id)
    <3>1. n.start = r.start /\ \A y : EarliestAfter(S, n.start, y) => Meets(n, y.start)
      BY <1>2, <1>3 DEF NewSegment, Meets
    <3>2. TiledSet(S)
      BY <1>1, <1>4, <2>1, TiledIsTiledSet DEF Same
    <3>3. \A x \in S : x.start \in Nat /\ ~(x.start < r.start)
      BY <1>1, <1>5, NeighboursRight DEF Of, RowsOK, Row
    <3> HIDE DEF n, S
    <3> QED
      BY <1>1, <2>1, <3>1, <3>2, <3>3, InsertRow DEF n
  <2>2. (\A x \in Of(rows, q.ix) : x.start # q.start) => Fits(q, rows)
    BY <1>2, <2>1 DEF Fits
  <2> QED
    BY <1>1, <1>2, <1>4, <1>5, <2>2 DEF Creating, Saving, OtherIndex, Same, Kept
<1>6. CASE q.pc = "shorten" /\ \E p \in Latest(Earlier(r.ix, r.start)) : q.prev = p.id
  <2>1. \E p : LatestBefore(Of(rows, q.ix), q.start, p) /\ p.id = q.prev
    BY <1>1, <1>2, <1>6, NeighboursRight
  <2>2. \A y : EarliestAfter(Of(rows, q.ix), q.start, y) => q.end = y.start /\ q.dur = y.start - q.start
    BY <1>2, <1>3
  <2> QED
    BY <1>1, <1>2, <1>4, <1>6, <2>1, <2>2 DEF Creating, Saving, OtherIndex, Same, Kept
<1> QED
  BY <1>2, <1>5, <1>6

LEMMA CreateShorten ==
  ASSUME TInv, NEW e \in Editors, NEW q, req'[e] = q, Creating(req[e], rows), Shorten(e), q.pc \in Running
  PROVE  Creating(q, rows')
<1> DEFINE r == req[e]
           S == Of(rows, r.ix)
           T == Of(rows', r.ix)
<1>1. /\ RowsOK /\ DOMAIN req = Editors /\ DOMAIN r = Fields /\ r.before \subseteq Row
      /\ r.start \in Nat /\ r.pc = "shorten"
  BY DEF TInv, RequestsFormed, Formed, Shorten, Saving
<1>2. rows' = Ending(r.prev, r.start) /\ Goto(e, "validate")
  <2>1. Goto(e, "failed") => q.pc = "failed"
    BY <1>1 DEF Goto, Fields
  <2> QED
    BY <2>1 DEF Shorten, Running
<1>3. q.pc = "validate" /\ \A f \in Fields \ {"pc"} : q[f] = r[f]
  BY <1>1, <1>2 DEF Goto, Fields
<1>4. PICK p : LatestBefore(S, r.start, p) /\ p.id = r.prev
  BY <1>1 DEF Creating
<1>5. /\ Same(r, rows, r.ix) /\ OtherIndex(r, rows) /\ r.id = None /\ r.altId = None
      /\ \A y : EarliestAfter(S, r.start, y) => r.end = y.start /\ r.dur = y.start - r.start
  BY <1>1 DEF Creating
<1>6. p \in rows /\ p.ix = r.ix /\ p \in S /\ p.start < r.start
  BY <1>4 DEF LatestBefore, Of
<1>7. PICK d :
      /\ d.start = p.start /\ d.id = p.id /\ d.ix = p.ix /\ d.end = r.start /\ d.dur = r.start - p.start
      /\ rows' \in {rows, (rows \ {p}) \cup {d}}
      /\ Acceptable(d) => rows' = (rows \ {p}) \cup {d}
  BY <1>1, <1>2, <1>4, <1>6, EndingOf
<1>8. OtherIndex(q, rows')
  <2>1. \A ix : ix # r.ix => Of(rows', ix) = Of(rows, ix)
    BY <1>6, <1>7 DEF Of
  <2>2. q.ix = r.ix /\ q.before = r.before
    BY <1>3 DEF Fields
  <2>3. r.ix = "main" => Same(q, rows', "alt")
    BY <1>5, <2>1, <2>2 DEF OtherIndex, Same
  <2>4. r.ix = "alt" => Kept(q, rows', "main")
    BY <1>5, <2>1, <2>2 DEF OtherIndex, Kept, Tiled
  <2> QED
    BY <2>2, <2>3, <2>4 DEF OtherIndex
<1>9. ASSUME Within(r.start), \A x \in T : x.start # r.start, Tiled(r.before, r.ix), NEW id
      PROVE  TiledSet(T \cup {NewSegment(q, id)})
  <2> DEFINE n == NewSegment(q, id)
  <2>1. TiledSet(S)
    BY <1>1, <1>5, <1>9, TiledIsTiledSet DEF Same
  <2>2. \A x \in rows : x.start \in Nat /\ Within(x.start)
    BY <1>1 DEF RowsOK, Row
  <2>3. Acceptable(d)
    <3>1. \A y \in In(d.ix) : y.id # d.id => y.start # d.start
      BY <1>6, <1>7, <2>1 DEF TiledSet, In, Of
    <3>2. d.end >= d.start
      BY <1>1, <1>6, <1>7, <2>2
    <3> QED
      BY <1>6, <1>7, <1>9, <2>2, <3>1, <3>2 DEF Acceptable
  <2>4. T = (S \ {p}) \cup {d}
    BY <1>6, <1>7, <2>3 DEF Of
  <2>5. n.start = r.start /\ \A y : EarliestAfter(S, n.start, y) => Meets(n, y.start)
    BY <1>3, <1>5 DEF NewSegment, Meets, Fields
  <2>6. (\A x \in S : x.start \in Nat) /\ p.start \in Nat
    BY <1>6, <2>2 DEF Of
  <2>7. \A x \in S : x.start # r.start
    BY <1>1, <1>6, <1>9, <2>4, <2>6
  <2>8. Meets(d, r.start) /\ d.start = p.start
    BY <1>7 DEF Meets
  <2> HIDE DEF n, S, T
  <2>9. \A x \in S \cup T \cup {n} : x.start \in Nat
    BY <1>1, <2>4, <2>5, <2>6, <2>8
  <2>10. TiledSet(T \cup {n})
    BY <1>4, <2>1, <2>4, <2>5, <2>7, <2>8, <2>9, InsertRow
  <2> QED
    BY <2>10 DEF n
<1>10. Within(q.start) /\ (\A x \in Of(rows', q.ix) : x.start # q.start) => Fits(q, rows')
  BY <1>3, <1>9 DEF Fits, Fields
<1> QED
  BY <1>3, <1>5, <1>8, <1>10 DEF Creating, Saving, Fields

LEMMA CreateValidate ==
  ASSUME TInv, NEW e \in Editors, NEW q, req'[e] = q, Creating(req[e], rows), Validate(e), q.pc \in Running
  PROVE  Creating(q, rows')
<1> DEFINE r == req[e]
           x == [id |-> r.id, ix |-> r.ix, start |-> r.start, end |-> r.end, dur |-> r.dur]
<1>1. /\ RowsOK /\ DOMAIN req = Editors /\ DOMAIN r = Fields /\ r.pc = "validate" /\ rows' = rows
  BY DEF TInv, RequestsFormed, Formed, Validate
<1>2. Goto(e, "write") /\ Acceptable(x)
  <2>1. Goto(e, "refused") => q.pc = "refused"
    BY <1>1 DEF Goto, Fields
  <2> QED
    BY <2>1 DEF Validate, Running
<1>3. q.pc = "write" /\ \A f \in Fields \ {"pc"} : q[f] = r[f]
  BY <1>1, <1>2 DEF Goto, Fields
<1>4. r.id = None /\ r.altId = None /\ OtherIndex(r, rows)
      /\ (Within(r.start) /\ (\A y \in Of(rows, r.ix) : y.start # r.start) => Fits(r, rows))
  BY <1>1 DEF Creating
<1>5. Within(r.start) /\ \A y \in Of(rows, r.ix) : y.start # r.start
  <2>1. \A y \in Of(rows, r.ix) : y.id # None /\ y \in In(r.ix)
    BY <1>1, ConstantsAssumption DEF RowsOK, Row, Ids, Of, In
  <2>2. x.id = None /\ x.ix = r.ix /\ x.start = r.start
    BY <1>4
  <2> HIDE DEF x
  <2> QED
    BY <1>2, <2>1, <2>2 DEF Acceptable
<1>6. Fits(q, rows) /\ OtherIndex(q, rows)
  BY <1>3, <1>4, <1>5 DEF Fits, NewSegment, OtherIndex, Same, Kept, Fields
<1> QED
  BY <1>1, <1>3, <1>4, <1>6 DEF Creating, Saving, Fields

LEMMA CreateWrite ==
  ASSUME TInv, kind' = kind, NEW e \in Editors, NEW q, req'[e] = q,
         Creating(req[e], rows), Write(e)
  PROVE  \/ q.pc = "twin" /\ Creating(q, rows')
         \/ q.pc = "done" /\ \A ix \in Indexes : Kept(q, rows', ix)
<1> DEFINE r == req[e]
           n == NewSegment(r, lastId + 1)
<1>1. /\ RowsOK /\ DOMAIN req = Editors /\ DOMAIN r = Fields /\ r.pc = "write" /\ r.ix \in Indexes
      /\ rows' \subseteq Row /\ rows \subseteq Row
  BY WriteRows DEF TInv, RequestsFormed, Formed, Write, RowsOK
<1>2. r.id = None /\ r.altId = None /\ OtherIndex(r, rows) /\ Fits(r, rows)
  BY <1>1 DEF Creating
<1>3. rows' = rows \cup {n}
  BY <1>2 DEF Write, NewSegment
<1>4. /\ q.pc = IF kind.translated /\ r.ix = "main" THEN "twin" ELSE "done"
      /\ \A f \in Fields \ {"pc"} : q[f] = r[f]
  BY <1>1 DEF Write, Goto, Fields
<1>5. /\ Of(rows', r.ix) = Of(rows, r.ix) \cup {n}
      /\ \A ix : ix # r.ix => Of(rows', ix) = Of(rows, ix)
  BY <1>3 DEF Of, NewSegment
<1> HIDE DEF n
<1>6. Kept(q, rows', r.ix)
  <2> SUFFICES ASSUME Tiled(r.before, r.ix) PROVE Tiled(rows', r.ix)
    BY <1>4 DEF Kept, Fields
  <2>1. TiledSet(Of(rows', r.ix))
    BY <1>2, <1>5 DEF Fits, n
  <2> QED
    BY <1>1, <2>1, TiledIsTiledSet
<1>7. /\ q.ix = r.ix /\ q.id = None /\ q.altId = None /\ q.before = r.before
  BY <1>2, <1>4 DEF Fields
<1>8. CASE kind.translated /\ r.ix = "main"
  BY <1>2, <1>4, <1>5, <1>6, <1>7, <1>8 DEF Creating, OtherIndex, Same
<1>9. CASE kind.translated /\ r.ix = "alt"
  <2>1. Kept(q, rows', "main")
    BY <1>2, <1>5, <1>7, <1>9 DEF OtherIndex, Kept, Tiled
  <2> QED
    BY <1>4, <1>6, <1>9, <2>1 DEF Indexes
<1>10. CASE ~kind.translated
  BY <1>1, <1>4, <1>6, <1>10 DEF Indexes
<1> QED
  BY <1>1, <1>8, <1>9, <1>10 DEF Indexes

LEMMA CreateTwin ==
  ASSUME TInv, NEW e \in Editors, NEW q, req'[e] = q, Creating(req[e], rows),
         req[e].op = "create", Twin(e)
  PROVE  q.pc = "neighbours" /\ Creating(q, rows')
<1> DEFINE r == req[e]
           twin == [r EXCEPT !.ix = "alt", !.id = r.altId, !.end = None, !.dur = None,
                      !.held = Nothing, !.prev = None]
           anew == [twin EXCEPT !.pc = "neighbours", !.start = Wanted(twin)]
<1>1. DOMAIN req = Editors /\ DOMAIN r = Fields /\ r.pc = "twin" /\ rows' = rows
  BY DEF TInv, RequestsFormed, Formed, Twin
<1>2. /\ DOMAIN twin = Fields /\ twin.ix = "alt" /\ twin.id = r.altId /\ twin.altId = r.altId
      /\ twin.before = r.before
  BY <1>1 DEF Fields
<1>3. q = anew
  BY <1>1 DEF Twin
<1> HIDE DEF twin
<1>4. /\ anew.pc = "neighbours" /\ anew.ix = "alt" /\ anew.id = r.altId /\ anew.altId = r.altId
      /\ anew.before = r.before
  BY <1>2 DEF Fields
<1> HIDE DEF anew
<1>5. r.altId = None /\ Same(r, rows, "alt") /\ Kept(r, rows, "main")
  BY <1>1 DEF Creating, OtherIndex
<1> QED
  BY <1>1, <1>3, <1>4, <1>5 DEF Creating, OtherIndex, Same, Kept, Saving

-----------------------------------------------------------------------------
(***************************************************************************)
(* Deleting, one step at a time.                                           *)
(***************************************************************************)
LEMMA RemoveFind ==
  ASSUME TInv, NEW e \in Editors, NEW q, req'[e] = q, Removing(req[e], rows), Find(e)
  PROVE  q.pc \in {"fix", "delete"} /\ Removing(q, rows')
<1> DEFINE r == req[e]
           S == Of(rows, r.ix)
           fix == IF Later(r.ix, r.start) = {} THEN Seconds(r.end)
                  ELSE (CHOOSE x \in Earliest(Later(r.ix, r.start)) : TRUE).start
           next(v) == [r EXCEPT !.pc = "fix", !.prev = v, !.fix = fix]
           last == [r EXCEPT !.pc = "delete"]
<1>1. /\ RowsOK /\ DOMAIN req = Editors /\ DOMAIN r = Fields /\ r.pc = "find" /\ rows' = rows
      /\ r.start \in Nat /\ rows \subseteq Row /\ r.before \subseteq Row
  BY DEF TInv, RequestsFormed, Formed, Find, Deleting, RowsOK
<1>2. /\ OtherIndex(r, rows) /\ Same(r, rows, r.ix)
      /\ \E d \in S : d.id = r.id /\ d.start = r.start
  BY <1>1 DEF Removing
<1>3. \/ q = last /\ Earlier(r.ix, r.start) = {}
      \/ \E p \in Latest(Earlier(r.ix, r.start)) : q = next(p.id)
  BY <1>1 DEF Find, Goto
<1>4. \A y : EarliestAfter(S, r.start, y) => fix = y.start
  BY <1>1, NeighboursRight DEF EarliestAfter
<1> HIDE DEF fix
<1>5. CASE q = last /\ Earlier(r.ix, r.start) = {}
  <2>1. q.pc = "delete" /\ \A f \in Fields \ {"pc"} : q[f] = r[f]
    BY <1>1, <1>5 DEF Fields
  <2>2. q.ix = r.ix /\ q.id = r.id /\ q.before = r.before
    BY <2>1 DEF Fields
  <2>3. \A x \in rows : x.id = r.id => x.ix = r.ix
    BY <1>1, <1>2 DEF RowsOK, Of
  <2>4. ASSUME Tiled(r.before, r.ix) PROVE TiledSet({x \in S : x.id # r.id})
    <3>1. PICK d \in S : d.id = r.id /\ d.start = r.start
      BY <1>2
    <3>2. TiledSet(S)
      BY <1>1, <1>2, <2>4, TiledIsTiledSet DEF Same
    <3>3. \A x \in S : x.start \in Nat /\ ~(x.start < d.start)
      BY <1>1, <1>5, <3>1, NeighboursRight DEF Of, Row
    <3>4. {x \in S : x.id # r.id} = S \ {d}
      BY <1>1, <3>1 DEF RowsOK, Of
    <3>5. TiledSet(S \ {d})
      <4> HIDE DEF S
      <4> QED
        BY <3>1, <3>2, <3>3, RemoveRow
    <3> QED
      BY <3>4, <3>5
  <2> QED
    BY <1>1, <1>2, <2>1, <2>2, <2>3, <2>4 DEF Removing, Deleting, OtherIndex, Same, Kept
<1>6. CASE \E p \in Latest(Earlier(r.ix, r.start)) : q = next(p.id)
  <2>1. PICK p \in Latest(Earlier(r.ix, r.start)) : q = next(p.id)
    BY <1>6
  <2>2. /\ q.pc = "fix" /\ q.prev = p.id /\ q.fix = fix
        /\ q.ix = r.ix /\ q.id = r.id /\ q.start = r.start /\ q.before = r.before
    BY <1>1, <2>1 DEF Fields
  <2>3. LatestBefore(S, r.start, p)
    BY <1>1, NeighboursRight
  <2> QED
    BY <1>1, <1>2, <1>4, <2>2, <2>3 DEF Removing, Deleting, OtherIndex, Same, Kept
<1> QED
  BY <1>3, <1>5, <1>6

LEMMA RemoveFix ==
  ASSUME TInv, NEW e \in Editors, NEW q, req'[e] = q, Removing(req[e], rows), Fix(e),
         q.pc \in Running
  PROVE  Removing(q, rows')
<1> DEFINE r == req[e]
           S == Of(rows, r.ix)
           T == Of(rows', r.ix)
<1>1. /\ RowsOK /\ DOMAIN req = Editors /\ DOMAIN r = Fields /\ r.pc = "fix"
      /\ r.start \in Nat /\ r.fix \in Nat /\ rows \subseteq Row /\ r.before \subseteq Row
  BY DEF TInv, RequestsFormed, Formed, Fix, Deleting, RowsOK
<1>2. /\ OtherIndex(r, rows) /\ Same(r, rows, r.ix)
      /\ \E d \in S : d.id = r.id /\ d.start = r.start
      /\ \E p : LatestBefore(S, r.start, p) /\ p.id = r.prev
      /\ \A y : EarliestAfter(S, r.start, y) => r.fix = y.start
  BY <1>1 DEF Removing
<1>3. rows' = Ending(r.prev, r.fix) /\ Goto(e, "delete")
  <2>1. Goto(e, "failed") => q.pc = "failed"
    BY <1>1 DEF Goto, Fields
  <2> QED
    BY <2>1 DEF Fix, Running
<1>4. /\ q.pc = "delete" /\ q.ix = r.ix /\ q.id = r.id /\ q.before = r.before
  BY <1>1, <1>3 DEF Goto, Fields
<1>5. PICK p : LatestBefore(S, r.start, p) /\ p.id = r.prev
  BY <1>2
<1>6. PICK d \in S : d.id = r.id /\ d.start = r.start
  BY <1>2
<1>7. p \in rows /\ p.ix = r.ix /\ p \in S /\ p.start < r.start
  BY <1>5 DEF LatestBefore, Of
<1>8. PICK y :
      /\ y.start = p.start /\ y.id = p.id /\ y.ix = p.ix /\ y.end = r.fix /\ y.dur = r.fix - p.start
      /\ rows' \in {rows, (rows \ {p}) \cup {y}}
      /\ Acceptable(y) => rows' = (rows \ {p}) \cup {y}
  BY <1>1, <1>3, <1>5, <1>7, EndingOf
<1>9. OtherIndex(q, rows')
  <2>1. \A ix : ix # r.ix => Of(rows', ix) = Of(rows, ix)
    BY <1>7, <1>8 DEF Of
  <2>2. r.ix = "main" => Same(q, rows', "alt")
    BY <1>2, <1>4, <2>1 DEF OtherIndex, Same
  <2>3. r.ix = "alt" => Kept(q, rows', "main")
    BY <1>2, <1>4, <2>1 DEF OtherIndex, Kept, Tiled
  <2> QED
    BY <1>4, <2>2, <2>3 DEF OtherIndex
<1>10. \A x \in rows' : x.id = r.id => x.ix = r.ix
  BY <1>1, <1>6, <1>7, <1>8 DEF RowsOK, Of
<1>11. ASSUME Tiled(r.before, r.ix) PROVE TiledSet({x \in T : x.id # r.id})
  <2>1. TiledSet(S)
    BY <1>1, <1>2, <1>11, TiledIsTiledSet DEF Same
  <2>2. \A x \in rows : x.start \in Nat /\ Within(x.start)
    BY <1>1 DEF RowsOK, Row
  <2>3. p.id # d.id /\ d.start = r.start
    BY <1>1, <1>6, <1>7 DEF RowsOK, Of
  <2>4. T = S \/ T = (S \ {p}) \cup {y}
    BY <1>7, <1>8 DEF Of
  <2>5. {x \in T : x.id # r.id} = T \ {d}
    <3>1. \A x \in S : x.id = r.id => x = d
      BY <1>1, <1>6 DEF RowsOK, Of
    <3> QED
      BY <1>6, <1>8, <2>3, <2>4, <3>1
  <2>6. \A v : EarliestAfter(S, d.start, v) => Meets(y, v.start)
    BY <1>2, <1>8, <2>3 DEF Meets
  <2>7. CASE T = (S \ {p}) \cup {y}
    <3>1. \A x \in S \cup T : x.start \in Nat
      BY <1>7, <1>8, <2>2, <2>7 DEF Of
    <3>2. TiledSet(T \ {d})
      <4>1. LatestBefore(S, d.start, p) /\ y.start = p.start
        BY <1>5, <1>8, <2>3
      <4> HIDE DEF S, T
      <4> QED
        BY <1>6, <2>1, <2>6, <2>7, <3>1, <4>1, RemoveRow
    <3> QED
      BY <2>5, <3>2
  <2>8. CASE T # (S \ {p}) \cup {y}
    <3>1. ~Acceptable(y) /\ T = S
      BY <1>7, <1>8, <2>4, <2>8 DEF Of
    <3>2. \A x \in S : ~(x.start > d.start)
      <4> SUFFICES ASSUME NEW z \in S, z.start > d.start PROVE FALSE
        OBVIOUS
      <4>1. Later(r.ix, r.start) # {} /\ Later(r.ix, r.start) \in SUBSET rows
        BY <2>3 DEF Later, In, Of
      <4>2. PICK v \in Later(r.ix, r.start) : \A u \in Later(r.ix, r.start) : v.start <= u.start
        BY <1>1, <4>1, EarliestThere
      <4>3. EarliestAfter(S, r.start, v) /\ v \in rows
        BY <4>1, <4>2 DEF EarliestAfter, Later, In, Of
      <4>4. y.end = v.start /\ v.start > r.start
        BY <1>2, <1>8, <4>3 DEF EarliestAfter
      <4>5. Within(y.start) /\ Within(y.end) /\ y.end >= y.start
        BY <1>1, <1>7, <1>8, <2>2, <4>3, <4>4
      <4>6. \A x \in In(y.ix) : x.id # y.id => x.start # y.start
        BY <1>7, <1>8, <2>1 DEF TiledSet, In, Of
      <4> QED
        BY <3>1, <4>5, <4>6 DEF Acceptable
    <3>3. \A x \in S : x.start \in Nat
      BY <2>2 DEF Of
    <3>4. TiledSet(T \ {d})
      <4> HIDE DEF S, T
      <4> QED
        BY <1>6, <2>1, <3>1, <3>2, <3>3, RemoveRow
    <3> QED
      BY <2>5, <3>4
  <2> QED
    BY <2>7, <2>8
<1> QED
  BY <1>4, <1>9, <1>10, <1>11 DEF Removing, Deleting

LEMMA RemoveDelete ==
  ASSUME TInv, kind' = kind, NEW e \in Editors, NEW q, req'[e] = q,
         Removing(req[e], rows), Delete(e)
  PROVE  \/ q.pc = "failed"
         \/ q.pc = "find" /\ Removing(q, rows')
         \/ q.pc = "done" /\ \A ix \in Indexes : Kept(q, rows', ix)
<1> DEFINE r == req[e]
           next(x) == [r EXCEPT !.pc = "find", !.ix = "alt", !.id = x.id, !.start = x.start,
                         !.end = x.end, !.dur = x.dur, !.prev = None, !.fix = None]
<1>1. /\ RowsOK /\ DOMAIN req = Editors /\ DOMAIN r = Fields /\ r.pc = "delete"
      /\ r.ix \in Indexes /\ rows' = {x \in rows : x.id # r.id} /\ rows' \subseteq Row
  BY DEF TInv, RequestsFormed, Formed, Delete, RowsOK
<1>2. /\ OtherIndex(r, rows) /\ \A x \in rows : x.id = r.id => x.ix = r.ix
      /\ Tiled(r.before, r.ix) => TiledSet({x \in Of(rows, r.ix) : x.id # r.id})
  BY <1>1 DEF Removing
<1>3. /\ Of(rows', r.ix) = {x \in Of(rows, r.ix) : x.id # r.id}
      /\ \A ix : ix # r.ix => Of(rows', ix) = Of(rows, ix)
  BY <1>1, <1>2 DEF Of
<1>4. Tiled(r.before, r.ix) => Tiled(rows', r.ix)
  BY <1>1, <1>2, <1>3, TiledIsTiledSet
<1>5. \/ q = [r EXCEPT !.pc = "failed"]
      \/ q = [r EXCEPT !.pc = "done"]
      \/ kind.translated /\ r.ix = "main" /\ \E x \in In("alt") : q = next(x)
  BY <1>1 DEF Delete, Goto
<1>6. CASE q = [r EXCEPT !.pc = "failed"]
  BY <1>1, <1>6 DEF Fields
<1>7. CASE q = [r EXCEPT !.pc = "done"]
  <2>1. q.pc = "done" /\ q.before = r.before
    BY <1>1, <1>7 DEF Fields
  <2>2. r.ix = "main" => Kept(q, rows', "main") /\ Kept(q, rows', "alt")
    BY <1>2, <1>3, <1>4, <2>1 DEF OtherIndex, Kept, Same, Tiled
  <2>3. r.ix = "alt" => Kept(q, rows', "main") /\ Kept(q, rows', "alt")
    BY <1>2, <1>3, <1>4, <2>1 DEF OtherIndex, Kept, Tiled
  <2> QED
    BY <1>1, <2>1, <2>2, <2>3 DEF Indexes
<1>8. CASE kind.translated /\ r.ix = "main" /\ \E x \in In("alt") : q = next(x)
  <2>1. PICK x \in In("alt") : q = next(x)
    BY <1>8
  <2>2. /\ q.pc = "find" /\ q.ix = "alt" /\ q.id = x.id /\ q.start = x.start
        /\ q.before = r.before
    BY <1>1, <2>1 DEF Fields
  <2>3. Of(rows', "alt") = Of(rows, "alt") /\ x \in Of(rows, "alt")
    BY <1>3, <1>8 DEF In, Of
  <2> QED
    BY <1>2, <1>4, <1>8, <2>2, <2>3 DEF Removing, Deleting, OtherIndex, Same, Kept
<1> QED
  BY <1>5, <1>6, <1>7, <1>8

-----------------------------------------------------------------------------
LEMMA StepTiles ==
  ASSUME TInv, TileInv, kind' = kind, NEW e \in Editors, Step(e)
  PROVE  TileInv'
<1>1. PICK q : req'[e] = q
  OBVIOUS
<1> DEFINE r == req[e]
<1>2. /\ r.pc \in Running /\ req' = [req EXCEPT ![e] = q] /\ q.solo = r.solo
      /\ q.endTime = r.endTime /\ q.op = r.op
  BY <1>1, StepOfOne
<1>3. ASSUME NEW pc, Goto(e, pc) PROVE q.pc = pc
  BY <1>1, <1>3 DEF Goto, TInv, RequestsFormed, Formed, Fields
<1>4. ASSUME r.solo, r.endTime = None, r.op = "create"
      PROVE  /\ q.pc \in Running => Creating(q, rows')
             /\ q.pc = "done" => \A ix \in Indexes : Kept(q, rows', ix)
  <2>1. Creating(r, rows)
    BY <1>2, <1>4 DEF TileInv, OnCourse
  <2>2. CASE Neighbours(e)
    <3>1. Creating(q, rows')
      BY <1>1, <1>4, <2>1, <2>2, CreateNeighbours
    <3>2. q.pc # "done"
      BY <3>1 DEF Creating, Saving
    <3> QED
      BY <3>1, <3>2
  <2>3. CASE Shorten(e)
    <3>1. q.pc # "done"
      BY <1>3, <2>3 DEF Shorten
    <3>2. q.pc \in Running => Creating(q, rows')
      BY <1>1, <2>1, <2>3, CreateShorten
    <3> QED
      BY <3>1, <3>2
  <2>4. CASE Validate(e)
    <3>1. q.pc # "done"
      BY <1>3, <2>4 DEF Validate
    <3>2. q.pc \in Running => Creating(q, rows')
      BY <1>1, <2>1, <2>4, CreateValidate
    <3> QED
      BY <3>1, <3>2
  <2>5. CASE Write(e)
    <3>1. \/ q.pc = "twin" /\ Creating(q, rows')
          \/ q.pc = "done" /\ \A ix \in Indexes : Kept(q, rows', ix)
      BY <1>1, <2>1, <2>5, CreateWrite
    <3> QED
      BY <3>1 DEF Running
  <2>6. CASE Twin(e)
    <3>1. q.pc = "neighbours" /\ Creating(q, rows')
      BY <1>1, <1>4, <2>1, <2>6, CreateTwin
    <3> QED
      BY <3>1
  <2>7. ~(Assign(e) \/ Find(e) \/ Fix(e) \/ Delete(e))
    BY <2>1 DEF Creating, Saving, Assign, Find, Fix, Delete
  <2> QED
    BY <2>2, <2>3, <2>4, <2>5, <2>6, <2>7 DEF Step
<1>5. ASSUME r.solo, r.endTime = None, r.op = "destroy"
      PROVE  /\ q.pc \in Running => Removing(q, rows')
             /\ q.pc = "done" => \A ix \in Indexes : Kept(q, rows', ix)
  <2>1. Removing(r, rows)
    BY <1>2, <1>5 DEF TileInv, OnCourse
  <2>2. CASE Find(e)
    <3>1. q.pc \in {"fix", "delete"} /\ Removing(q, rows')
      BY <1>1, <2>1, <2>2, RemoveFind
    <3> QED
      BY <3>1
  <2>3. CASE Fix(e)
    <3>1. q.pc # "done"
      BY <1>3, <2>3 DEF Fix
    <3>2. q.pc \in Running => Removing(q, rows')
      BY <1>1, <2>1, <2>3, RemoveFix
    <3> QED
      BY <3>1, <3>2
  <2>4. CASE Delete(e)
    <3>1. \/ q.pc = "failed"
          \/ q.pc = "find" /\ Removing(q, rows')
          \/ q.pc = "done" /\ \A ix \in Indexes : Kept(q, rows', ix)
      BY <1>1, <2>1, <2>4, RemoveDelete
    <3> QED
      BY <3>1 DEF Running
  <2>5. ~(Assign(e) \/ Neighbours(e) \/ Shorten(e) \/ Validate(e) \/ Write(e) \/ Twin(e))
    BY <2>1 DEF Removing, Deleting, Assign, Neighbours, Shorten, Validate, Write, Twin
  <2> QED
    BY <2>2, <2>3, <2>4, <2>5 DEF Step
<1>6. OnCourse(q, rows')
  BY <1>2, <1>4, <1>5 DEF OnCourse
<1>7. RequestsFormed
  BY DEF TInv
<1> QED
  BY <1>2, <1>6, <1>7, Carried

LEMMA TileInvNext == TInv /\ TileInv /\ [Next]_vars => TileInv'
<1> SUFFICES ASSUME TInv, TileInv, [Next]_vars PROVE TileInv'
  OBVIOUS
<1>1. CASE UNCHANGED vars
  BY <1>1, TileInvStutters
<1>2. ASSUME NEW e \in Editors, Submit(e), kind' = kind PROVE TileInv'
  BY <1>2, SubmitTiles
<1>3. ASSUME NEW e \in Editors, Step(e), kind' = kind PROVE TileInv'
  BY <1>3, StepTiles
<1> QED
  BY <1>1, <1>2, <1>3 DEF Next

LEMMA AlwaysTileInv == Spec => []TileInv
BY TileInvInit, TileInvNext, AlwaysTInv, PTL DEF Spec

\* A request that creates or deletes a segment with no other running meanwhile
\* leaves the segments of each language meeting end to start, if it found them so
\* (set_end_time, update_end_time).
THEOREM SegmentsTile == Spec => []CreateAndDestroyTile
<1>1. TInv /\ TileInv => CreateAndDestroyTile
  BY DEF TileInv, OnCourse, Kept, CreateAndDestroyTile, Undisturbed
<1> QED
  BY <1>1, AlwaysTileInv, AlwaysTInv, PTL

-----------------------------------------------------------------------------
(***************************************************************************)
(* Segments that do not overlap stay so, even when one is moved: then the  *)
(* segment itself may be among its neighbours, where it was or at the      *)
(* start its first saving gave it.                                         *)
(***************************************************************************)
\* No two start together, and each ends before the next one starts.
ApartSet(S) ==
  \A x, y \in S :
    x # y => x.start # y.start /\ (x.start < y.start => x.end # None /\ x.end <= y.start)

\* Whatever starts before t ends by then; and end is no later than what starts after t.
ClearBefore(S, t) == \A z \in S : z.start < t => z.end # None /\ z.end <= t
ClearAfter(S, t, end) == end # None /\ \A z \in S : z.start > t => end <= z.start

\* The segments beside the one the record stands for.
Others(rs, r) == {z \in Of(rs, r.ix) : z.id # r.id}

KeptApart(r, rs, ix) == Apart(r.before, ix) => Apart(rs, ix)
Known(rs, id, ix) == id # None => \E x \in rs : x.id = id /\ x.ix = ix

\* The record may take its place among the others, which are apart: its own row, if it
\* has one, is as the record believes, but for the end, where it may have taken itself
\* for the segment before.
Settling(r, rs) ==
  LET S == Others(rs, r) IN
  /\ ApartSet(S)
  /\ \A x \in rs : x.id = r.id => x.start = r.held.start /\ x.end \in {r.held.end, r.start}
  /\ r.pc \in {"neighbours", "shorten"} =>
       \A x \in rs : x.id = r.id =>
         x.end = r.held.end /\ (\A z \in S : z.start # x.start) /\ ClearBefore(S, x.start)
  /\ r.pc # "neighbours" => ClearAfter(S, r.start, r.end)
  /\ r.pc = "validate" => (Within(r.start) => ClearBefore(S, r.start))
  /\ r.pc = "write" => ClearBefore(S, r.start) /\ \A z \in S : z.start # r.start

\* Creating or updating: the index at work, and the other one.
Spacing(r, rs) ==
  /\ r.pc \in Saving \cup {"assign", "twin"}
  /\ Known(rs, r.id, r.ix) /\ Known(rs, r.altId, "alt")
  /\ r.op = "create" => r.id = None /\ r.altId = None
  /\ \A ix \in Both \ {r.ix} : KeptApart(r, rs, ix)
  /\ r.pc \in {"assign", "twin"} => KeptApart(r, rs, r.ix)
  /\ r.pc = "assign" => r.op = "update"
  /\ r.pc = "twin" => r.ix = "main"
  /\ r.pc = "shorten" => \E p \in rs : p.id = r.prev /\ LatestBefore(Of(rs, r.ix), r.start, p)
  /\ r.pc \in Saving => (Apart(r.before, r.ix) => Settling(r, rs))

\* Deleting, where Removing does not say it.
Unspacing(r, rs) ==
  /\ r.ix = "alt" => KeptApart(r, rs, "main")
  /\ r.pc = "delete" => (Apart(r.before, r.ix) => ApartSet(Others(rs, r)))

\* The requests that SegmentsStayApart speaks of, once alone.
Moderate(r) == r.endTime = None /\ (r.op = "update" => Cast(r.t) = 0)

Spaced(r, rs) ==
  /\ r.pc # "idle" => r.op \in {"create", "update", "destroy"}
  /\ r.solo /\ Moderate(r) =>
       /\ r.op \in {"create", "update"} /\ r.pc \in Running => Spacing(r, rs)
       /\ r.op = "destroy" /\ r.pc \in Running => Unspacing(r, rs)
       /\ r.pc = "done" => \A ix \in Both : KeptApart(r, rs, ix)

ApartInv == \A e \in Editors : Spaced(req[e], rows)

LEMMA ApartIsApartSet == \A rs, ix : Apart(rs, ix) <=> ApartSet(Of(rs, ix))
BY DEF Apart, ApartSet

LEMMA ApartSubset == ASSUME NEW S, ApartSet(S), NEW T \in SUBSET S PROVE ApartSet(T)
BY DEF ApartSet

\* A segment set between those before it and those after it.
LEMMA ApartInserted ==
  ASSUME NEW S, NEW n, \A x \in S \cup {n} : x.start \in Nat, ApartSet(S),
         \A z \in S : z.start # n.start, ClearBefore(S, n.start), ClearAfter(S, n.start, n.end)
  PROVE  ApartSet(S \cup {n})
BY DEF ApartSet, ClearBefore, ClearAfter

\* A segment made to end no later than the next one starts.
LEMMA ApartEnded ==
  ASSUME NEW S, NEW p \in S, NEW d, NEW t \in Nat, \A x \in S : x.start \in Nat, ApartSet(S),
         d.start = p.start, d.end = t, \A z \in S : z.start > p.start => t <= z.start
  PROVE  ApartSet((S \ {p}) \cup {d})
BY ConstantsAssumption DEF ApartSet

\* The last segment that starts before t made to end there.
LEMMA LatestEnded ==
  ASSUME NEW S, NEW p \in S, NEW d, NEW t \in Nat, ApartSet(S),
         \A x \in S : x.start \in Nat /\ x.end \in MaybeTime,
         LatestBefore(S, t, p), d.start = p.start, d.end = t
  PROVE  LET T == (S \ {p}) \cup {d} IN
         /\ ApartSet(T) /\ ClearBefore(T, t)
         /\ \A end : ClearAfter(S, t, end) => ClearAfter(T, t, end)
<1> DEFINE T == (S \ {p}) \cup {d}
<1>1. ApartSet(T)
  <2>1. \A z \in S : z.start > p.start => t <= z.start
    BY DEF LatestBefore
  <2> QED
    BY <2>1, ApartEnded
<1>2. ASSUME NEW z \in T, z.start < t PROVE z.end # None /\ z.end <= t
  <2>1. CASE z = d
    BY <2>1, ConstantsAssumption
  <2>2. CASE z # d
    <3>1. z \in S /\ z # p /\ z.start <= p.start
      BY <1>2, <2>2 DEF LatestBefore
    <3>2. z.start < p.start
      BY <3>1 DEF ApartSet
    <3>3. z.end # None /\ z.end <= p.start /\ p.start < t
      BY <3>1, <3>2 DEF ApartSet, LatestBefore
    <3>4. z.end \in Nat /\ p.start \in Nat
      BY <3>1, <3>3 DEF MaybeTime
    <3> QED
      BY <3>3, <3>4
  <2> QED
    BY <2>1, <2>2
<1>3. \A end : ClearAfter(S, t, end) => ClearAfter(T, t, end)
  BY DEF ClearAfter, LatestBefore
<1> QED
  BY <1>1, <1>2, <1>3 DEF ClearBefore

LEMMA ApartInvInit == Init => ApartInv
BY DEF Init, ApartInv, Spaced, Idle, Running, Ended

\* What holds of a request alone still does when others move on, or end its being alone.
LEMMA SpacedCarried ==
  ASSUME kind' = kind, RequestsFormed, TileInv, ApartInv, NEW e \in Editors,
         req[e].pc \in Running, NEW q, req' = [req EXCEPT ![e] = q], Spaced(q, rows')
  PROVE  ApartInv'
<1>1. \A x \in Editors : req'[x] = IF x = e THEN q ELSE req[x]
  BY DEF RequestsFormed
<1>2. \A x \in Editors \ {e} : ~req[x].solo
  BY DEF TileInv
<1>3. \A x \in Editors : Spaced(req'[x], rows')
  BY <1>1, <1>2 DEF Spaced, ApartInv
<1> QED
  BY <1>3 DEF ApartInv, Spaced, Spacing, Settling, Unspacing, Within

-----------------------------------------------------------------------------
(***************************************************************************)
(* Saving, one step at a time.                                             *)
(***************************************************************************)
\* What is beside the row with this id, where a segment may start, and the rows with y
\* in the place of the one with its id.
Beside(ix, id) == {z \in Of(rows, ix) : z.id # id}
Free(S, t) == (\A z \in S : z.start # t) /\ ClearBefore(S, t)
With(y) == {z \in rows : z.id # y.id} \cup {y}

\* The record that the first saving leaves in memory, with the row it stands for.
LEMMA HeldSpaces ==
  ASSUME TInv, NEW r, Spacing(r, rows), r.pc = "assign", NEW y, NEW rs,
         y.ix = r.ix, rs = With(y), \A z \in rows : z.id = y.id => z.ix = r.ix,
         Apart(r.before, r.ix) => Free(Beside(r.ix, y.id), y.start),
         NEW q, q.pc = "neighbours", q.id = y.id, q.ix = r.ix, q.altId = r.altId,
         q.op = r.op, q.before = r.before, q.held.start = y.start, q.held.end = y.end
  PROVE  Spacing(q, rs)
<1> DEFINE S == Beside(r.ix, y.id)
<1>1. Others(rs, q) = S
  BY DEF Others, Of, With, Beside
<1>2. \A ix : ix # r.ix => Of(rs, ix) = Of(rows, ix)
  BY DEF Of, With
<1>3. \A ix \in Both \ {q.ix} : KeptApart(q, rs, ix)
  BY <1>2, ApartIsApartSet DEF Spacing, KeptApart
<1>4. Known(rs, q.id, q.ix) /\ Known(rs, q.altId, "alt")
  BY DEF Spacing, Known, With
<1>5. ASSUME Apart(q.before, q.ix) PROVE Settling(q, rs)
  <2>1. ApartSet(Of(rows, r.ix))
    BY <1>5, ApartIsApartSet DEF Spacing, KeptApart
  <2>2. ApartSet(S)
    BY <2>1, ApartSubset DEF Beside
  <2>3. \A x \in rs : x.id = q.id => x = y
    BY DEF With
  <2>4. (\A z \in S : z.start # y.start) /\ ClearBefore(S, y.start)
    BY <1>5 DEF Free
  <2> HIDE DEF S
  <2> QED
    BY <1>1, <2>2, <2>3, <2>4 DEF Settling
<1> QED
  BY <1>3, <1>4, <1>5 DEF Spacing, Saving

LEMMA AssignSpaces ==
  ASSUME TInv, NEW e \in Editors, NEW q, req'[e] = q, Spacing(req[e], rows),
         Cast(req[e].t) = 0, Assign(e), q.pc \in Running
  PROVE  Spacing(q, rows')
<1> DEFINE r == req[e]
           raw == Cast(r.t)
           held(x) == [start |-> x.start, end |-> x.end, dur |-> x.dur]
           next(x, id) == [r EXCEPT !.pc = "neighbours", !.id = id, !.start = Wanted(r),
                             !.end = x.end, !.dur = x.dur, !.held = held(x)]
           new == [id |-> lastId + 1, ix |-> r.ix, start |-> raw, end |-> None, dur |-> None]
           x == [Get(r.id) EXCEPT !.start = raw]
<1>1. /\ RowsOK /\ DOMAIN req = Editors /\ DOMAIN r = Fields /\ r.pc = "assign" /\ rows \subseteq Row
      /\ lastId \in Nat
  BY DEF TInv, RequestsFormed, Formed, Assign, RowsOK
<1>2. \A y, id : LET p == next(y, id) IN
        /\ p.pc = "neighbours" /\ p.id = id /\ p.ix = r.ix /\ p.altId = r.altId /\ p.op = r.op
        /\ p.before = r.before /\ p.held.start = y.start /\ p.held.end = y.end
  BY <1>1 DEF Fields
<1>3. /\ \A y \in rows : y.id \in Nat /\ y.start \in Nat /\ y.id <= lastId
      /\ \A y, z \in rows : y.id = z.id => y = z
  BY <1>1 DEF RowsOK, Row, Ids
<1>4. Stored(r.id) => /\ Get(r.id) \in rows /\ Get(r.id).id = r.id /\ Get(r.id).ix = r.ix
                      /\ x.id = r.id /\ x.ix = r.ix /\ x.start = raw
  <2> SUFFICES ASSUME Stored(r.id) PROVE Get(r.id) \in rows /\ Get(r.id).id = r.id /\ Get(r.id).ix = r.ix
    BY <1>1 DEF Row
  <2>1. Get(r.id) \in rows /\ Get(r.id).id = r.id
    BY <1>1, GetRow
  <2>2. r.id # None
    BY <1>3, <2>1, ConstantsAssumption
  <2> QED
    BY <1>3, <2>1, <2>2 DEF Spacing, Known
<1>5. \/ Stored(r.id) /\ Acceptable(x) /\ rows' = Saved(x) /\ q = next(x, x.id)
      \/ Stored(r.id) /\ rows' = rows /\ q = next(Get(r.id), r.id)
      \/ ~Stored(r.id) /\ Acceptable(new) /\ rows' = rows \cup {new} /\ q = next(new, new.id)
      \/ ~Stored(r.id) /\ rows' = rows /\ q = next(Nothing, None)
  <2>1. \/ Stored(r.id) /\ Acceptable(x) /\ rows' = Saved(x) /\ req' = [req EXCEPT ![e] = next(x, x.id)]
        \/ Stored(r.id) /\ rows' = rows /\ req' = [req EXCEPT ![e] = next(Get(r.id), r.id)]
        \/ Goto(e, "failed")
        \/ ~Stored(r.id) /\ Acceptable(new) /\ rows' = rows \cup {new} /\ req' = [req EXCEPT ![e] = next(new, new.id)]
        \/ ~Stored(r.id) /\ rows' = rows /\ req' = [req EXCEPT ![e] = next(Nothing, None)]
    <3>1. CASE Stored(r.id)
      BY <1>1, <1>3, <1>4, <3>1, ConstantsAssumption DEF Assign
    <3>2. CASE ~Stored(r.id)
      BY <3>2 DEF Assign
    <3> QED
      BY <3>1, <3>2
  <2>2. ~Goto(e, "failed")
    BY <1>1 DEF Goto, Fields, Running
  <2> HIDE DEF next, x, new
  <2> QED
    BY <1>1, <2>1, <2>2
<1>6. \A y : Acceptable(y) /\ y.start = 0 /\ y.ix = r.ix =>
        Free(Beside(r.ix, y.id), y.start)
  BY <1>3 DEF Acceptable, Free, Beside, ClearBefore, In, Of
<1>7. CASE Stored(r.id) /\ Acceptable(x) /\ rows' = Saved(x) /\ q = next(x, x.id)
  <2>1. rows' = With(x)
    BY <1>7 DEF Saved, With
  <2>2. x.id = r.id /\ x.ix = r.ix /\ x.start = 0 /\ \A z \in rows : z.id = x.id => z.ix = r.ix
    BY <1>3, <1>4, <1>7
  <2> HIDE DEF x
  <2>3. Free(Beside(r.ix, x.id), x.start)
    BY <1>6, <1>7, <2>2
  <2>4. /\ q.pc = "neighbours" /\ q.id = x.id /\ q.ix = r.ix /\ q.altId = r.altId /\ q.op = r.op
        /\ q.before = r.before /\ q.held.start = x.start /\ q.held.end = x.end
    BY <1>2, <1>7
  <2> QED
    BY <1>1, <2>1, <2>2, <2>3, <2>4, HeldSpaces
<1>8. CASE Stored(r.id) /\ rows' = rows /\ q = next(Get(r.id), r.id)
  <2>1. PICK y \in rows : y = Get(r.id) /\ y.id = r.id /\ y.ix = r.ix
    BY <1>4, <1>8
  <2>2. rows' = With(y) /\ \A z \in rows : z.id = y.id => z.ix = r.ix
    BY <1>3, <1>8, <2>1 DEF With
  <2>3. ASSUME Apart(r.before, r.ix) PROVE Free(Beside(r.ix, y.id), y.start)
    <3>1. ApartSet(Of(rows, r.ix)) /\ y \in Of(rows, r.ix)
      BY <1>1, <2>1, <2>3, ApartIsApartSet DEF Spacing, KeptApart, Of
    <3> QED
      BY <3>1 DEF ApartSet, Free, Beside, ClearBefore
  <2>4. /\ q.pc = "neighbours" /\ q.id = y.id /\ q.ix = r.ix /\ q.altId = r.altId /\ q.op = r.op
        /\ q.before = r.before /\ q.held.start = y.start /\ q.held.end = y.end
    BY <1>2, <1>8, <2>1
  <2> QED
    BY <1>1, <2>1, <2>2, <2>3, <2>4, HeldSpaces
<1>9. CASE ~Stored(r.id) /\ Acceptable(new) /\ rows' = rows \cup {new} /\ q = next(new, new.id)
  <2>1. new.id = lastId + 1 /\ new.ix = r.ix /\ new.start = 0
    OBVIOUS
  <2> HIDE DEF new
  <2>2. \A z \in rows : z.id # new.id
    BY <1>1, <1>3, <2>1
  <2>3. rows' = With(new)
    BY <1>9, <2>2 DEF With
  <2>4. Free(Beside(r.ix, new.id), new.start)
    BY <1>6, <1>9, <2>1
  <2>5. /\ q.pc = "neighbours" /\ q.id = new.id /\ q.ix = r.ix /\ q.altId = r.altId /\ q.op = r.op
        /\ q.before = r.before /\ q.held.start = new.start /\ q.held.end = new.end
    BY <1>2, <1>9
  <2> QED
    BY <1>1, <2>1, <2>2, <2>3, <2>4, <2>5, HeldSpaces
<1>10. CASE ~Stored(r.id) /\ rows' = rows /\ q = next(Nothing, None)
  <2>1. /\ q.pc = "neighbours" /\ q.id = None /\ q.ix = r.ix /\ q.altId = r.altId /\ q.op = r.op
        /\ q.before = r.before
    BY <1>2, <1>10
  <2>2. \A z \in rows : z.id # None
    BY <1>3, ConstantsAssumption
  <2>3. Others(rows, q) = Of(rows, r.ix)
    BY <2>1, <2>2 DEF Others, Of
  <2>4. ASSUME Apart(q.before, q.ix) PROVE Settling(q, rows)
    <3>1. ApartSet(Of(rows, r.ix))
      BY <1>1, <2>1, <2>4, ApartIsApartSet DEF Spacing, KeptApart
    <3> QED
      BY <2>1, <2>2, <2>3, <3>1 DEF Settling
  <2> QED
    BY <1>1, <1>10, <2>1, <2>4 DEF Spacing, Saving, Known, KeptApart
<1> QED
  BY <1>5, <1>7, <1>8, <1>9, <1>10

\* The end found is no later than what starts after the segment.
LEMMA EndClear ==
  ASSUME RowsOK, NEW ix, NEW t \in Nat, NEW length \in Nat
  PROVE  ClearAfter(Of(rows, ix), t, EndOf(ix, t, length))
<1> DEFINE end == EndOf(ix, t, length)
<1>1. end # None
  BY EndIsTime, ConstantsAssumption
<1>2. ASSUME NEW z \in Of(rows, ix), z.start > t PROVE end <= z.start
  <2>1. z \in Later(ix, t) /\ Later(ix, t) \in SUBSET rows
    BY <1>2 DEF Later, In, Of
  <2> QED
    BY <2>1, EarliestThere DEF EndOf
<1> HIDE DEF end
<1> QED
  BY <1>1, <1>2 DEF ClearAfter, end

LEMMA NeighboursSpaces ==
  ASSUME TInv, NEW e \in Editors, NEW q, req'[e] = q, Spacing(req[e], rows),
         req[e].endTime = None, Neighbours(e)
  PROVE  q.pc \in {"validate", "shorten"} /\ Spacing(q, rows')
<1> DEFINE r == req[e]
           S == Others(rows, r)
<1>1. /\ RowsOK /\ r.start \in Nat /\ r.length \in Nat /\ r.pc = "neighbours" /\ rows' = rows
  BY DEF TInv, RequestsFormed, Formed, Neighbours, Saving
<1>2. /\ q.end = EndOf(r.ix, r.start, r.length)
      /\ \A f \in Fields \ {"pc", "end", "dur", "prev"} : q[f] = r[f]
      /\ \/ q.pc = "validate" /\ Earlier(r.ix, r.start) = {}
         \/ q.pc = "shorten" /\ \E p \in Latest(Earlier(r.ix, r.start)) : q.prev = p.id
  BY NeighboursFound
<1>3. /\ q.ix = r.ix /\ q.id = r.id /\ q.altId = r.altId /\ q.op = r.op /\ q.start = r.start
      /\ q.before = r.before /\ q.held = r.held /\ Others(rows, q) = S
  BY <1>2 DEF Fields, Others
<1>4. ASSUME Apart(q.before, q.ix) PROVE Settling(q, rows)
  <2>1. Settling(r, rows)
    BY <1>1, <1>3, <1>4 DEF Spacing, Saving
  <2>2. ClearAfter(S, q.start, q.end)
    BY <1>1, <1>2, <1>3, EndClear DEF ClearAfter, Others
  <2>3. q.pc = "validate" => ClearBefore(S, q.start)
    BY <1>1, <1>2, <1>3, NeighboursRight DEF ClearBefore, Others
  <2> HIDE DEF r
  <2> QED
    BY <1>1, <1>2, <1>3, <2>1, <2>2, <2>3 DEF Settling
<1>5. q.pc \in Saving \ {"write"}
  BY <1>2 DEF Saving
<1>6. q.pc = "shorten" => \E p \in rows : p.id = q.prev /\ LatestBefore(Of(rows, q.ix), q.start, p)
  BY <1>1, <1>2, <1>3, NeighboursRight DEF LatestBefore, Of
<1> QED
  BY <1>1, <1>2, <1>3, <1>4, <1>5, <1>6 DEF Spacing, KeptApart, Saving

\* A step that only moves the request on.
LEMMA GoneTo ==
  ASSUME TInv, NEW e \in Editors, NEW q, req'[e] = q, NEW pc, Goto(e, pc)
  PROVE  q.pc = pc /\ \A f \in Fields \ {"pc"} : q[f] = req[e][f]
BY DEF Goto, TInv, RequestsFormed, Formed, Fields

LEMMA ShortenSpaces ==
  ASSUME TInv, NEW e \in Editors, NEW q, req'[e] = q, Spacing(req[e], rows), Shorten(e),
         q.pc \in Running
  PROVE  Spacing(q, rows')
<1> DEFINE r == req[e]
           t == r.start
           S == Others(rows, r)
           T == Others(rows', r)
<1>1. RowsOK /\ t \in Nat /\ r.pc = "shorten"
  BY DEF TInv, RequestsFormed, Formed, Shorten, Saving
<1>2. Stored(r.prev) /\ rows' = Ending(r.prev, t) /\ Goto(e, "validate")
  <2>1. Goto(e, "failed") => q.pc = "failed"
    BY GoneTo
  <2> QED
    BY <2>1 DEF Shorten, Running
<1>3. /\ q.pc = "validate" /\ q.ix = r.ix /\ q.id = r.id /\ q.altId = r.altId /\ q.op = r.op
      /\ q.start = t /\ q.end = r.end /\ q.before = r.before /\ q.held = r.held
  BY <1>2, GoneTo DEF Fields
<1>4. /\ \A x \in rows : x.start \in Nat /\ x.end \in MaybeTime /\ Within(x.start)
      /\ \A x, y \in rows : x.id = y.id => x = y
  BY <1>1 DEF RowsOK, Row
<1>5. PICK p \in rows : p.id = r.prev
  BY <1>2 DEF Stored
<1>6. PICK d :
      /\ d.start = p.start /\ d.id = p.id /\ d.ix = p.ix /\ d.end = t /\ d.dur = t - p.start
      /\ rows' \in {rows, (rows \ {p}) \cup {d}}
      /\ Acceptable(d) => rows' = (rows \ {p}) \cup {d}
  BY <1>1, <1>2, <1>5, EndingOf
<1>7. /\ p \in Of(rows, r.ix) /\ p.ix = r.ix /\ p.start < t
       /\ \A z \in Of(rows, r.ix) : z.start < t => z.start <= p.start
  BY <1>1, <1>4, <1>5 DEF Spacing, LatestBefore, Of
<1>8. ASSUME Apart(q.before, q.ix) PROVE Settling(q, rows')
  <2>1. Settling(r, rows)
    BY <1>1, <1>3, <1>8 DEF Spacing, Saving
  <2>2. /\ ApartSet(S) /\ ClearAfter(S, t, r.end)
        /\ \A x \in rows : x.id = r.id =>
             /\ x.start = r.held.start /\ x.end = r.held.end
             /\ (\A z \in S : z.start # x.start) /\ ClearBefore(S, x.start)
    BY <1>1, <1>4, <1>5, <2>1 DEF Settling
  <2>4. \A z \in S : z \in rows /\ z.id # r.id /\ z.ix = r.ix
    BY DEF Others, Of
  <2>5. /\ ApartSet(T) /\ ClearAfter(T, t, r.end) /\ (Within(t) => ClearBefore(T, t))
        /\ \A x \in rows' : x.id = r.id => x.start = r.held.start /\ x.end \in {r.held.end, t}
    <3>1. CASE p.id = r.id
      <4>1. T = S
        BY <1>4, <1>5, <1>6, <3>1 DEF Others, Of
      <4>2. \A z \in S : z.start < t => z.end # None /\ z.end <= p.start
        BY <1>4, <1>5, <1>7, <2>2, <2>4, <3>1 DEF ClearBefore, Others
      <4>3. ClearBefore(S, t)
        BY <1>1, <1>4, <1>5, <1>7, <2>4, <4>2 DEF ClearBefore, MaybeTime
      <4>4. \A x \in rows' : x.id = r.id => x.start = r.held.start /\ x.end \in {r.held.end, t}
        BY <1>4, <1>6, <2>2, <3>1
      <4> QED
        BY <2>2, <4>1, <4>3, <4>4
    <3>2. CASE p.id # r.id /\ rows' = (rows \ {p}) \cup {d}
      <4>1. p \in S /\ T = (S \ {p}) \cup {d}
        BY <1>4, <1>5, <1>6, <1>7, <3>2 DEF Others, Of
      <4>2. LatestBefore(S, t, p)
        BY <1>7, <4>1 DEF LatestBefore, Others
      <4>3. ApartSet(T) /\ ClearAfter(T, t, r.end) /\ ClearBefore(T, t)
        BY <1>1, <1>4, <1>6, <2>2, <2>4, <4>1, <4>2, LatestEnded
      <4>4. \A x \in rows' : x.id = r.id => x \in rows
        BY <1>6, <3>2
      <4> QED
        BY <2>2, <4>3, <4>4
    <3>3. CASE p.id # r.id /\ rows' = rows /\ ~Acceptable(d)
      <4>1. p \in S
        BY <1>7, <3>3 DEF Others
      <4>2. \A y \in In(d.ix) : y.id # r.id => y \in S
        BY <1>6, <1>7 DEF In, Of, Others
      <4>3. \A y \in In(d.ix) : y.id = r.id => y.start # p.start
        BY <2>2, <4>1 DEF In
      <4>4. \A y \in In(d.ix) : y.id # d.id => y.start # d.start
        BY <1>6, <2>2, <4>1, <4>2, <4>3 DEF ApartSet
      <4>5. ~Within(t)
        BY <1>1, <1>4, <1>5, <1>6, <1>7, <3>3, <4>4 DEF Acceptable
      <4> QED
        BY <2>2, <3>3, <4>5
    <3> QED
      BY <1>6, <3>1, <3>2, <3>3
  <2>6. Others(rows', q) = T
    BY <1>3 DEF Others
  <2> HIDE DEF r, S, T, t
  <2> QED
    BY <1>3, <2>5, <2>6 DEF Settling
<1>9. Known(rows', q.id, q.ix) /\ Known(rows', q.altId, "alt")
  BY <1>3, <1>5, <1>6 DEF Spacing, Known
<1>10. \A ix \in Both \ {q.ix} : KeptApart(q, rows', ix)
  <2>1. \A ix : ix # r.ix => Of(rows', ix) = Of(rows, ix)
    BY <1>6, <1>7 DEF Of
  <2> QED
    BY <1>3, <2>1, ApartIsApartSet DEF Spacing, KeptApart
<1> QED
  BY <1>3, <1>8, <1>9, <1>10 DEF Spacing, Saving

LEMMA ValidateSpaces ==
  ASSUME TInv, NEW e \in Editors, NEW q, req'[e] = q, Spacing(req[e], rows), Validate(e),
         q.pc \in Running
  PROVE  Spacing(q, rows')
<1> DEFINE r == req[e]
           S == Others(rows, r)
           n == [id |-> r.id, ix |-> r.ix, start |-> r.start, end |-> r.end, dur |-> r.dur]
<1>1. r.pc = "validate" /\ rows' = rows
  BY DEF Validate
<1>2. Acceptable(n) /\ Goto(e, "write")
  <2>1. Goto(e, "refused") => q.pc = "refused"
    BY GoneTo
  <2> QED
    BY <2>1 DEF Validate, Running
<1>3. q.pc = "write" /\ \A f \in Fields \ {"pc"} : q[f] = r[f]
  BY <1>2, GoneTo
<1>4. /\ q.ix = r.ix /\ q.id = r.id /\ q.altId = r.altId /\ q.op = r.op /\ q.start = r.start
      /\ q.end = r.end /\ q.before = r.before /\ q.held = r.held /\ Others(rows, q) = S
  BY <1>3 DEF Fields, Others
<1>5. Within(r.start) /\ \A z \in S : z.start # r.start
  BY <1>2 DEF Acceptable, Others, In, Of
<1>6. ASSUME Apart(q.before, q.ix) PROVE Settling(q, rows)
  <2>1. Settling(r, rows)
    BY <1>1, <1>4, <1>6 DEF Spacing, Saving
  <2> HIDE DEF r
  <2> QED
    BY <1>1, <1>3, <1>4, <1>5, <2>1 DEF Settling
<1> QED
  BY <1>1, <1>3, <1>4, <1>6 DEF Spacing, KeptApart, Saving

LEMMA WriteSpaces ==
  ASSUME TInv, NEW e \in Editors, NEW q, req'[e] = q, Spacing(req[e], rows), Write(e)
  PROVE  \/ q.pc = "twin" /\ Spacing(q, rows')
         \/ q.pc = "done" /\ \A ix \in Both : KeptApart(q, rows', ix)
<1> DEFINE r == req[e]
           S == Others(rows, r)
<1>1. /\ RowsOK /\ rows \subseteq Row /\ r.start \in Nat /\ r.pc = "write" /\ r.ix \in Both
      /\ r.end \in MaybeTime /\ r.dur \in Int \cup {None}
  BY DEF TInv, RequestsFormed, Formed, Write, Saving, RowsOK, Indexes, Both
<1>2. /\ \A x \in rows : x.id \in Nat /\ x.id <= lastId /\ x.start \in Nat
      /\ \A x, y \in rows : x.id = y.id => x = y
  BY <1>1 DEF RowsOK, Row, Ids
<1>3. PICK n :
      /\ Of(rows', r.ix) = S \cup {n}
      /\ \A ix : ix # r.ix => Of(rows', ix) = Of(rows, ix)
      /\ \A id, ix : Known(rows, id, ix) => Known(rows', id, ix)
      /\ \/ n.start = r.start
         \/ r.start = r.held.start /\ \E x \in rows : x.id = r.id /\ n.start = x.start
      /\ \/ n.end = r.end
         \/ r.end = r.held.end /\ \E x \in rows : x.id = r.id /\ n.end = x.end
  <2>1. CASE r.id = None
    <3> DEFINE n == [id |-> lastId + 1, ix |-> r.ix, start |-> r.start, end |-> r.end, dur |-> r.dur]
    <3>1. n.ix = r.ix /\ n.start = r.start /\ n.end = r.end /\ rows' = rows \cup {n}
      BY <2>1 DEF Write
    <3> HIDE DEF n
    <3>2. S = Of(rows, r.ix)
      BY <1>2, <2>1, ConstantsAssumption DEF Others, Of
    <3> HIDE DEF S
    <3> QED
      BY <3>1, <3>2 DEF Of, Known
  <2>2. CASE r.id # None
    <3>1. PICK x \in rows : x.id = r.id /\ x.ix = r.ix
      BY <2>2 DEF Spacing, Known
    <3> DEFINE n == Merged(x, r)
    <3>2. n.id = x.id /\ n.ix = x.ix
      BY <1>1, MergedRow
    <3>3. /\ n.start = r.start \/ (r.start = r.held.start /\ n.start = x.start)
          /\ n.end = r.end \/ (r.end = r.held.end /\ n.end = x.end)
      BY <1>1, <3>1 DEF Merged, Row
    <3>4. rows' = (rows \ {x}) \cup {n}
      <4>1. rows' = {IF y.id = r.id THEN Merged(y, r) ELSE y : y \in rows}
        BY <2>2 DEF Write
      <4>2. \A y \in rows : y.id = r.id <=> y = x
        BY <1>2, <3>1
      <4> HIDE DEF r
      <4> QED
        BY <4>1, <4>2
    <3> HIDE DEF n
    <3>5. S = Of(rows, r.ix) \ {x}
      BY <1>2, <3>1 DEF Others, Of
    <3> HIDE DEF S
    <3>6. /\ Of(rows', r.ix) = S \cup {n}
          /\ \A ix : ix # r.ix => Of(rows', ix) = Of(rows, ix)
      BY <3>1, <3>2, <3>4, <3>5 DEF Of
    <3>7. \A id, ix : Known(rows, id, ix) => Known(rows', id, ix)
      BY <3>1, <3>2, <3>4 DEF Known
    <3> QED
      BY <3>1, <3>2, <3>3, <3>6, <3>7
  <2> QED
    BY <2>1, <2>2
<1>4. ASSUME Apart(r.before, r.ix) PROVE ApartSet(Of(rows', r.ix))
  <2>1. Settling(r, rows)
    BY <1>1, <1>4 DEF Spacing, Saving
  <2>2. /\ ApartSet(S) /\ ClearAfter(S, r.start, r.end) /\ ClearBefore(S, r.start)
        /\ \A z \in S : z.start # r.start
        /\ \A x \in rows : x.id = r.id => x.start = r.held.start /\ x.end \in {r.held.end, r.start}
    BY <1>1, <2>1 DEF Settling
  <2>3. n.start = r.start /\ (n.end = r.end \/ n.end = r.start)
    BY <1>3, <2>2
  <2>4. ClearAfter(S, n.start, n.end)
    BY <1>1, <1>2, <1>3, <2>2, <2>3, ConstantsAssumption DEF ClearAfter, Others, Of
  <2>5. \A x \in S \cup {n} : x.start \in Nat
    BY <1>1, <1>2, <2>3 DEF Others, Of
  <2> HIDE DEF S
  <2> QED
    BY <1>3, <2>2, <2>3, <2>4, <2>5, ApartInserted
<1>5. \A ix \in Both : KeptApart(r, rows', ix)
  BY <1>3, <1>4, ApartIsApartSet DEF Spacing, KeptApart
<1>6. /\ q.pc = (IF kind.translated /\ r.ix = "main" THEN "twin" ELSE "done")
      /\ \A f \in Fields \ {"pc"} : q[f] = r[f]
  BY GoneTo DEF Write
<1>7. q.ix = r.ix /\ q.id = r.id /\ q.altId = r.altId /\ q.op = r.op /\ q.before = r.before
  BY <1>6 DEF Fields
<1>8. \A ix \in Both : KeptApart(q, rows', ix)
  BY <1>5, <1>7 DEF KeptApart
<1>9. Known(rows', q.id, q.ix) /\ Known(rows', q.altId, "alt") /\ (q.op = "create" => q.id = None /\ q.altId = None)
  BY <1>3, <1>7 DEF Spacing
<1> QED
  BY <1>1, <1>6, <1>7, <1>8, <1>9 DEF Spacing, Saving

LEMMA TwinSpaces ==
  ASSUME TInv, NEW e \in Editors, NEW q, req'[e] = q, Spacing(req[e], rows),
         req[e].op \in {"create", "update"}, Twin(e)
  PROVE  q.pc \in {"assign", "neighbours"} /\ Spacing(q, rows')
<1> DEFINE r == req[e]
           twin == [r EXCEPT !.ix = "alt", !.id = r.altId, !.end = None, !.dur = None,
                      !.held = Nothing, !.prev = None]
           next(c, v) == [twin EXCEPT !.pc = c, !.start = v]
<1>1. /\ RowsOK /\ DOMAIN req = Editors /\ DOMAIN r = Fields /\ r.pc = "twin" /\ rows' = rows
      /\ r.ix = "main"
  BY DEF TInv, RequestsFormed, Formed, Twin, Spacing
<1>2. \/ r.op = "update" /\ \E v : q = next("assign", v)
      \/ r.op = "create" /\ \E v : q = next("neighbours", v)
  BY <1>1 DEF Twin
<1>3. \A c, v : LET p == next(c, v) IN
        /\ p.pc = c /\ p.ix = "alt" /\ p.id = r.altId /\ p.altId = r.altId /\ p.op = r.op
        /\ p.before = r.before
  BY <1>1 DEF Fields
<1> HIDE DEF next
<1>4. /\ q.ix = "alt" /\ q.id = r.altId /\ q.altId = r.altId /\ q.op = r.op /\ q.before = r.before
      /\ q.pc = (IF r.op = "update" THEN "assign" ELSE "neighbours")
  BY <1>2, <1>3
<1>5. \A ix \in Both : KeptApart(q, rows, ix)
  BY <1>1, <1>4 DEF Spacing, KeptApart
<1>6. ASSUME r.op = "create", Apart(q.before, "alt") PROVE Settling(q, rows)
  <2>1. q.id = None /\ \A x \in rows : x.id # None
    BY <1>1, <1>4, <1>6, ConstantsAssumption DEF Spacing, RowsOK, Row, Ids
  <2>2. Others(rows, q) = Of(rows, "alt")
    BY <1>4, <2>1 DEF Others, Of
  <2>3. ApartSet(Of(rows, "alt"))
    BY <1>5, <1>6, ApartIsApartSet DEF KeptApart, Both
  <2> QED
    BY <1>4, <1>6, <2>1, <2>2, <2>3 DEF Settling
<1>7. q.op = "create" \/ q.op = "update"
  BY <1>4
<1> QED
  BY <1>1, <1>4, <1>5, <1>6, <1>7 DEF Spacing, Saving, Both

-----------------------------------------------------------------------------
(***************************************************************************)
(* Deleting.                                                               *)
(***************************************************************************)
LEMMA FindUnspaces ==
  ASSUME TInv, NEW e \in Editors, NEW q, req'[e] = q, Removing(req[e], rows),
         Unspacing(req[e], rows), Find(e)
  PROVE  q.pc \in {"fix", "delete"} /\ Unspacing(q, rows')
<1> DEFINE r == req[e]
           next(v, x) == [r EXCEPT !.pc = "fix", !.prev = v, !.fix = x]
<1>1. DOMAIN req = Editors /\ DOMAIN r = Fields /\ r.pc = "find" /\ rows' = rows
  BY DEF TInv, RequestsFormed, Formed, Find
<1>2. Goto(e, "delete") \/ \E v, x : req' = [req EXCEPT ![e] = next(v, x)]
  BY DEF Find
<1>3. q.pc \in {"fix", "delete"} /\ q.ix = r.ix /\ q.id = r.id /\ q.before = r.before
  BY <1>1, <1>2 DEF Goto, Fields
<1>4. ASSUME Apart(r.before, r.ix) PROVE ApartSet(Others(rows, r))
  <2>1. ApartSet(Of(rows, r.ix))
    BY <1>1, <1>4, ApartIsApartSet DEF Removing, Same
  <2> QED
    BY <2>1, ApartSubset DEF Others
<1> QED
  BY <1>1, <1>3, <1>4 DEF Unspacing, KeptApart, Others

LEMMA FixUnspaces ==
  ASSUME TInv, NEW e \in Editors, NEW q, req'[e] = q, Removing(req[e], rows),
         Unspacing(req[e], rows), Fix(e), q.pc \in Running
  PROVE  Unspacing(q, rows')
<1> DEFINE r == req[e]
           S == Others(rows, r)
           T == Others(rows', r)
<1>1. RowsOK /\ r.pc = "fix" /\ r.start \in Nat /\ r.fix \in Nat
  BY DEF TInv, RequestsFormed, Formed, Fix, Deleting
<1>2. Stored(r.prev) /\ rows' = Ending(r.prev, r.fix) /\ Goto(e, "delete")
  <2>1. Goto(e, "failed") => q.pc = "failed"
    BY GoneTo
  <2> QED
    BY <2>1 DEF Fix, Running
<1>3. q.pc = "delete" /\ q.ix = r.ix /\ q.id = r.id /\ q.before = r.before
  BY <1>2, GoneTo DEF Fields
<1>4. /\ \A x \in rows : x.start \in Nat
      /\ \A x, y \in rows : x.id = y.id => x = y
  BY <1>1 DEF RowsOK, Row
<1>5. /\ Same(r, rows, r.ix)
      /\ \E d \in Of(rows, r.ix) : d.id = r.id /\ d.start = r.start
      /\ \E p : LatestBefore(Of(rows, r.ix), r.start, p) /\ p.id = r.prev
      /\ \A y : EarliestAfter(Of(rows, r.ix), r.start, y) => r.fix = y.start
  BY <1>1 DEF Removing
<1>6. PICK p : LatestBefore(Of(rows, r.ix), r.start, p) /\ p.id = r.prev
  BY <1>5
<1>7. PICK d \in Of(rows, r.ix) : d.id = r.id /\ d.start = r.start
  BY <1>5
<1>8. p \in rows /\ p.ix = r.ix /\ p.start < r.start /\ p.id # r.id
  BY <1>1, <1>4, <1>6, <1>7 DEF LatestBefore, Of
<1>9. PICK y :
      /\ y.start = p.start /\ y.id = p.id /\ y.ix = p.ix /\ y.end = r.fix /\ y.dur = r.fix - p.start
      /\ rows' \in {rows, (rows \ {p}) \cup {y}}
  BY <1>1, <1>2, <1>6, <1>8, EndingOf
<1>10. \A ix : ix # r.ix => Of(rows', ix) = Of(rows, ix)
  BY <1>8, <1>9 DEF Of
<1>11. ASSUME Apart(r.before, r.ix) PROVE ApartSet(T)
  <2>1. ApartSet(Of(rows, r.ix))
    BY <1>5, <1>11, ApartIsApartSet DEF Same
  <2>2. p \in S /\ S \subseteq Of(rows, r.ix) /\ (T = S \/ T = (S \ {p}) \cup {y})
    BY <1>4, <1>8, <1>9 DEF Others, Of
  <2>3. ApartSet(S)
    BY <2>1, <2>2, ApartSubset
  <2>4. ASSUME NEW z \in S, z.start > p.start PROVE r.fix <= z.start
    <3>1. z \in Of(rows, r.ix) /\ z # d /\ z.start \in Nat
      BY <1>4, <1>7 DEF Others, Of
    <3>2. z.start > r.start
      BY <1>1, <1>4, <1>6, <1>7, <1>8, <2>1, <2>4, <3>1 DEF ApartSet, LatestBefore
    <3>3. z \in Later(r.ix, r.start) /\ Later(r.ix, r.start) \in SUBSET rows
      BY <3>1, <3>2 DEF Later, In, Of
    <3>4. PICK v \in Later(r.ix, r.start) : \A u \in Later(r.ix, r.start) : v.start <= u.start
      BY <1>1, <3>3, EarliestThere
    <3>5. EarliestAfter(Of(rows, r.ix), r.start, v)
      BY <3>4 DEF EarliestAfter, Later, In, Of
    <3> QED
      BY <1>5, <3>3, <3>4, <3>5
  <2>5. \A x \in S : x.start \in Nat
    BY <1>4, <2>2 DEF Of
  <2> HIDE DEF S, T
  <2>6. ApartSet((S \ {p}) \cup {y})
    BY <1>1, <1>9, <2>2, <2>3, <2>4, <2>5, ApartEnded
  <2> QED
    BY <2>2, <2>3, <2>6
<1> QED
  BY <1>3, <1>10, <1>11, ApartIsApartSet DEF Unspacing, KeptApart, Others

LEMMA DeleteUnspaces ==
  ASSUME TInv, NEW e \in Editors, NEW q, req'[e] = q, Removing(req[e], rows),
         Unspacing(req[e], rows), Delete(e)
  PROVE  \/ q.pc = "failed"
         \/ q.pc = "find" /\ Unspacing(q, rows')
         \/ q.pc = "done" /\ \A ix \in Both : KeptApart(q, rows', ix)
<1> DEFINE r == req[e]
           next(x) == [r EXCEPT !.pc = "find", !.ix = "alt", !.id = x.id, !.start = x.start,
                         !.end = x.end, !.dur = x.dur, !.prev = None, !.fix = None]
<1>1. /\ RowsOK /\ DOMAIN req = Editors /\ DOMAIN r = Fields /\ r.pc = "delete"
      /\ r.ix \in Both /\ rows' = {x \in rows : x.id # r.id}
  BY DEF TInv, RequestsFormed, Formed, Delete, Indexes, Both
<1>2. \/ Goto(e, "failed") \/ Goto(e, "done")
      \/ r.ix = "main" /\ \E x : req' = [req EXCEPT ![e] = next(x)]
  BY DEF Delete
<1>3. \/ q.pc = "failed"
      \/ q.pc = "done" /\ q.before = r.before
      \/ q.pc = "find" /\ q.ix = "alt" /\ r.ix = "main" /\ q.before = r.before
  <2>1. \A x : LET p == next(x) IN p.pc = "find" /\ p.ix = "alt" /\ p.before = r.before
    BY <1>1 DEF Fields
  <2> HIDE DEF next
  <2> QED
    BY <1>1, <1>2, <2>1, GoneTo DEF Fields
<1>4. /\ Of(rows', r.ix) = Others(rows, r)
      /\ \A ix : ix # r.ix => Of(rows', ix) = Of(rows, ix)
  BY <1>1 DEF Removing, Of, Others
<1>5. KeptApart(r, rows', r.ix)
  BY <1>1, <1>4, ApartIsApartSet DEF Unspacing, KeptApart
<1>6. \A ix \in Both \ {r.ix} : KeptApart(r, rows', ix)
  <2>1. r.ix = "main" => KeptApart(r, rows', "alt")
    BY <1>4, ApartIsApartSet DEF Removing, OtherIndex, Same, KeptApart
  <2>2. r.ix = "alt" => KeptApart(r, rows', "main")
    BY <1>4, ApartIsApartSet DEF Unspacing, KeptApart
  <2> QED
    BY <1>1, <2>1, <2>2 DEF Both
<1> QED
  BY <1>1, <1>3, <1>5, <1>6 DEF Unspacing, KeptApart, Both

-----------------------------------------------------------------------------
LEMMA SubmitSpaces ==
  ASSUME TInv, ApartInv, kind' = kind, NEW e \in Editors, Submit(e)
  PROVE  ApartInv'
<1>1. rows' = rows /\ kind \in Kinds /\ RowsOK
  BY SubmitForms DEF TInv
<1>2. ASSUME NEW r, Formed(r), Begin(e, r),
             \/ /\ r.pc = "neighbours" /\ r.op = "create" /\ r.ix = "main"
                /\ r.id = None /\ r.altId = None
             \/ /\ r.pc = "assign" /\ r.op = "update" /\ r.ix = "main"
                /\ Known(rows, r.id, "main") /\ Known(rows, r.altId, "alt")
             \/ /\ r.pc = "find" /\ r.op = "destroy" /\ r.ix = "main"
      PROVE  ApartInv'
  <2> DEFINE alone == \A y \in Editors \ {e} : req[y].pc \notin Running
             q(x) == IF x = e THEN [r EXCEPT !.before = rows, !.solo = alone]
                     ELSE [req[x] EXCEPT !.solo = FALSE]
  <2>1. \A x \in Editors : req'[x] = q(x)
    BY <1>2 DEF Begin
  <2>2. q(e).before = rows /\ \A f \in Fields \ {"before", "solo"} : q(e)[f] = r[f]
    BY <1>2 DEF Formed, Fields
  <2>3. \A x \in Editors \ {e} : ~q(x).solo /\ q(x).pc = req[x].pc /\ q(x).op = req[x].op
    BY DEF TInv, RequestsFormed, Formed, Fields
  <2> HIDE DEF q
  <2>4. Spaced(q(e), rows)
    <3>1. /\ q(e).pc = r.pc /\ q(e).op = r.op /\ q(e).ix = r.ix /\ q(e).id = r.id
          /\ q(e).altId = r.altId
      BY <2>2 DEF Fields
    <3>2. \A ix : KeptApart(q(e), rows, ix)
      BY <2>2 DEF KeptApart
    <3>3. q(e).pc = "neighbours" /\ q(e).id = None => (Apart(q(e).before, q(e).ix) => Settling(q(e), rows))
      <4> SUFFICES ASSUME q(e).pc = "neighbours", q(e).id = None, Apart(rows, q(e).ix)
                   PROVE  Settling(q(e), rows)
        BY <2>2
      <4>1. \A x \in rows : x.id # None
        BY <1>1, ConstantsAssumption DEF RowsOK, Row, Ids
      <4>2. ApartSet(Of(rows, q(e).ix)) /\ Others(rows, q(e)) = Of(rows, q(e).ix)
        BY <4>1, ApartIsApartSet DEF Others, Of
      <4> QED
        BY <4>1, <4>2 DEF Settling
    <3>4. q(e).op \in {"create", "update"} => Spacing(q(e), rows)
      BY <1>2, <3>1, <3>2, <3>3 DEF Spacing, Saving, Known
    <3>5. q(e).op = "destroy" => Unspacing(q(e), rows)
      BY <1>2, <3>1, <3>2 DEF Unspacing
    <3> QED
      BY <1>2, <3>1, <3>4, <3>5 DEF Spaced
  <2>5. \A x \in Editors : Spaced(req'[x], rows')
    BY <1>1, <2>1, <2>3, <2>4 DEF Spaced, ApartInv
  <2> QED
    BY <2>5 DEF ApartInv, Spaced, Spacing, Settling, Unspacing, Within
<1>3. ASSUME NEW t \in Times, NEW play \in kind.playTimes, NEW endTime \in kind.endTimes,
             NEW length \in kind.lengths, NEW titled \in [Both -> kind.titles],
             Create(e, t, play, endTime, length, titled)
      PROVE  ApartInv'
  BY <1>1, <1>2, <1>3, CreateFormed
<1>4. ASSUME NEW t \in Times, NEW play \in kind.playTimes, NEW endTime \in kind.endTimes,
             NEW length \in kind.lengths, NEW titled \in [Both -> kind.titles],
             NEW x \in In("main"), Update(e, x, t, play, endTime, length, titled)
      PROVE  ApartInv'
  <2>1. PICK r : /\ Formed(r) /\ Begin(e, r) /\ r.pc = "assign" /\ r.op = "update"
                 /\ r.ix = "main" /\ r.id = x.id
                 /\ r.altId = None \/ \E y \in In("alt") : r.altId = y.id
    BY <1>1, <1>4, UpdateFormed
  <2>2. Known(rows, r.id, "main") /\ Known(rows, r.altId, "alt")
    BY <2>1 DEF Known, In
  <2> QED
    BY <1>2, <2>1, <2>2
<1>5. ASSUME NEW x \in In("main"), Destroy(e, x)
      PROVE  ApartInv'
  BY <1>1, <1>2, <1>5, DestroyFormed
<1> QED
  BY <1>3, <1>4, <1>5 DEF Submit

LEMMA StepSpaces ==
  ASSUME TInv, TileInv, ApartInv, kind' = kind, NEW e \in Editors, Step(e)
  PROVE  ApartInv'
<1>1. PICK q : req'[e] = q
  OBVIOUS
<1> DEFINE r == req[e]
<1>2. /\ r.pc \in Running /\ req' = [req EXCEPT ![e] = q] /\ q.solo = r.solo
      /\ q.endTime = r.endTime /\ q.op = r.op /\ q.t = r.t
  BY <1>1, StepOfOne
<1>3. r.op \in {"create", "update", "destroy"}
  BY <1>2 DEF ApartInv, Spaced, Running
<1>4. \A pc : Goto(e, pc) => q.pc = pc
  BY <1>1, GoneTo
<1>5. ASSUME r.solo, Moderate(r), r.op \in {"create", "update"}
      PROVE  /\ q.pc \in Running => Spacing(q, rows')
             /\ q.pc = "done" => \A ix \in Both : KeptApart(q, rows', ix)
  <2>1. Spacing(r, rows) /\ r.endTime = None
    BY <1>2, <1>5 DEF ApartInv, Spaced, Moderate
  <2>2. CASE Assign(e)
    <3>1. Cast(r.t) = 0
      BY <1>5, <2>1, <2>2 DEF Spacing, Assign, Moderate
    <3>2. q.pc # "done"
      <4> DEFINE next(x, id) == [r EXCEPT !.pc = "neighbours", !.id = id, !.start = Wanted(r),
                                   !.end = x.end, !.dur = x.dur,
                                   !.held = [start |-> x.start, end |-> x.end, dur |-> x.dur]]
      <4>1. Goto(e, "failed") \/ \E x, id : req' = [req EXCEPT ![e] = next(x, id)]
        BY <2>2 DEF Assign
      <4>2. DOMAIN req = Editors /\ \A x, id : next(x, id).pc = "neighbours"
        BY DEF TInv, RequestsFormed, Formed, Fields
      <4> HIDE DEF next
      <4> QED
        BY <1>1, <1>4, <4>1, <4>2
    <3> QED
      BY <1>1, <2>1, <2>2, <3>1, <3>2, AssignSpaces
  <2>3. CASE Neighbours(e)
    <3>1. q.pc \in {"validate", "shorten"} /\ Spacing(q, rows')
      BY <1>1, <2>1, <2>3, NeighboursSpaces
    <3> QED
      BY <3>1
  <2>4. CASE Shorten(e)
    <3>1. q.pc # "done"
      BY <1>4, <2>4 DEF Shorten
    <3> QED
      BY <1>1, <2>1, <2>4, <3>1, ShortenSpaces
  <2>5. CASE Validate(e)
    <3>1. q.pc # "done"
      BY <1>4, <2>5 DEF Validate
    <3> QED
      BY <1>1, <2>1, <2>5, <3>1, ValidateSpaces
  <2>6. CASE Write(e)
    <3>1. \/ q.pc = "twin" /\ Spacing(q, rows')
          \/ q.pc = "done" /\ \A ix \in Both : KeptApart(q, rows', ix)
      BY <1>1, <2>1, <2>6, WriteSpaces
    <3> QED
      BY <3>1 DEF Running
  <2>7. CASE Twin(e)
    <3>1. q.pc \in {"assign", "neighbours"} /\ Spacing(q, rows')
      BY <1>1, <1>5, <2>1, <2>7, TwinSpaces
    <3> QED
      BY <3>1
  <2>8. ~(Find(e) \/ Fix(e) \/ Delete(e))
    BY <2>1 DEF Spacing, Saving, Find, Fix, Delete
  <2> QED
    BY <2>2, <2>3, <2>4, <2>5, <2>6, <2>7, <2>8 DEF Step
<1>6. ASSUME r.solo, Moderate(r), r.op = "destroy"
      PROVE  /\ q.pc \in Running => Unspacing(q, rows')
             /\ q.pc = "done" => \A ix \in Both : KeptApart(q, rows', ix)
  <2>1. Removing(r, rows) /\ Unspacing(r, rows)
    BY <1>2, <1>6 DEF ApartInv, Spaced, TileInv, OnCourse, Moderate
  <2>2. CASE Find(e)
    <3>1. q.pc \in {"fix", "delete"} /\ Unspacing(q, rows')
      BY <1>1, <2>1, <2>2, FindUnspaces
    <3> QED
      BY <3>1
  <2>3. CASE Fix(e)
    <3>1. q.pc # "done"
      BY <1>4, <2>3 DEF Fix
    <3> QED
      BY <1>1, <2>1, <2>3, <3>1, FixUnspaces
  <2>4. CASE Delete(e)
    <3>1. \/ q.pc = "failed"
          \/ q.pc = "find" /\ Unspacing(q, rows')
          \/ q.pc = "done" /\ \A ix \in Both : KeptApart(q, rows', ix)
      BY <1>1, <2>1, <2>4, DeleteUnspaces
    <3> QED
      BY <3>1 DEF Running
  <2>5. ~(Assign(e) \/ Neighbours(e) \/ Shorten(e) \/ Validate(e) \/ Write(e) \/ Twin(e))
    BY <2>1 DEF Removing, Deleting, Assign, Neighbours, Shorten, Validate, Write, Twin
  <2> QED
    BY <2>2, <2>3, <2>4, <2>5 DEF Step
<1>7. Spaced(q, rows')
  BY <1>2, <1>3, <1>5, <1>6 DEF Spaced, Moderate
<1>8. RequestsFormed
  BY DEF TInv
<1> QED
  BY <1>2, <1>7, <1>8, SpacedCarried

LEMMA ApartInvNext == TInv /\ TileInv /\ ApartInv /\ [Next]_vars => ApartInv'
<1> SUFFICES ASSUME TInv, TileInv, ApartInv, [Next]_vars PROVE ApartInv'
  OBVIOUS
<1>1. CASE UNCHANGED vars
  BY <1>1 DEF vars, ApartInv, Spaced, Spacing, Settling, Unspacing, Within
<1>2. ASSUME NEW e \in Editors, Submit(e), kind' = kind PROVE ApartInv'
  BY <1>2, SubmitSpaces
<1>3. ASSUME NEW e \in Editors, Step(e), kind' = kind PROVE ApartInv'
  BY <1>3, StepSpaces
<1> QED
  BY <1>1, <1>2, <1>3 DEF Next

\* A request that runs with no other meanwhile leaves the segments of each language
\* apart if it found them so, even one that moves a segment past its neighbours, as long
\* as the first saving of an update reads the new start as zero (update, set_end_time).
THEOREM SegmentsApart == Spec => []SegmentsStayApart
<1>1. TInv /\ ApartInv => SegmentsStayApart
  BY DEF TInv, RequestsFormed, Formed, ApartInv, Spaced, Moderate, KeptApart, SegmentsStayApart, Undisturbed, Indexes, Both
<1>2. Spec => []ApartInv
  BY ApartInvInit, ApartInvNext, AlwaysTInv, AlwaysTileInv, PTL DEF Spec
<1> QED
  BY <1>1, <1>2, AlwaysTInv, PTL

-----------------------------------------------------------------------------
(***************************************************************************)
(* The segments of a translation start where those of the index start, for *)
(* any number of them, of editors and of requests.  What matters of a row  *)
(* is its key: its id, its index and its start.                            *)
(***************************************************************************)
Keys(rs) == {<<x.id, x.ix, x.start>> : x \in rs}

\* The segment with this id starts elsewhere.
Moved(K, id, ix, s, t) == (K \ {<<id, ix, s>>}) \cup {<<id, ix, t>>}

\* The segment with this id starts at s, and nowhere else.
Only(K, id, ix, s) == \A t : <<id, ix, t>> \in K <=> t = s

AlignedKeys(K) == \A t : (\E i : <<i, "main", t>> \in K) <=> (\E i : <<i, "alt", t>> \in K)
DistinctKeys(K) == \A i, j, ix, t : <<i, ix, t>> \in K /\ <<j, ix, t>> \in K => i = j

LEMMA InKeys ==
  ASSUME NEW rs, NEW i, NEW ix, NEW t
  PROVE  <<i, ix, t>> \in Keys(rs) <=> \E x \in rs : x.id = i /\ x.ix = ix /\ x.start = t
BY DEF Keys

LEMMA AlignedByKeys ==
  ASSUME NEW rs
  PROVE  Aligned(rs) <=> AlignedKeys(Keys(rs))
<1>1. ASSUME NEW ix, NEW t
      PROVE  (\E i : <<i, ix, t>> \in Keys(rs)) <=> t \in {x.start : x \in Of(rs, ix)}
  <2>1. \A i : <<i, ix, t>> \in Keys(rs) <=> \E x \in rs : x.id = i /\ x.ix = ix /\ x.start = t
    BY InKeys
  <2> QED
    BY <2>1 DEF Of
<1> QED
  BY <1>1 DEF Aligned, AlignedKeys

LEMMA DistinctByKeys ==
  ASSUME NEW rs, Distinct(rs)
  PROVE  DistinctKeys(Keys(rs))
BY InKeys DEF Distinct, DistinctKeys

LEMMA OnlyKey ==
  ASSUME RowsOK, NEW x \in rows
  PROVE  Only(Keys(rows), x.id, x.ix, x.start)
BY InKeys DEF Only, RowsOK

-----------------------------------------------------------------------------
(***************************************************************************)
(* What each step makes of the keys.                                       *)
(***************************************************************************)
LEMMA EndingKeys ==
  ASSUME RowsOK, NEW id, Stored(id), NEW t \in Nat
  PROVE  Keys(Ending(id, t)) = Keys(rows)
<1>1. PICK p \in rows : p.id = id
  BY DEF Stored
<1>2. PICK d : /\ d.start = p.start /\ d.id = p.id /\ d.ix = p.ix
               /\ Ending(id, t) \in {rows, (rows \ {p}) \cup {d}}
  BY <1>1, EndingOf
<1> QED
  BY <1>2 DEF Keys

LEMMA DeletedKeys ==
  ASSUME RowsOK, NEW id, NEW ix, NEW t, <<id, ix, t>> \in Keys(rows)
  PROVE  Keys({x \in rows : x.id # id}) = Keys(rows) \ {<<id, ix, t>>}
<1>1. PICK x \in rows : x.id = id /\ x.ix = ix /\ x.start = t
  BY InKeys
<1>2. {y \in rows : y.id # id} = rows \ {x} /\ \A y \in rows : y.id = id => y = x
  BY <1>1 DEF RowsOK
<1> QED
  BY <1>1, <1>2 DEF Keys

\* The steps that leave every segment where it starts.
LEMMA QuietSteps ==
  ASSUME TInv, NEW e \in Editors, NEW q, req'[e] = q,
         Neighbours(e) \/ Shorten(e) \/ Validate(e) \/ Find(e) \/ Fix(e)
  PROVE  /\ Keys(rows') = Keys(rows)
         /\ \A f \in {"ix", "id", "altId", "t", "start", "held", "before"} : q[f] = req[e][f]
         /\ req[e].pc \in {"neighbours", "shorten", "validate"} =>
              q.pc \in {"shorten", "validate", "write", "refused", "failed"}
         /\ req[e].pc \in {"find", "fix"} => q.pc \in {"fix", "delete", "failed"}
<1> DEFINE r == req[e]
           same == \A f \in {"ix", "id", "altId", "t", "start", "held", "before"} : q[f] = r[f]
<1>1. RowsOK /\ DOMAIN req = Editors /\ DOMAIN r = Fields /\ Formed(r)
  BY DEF TInv, RequestsFormed, Formed
<1>2. \A pc : Goto(e, pc) => q.pc = pc /\ same
  BY <1>1 DEF Goto, Fields
<1>3. CASE Neighbours(e)
  <2> DEFINE given == [r EXCEPT !.end = r.endTime, !.pc = "validate"]
             ended(m) == [r EXCEPT !.end = m, !.dur = m - r.start, !.pc = "validate"]
             next(m, v) == [r EXCEPT !.end = m, !.dur = m - r.start, !.pc = "shorten", !.prev = v]
  <2>1. \/ req' = [req EXCEPT ![e] = given]
        \/ \E m : req' = [req EXCEPT ![e] = ended(m)]
        \/ \E m, v : req' = [req EXCEPT ![e] = next(m, v)]
    BY <1>1, <1>3 DEF Neighbours, Fields
  <2>2. q.pc \in {"validate", "shorten"} /\ same
    BY <1>1, <2>1 DEF Fields
  <2> HIDE DEF same
  <2> QED
    BY <1>3, <2>2 DEF Neighbours, same
<1>4. CASE Find(e)
  <2> DEFINE next(v, x) == [r EXCEPT !.pc = "fix", !.prev = v, !.fix = x]
  <2>1. Goto(e, "delete") \/ \E v, x : req' = [req EXCEPT ![e] = next(v, x)]
    BY <1>4 DEF Find
  <2>2. (\E v, x : req' = [req EXCEPT ![e] = next(v, x)]) => q.pc = "fix" /\ same
    BY <1>1 DEF Fields
  <2> HIDE DEF same, next
  <2> QED
    BY <1>2, <1>4, <2>1, <2>2 DEF Find, same
<1>5. CASE Shorten(e)
  <2>1. rows' = rows \/ (Stored(r.prev) /\ rows' = Ending(r.prev, r.start))
    BY <1>5 DEF Shorten
  <2>2. r.start \in Nat
    BY <1>1, <1>5 DEF Shorten, Formed, Saving
  <2>3. Keys(rows') = Keys(rows)
    BY <1>1, <2>1, <2>2, EndingKeys
  <2> HIDE DEF same
  <2> QED
    BY <1>2, <1>5, <2>3 DEF Shorten, same
<1>6. CASE Fix(e)
  <2>1. rows' = rows \/ (Stored(r.prev) /\ rows' = Ending(r.prev, r.fix))
    BY <1>6 DEF Fix
  <2>2. r.fix \in Nat
    BY <1>1, <1>6 DEF Fix, Formed
  <2>3. Keys(rows') = Keys(rows)
    BY <1>1, <2>1, <2>2, EndingKeys
  <2> HIDE DEF same
  <2> QED
    BY <1>2, <1>6, <2>3 DEF Fix, same
<1>7. CASE Validate(e)
  <2> HIDE DEF same
  <2> QED
    BY <1>2, <1>7 DEF Validate, same
<1> QED
  BY <1>3, <1>4, <1>5, <1>6, <1>7

LEMMA WriteKeys ==
  ASSUME TInv, NEW e \in Editors, Write(e)
  PROVE  LET r == req[e] IN
         /\ r.id = None => Keys(rows') = Keys(rows) \cup {<<lastId + 1, r.ix, r.start>>}
         /\ r.id # None /\ <<r.id, r.ix, r.held.start>> \in Keys(rows) =>
              Keys(rows') = Moved(Keys(rows), r.id, r.ix, r.held.start, r.start)
<1> DEFINE r == req[e]
<1>1. RowsOK /\ rows \subseteq Row /\ r.start \in Nat /\ r.end \in MaybeTime /\ r.dur \in Int \cup {None}
  BY DEF TInv, RowsOK, RequestsFormed, Formed, Write, Saving
<1>2. CASE r.id = None
  <2> DEFINE n == NewSegment(r, lastId + 1)
  <2>1. rows' = rows \cup {n}
    BY <1>2 DEF Write, NewSegment
  <2>2. n.id = lastId + 1 /\ n.ix = r.ix /\ n.start = r.start
    BY DEF NewSegment
  <2> HIDE DEF n
  <2>3. Keys(rows') = Keys(rows) \cup {<<n.id, n.ix, n.start>>}
    BY <2>1 DEF Keys
  <2> QED
    BY <1>2, <2>2, <2>3
<1>3. CASE r.id # None /\ <<r.id, r.ix, r.held.start>> \in Keys(rows)
  <2>1. PICK x \in rows : x.id = r.id /\ x.ix = r.ix /\ x.start = r.held.start
    BY <1>3, InKeys
  <2>2. Merged(x, r).id = x.id /\ Merged(x, r).ix = x.ix /\ Merged(x, r).start = r.start
    BY <1>1, <2>1 DEF Merged, Row
  <2>3. rows' = (rows \ {x}) \cup {Merged(x, r)}
    <3>1. rows' = {IF y.id = r.id THEN Merged(y, r) ELSE y : y \in rows}
      BY <1>3 DEF Write
    <3>2. \A y \in rows : y.id = r.id <=> y = x
      BY <1>1, <2>1 DEF RowsOK
    <3> HIDE DEF r
    <3> QED
      BY <3>1, <3>2
  <2>4. Only(Keys(rows), x.id, x.ix, x.start) /\ \A y \in rows \ {x} : y.id # x.id
    BY <1>1, <2>1, OnlyKey DEF RowsOK
  <2>5. Keys(rows') = (Keys(rows) \ {<<x.id, x.ix, x.start>>}) \cup {<<x.id, x.ix, r.start>>}
    BY <2>2, <2>3, <2>4 DEF Keys
  <2> QED
    BY <1>3, <2>1, <2>5 DEF Moved
<1> QED
  BY <1>2, <1>3

\* The first saving of an update leaves the segment where the record then has it.
LEMMA AssignKeys ==
  ASSUME TInv, NEW e \in Editors, NEW q, req'[e] = q, Assign(e), req[e].play = None,
         req[e].id # None, NEW s, <<req[e].id, req[e].ix, s>> \in Keys(rows)
  PROVE  /\ q.pc = "neighbours" /\ q.id = req[e].id /\ q.ix = req[e].ix /\ q.altId = req[e].altId
         /\ q.t = req[e].t /\ q.start = req[e].t /\ q.before = req[e].before
         /\ Keys(rows') = Moved(Keys(rows), q.id, q.ix, s, q.held.start)
<1> DEFINE r == req[e]
           raw == Cast(r.t)
           held(x) == [start |-> x.start, end |-> x.end, dur |-> x.dur]
           next(x, id) == [r EXCEPT !.pc = "neighbours", !.id = id, !.start = Wanted(r),
                             !.end = x.end, !.dur = x.dur, !.held = held(x)]
           moved == [Get(r.id) EXCEPT !.start = raw]
<1>1. RowsOK /\ DOMAIN req = Editors /\ DOMAIN r = Fields /\ Wanted(r) = r.t /\ rows \subseteq Row
  BY DEF TInv, RowsOK, RequestsFormed, Formed, Wanted
<1>2. PICK x \in rows : x.id = r.id /\ x.ix = r.ix /\ x.start = s
  BY InKeys
<1>3. Stored(r.id) /\ Get(r.id) = x
  BY <1>1, <1>2 DEF Stored, Get, RowsOK
<1>4. /\ moved.id = r.id /\ moved.ix = r.ix /\ moved.start = raw
  BY <1>1, <1>2, <1>3 DEF Row
<1>5. \A y, id : LET p == next(y, id) IN
        /\ p.pc = "neighbours" /\ p.id = id /\ p.ix = r.ix /\ p.altId = r.altId /\ p.t = r.t
        /\ p.start = r.t /\ p.before = r.before /\ p.held.start = y.start
  BY <1>1 DEF Fields
<1>6. \/ Acceptable(moved) /\ rows' = Saved(moved) /\ req' = [req EXCEPT ![e] = next(moved, moved.id)]
      \/ rows' = rows /\ req' = [req EXCEPT ![e] = next(Get(r.id), r.id)]
  BY <1>3 DEF Assign
<1> HIDE DEF moved, next
<1>7. CASE Acceptable(moved) /\ rows' = Saved(moved) /\ req' = [req EXCEPT ![e] = next(moved, moved.id)]
  <2>1. q = next(moved, moved.id)
    BY <1>1, <1>7
  <2>2. rows' = (rows \ {x}) \cup {moved}
    BY <1>1, <1>2, <1>4, <1>7 DEF Saved, RowsOK
  <2>3. \A y \in rows \ {x} : y.id # x.id
    BY <1>1, <1>2 DEF RowsOK
  <2>4. Keys(rows') = (Keys(rows) \ {<<x.id, x.ix, x.start>>}) \cup {<<moved.id, moved.ix, moved.start>>}
    BY <1>2, <2>2, <2>3 DEF Keys
  <2> QED
    BY <1>2, <1>4, <1>5, <2>1, <2>4 DEF Moved
<1>8. CASE rows' = rows /\ req' = [req EXCEPT ![e] = next(Get(r.id), r.id)]
  <2>1. q = next(x, r.id)
    BY <1>1, <1>3, <1>8
  <2>2. Keys(rows) = Moved(Keys(rows), r.id, r.ix, s, s)
    BY DEF Moved
  <2> QED
    BY <1>2, <1>5, <1>8, <2>1, <2>2
<1> QED
  BY <1>6, <1>7, <1>8

LEMMA TwinStep ==
  ASSUME TInv, NEW e \in Editors, NEW q, req'[e] = q, Twin(e), req[e].play = None
  PROVE  /\ q.ix = "alt" /\ q.id = req[e].altId /\ q.altId = req[e].altId /\ q.t = req[e].t
         /\ q.before = req[e].before /\ rows' = rows
         /\ IF req[e].op = "update" THEN q.pc = "assign"
            ELSE q.pc = "neighbours" /\ q.start = req[e].t
<1> DEFINE r == req[e]
           twin == [r EXCEPT !.ix = "alt", !.id = r.altId, !.end = None, !.dur = None,
                      !.held = Nothing, !.prev = None]
           again == [twin EXCEPT !.pc = "assign", !.start = None]
           anew == [twin EXCEPT !.pc = "neighbours", !.start = Wanted(twin)]
<1>1. DOMAIN req = Editors /\ DOMAIN r = Fields /\ rows' = rows
  BY DEF TInv, RequestsFormed, Formed, Twin
<1>2. /\ DOMAIN twin = Fields /\ twin.ix = "alt" /\ twin.id = r.altId /\ twin.altId = r.altId
      /\ twin.t = r.t /\ twin.before = r.before /\ twin.play = r.play
  BY <1>1 DEF Fields
<1>3. req' = [req EXCEPT ![e] = IF r.op = "update" THEN again ELSE anew]
  BY DEF Twin
<1>4. q = IF r.op = "update" THEN again ELSE anew
  BY <1>1, <1>3
<1> HIDE DEF twin
<1>5. Wanted(twin) = r.t
  BY <1>2 DEF Wanted
<1>6. /\ again.pc = "assign" /\ anew.pc = "neighbours" /\ anew.start = r.t
      /\ \A f \in {"ix", "id", "altId", "t", "before"} : again[f] = twin[f] /\ anew[f] = twin[f]
  BY <1>2, <1>5 DEF Fields
<1> HIDE DEF again, anew
<1> QED
  BY <1>1, <1>2, <1>4, <1>6

LEMMA DeleteStep ==
  ASSUME TInv, NEW e \in Editors, NEW q, req'[e] = q, Delete(e), kind.translated
  PROVE  LET r == req[e] IN
         /\ rows' = {x \in rows : x.id # r.id}
         /\ r.ix = "alt" => q.pc = "done"
         /\ r.ix = "main" =>
              \/ q.pc = "failed"
              \/ q.pc = "done" /\ \A x \in rows : ~(x.ix = "alt" /\ x.start = r.start)
              \/ /\ q.pc = "find" /\ q.ix = "alt" /\ q.start = r.start
                 /\ <<q.id, "alt", r.start>> \in Keys(rows)
<1> DEFINE r == req[e]
           twins == {x \in In("alt") : x.start = r.start}
           next(x) == [r EXCEPT !.pc = "find", !.ix = "alt", !.id = x.id, !.start = x.start,
                         !.end = x.end, !.dur = x.dur, !.prev = None, !.fix = None]
<1>1. DOMAIN req = Editors /\ DOMAIN r = Fields /\ rows' = {x \in rows : x.id # r.id}
  BY DEF TInv, RequestsFormed, Formed, Delete
<1>2. \/ r.ix = "alt" /\ Goto(e, "done")
      \/ r.ix = "main" /\ Goto(e, "failed")
      \/ r.ix = "main" /\ twins = {} /\ Goto(e, "done")
      \/ r.ix = "main" /\ \E x \in twins : req' = [req EXCEPT ![e] = next(x)]
  BY DEF Delete
<1>3. \A pc : Goto(e, pc) => q.pc = pc
  BY <1>1 DEF Goto, Fields
<1>4. ASSUME NEW x \in twins, req' = [req EXCEPT ![e] = next(x)]
      PROVE  /\ q.pc = "find" /\ q.ix = "alt" /\ q.start = r.start
             /\ <<q.id, "alt", r.start>> \in Keys(rows)
  <2>1. q.pc = "find" /\ q.ix = "alt" /\ q.start = r.start /\ q.id = x.id
    BY <1>1, <1>4 DEF Fields
  <2>2. x \in rows /\ x.ix = "alt" /\ x.start = r.start
    BY DEF In
  <2> QED
    BY <2>1, <2>2, InKeys
<1>5. twins = {} => \A x \in rows : ~(x.ix = "alt" /\ x.start = r.start)
  BY DEF In
<1> HIDE DEF twins, next
<1> QED
  BY <1>1, <1>2, <1>3, <1>4, <1>5

-----------------------------------------------------------------------------
(***************************************************************************)
(* A request that nobody disturbs, between the rows it found and those     *)
(* there are.                                                              *)
(***************************************************************************)
Making(r, rs) ==
  LET K == Keys(r.before) IN
  /\ r.pc \in Saving \cup {"twin"} /\ r.id = None /\ r.altId = None
  /\ r.pc \in Saving => r.start = r.t
  /\ \/ r.ix = "main" /\ r.pc # "twin" /\ Keys(rs) = K
     \/ (r.ix = "alt" \/ r.pc = "twin") /\ \E i : Keys(rs) = K \cup {<<i, "main", r.t>>}

Unmaking(r, rs) ==
  LET K == Keys(r.before) IN
  /\ r.pc \in Deleting
  /\ \/ r.ix = "main" /\ Keys(rs) = K /\ <<r.id, "main", r.start>> \in K
     \/ /\ r.ix = "alt" /\ <<r.id, "alt", r.start>> \in K
        /\ \E i : <<i, "main", r.start>> \in K /\ Keys(rs) = K \ {<<i, "main", r.start>>}

\* The row of the segment starts where the record believes it does.
Moving(r, rs) ==
  LET K == Keys(r.before) IN
  \E i, j, s :
    /\ Only(K, i, "main", s) /\ Only(K, j, "alt", s) /\ i # None /\ j # None
    /\ r.pc \in Saving => r.start = r.t
    /\ \/ /\ r.ix = "main" /\ r.id = i /\ r.altId = j
          /\ \/ r.pc = "assign" /\ Keys(rs) = K
             \/ r.pc \in Saving /\ Keys(rs) = Moved(K, i, "main", s, r.held.start)
             \/ r.pc = "twin" /\ Keys(rs) = Moved(K, i, "main", s, r.t)
       \/ /\ r.ix = "alt" /\ r.id = j
          /\ \/ r.pc = "assign" /\ Keys(rs) = Moved(K, i, "main", s, r.t)
             \/ r.pc \in Saving
                /\ Keys(rs) = Moved(Moved(K, i, "main", s, r.t), j, "alt", s, r.held.start)

Aligning(r, rs) ==
  (r.solo /\ r.play = None /\ kind.translated /\ Aligned(r.before) /\ Distinct(r.before)) =>
    /\ r.pc \in Running =>
         \/ r.op = "create" /\ Making(r, rs)
         \/ r.op = "destroy" /\ Unmaking(r, rs)
         \/ r.op = "update" /\ Moving(r, rs)
    /\ r.pc = "done" => Aligned(rs)

TwinInv == \A e \in Editors : Aligning(req[e], rows)

-----------------------------------------------------------------------------
(***************************************************************************)
(* Creating, deleting and moving, one step at a time.                      *)
(***************************************************************************)
LEMMA MakingSteps ==
  ASSUME TInv, NEW e \in Editors, NEW q, req'[e] = q, Step(e), req[e].play = None,
         req[e].op = "create", kind.translated, Aligned(req[e].before), Making(req[e], rows)
  PROVE  /\ q.pc \in Running => Making(q, rows')
         /\ q.pc = "done" => Aligned(rows')
<1> DEFINE r == req[e]
           K == Keys(r.before)
<1>1. /\ r.pc \in Saving \cup {"twin"} /\ r.id = None /\ r.altId = None
      /\ r.pc \in Saving => r.start = r.t
      /\ \/ r.ix = "main" /\ r.pc # "twin" /\ Keys(rows) = K
         \/ (r.ix = "alt" \/ r.pc = "twin") /\ \E i : Keys(rows) = K \cup {<<i, "main", r.t>>}
  BY DEF Making
<1>2. DOMAIN req = Editors /\ DOMAIN r = Fields
  BY DEF TInv, RequestsFormed, Formed
<1> HIDE DEF K
<1>3. CASE Neighbours(e) \/ Shorten(e) \/ Validate(e)
  <2>1. /\ Keys(rows') = Keys(rows)
        /\ \A f \in {"ix", "id", "altId", "t", "start", "held", "before"} : q[f] = r[f]
        /\ r.pc \in {"neighbours", "shorten", "validate"} =>
             q.pc \in {"shorten", "validate", "write", "refused", "failed"}
    BY <1>3, QuietSteps
  <2>2. r.pc \in {"neighbours", "shorten", "validate"}
    BY <1>3 DEF Neighbours, Shorten, Validate
  <2>3. /\ q.ix = r.ix /\ q.id = r.id /\ q.altId = r.altId /\ q.t = r.t /\ q.start = r.start
        /\ q.before = r.before /\ q.pc \in {"shorten", "validate", "write", "refused", "failed"}
    BY <2>1, <2>2
  <2> QED
    BY <1>1, <2>1, <2>2, <2>3 DEF Making, Saving, Running, K
<1>4. CASE Write(e)
  <2>1. Keys(rows') = Keys(rows) \cup {<<lastId + 1, r.ix, r.start>>}
    BY <1>1, <1>4, WriteKeys
  <2>2. r.pc = "write" /\ Goto(e, IF r.ix = "main" THEN "twin" ELSE "done")
    BY <1>4 DEF Write
  <2>3. /\ q.ix = r.ix /\ q.id = r.id /\ q.altId = r.altId /\ q.t = r.t
        /\ q.before = r.before /\ q.pc = IF r.ix = "main" THEN "twin" ELSE "done"
    BY <1>2, <2>2 DEF Goto, Fields
  <2>4. CASE r.ix = "main"
    <3>1. Keys(rows') = K \cup {<<lastId + 1, "main", q.t>>}
      BY <1>1, <2>1, <2>2, <2>3, <2>4 DEF Saving
    <3> QED
      BY <1>1, <2>3, <2>4, <3>1 DEF Making, Saving, K
  <2>5. CASE r.ix = "alt"
    <3>1. PICK i : Keys(rows') = K \cup {<<i, "main", r.t>>} \cup {<<lastId + 1, "alt", r.t>>}
      BY <1>1, <2>1, <2>2, <2>5 DEF Saving
    <3>2. AlignedKeys(K)
      BY AlignedByKeys DEF K
    <3>3. AlignedKeys(Keys(rows'))
      BY <3>1, <3>2 DEF AlignedKeys
    <3> QED
      BY <2>3, <2>5, <3>3, AlignedByKeys DEF Running
  <2> QED
    BY <1>1, <2>2, <2>4, <2>5
<1>5. CASE Twin(e)
  <2>1. /\ q.ix = "alt" /\ q.id = r.altId /\ q.altId = r.altId /\ q.t = r.t
        /\ q.before = r.before /\ rows' = rows /\ q.pc = "neighbours" /\ q.start = r.t
    BY <1>5, TwinStep
  <2>2. r.pc = "twin"
    BY <1>5 DEF Twin
  <2> QED
    BY <1>1, <2>1, <2>2 DEF Making, Saving, K
<1>6. ~(Assign(e) \/ Find(e) \/ Fix(e) \/ Delete(e))
  BY <1>1 DEF Saving, Assign, Find, Fix, Delete
<1> QED
  BY <1>3, <1>4, <1>5, <1>6 DEF Step

LEMMA PairRemoved ==
  ASSUME NEW K, AlignedKeys(K), DistinctKeys(K), NEW i, NEW j, NEW s,
         <<i, "main", s>> \in K, <<j, "alt", s>> \in K
  PROVE  AlignedKeys((K \ {<<i, "main", s>>}) \ {<<j, "alt", s>>})
<1> DEFINE L == (K \ {<<i, "main", s>>}) \ {<<j, "alt", s>>}
<1>1. ASSUME NEW k, NEW ix \in {"main", "alt"}, NEW t
      PROVE  <<k, ix, t>> \in L <=> <<k, ix, t>> \in K /\ t # s
  <2>1. CASE t = s
    BY <2>1 DEF DistinctKeys
  <2>2. CASE t # s
    BY <2>2
  <2> QED
    BY <2>1, <2>2
<1> HIDE DEF L
<1>2. \A t : (\E k : <<k, "main", t>> \in L) <=> (\E k : <<k, "alt", t>> \in L)
  BY <1>1 DEF AlignedKeys
<1> QED
  BY <1>2 DEF AlignedKeys, L

LEMMA UnmakingSteps ==
  ASSUME TInv, NEW e \in Editors, NEW q, req'[e] = q, Step(e), kind.translated,
         Aligned(req[e].before), Distinct(req[e].before), Unmaking(req[e], rows)
  PROVE  /\ q.pc \in Running => Unmaking(q, rows')
         /\ q.pc = "done" => Aligned(rows')
<1> DEFINE r == req[e]
           K == Keys(r.before)
<1>1. /\ r.pc \in Deleting
      /\ \/ r.ix = "main" /\ Keys(rows) = K /\ <<r.id, "main", r.start>> \in K
         \/ /\ r.ix = "alt" /\ <<r.id, "alt", r.start>> \in K
            /\ \E i : <<i, "main", r.start>> \in K /\ Keys(rows) = K \ {<<i, "main", r.start>>}
  BY DEF Unmaking
<1>2. RowsOK
  BY DEF TInv
<1>3. AlignedKeys(K) /\ DistinctKeys(K)
  BY AlignedByKeys, DistinctByKeys
<1> HIDE DEF K
<1>4. CASE Find(e) \/ Fix(e)
  <2>1. /\ Keys(rows') = Keys(rows)
        /\ \A f \in {"ix", "id", "altId", "t", "start", "held", "before"} : q[f] = r[f]
        /\ r.pc \in {"find", "fix"} => q.pc \in {"fix", "delete", "failed"}
    BY <1>4, QuietSteps
  <2>2. r.pc \in {"find", "fix"}
    BY <1>4 DEF Find, Fix
  <2>3. /\ q.ix = r.ix /\ q.id = r.id /\ q.start = r.start /\ q.before = r.before
        /\ q.pc \in {"fix", "delete", "failed"}
    BY <2>1, <2>2
  <2> QED
    BY <1>1, <2>1, <2>3 DEF Unmaking, Deleting, Running, K
<1>5. CASE Delete(e)
  <2>1. /\ rows' = {x \in rows : x.id # r.id}
        /\ r.ix = "alt" => q.pc = "done"
        /\ r.ix = "main" =>
             \/ q.pc = "failed"
             \/ q.pc = "done" /\ \A x \in rows : ~(x.ix = "alt" /\ x.start = r.start)
             \/ /\ q.pc = "find" /\ q.ix = "alt" /\ q.start = r.start
                /\ <<q.id, "alt", r.start>> \in Keys(rows)
    BY <1>5, DeleteStep
  <2>2. q.before = r.before
    BY StepOfOne
  <2>3. <<r.id, r.ix, r.start>> \in Keys(rows)
    <3>1. CASE r.ix = "main"
      BY <1>1, <3>1
    <3>2. CASE r.ix = "alt"
      <4>1. PICK i : Keys(rows) = K \ {<<i, "main", r.start>>}
        BY <1>1, <3>2
      <4>2. <<r.id, "alt", r.start>> \in K /\ <<r.id, "alt", r.start>> # <<i, "main", r.start>>
        BY <1>1, <3>2
      <4> QED
        BY <3>2, <4>1, <4>2
    <3> QED
      BY <1>1, <3>1, <3>2
  <2>4. Keys(rows') = Keys(rows) \ {<<r.id, r.ix, r.start>>}
    BY <1>2, <2>1, <2>3, DeletedKeys
  <2>5. CASE r.ix = "main"
    <3>1. Keys(rows) = K /\ <<r.id, "main", r.start>> \in K
      BY <1>1, <2>5
    <3>2. \E x \in rows : x.ix = "alt" /\ x.start = r.start
      <4>1. \E j : <<j, "alt", r.start>> \in Keys(rows)
        BY <1>3, <3>1 DEF AlignedKeys
      <4> QED
        BY <4>1, InKeys
    <3> QED
      BY <2>1, <2>2, <2>4, <2>5, <3>1, <3>2 DEF Unmaking, Deleting, Running, K
  <2>6. CASE r.ix = "alt"
    <3>1. PICK i : <<i, "main", r.start>> \in K /\ Keys(rows) = K \ {<<i, "main", r.start>>}
      BY <1>1, <2>6
    <3>2. Keys(rows') = (K \ {<<i, "main", r.start>>}) \ {<<r.id, "alt", r.start>>}
      BY <2>4, <2>6, <3>1
    <3>3. <<r.id, "alt", r.start>> \in K
      BY <1>1, <2>6
    <3>4. AlignedKeys(Keys(rows'))
      BY <1>3, <3>1, <3>2, <3>3, PairRemoved
    <3> QED
      BY <2>1, <2>6, <3>4, AlignedByKeys DEF Running
  <2> QED
    BY <1>1, <2>5, <2>6
<1>6. ~(Assign(e) \/ Neighbours(e) \/ Shorten(e) \/ Validate(e) \/ Write(e) \/ Twin(e))
  BY <1>1 DEF Deleting, Assign, Neighbours, Shorten, Validate, Write, Twin
<1> QED
  BY <1>4, <1>5, <1>6 DEF Step

LEMMA MovedTwice ==
  ASSUME NEW K, NEW i, NEW ix, NEW s, Only(K, i, ix, s), NEW h, NEW t
  PROVE  /\ Moved(Moved(K, i, ix, s, h), i, ix, h, t) = Moved(K, i, ix, s, t)
         /\ <<i, ix, h>> \in Moved(K, i, ix, s, h)
         /\ Only(K, i, ix, s) => <<i, ix, s>> \in K
BY DEF Moved, Only

LEMMA MovedBoth ==
  ASSUME NEW K, AlignedKeys(K), DistinctKeys(K), NEW i, NEW j, NEW s, NEW t,
         <<i, "main", s>> \in K, <<j, "alt", s>> \in K
  PROVE  AlignedKeys(Moved(Moved(K, i, "main", s, t), j, "alt", s, t))
BY DEF AlignedKeys, DistinctKeys, Moved

LEMMA MovedOther ==
  ASSUME NEW K, NEW i, NEW j, NEW s, NEW t, Only(K, j, "alt", s)
  PROVE  Only(Moved(K, i, "main", s, t), j, "alt", s)
BY DEF Moved, Only

LEMMA MovingSteps ==
  ASSUME TInv, NEW e \in Editors, NEW q, req'[e] = q, Step(e), req[e].play = None,
         req[e].op = "update", kind.translated, Aligned(req[e].before),
         Distinct(req[e].before), Moving(req[e], rows)
  PROVE  /\ q.pc \in Running => Moving(q, rows')
         /\ q.pc = "done" => Aligned(rows')
<1> DEFINE r == req[e]
           K == Keys(r.before)
<1>1. PICK i, j, s :
        /\ Only(K, i, "main", s) /\ Only(K, j, "alt", s) /\ i # None /\ j # None
        /\ r.pc \in Saving => r.start = r.t
        /\ \/ /\ r.ix = "main" /\ r.id = i /\ r.altId = j
              /\ \/ r.pc = "assign" /\ Keys(rows) = K
                 \/ r.pc \in Saving /\ Keys(rows) = Moved(K, i, "main", s, r.held.start)
                 \/ r.pc = "twin" /\ Keys(rows) = Moved(K, i, "main", s, r.t)
           \/ /\ r.ix = "alt" /\ r.id = j
              /\ \/ r.pc = "assign" /\ Keys(rows) = Moved(K, i, "main", s, r.t)
                 \/ r.pc \in Saving
                    /\ Keys(rows) = Moved(Moved(K, i, "main", s, r.t), j, "alt", s, r.held.start)
  BY DEF Moving
<1>2. q.t = r.t /\ q.before = r.before
  BY StepOfOne
<1>3. DOMAIN req = Editors /\ DOMAIN r = Fields
  BY DEF TInv, RequestsFormed, Formed
<1>4. AlignedKeys(K) /\ DistinctKeys(K)
  BY AlignedByKeys, DistinctByKeys
<1> DEFINE M == Moved(K, i, "main", s, r.t)
<1>5. Only(M, j, "alt", s) /\ <<i, "main", s>> \in K /\ <<j, "alt", s>> \in K /\ <<j, "alt", s>> \in M
  <2>1. Only(K, i, "main", s) /\ Only(K, j, "alt", s)
    BY <1>1
  <2> HIDE DEF K
  <2>2. Only(M, j, "alt", s)
    BY <2>1, MovedOther
  <2> HIDE DEF M
  <2> QED
    BY <2>1, <2>2 DEF Only
<1>6. K = Keys(q.before)
  BY <1>2
<1> HIDE DEF K, M
<1>7. CASE Assign(e)
  <2>1. r.pc = "assign" /\ r.pc \notin Saving
    BY <1>7 DEF Assign, Saving
  <2>2. <<r.id, r.ix, s>> \in Keys(rows) /\ r.id # None
    BY <1>1, <1>5, <2>1 DEF M
  <2>3. /\ q.pc = "neighbours" /\ q.id = r.id /\ q.ix = r.ix /\ q.altId = r.altId
        /\ q.t = r.t /\ q.start = r.t
        /\ Keys(rows') = Moved(Keys(rows), q.id, q.ix, s, q.held.start)
    BY <1>7, <2>2, AssignKeys
  <2>4. Moving(q, rows')
    BY <1>1, <1>6, <2>1, <2>3 DEF Moving, Saving
  <2> QED
    BY <2>3, <2>4
<1>8. CASE Neighbours(e) \/ Shorten(e) \/ Validate(e)
  <2>1. /\ Keys(rows') = Keys(rows)
        /\ \A f \in {"ix", "id", "altId", "t", "start", "held", "before"} : q[f] = r[f]
        /\ r.pc \in {"neighbours", "shorten", "validate"} =>
             q.pc \in {"shorten", "validate", "write", "refused", "failed"}
    BY <1>8, QuietSteps
  <2>2. r.pc \in Saving
    BY <1>8 DEF Neighbours, Shorten, Validate, Saving
  <2>3. /\ q.ix = r.ix /\ q.id = r.id /\ q.altId = r.altId /\ q.start = r.start /\ q.held = r.held
        /\ q.pc \in Saving \cup {"refused", "failed"}
    BY <1>8, <2>1 DEF Neighbours, Shorten, Validate, Saving
  <2>4. r.pc \notin {"assign", "twin"}
    BY <2>2 DEF Saving
  <2>5. q.pc \in Saving => Moving(q, rows')
    BY <1>1, <1>2, <1>6, <2>1, <2>2, <2>3, <2>4 DEF Moving
  <2> QED
    BY <2>3, <2>5 DEF Running, Saving
<1>9. CASE Write(e)
  <2>1. r.pc = "write" /\ Goto(e, IF r.ix = "main" THEN "twin" ELSE "done")
    BY <1>9 DEF Write
  <2>2. /\ q.ix = r.ix /\ q.id = r.id /\ q.altId = r.altId
        /\ q.pc = IF r.ix = "main" THEN "twin" ELSE "done"
    BY <1>3, <2>1 DEF Goto, Fields
  <2>3. r.start = r.t /\ r.id # None
    BY <1>1, <2>1 DEF Saving
  <2>4. <<r.id, r.ix, r.held.start>> \in Keys(rows) =>
          Keys(rows') = Moved(Keys(rows), r.id, r.ix, r.held.start, r.t)
    BY <1>9, <2>3, WriteKeys
  <2>5. CASE r.ix = "main"
    <3>1. r.id = i /\ r.altId = j /\ Keys(rows) = Moved(K, i, "main", s, r.held.start)
      BY <1>1, <2>1, <2>5
    <3>2. Keys(rows') = Moved(K, i, "main", s, r.t)
      <4>1. Only(K, i, "main", s)
        BY <1>1
      <4>2. \A h : /\ <<i, "main", h>> \in Moved(K, i, "main", s, h)
                   /\ Moved(Moved(K, i, "main", s, h), i, "main", h, r.t) = Moved(K, i, "main", s, r.t)
        BY <4>1 DEF Moved, Only
      <4>3. <<i, "main", r.held.start>> \in Keys(rows)
        BY <3>1, <4>2
      <4>4. Keys(rows') = Moved(Keys(rows), i, "main", r.held.start, r.t)
        BY <2>4, <2>5, <3>1, <4>3
      <4> QED
        BY <3>1, <4>2, <4>4
    <3>3. Moving(q, rows')
      BY <1>1, <1>2, <1>6, <2>2, <2>5, <3>1, <3>2 DEF Moving, Saving
    <3> QED
      BY <2>2, <2>5, <3>3
  <2>6. CASE r.ix = "alt"
    <3>1. r.id = j /\ Keys(rows) = Moved(M, j, "alt", s, r.held.start)
      BY <1>1, <2>1, <2>6 DEF M
    <3>2. Keys(rows') = Moved(M, j, "alt", s, r.t)
      BY <1>5, <2>4, <2>6, <3>1, MovedTwice
    <3>3. AlignedKeys(Keys(rows'))
      BY <1>4, <1>5, <3>2, MovedBoth DEF M
    <3> QED
      BY <2>2, <2>6, <3>3, AlignedByKeys DEF Running
  <2> QED
    BY <1>1, <2>5, <2>6
<1>10. CASE Twin(e)
  <2>1. r.pc = "twin" /\ r.pc \notin Saving
    BY <1>10 DEF Twin, Saving
  <2>2. q.ix = "alt" /\ q.id = r.altId /\ rows' = rows /\ q.pc = "assign"
    BY <1>10, TwinStep
  <2>3. r.altId = j /\ Keys(rows') = M
    BY <1>1, <2>1, <2>2 DEF M
  <2>4. Moving(q, rows')
    BY <1>1, <1>2, <1>6, <2>2, <2>3 DEF Moving, Saving, M
  <2> QED
    BY <2>2, <2>4
<1>11. ~(Find(e) \/ Fix(e) \/ Delete(e))
  BY <1>1 DEF Saving, Find, Fix, Delete
<1> QED
  BY <1>7, <1>8, <1>9, <1>10, <1>11 DEF Step

-----------------------------------------------------------------------------
(***************************************************************************)
(* Every behaviour.                                                        *)
(***************************************************************************)
LEMMA TwinInvInit == Init => TwinInv
BY DEF Init, TwinInv, Aligning, Idle

LEMMA TwinInvStutters == TwinInv /\ UNCHANGED vars => TwinInv'
BY DEF vars, TwinInv, Aligning

LEMMA BeginTwins ==
  ASSUME TInv, kind' = kind, rows' = rows, NEW e \in Editors, NEW r, Formed(r), Begin(e, r),
         \A s \in BOOLEAN : Aligning([r EXCEPT !.before = rows, !.solo = s], rows)
  PROVE  TwinInv'
<1> DEFINE alone == \A y \in Editors \ {e} : req[y].pc \notin Running
           q(x) == IF x = e THEN [r EXCEPT !.before = rows, !.solo = alone]
                   ELSE [req[x] EXCEPT !.solo = FALSE]
<1>1. \A x \in Editors : req'[x] = q(x)
  BY DEF Begin
<1>2. \A x \in Editors \ {e} : ~q(x).solo
  BY DEF TInv, RequestsFormed, Formed, Fields
<1>3. Aligning(q(e), rows)
  OBVIOUS
<1>4. \A x \in Editors \ {e} : Aligning(q(x), rows)
  BY <1>2 DEF Aligning
<1> HIDE DEF q
<1>5. \A x \in Editors : Aligning(req'[x], rows')
  BY <1>1, <1>3, <1>4
<1> QED
  BY <1>5 DEF TwinInv, Aligning, Making, Unmaking, Moving

LEMMA SubmitTwins ==
  ASSUME TInv, kind' = kind, NEW e \in Editors, Submit(e)
  PROVE  TwinInv'
<1>1. rows' = rows /\ kind \in Kinds /\ RowsOK
  BY SubmitForms DEF TInv
<1>2. ASSUME NEW r, Formed(r), Begin(e, r), r.ix = "main",
             \/ /\ r.pc = "neighbours" /\ r.op = "create"
                /\ r.id = None /\ r.altId = None /\ r.start = r.t
             \/ /\ r.pc = "assign" /\ r.op = "update"
                /\ \E x \in In("main") :
                     /\ r.id = x.id
                     /\ (\E y \in In("alt") : y.start = x.start)
                          => \E y \in In("alt") : y.start = x.start /\ r.altId = y.id
             \/ /\ r.pc = "find" /\ r.op = "destroy"
                /\ \E x \in In("main") : r.id = x.id /\ r.start = x.start
      PROVE  TwinInv'
  <2>1. ASSUME NEW p \in BOOLEAN PROVE Aligning([r EXCEPT !.before = rows, !.solo = p], rows)
    <3> DEFINE q == [r EXCEPT !.before = rows, !.solo = p]
    <3>1. q.before = rows /\ \A f \in Fields \ {"before", "solo"} : q[f] = r[f]
      BY <1>2 DEF Formed, Fields
    <3>2. /\ q.before = rows /\ q.pc = r.pc /\ q.op = r.op /\ q.ix = r.ix /\ q.id = r.id
          /\ q.altId = r.altId /\ q.start = r.start /\ q.t = r.t
      BY <3>1 DEF Fields
    <3> HIDE DEF q
    <3>3. CASE r.op = "create"
      <4>1. Making(q, rows) /\ q.pc # "done"
        BY <1>2, <3>2, <3>3 DEF Making, Saving
      <4> QED
        BY <3>2, <3>3, <4>1 DEF Aligning, q
    <3>4. CASE r.op = "destroy"
      <4>1. PICK x \in In("main") : r.id = x.id /\ r.start = x.start
        BY <1>2, <3>4
      <4>2. x \in rows /\ x.ix = "main"
        BY DEF In
      <4>3. <<r.id, "main", r.start>> \in Keys(rows)
        BY <4>1, <4>2, InKeys
      <4>4. Unmaking(q, rows) /\ q.pc # "done"
        BY <1>2, <3>2, <3>4, <4>3 DEF Unmaking, Deleting
      <4> QED
        BY <3>2, <3>4, <4>4 DEF Aligning, q
    <3>5. CASE r.op = "update"
      <4>1. ASSUME Aligned(rows) PROVE Moving(q, rows)
        <5>1. PICK x \in In("main") :
                /\ r.id = x.id
                /\ (\E y \in In("alt") : y.start = x.start)
                     => \E y \in In("alt") : y.start = x.start /\ r.altId = y.id
          BY <1>2, <3>5
        <5>2. x \in rows /\ x.ix = "main"
          BY DEF In
        <5>3. \E y \in In("alt") : y.start = x.start
          BY <4>1, <5>2 DEF Aligned, Of, In
        <5>4. PICK y \in In("alt") : y.start = x.start /\ r.altId = y.id
          BY <5>1, <5>3
        <5>5. y \in rows /\ y.ix = "alt"
          BY DEF In
        <5>6. Only(Keys(rows), x.id, "main", x.start) /\ Only(Keys(rows), y.id, "alt", x.start)
          BY <1>1, <5>2, <5>4, <5>5, OnlyKey
        <5>7. x.id # None /\ y.id # None
          BY <1>1, <5>2, <5>5, ConstantsAssumption DEF RowsOK, Row, Ids
        <5> QED
          BY <1>2, <3>2, <3>5, <5>1, <5>4, <5>6, <5>7 DEF Moving, Saving
      <4> QED
        BY <1>2, <3>2, <3>5, <4>1 DEF Aligning, q
    <3> QED
      BY <1>2, <3>3, <3>4, <3>5
  <2> QED
    BY <1>1, <1>2, <2>1, BeginTwins
<1>3. ASSUME NEW t \in Times, NEW play \in kind.playTimes, NEW endTime \in kind.endTimes,
             NEW length \in kind.lengths, NEW titled \in [Both -> kind.titles],
             \/ Create(e, t, play, endTime, length, titled)
             \/ \E x \in In("main") : Update(e, x, t, play, endTime, length, titled)
      PROVE  TwinInv'
  <2>1. CASE Create(e, t, play, endTime, length, titled)
    BY <1>1, <1>2, <2>1, CreateFormed
  <2>2. ASSUME NEW x \in In("main"), Update(e, x, t, play, endTime, length, titled)
        PROVE  TwinInv'
    BY <1>1, <1>2, <2>2, UpdateFormed
  <2> QED
    BY <1>3, <2>1, <2>2
<1>4. ASSUME NEW x \in In("main"), Destroy(e, x)
      PROVE  TwinInv'
  BY <1>1, <1>2, <1>4, DestroyFormed
<1> QED
  BY <1>3, <1>4 DEF Submit

LEMMA StepTwins ==
  ASSUME TInv, TileInv, TwinInv, kind' = kind, NEW e \in Editors, Step(e)
  PROVE  TwinInv'
<1>1. PICK q : req'[e] = q
  OBVIOUS
<1> DEFINE r == req[e]
<1>2. /\ r.pc \in Running /\ req' = [req EXCEPT ![e] = q] /\ q.solo = r.solo
      /\ q.op = r.op /\ q.play = r.play /\ q.t = r.t /\ q.before = r.before
  BY <1>1, StepOfOne
<1>3. ASSUME r.solo, r.play = None, kind.translated, Aligned(r.before), Distinct(r.before)
      PROVE  /\ q.pc \in Running =>
                  \/ q.op = "create" /\ Making(q, rows')
                  \/ q.op = "destroy" /\ Unmaking(q, rows')
                  \/ q.op = "update" /\ Moving(q, rows')
             /\ q.pc = "done" => Aligned(rows')
  <2>1. \/ r.op = "create" /\ Making(r, rows)
        \/ r.op = "destroy" /\ Unmaking(r, rows)
        \/ r.op = "update" /\ Moving(r, rows)
    BY <1>2, <1>3 DEF TwinInv, Aligning
  <2> QED
    BY <1>1, <1>2, <1>3, <2>1, MakingSteps, UnmakingSteps, MovingSteps
<1>4. Aligning(q, rows')
  BY <1>2, <1>3 DEF Aligning
<1>5. ASSUME NEW x \in Editors \ {e} PROVE Aligning(req[x], rows')
  BY <1>2, <1>5 DEF TileInv, Aligning
<1>6. DOMAIN req = Editors
  BY DEF TInv, RequestsFormed
<1>7. \A x \in Editors : Aligning(req'[x], rows')
  BY <1>2, <1>4, <1>5, <1>6
<1> QED
  BY <1>7 DEF TwinInv, Aligning, Making, Unmaking, Moving

LEMMA TwinInvNext == TInv /\ TileInv /\ TwinInv /\ [Next]_vars => TwinInv'
<1> SUFFICES ASSUME TInv, TileInv, TwinInv, [Next]_vars PROVE TwinInv'
  OBVIOUS
<1>1. CASE UNCHANGED vars
  BY <1>1, TwinInvStutters
<1>2. ASSUME NEW e \in Editors, Submit(e), kind' = kind PROVE TwinInv'
  BY <1>2, SubmitTwins
<1>3. ASSUME NEW e \in Editors, Step(e), kind' = kind PROVE TwinInv'
  BY <1>3, StepTwins
<1> QED
  BY <1>1, <1>2, <1>3 DEF Next

\* A request that nobody disturbs leaves each segment of the index its twin, and
\* the translation no segment without one, if it found them so and no two segments
\* started together (interview_index_controller.rb: create, update, destroy).
THEOREM TwinsAligned == Spec => []TwinsStayAligned
<1>1. TInv /\ TwinInv => TwinsStayAligned
  BY DEF TInv, RequestsFormed, TwinInv, Aligning, TwinsStayAligned, Undisturbed
<1>2. Spec => []TwinInv
  BY TwinInvInit, TwinInvNext, AlwaysTInv, AlwaysTileInv, PTL DEF Spec
<1> QED
  BY <1>1, <1>2, AlwaysTInv, PTL
=============================================================================
