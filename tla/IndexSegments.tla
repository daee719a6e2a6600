--------------------------- MODULE IndexSegments ---------------------------
(***************************************************************************)
(* The segments of a media index, and of its translation.                  *)
(*                                                                         *)
(* A segment (a row of file_index_points) starts at a time and ends where  *)
(* the next one starts.  Nothing keeps that in the database: each request  *)
(* that creates, moves or deletes a segment computes the end of its own    *)
(* and rewrites the end of the one before it, in transactions of their     *)
(* own, and only then asks whether its own segment may be saved at all.    *)
(* With a translation the same happens again for the twin of the segment.  *)
(***************************************************************************)
EXTENDS Integers, FiniteSets

CONSTANTS
  Editors,     \* the requests that may run at once
  MaxRows,     \* how many segments an index is imported with (bound)
  MaxRequests, \* how many requests are made (bound)
  Times,       \* the start times a form may hold, in seconds
  Kinds,       \* the kinds of index: who edits it, of what, with which forms
  Hour,        \* seconds in an hour
  None

\* Ids are given out in order.
Ids == Nat

\* translated: the interview includes a second language; duration: of the media file,
\* None when there is none; lengths: what the player reports, 0 while it does not know;
\* playTimes: None, or where the player stands on "Save & Create New"; endTimes: None,
\* or the end time of a form that has the field; titles: FALSE is a blank one.
Kind == [translated : BOOLEAN, editors : SUBSET Editors, duration : Nat \cup {None},
         lengths : SUBSET Nat, playTimes : SUBSET (Nat \cup {None}),
         endTimes : SUBSET (Nat \cup {None}), titles : SUBSET BOOLEAN]

ASSUME ConstantsAssumption ==
  /\ MaxRows \in Nat /\ MaxRequests \in Nat
  /\ Times \subseteq Nat /\ IsFiniteSet(Times) /\ Hour \in Nat \ {0}
  /\ Kinds \subseteq Kind
  /\ None \notin Int

VARIABLES
  kind,   \* the kind of the index
  rows,   \* file_index_points
  lastId, \* the id of the newest row
  made,   \* the indexes (rows of file_indexes) there are
  req,    \* the request each editor has running, or ran last
  begun   \* how many requests were made

vars == <<kind, rows, lastId, made, req, begun>>

\* The languages the index is kept in, and those it may be.
Indexes == IF kind.translated THEN {"main", "alt"} ELSE {"main"}
Both == {"main", "alt"}

MaybeTime == Nat \cup {None}

Row == [id : Ids, ix : Both, start : Nat, end : MaybeTime, dur : Int \cup {None}]

Running == {"assign", "neighbours", "shorten", "validate", "write", "twin",
            "find", "fix", "delete"}
Ended == {"idle", "done", "refused", "failed"}

\* A request: the form, the record it holds in memory (id None: not saved yet),
\* what it believes the database holds of that record, and the neighbour it is
\* to rewrite.  before and solo are history variables: the rows it started from,
\* and that no other request ran meanwhile.
Request ==
  [pc : Running \cup Ended, op : {"none", "create", "update", "destroy"},
   ix : Both, id : Ids \cup {None}, altId : Ids \cup {None},
   t : MaybeTime, play : MaybeTime, endTime : MaybeTime,
   length : Nat, titled : [Both -> BOOLEAN],
   start : MaybeTime, end : MaybeTime, dur : Int \cup {None},
   held : [start : MaybeTime, end : MaybeTime, dur : Int \cup {None}],
   prev : Ids \cup {None}, fix : MaybeTime,
   before : SUBSET Row, solo : BOOLEAN]

Nothing == [start |-> None, end |-> None, dur |-> None]

Idle ==
  [pc |-> "idle", op |-> "none", ix |-> "main", id |-> None, altId |-> None,
   t |-> None, play |-> None, endTime |-> None, length |-> 0,
   titled |-> [i \in Both |-> TRUE], start |-> None, end |-> None, dur |-> None,
   held |-> Nothing, prev |-> None, fix |-> None, before |-> {}, solo |-> FALSE]

\* What an import of segments with these start times leaves: it sets the end of
\* each as below, with a media length of 0, and the twin has the end the segment
\* had before the next one came.
Imported(ts, translated) ==
  LET rank(t) == Cardinality({s \in ts : s <= t})
      later(t) == {s \in ts : s > t}
      end(t) == IF later(t) = {} THEN t ELSE CHOOSE s \in later(t) : \A u \in later(t) : s <= u
      segment(t) == [id |-> rank(t), ix |-> "main", start |-> t,
                     end |-> end(t), dur |-> end(t) - t]
      twin(t) == [id |-> Cardinality(ts) + rank(t), ix |-> "alt", start |-> t,
                  end |-> t, dur |-> None]
  IN  {segment(t) : t \in ts} \cup IF translated THEN {twin(t) : t \in ts} ELSE {}

\* Within the media file, if its duration is known.
Within(t) == kind.duration \notin {None, 0} => t <= kind.duration

\* Segments are imported one by one, but for those that are not valid; a second language
\* may have been added to the interview since.
Init ==
  \E ts \in SUBSET Times, both \in BOOLEAN :
    /\ Cardinality(ts) <= MaxRows
    /\ kind \in Kinds /\ (both => kind.translated)
    /\ \A t \in ts : Within(t)
    /\ rows = Imported(ts, both)
    /\ lastId = Cardinality(ts) + IF both THEN Cardinality(ts) ELSE 0
    /\ made = {x.ix : x \in rows}
    /\ req = [e \in Editors |-> Idle]
    /\ begun = 0

-----------------------------------------------------------------------------
(***************************************************************************)
(* Helpers.                                                                *)
(***************************************************************************)
In(ix) == {x \in rows : x.ix = ix}
Stored(id) == \E x \in rows : x.id = id
Get(id) == CHOOSE x \in rows : x.id = id

Earlier(ix, t) == {x \in In(ix) : x.start < t}
Later(ix, t) == {x \in In(ix) : x.start > t}

\* A fault to seed in Latest: the list is read from the wrong end.
LatestFirst(xs) == {x \in xs : \A y \in xs : x.start <= y.start}

Latest(xs) == {x \in xs : \A y \in xs : y.start <= x.start}
Earliest(xs) == {x \in xs : \A y \in xs : x.start <= y.start}

\* nil.to_f
Seconds(t) == IF t = None THEN 0 ELSE t

\* "hh:mm:ss" cast to a decimal column: the hours are read as seconds.
Cast(t) == t \div Hour

\* The validations of FileIndexPoint, apart from the title: no other row of the
\* index starts then, and the times lie within the media file if it is known.
Acceptable(x) ==
  /\ \A y \in In(x.ix) : y.id # x.id => y.start # x.start
  /\ Within(x.start)
  /\ kind.duration \notin {None, 0} /\ x.end # None => Within(x.end) /\ x.end >= x.start

\* A fault to seed in Saved: an update adds a row.
SavedTwice(x) == IF Acceptable(x) THEN rows \cup {x} ELSE rows

\* save: the row is written if the validations allow it, and else left alone.
Saved(x) ==
  IF Acceptable(x) THEN {y \in rows : y.id # x.id} \cup {x} ELSE rows

\* A request begins, and nobody who is at work, or was, has been alone since.
Begin(e, r) ==
  LET alone == \A x \in Editors \ {e} : req[x].pc \notin Running
  IN  /\ begun' = begun + 1
      /\ req' = [x \in Editors |->
                   IF x = e THEN [r EXCEPT !.before = rows, !.solo = alone]
                   ELSE [req[x] EXCEPT !.solo = FALSE]]

Goto(e, pc) == req' = [req EXCEPT ![e].pc = pc]

-----------------------------------------------------------------------------
(***************************************************************************)
(* A form is submitted.                                                    *)
(***************************************************************************)
Create(e, t, play, endTime, length, titled) ==
  /\ made' = made \cup {"main"}
  /\ Begin(e, [Idle EXCEPT !.pc = "neighbours", !.op = "create", !.t = t,
                 !.play = play, !.endTime = endTime, !.length = length,
                 !.titled = titled, !.start = t])
  /\ UNCHANGED <<rows, lastId>>

\* The form holds the twin it was rendered with: the one with the same start.
Update(e, x, t, play, endTime, length, titled) ==
  /\ \E alt \in IF \E y \in In("alt") : y.start = x.start
                THEN {y.id : y \in {y \in In("alt") : y.start = x.start}} ELSE {None} :
       Begin(e, [Idle EXCEPT !.pc = "assign", !.op = "update", !.id = x.id,
                   !.altId = alt, !.t = t, !.play = play, !.endTime = endTime,
                   !.length = length, !.titled = titled])
  /\ UNCHANGED <<rows, lastId, made>>

Destroy(e, x) ==
  /\ Begin(e, [Idle EXCEPT !.pc = "find", !.op = "destroy", !.id = x.id,
                 !.start = x.start, !.end = x.end, !.dur = x.dur])
  /\ UNCHANGED <<rows, lastId, made>>

-----------------------------------------------------------------------------
(***************************************************************************)
(* Saving a segment, and then its twin.                                    *)
(***************************************************************************)

\* The twin of "Save & Create New" starts where the player stands.
Wanted(r) == IF r.ix = "alt" /\ r.play # None THEN r.play ELSE r.t

\* update(params), with the start time still in its written form, and then the
\* start time proper, in memory only.
Assign(e) ==
  LET r == req[e]
      held(x) == [start |-> x.start, end |-> x.end, dur |-> x.dur]
      next(x, id) == [r EXCEPT !.pc = "neighbours", !.id = id, !.start = Wanted(r),
                        !.end = x.end, !.dur = x.dur, !.held = held(x)]
      raw == Cast(r.t)
      new == [id |-> lastId + 1, ix |-> r.ix, start |-> raw, end |-> None, dur |-> None]
  IN
  /\ r.pc = "assign"
  /\ IF r.id # None /\ Stored(r.id)
       THEN LET x == [Get(r.id) EXCEPT !.start = raw] IN
            /\ UNCHANGED lastId
            /\ IF r.titled[r.ix] /\ Acceptable(x)
               THEN rows' = Saved(x) /\ req' = [req EXCEPT ![e] = next(x, x.id)]
               ELSE req' = [req EXCEPT ![e] = next(Get(r.id), r.id)] /\ UNCHANGED rows
     ELSE IF r.ix = "main"
       THEN Goto(e, "failed") /\ UNCHANGED <<rows, lastId>>
     ELSE IF r.titled[r.ix] /\ Acceptable(new)
       THEN /\ rows' = rows \cup {new} /\ lastId' = new.id
            /\ req' = [req EXCEPT ![e] = next(new, new.id)]
     ELSE req' = [req EXCEPT ![e] = next(Nothing, None)] /\ UNCHANGED <<rows, lastId>>
  /\ UNCHANGED <<made, begun>>

\* The end time: the form's, which leaves everything else alone, or else where
\* the next segment starts.  The segment before will have to end here.
Neighbours(e) ==
  LET r == req[e]
      earlier == Earlier(r.ix, r.start)
      later == Later(r.ix, r.start)
      end == IF later # {} THEN (CHOOSE x \in Earliest(later) : TRUE).start
             ELSE IF r.length = 0 THEN r.start ELSE r.length
      ended == [r EXCEPT !.end = end, !.dur = end - r.start]
      given == r.endTime # None /\ r.endTime > r.start
  IN
  /\ r.pc = "neighbours"
  /\ \/ /\ given
        /\ req' = [req EXCEPT ![e] = [r EXCEPT !.end = r.endTime, !.pc = "validate"]]
     \/ /\ ~given
        /\ \/ /\ earlier = {}
              /\ req' = [req EXCEPT ![e] = [ended EXCEPT !.pc = "validate"]]
           \/ \E p \in Latest(earlier) :
                req' = [req EXCEPT ![e] = [ended EXCEPT !.pc = "shorten", !.prev = p.id]]
  /\ UNCHANGED <<rows, lastId, made, begun>>

\* A fault to seed in Ending: only the duration is set.
EndingKeepsTime(id, t) == Saved([Get(id) EXCEPT !.dur = t - Get(id).start])

\* The row with this id now ends at t, if it may.
Ending(id, t) ==
  Saved([Get(id) EXCEPT !.end = t, !.dur = t - Get(id).start])

\* The segment before, read anew, is saved with its new end.
Shorten(e) ==
  /\ req[e].pc = "shorten"
  /\ \/ Stored(req[e].prev) /\ rows' = Ending(req[e].prev, req[e].start) /\ Goto(e, "validate")
     \/ ~Stored(req[e].prev) /\ Goto(e, "failed") /\ UNCHANGED rows
  /\ UNCHANGED <<lastId, made, begun>>

\* save asks first ...
Validate(e) ==
  LET r == req[e] IN
  /\ r.pc = "validate"
  /\ Goto(e, IF r.titled[r.ix] /\ Acceptable([id |-> r.id, ix |-> r.ix, start |-> r.start,
                                              end |-> r.end, dur |-> r.dur])
             THEN "write" ELSE "refused")
  /\ UNCHANGED <<rows, lastId, made, begun>>

\* ... and then writes what it knows to have changed of the row.
Merged(x, r) ==
  [x EXCEPT !.start = IF r.start = r.held.start THEN @ ELSE r.start,
            !.end = IF r.end = r.held.end THEN @ ELSE r.end,
            !.dur = IF r.dur = r.held.dur THEN @ ELSE r.dur]

Write(e) ==
  LET r == req[e] IN
  /\ r.pc = "write"
  /\ IF r.id = None
     THEN /\ rows' = rows \cup {[id |-> lastId + 1, ix |-> r.ix, start |-> r.start,
                                 end |-> r.end, dur |-> r.dur]}
          /\ lastId' = lastId + 1
     ELSE /\ rows' = {IF x.id = r.id THEN Merged(x, r) ELSE x : x \in rows}
          /\ UNCHANGED lastId
  /\ Goto(e, IF kind.translated /\ r.ix = "main" THEN "twin" ELSE "done")
  /\ UNCHANGED <<made, begun>>

\* The same again for the translation, whose index is made if need be.
Twin(e) ==
  LET r == req[e]
      twin == [r EXCEPT !.ix = "alt", !.id = r.altId, !.end = None, !.dur = None,
                 !.held = Nothing, !.prev = None]
  IN
  /\ r.pc = "twin"
  /\ req' = [req EXCEPT ![e] =
               IF r.op = "update" THEN [twin EXCEPT !.pc = "assign", !.start = None]
               ELSE [twin EXCEPT !.pc = "neighbours", !.start = Wanted(twin)]]
  /\ made' = made \cup {"alt"}
  /\ UNCHANGED <<rows, lastId, begun>>

-----------------------------------------------------------------------------
(***************************************************************************)
(* Deleting a segment, and then its twin (update_end_time).                *)
(***************************************************************************)
Find(e) ==
  LET r == req[e]
      earlier == Earlier(r.ix, r.start)
      later == Later(r.ix, r.start)
  IN
  /\ r.pc = "find"
  /\ \/ earlier = {} /\ Goto(e, "delete")
     \/ \E p \in Latest(earlier) :
          req' = [req EXCEPT ![e] =
                    [r EXCEPT !.pc = "fix", !.prev = p.id,
                       !.fix = IF later = {} THEN Seconds(r.end)
                               ELSE (CHOOSE x \in Earliest(later) : TRUE).start]]
  /\ UNCHANGED <<rows, lastId, made, begun>>

Fix(e) ==
  /\ req[e].pc = "fix"
  /\ \/ Stored(req[e].prev) /\ rows' = Ending(req[e].prev, req[e].fix) /\ Goto(e, "delete")
     \/ ~Stored(req[e].prev) /\ Goto(e, "failed") /\ UNCHANGED rows
  /\ UNCHANGED <<lastId, made, begun>>

\* A fault to seed in Delete: the twin is forgotten.
DeleteAlone(e) ==
  /\ req[e].pc = "delete"
  /\ rows' = {x \in rows : x.id # req[e].id}
  /\ Goto(e, "done")
  /\ UNCHANGED <<lastId, made, begun>>

\* The row goes, and then its twin, the row of the translation with the same
\* start; asking a translation that was never made raises.
Delete(e) ==
  LET r == req[e]
      twins == {x \in In("alt") : x.start = r.start}
  IN
  /\ r.pc = "delete"
  /\ rows' = {x \in rows : x.id # r.id}
  /\ \/ (~kind.translated \/ r.ix = "alt") /\ Goto(e, "done")
     \/ kind.translated /\ r.ix = "main" /\ "alt" \notin made /\ Goto(e, "failed")
     \/ kind.translated /\ r.ix = "main" /\ "alt" \in made /\ twins = {} /\ Goto(e, "done")
     \/ /\ kind.translated /\ r.ix = "main"
        /\ \E x \in twins :
             req' = [req EXCEPT ![e] =
                       [r EXCEPT !.pc = "find", !.ix = "alt", !.id = x.id, !.start = x.start,
                          !.end = x.end, !.dur = x.dur, !.prev = None, !.fix = None]]
  /\ UNCHANGED <<lastId, made, begun>>

-----------------------------------------------------------------------------
Submit(e) ==
  /\ e \in kind.editors /\ req[e].pc \in Ended
  /\ begun < MaxRequests
  /\ \/ \E t \in Times, play \in kind.playTimes, endTime \in kind.endTimes,
           length \in kind.lengths, titled \in [Both -> kind.titles] :
          \/ Create(e, t, play, endTime, length, titled)
          \/ \E x \in In("main") : Update(e, x, t, play, endTime, length, titled)
     \/ \E x \in In("main") : Destroy(e, x)

Step(e) ==
  \/ Assign(e) \/ Neighbours(e) \/ Shorten(e) \/ Validate(e) \/ Write(e) \/ Twin(e)
  \/ Find(e) \/ Fix(e) \/ Delete(e)

Next == (\E e \in Editors : Submit(e) \/ Step(e)) /\ UNCHANGED kind

Spec == Init /\ [][Next]_vars
-----------------------------------------------------------------------------
\* The type invariant; ids tell rows apart, none is newer than the newest, and no
\* segment starts after the end of the media.
TypeOK ==
  /\ rows \subseteq Row /\ \A x \in rows : Within(x.start)
  /\ \A x, y \in rows : x.id = y.id => x = y
  /\ \A x \in rows : x.id <= lastId
  /\ made \subseteq {"main", "alt"}
  /\ \A e \in Editors :
       /\ req[e].pc \in Running \cup Ended
       /\ req[e].ix \in Indexes
       /\ req[e].id \in Ids \cup {None} /\ req[e].prev \in Ids \cup {None}
       /\ req[e].start \in MaybeTime /\ req[e].end \in MaybeTime
       /\ req[e].dur \in Int \cup {None} /\ req[e].before \subseteq Row

Of(rs, ix) == {x \in rs : x.ix = ix}

\* Each segment ends where the next one starts, and its duration says so.
Tiled(rs, ix) ==
  \A x, y \in Of(rs, ix) :
    (x # y /\ x.start <= y.start /\ \A z \in Of(rs, ix) : z.start \notin (x.start + 1)..(y.start - 1))
      => x.start < y.start /\ x.end = y.start /\ x.dur = y.start - x.start

\* No two segments start together or overlap.
Apart(rs, ix) ==
  \A x, y \in Of(rs, ix) :
    x # y => x.start # y.start /\ (x.start < y.start => x.end # None /\ x.end <= y.start)

Distinct(rs) == \A x, y \in rs : x.ix = y.ix /\ x.start = y.start => x = y

Aligned(rs) == {x.start : x \in Of(rs, "main")} = {x.start : x \in Of(rs, "alt")}

\* A request that was carried out to its end, with no other running meanwhile.
Undisturbed(e) == req[e].pc = "done" /\ req[e].solo

\* Creating or deleting a segment (and its twin) keeps the segments of an index
\* tiled: the neighbour computed before the row is saved or removed is the right
\* one (set_end_time, update_end_time).
CreateAndDestroyTile ==
  \A e \in Editors :
    Undisturbed(e) /\ req[e].op \in {"create", "destroy"} /\ req[e].endTime = None =>
      \A ix \in Indexes : Tiled(req[e].before, ix) => Tiled(rows, ix)

\* No request makes segments overlap, not even one that moves a segment to the
\* other side of its neighbours.  From the second hour on that is not so: update
\* first saves the segment with its hours read as seconds, and then takes the row
\* itself for the segment before (interview_index_controller.rb,
\* indexes_controller.rb: update).
SegmentsStayApart ==
  \A e \in Editors :
    /\ Undisturbed(e) /\ req[e].endTime = None
    /\ req[e].op = "update" => Cast(req[e].t) = 0
    => \A ix \in Indexes : Apart(req[e].before, ix) => Apart(rows, ix)

\* The segments of the translation start where those of the index start: pages
\* and deletions find the twin of a segment by its start alone
\* (interview_index_controller.rb).  Two racing requests may leave two segments
\* that start together, and one twin is then found for both.
TwinsStayAligned ==
  \A e \in Editors :
    /\ Undisturbed(e) /\ kind.translated /\ req[e].play = None
    /\ Aligned(req[e].before) /\ Distinct(req[e].before)
    => Aligned(rows)

\* A request whose segment is refused, with "Entry already exists for time
\* point." or for a blank title, changes no segment (file_index_point.rb).
RefusedChangesNothing ==
  \A e \in Editors : req[e].pc = "refused" /\ req[e].solo => rows = req[e].before
=============================================================================
