------------------------- MODULE TranscriptEditing -------------------------
(***************************************************************************)
(* The life of the transcripts of one media file: the editing lock, the    *)
(* background job that turns a saved edit into transcript points and a     *)
(* WebVTT file, re-uploads, the cron task that releases forgotten locks,   *)
(* and the deletions.                                                      *)
(*                                                                         *)
(* A transcript is kept three times: the editor's document (a "slate" file *)
(* in the file store), the points (one database row per paragraph), and    *)
(* the WebVTT file (in the file store).  The row of file_transcripts names *)
(* the two files.  A save is queued with Sidekiq and carried out by a job  *)
(* in several transactions; a job that raises is queued again.             *)
(***************************************************************************)
EXTENDS Integers, FiniteSets, Sequences

CONSTANTS
  Users,        \* the people with an editor window
  Transcripts,  \* the transcripts of the media file
  Saves,        \* each save of the editor is one job; its document is new
  Uploads,      \* each re-upload of a transcript file; its document is new
  Text,         \* the texts a paragraph can have
  Paragraphs,   \* the paragraphs of each document
  Titles,       \* the titles an editor may send: FALSE is a blank one
  None,         \* nil
  MaxParallel,  \* Sidekiq threads that run edit jobs (bound)
  MaxRetries,   \* how often Sidekiq queues a job again after it raised (bound)
  MaxFaults,    \* failures of the network, of Solr or of a worker (bound)
  MaxVisits     \* openings of an editor and unrelated row updates (bound)

Writers == Saves \cup Uploads
Documents == Writers \cup Transcripts   \* t itself: the file t was created from

ASSUME ConstantsAssumption ==
  /\ Saves \cap Uploads = {} /\ Writers \cap Transcripts = {}
  /\ Paragraphs \in [Documents -> Seq(Text)]
  /\ \A d \in Documents : Len(Paragraphs[d]) > 0
  /\ Titles \subseteq BOOLEAN
  /\ MaxParallel \in Nat /\ MaxRetries \in Nat
  /\ MaxFaults \in Nat /\ MaxVisits \in Nat

\* A stored file holds the document `of'; every attempt of a job names its own.
File == [of : Documents, att : 0..MaxRetries]

ASSUME NoneAssumption == None \notin File \cup Users \cup Transcripts

VARIABLES
  media,    \* the media file (collection_resource_files row) exists
  row,      \* file_transcripts: the columns that matter, per transcript
  points,   \* file_transcript_points of each transcript
  lastId,   \* the id of the newest point of each transcript
  slates,   \* stored slate files
  vtts,     \* stored WebVTT files
  aged,     \* locked transcripts whose updated_at is more than 24 hours ago
  editor,   \* the transcript each user has in hand: the editor window is open, or
            \* the page it was opened from, where "Finish Editing" is offered
  task,     \* the job of each save, the request of each upload
  scan,     \* what a run of the unlock task has still to unlock
  deleting, \* a delete_resource_file request has passed its lock check
  faults, visits

vars == <<media, row, points, lastId, slates, vtts, aged, editor, task, scan,
          deleting, faults, visits>>

Point == [id : Nat, text : Text]
PointSet == {rows \in SUBSET Point : IsFiniteSet(rows)}

Stages == {"idle", "queued", "loaded", "saved", "updated", "read", "pointed",
           "copied", "stored", "cleared", "done", "dead"}
Active == Stages \ {"idle", "queued", "done", "dead"}

\* What a row of file_transcripts holds, as far as it matters.
Row == [live : BOOLEAN, is_edit : BOOLEAN, locked_by : Users \cup {None},
        slate : File \cup {None}, vtt : File \cup {None}]

Gone == [live |-> FALSE, is_edit |-> FALSE, locked_by |-> None,
         slate |-> None, vtt |-> None]

\* A writer: where it is, its copy of the row as of when it found it, and the
\* points it has read.  solo is a history variable: since this writer found the
\* row it has been the only one at work on the transcript.
Task == [stage : Stages, t : Transcripts \cup {None}, att : 0..MaxRetries,
         titled : BOOLEAN, is_edit : BOOLEAN, slate : File \cup {None},
         vtt : File \cup {None}, seen : PointSet, solo : BOOLEAN]

Idle == [stage |-> "idle", t |-> None, att |-> 0, titled |-> TRUE,
         is_edit |-> FALSE, slate |-> None, vtt |-> None, seen |-> {},
         solo |-> FALSE]

(***************************************************************************)
(* Points: rows in the order of their ids.                                 *)
(***************************************************************************)
Rank(rows, i) == Cardinality({p \in rows : p.id <= i})

Numbered(text, from) ==
  {[id |-> from + k, text |-> text[k]] : k \in DOMAIN text}

\* Faults to seed in Rewritten: old rows left over stay; all rows are made anew.
RewrittenKeepsTail(now, seen, text, from) ==
  {p \in now : Rank(now, p.id) > Len(text)} \cup Numbered(text, from)

RewrittenAnew(now, seen, text, from) == Numbered(text, from)

\* The row p when paragraph Rank(seen, p.id) is saved to it: an update that
\* changes nothing of the row it read writes nothing.
Updated(p, seen, text) ==
  LET new == text[Rank(seen, p.id)]
  IN  IF \E q \in seen : q.id = p.id /\ q.text = new
      THEN p ELSE [p EXCEPT !.text = new]

\* update_existing_points: the k-th row it read takes the k-th paragraph, rows
\* are created for the paragraphs left over, and rows left over are deleted.
\* Rows it did not read stay, and rows gone since it read them stay gone.
Rewritten(now, seen, text, from) ==
  LET known == {p \in now : \E q \in seen : q.id = p.id}
      created == {[id |-> from + k - Cardinality(seen), text |-> text[k]] :
                  k \in (Cardinality(seen) + 1)..Len(text)}
  IN  (now \ known) \cup created
      \cup {Updated(p, seen, text) : p \in {p \in known : Rank(seen, p.id) <= Len(text)}}

Shows(t, d) ==
  /\ Cardinality(points[t]) = Len(Paragraphs[d])
  /\ \A p \in points[t] : p.text = Paragraphs[d][Rank(points[t], p.id)]

-----------------------------------------------------------------------------
Init ==
  /\ media = TRUE
  /\ row = [t \in Transcripts |->
              [live |-> TRUE, is_edit |-> FALSE, locked_by |-> None,
               slate |-> None, vtt |-> [of |-> t, att |-> 0]]]
  /\ points = [t \in Transcripts |-> Numbered(Paragraphs[t], 0)]
  /\ lastId = [t \in Transcripts |-> Len(Paragraphs[t])]
  /\ slates = {}
  /\ vtts = {[of |-> t, att |-> 0] : t \in Transcripts}
  /\ aged = {}
  /\ editor = [u \in Users |-> None]
  /\ task = [w \in Writers |-> Idle]
  /\ scan = {}
  /\ deleting = FALSE
  /\ faults = 0
  /\ visits = 0

Live == {t \in Transcripts : row[t].live}
Own(w) == [of |-> w, att |-> task[w].att]
AtWorkOn(t) == {w \in Writers : task[w].t = t /\ task[w].stage \in Active}

\* Faults to seed in Raised: the job is queued again for ever; it passes for done;
\* its attempts are not counted.
RaisedForEver(w) == [task[w] EXCEPT !.stage = "queued", !.att = @ + 1]
RaisedSwallowed(w) == [task[w] EXCEPT !.stage = "done"]
RaisedUncounted(w) == [task[w] EXCEPT !.stage = "queued"]

\* The record of a writer that raised: Sidekiq, which runs the edit jobs
\* (config/application.rb), queues a job again until its retries are used up, a web
\* request just fails.
Raised(w) ==
  IF w \in Saves /\ task[w].att < MaxRetries
  THEN [task[w] EXCEPT !.stage = "queued", !.att = @ + 1]
  ELSE [task[w] EXCEPT !.stage = "dead"]

Raise(w) == task' = [task EXCEPT ![w] = Raised(w)]

\* The tasks once w has found the row of t: it copies the row, and nobody else
\* who works, or worked, on t has it alone any longer.
Found(w, t) ==
  [x \in Writers |->
     IF x = w
     THEN [task[w] EXCEPT !.stage = "loaded", !.t = t,
             !.is_edit = row[t].is_edit, !.slate = row[t].slate,
             !.vtt = row[t].vtt, !.seen = {},
             !.solo = AtWorkOn(t) \ {w} = {}]
     ELSE IF task[x].t = t THEN [task[x] EXCEPT !.solo = FALSE] ELSE task[x]]

\* after_save reindexes the media file: that raises, and undoes the update of
\* the row, when Solr fails or the media file is gone.
ReindexRaises ==
  \/ media /\ faults < MaxFaults /\ faults' = faults + 1
  \/ ~media /\ UNCHANGED faults
ReindexWorks == media /\ UNCHANGED faults

-----------------------------------------------------------------------------
(***************************************************************************)
(* The editor window.                                                      *)
(***************************************************************************)

\* GET transcripts/edit: takes the lock whoever holds it.
Edit(u, t) ==
  /\ t \in Live /\ editor[u] = None
  /\ visits < MaxVisits /\ visits' = visits + 1
  /\ row' = [row EXCEPT ![t].is_edit = TRUE, ![t].locked_by = u]
  /\ aged' = IF row'[t] = row[t] THEN aged ELSE aged \ {t}
  /\ editor' = [editor EXCEPT ![u] = t]
  /\ UNCHANGED <<media, points, lastId, slates, vtts, task, scan, deleting, faults>>

\* POST transcripts/edit with a document: only queues the job.
SaveTranscript(u, w) ==
  /\ editor[u] \in Live
  /\ task[w].stage = "idle"
  /\ \E titled \in Titles :
       task' = [task EXCEPT ![w].stage = "queued", ![w].t = editor[u],
                            ![w].titled = titled]
  /\ UNCHANGED <<media, row, points, lastId, slates, vtts, aged, editor, scan,
                 deleting, faults, visits>>

\* POST transcripts/edit without a document: cancel, metadata only, or "Finish
\* Editing", which the page behind the window clicks itself once the window is closed.
UpdateTranscript(u) ==
  /\ editor[u] \in Live
  /\ row' = [row EXCEPT ![editor[u]].is_edit = FALSE]
  /\ aged' = aged \ {editor[u]}
  /\ UNCHANGED <<media, points, lastId, slates, vtts, editor, task, scan,
                 deleting, faults, visits>>

\* The window is closed, after a save, after a cancel, or just so, and nothing more comes
\* of it: if "Finish Editing" has not come from the page behind it, the lock is
\* forgotten.
Abandon(u) ==
  /\ editor[u] # None
  /\ editor' = [editor EXCEPT ![u] = None]
  /\ UNCHANGED <<media, row, points, lastId, slates, vtts, aged, task, scan,
                 deleting, faults, visits>>

\* A sort, or a bulk change of status, caption or download: updated_at moves.
TouchTranscript(t) ==
  /\ t \in aged
  /\ visits < MaxVisits /\ visits' = visits + 1
  /\ aged' = aged \ {t}
  /\ UNCHANGED <<media, row, points, lastId, slates, vtts, editor, task, scan,
                 deleting, faults>>

-----------------------------------------------------------------------------
(***************************************************************************)
(* TranscriptEditJob#perform.                                              *)
(***************************************************************************)

\* A thread takes the job and finds the transcript.
PickUp(w) ==
  /\ task[w].stage = "queued"
  /\ Cardinality({x \in Saves : task[x].stage \in Active}) < MaxParallel
  /\ IF task[w].t \in Live THEN task' = Found(w, task[w].t) ELSE Raise(w)
  /\ UNCHANGED <<media, row, points, lastId, slates, vtts, aged, editor, scan,
                 deleting, faults, visits>>

\* Replaces the stored slate file.  The file store is not undone with the row.
SaveSlate(w) ==
  LET t == task[w].t IN
  /\ w \in Saves /\ task[w].stage = "loaded"
  /\ slates' = (slates \ {task[w].slate}) \cup {Own(w)}
  /\ \/ /\ ReindexWorks
        /\ row' = IF t \in Live THEN [row EXCEPT ![t].slate = Own(w)] ELSE row
        /\ aged' = aged \ {t}
        /\ task' = [task EXCEPT ![w].stage = "saved", ![w].slate = Own(w)]
     \/ ReindexRaises /\ Raise(w) /\ UNCHANGED <<row, aged>>
  /\ UNCHANGED <<media, points, lastId, vtts, editor, scan, deleting, visits>>

\* A fault to seed in UpdateAttributes: it unlocks whatever its copy says.
UpdateAttributesUnlocks(w) ==
  LET t == task[w].t IN
  /\ task[w].stage = "saved"
  /\ \/ /\ task[w].titled /\ ReindexWorks
        /\ IF t \in Live
           THEN row' = [row EXCEPT ![t].is_edit = FALSE] /\ aged' = aged \ {t}
           ELSE UNCHANGED <<row, aged>>
        /\ task' = [task EXCEPT ![w].stage = "updated"]
     \/ task[w].titled /\ ReindexRaises /\ Raise(w) /\ UNCHANGED <<row, aged>>
     \/ /\ ~task[w].titled
        /\ task' = [task EXCEPT ![w].stage = "updated"]
        /\ UNCHANGED <<row, aged, faults>>
  /\ UNCHANGED <<media, points, lastId, slates, vtts, editor, scan, deleting, visits>>

\* Saves what came with the document and, if the copy of the row says it is
\* locked, unlocks it.  A blank title is refused, without an error.
UpdateAttributes(w) ==
  LET t == task[w].t IN
  /\ task[w].stage = "saved"
  /\ \/ /\ task[w].titled /\ ReindexWorks
        /\ IF t \in Live
           THEN /\ row' = [row EXCEPT ![t].is_edit = @ /\ ~task[w].is_edit]
                /\ aged' = aged \ {t}
           ELSE UNCHANGED <<row, aged>>
        /\ task' = [task EXCEPT ![w].stage = "updated"]
     \/ task[w].titled /\ ReindexRaises /\ Raise(w) /\ UNCHANGED <<row, aged>>
     \/ /\ ~task[w].titled
        /\ task' = [task EXCEPT ![w].stage = "updated"]
        /\ UNCHANGED <<row, aged, faults>>
  /\ UNCHANGED <<media, points, lastId, slates, vtts, editor, scan, deleting, visits>>

\* Fetches its slate file and, in a transaction, reads the points there are.
ReadPoints(w) ==
  /\ task[w].stage = "updated"
  /\ IF Own(w) \in slates
     THEN task' = [task EXCEPT ![w].stage = "read", ![w].seen = points[task[w].t]]
     ELSE Raise(w)
  /\ UNCHANGED <<media, row, points, lastId, slates, vtts, aged, editor, scan,
                 deleting, faults, visits>>

\* Writes the points and commits: the row locks make a second transaction wait
\* for the first.  Points of a transcript that is gone break the foreign key.
WritePoints(w) ==
  LET t == task[w].t
      text == Paragraphs[w]
      extra == Len(text) - Cardinality(task[w].seen)
  IN
  /\ task[w].stage = "read"
  /\ IF t \in Live
     THEN /\ points' = [points EXCEPT ![t] = Rewritten(@, task[w].seen, text, lastId[t])]
          /\ lastId' = [lastId EXCEPT ![t] = @ + IF extra > 0 THEN extra ELSE 0]
          /\ task' = [task EXCEPT ![w].stage = "pointed", ![w].seen = {}]
     ELSE Raise(w) /\ UNCHANGED <<points, lastId>>
  /\ UNCHANGED <<media, row, slates, vtts, aged, editor, scan, deleting, faults, visits>>

\* create_webvtt fetches the slate file again; a refused title refuses this
\* save too.  A changed file name copies the stored file to its new name first,
\* and that raises when the file the writer knows of is no longer stored.
CopyWebvtt(w) ==
  LET t == task[w].t IN
  /\ task[w].stage = IF w \in Saves THEN "pointed" ELSE "loaded"
  /\ IF w \in Saves /\ Own(w) \notin slates
       THEN Raise(w) /\ UNCHANGED vtts
     ELSE IF ~task[w].titled
       THEN task' = [task EXCEPT ![w].stage = "done"] /\ UNCHANGED vtts
     ELSE IF task[w].vtt \notin vtts
       THEN Raise(w) /\ UNCHANGED vtts
     ELSE /\ vtts' = vtts \cup {Own(w)}
          /\ task' = [task EXCEPT ![w].stage = "copied"]
  /\ UNCHANGED <<media, row, points, lastId, slates, aged, editor, scan, deleting,
                 faults, visits>>

\* Deletes the old file, stores the new one and names it in the row.
CommitWebvtt(w) ==
  LET t == task[w].t IN
  /\ task[w].stage = "copied"
  /\ vtts' = (vtts \ {task[w].vtt}) \cup {Own(w)}
  /\ \/ /\ ReindexWorks
        /\ row' = IF t \in Live THEN [row EXCEPT ![t].vtt = Own(w)] ELSE row
        /\ aged' = aged \ {t}
        /\ task' = [task EXCEPT ![w].stage = IF w \in Saves THEN "done" ELSE "stored"]
     \/ ReindexRaises /\ Raise(w) /\ UNCHANGED <<row, aged>>
  /\ UNCHANGED <<media, points, lastId, slates, editor, scan, deleting, visits>>

\* The file store or the database fails, or the process is killed and the job or
\* the request with it.
WriterFails(w) ==
  /\ task[w].stage \in Active
  /\ faults < MaxFaults /\ faults' = faults + 1
  /\ Raise(w) \/ task' = [task EXCEPT ![w].stage = "dead"]
  /\ UNCHANGED <<media, row, points, lastId, slates, vtts, aged, editor, scan,
                 deleting, visits>>

-----------------------------------------------------------------------------
(***************************************************************************)
(* TranscriptsController#create with the id of a transcript: a new file.   *)
(* The file is replaced as above (CopyWebvtt, CommitWebvtt).               *)
(***************************************************************************)
BeginUpload(w, t) ==
  /\ w \in Uploads /\ t \in Live
  /\ task[w].stage = "idle"
  /\ task' = Found(w, t)
  /\ UNCHANGED <<media, row, points, lastId, slates, vtts, aged, editor, scan,
                 deleting, faults, visits>>

\* A fault to seed in ClearPoints: the old points stay.
ClearPointsSkipped(w) ==
  /\ task[w].stage = "stored"
  /\ task' = [task EXCEPT ![w].stage = "cleared"]
  /\ UNCHANGED <<media, row, points, lastId, slates, vtts, aged, editor, scan,
                 deleting, faults, visits>>

ClearPoints(w) ==
  /\ task[w].stage = "stored"
  /\ points' = [points EXCEPT ![task[w].t] = {}]
  /\ task' = [task EXCEPT ![w].stage = "cleared"]
  /\ UNCHANGED <<media, row, lastId, slates, vtts, aged, editor, scan, deleting,
                 faults, visits>>

\* The effect of destroying transcripts ts: their points and files go as well.
Destroyed(ts) ==
  /\ row' = [t \in Transcripts |-> IF t \in ts THEN Gone ELSE row[t]]
  /\ points' = [t \in Transcripts |-> IF t \in ts THEN {} ELSE points[t]]
  /\ slates' = slates \ {row[t].slate : t \in ts}
  /\ vtts' = vtts \ {row[t].vtt : t \in ts}
  /\ aged' = aged \ ts

\* The new points are parsed and created; or the file is refused and the
\* transcript destroyed; or parsing raises and nothing is created.
ParseUpload(w) ==
  LET t == task[w].t
      end(stage) == task' = [task EXCEPT ![w].stage = stage]
  IN
  /\ task[w].stage = "cleared"
  /\ \/ /\ t \in Live
        /\ points' = [points EXCEPT ![t] = @ \cup Numbered(Paragraphs[w], lastId[t])]
        /\ lastId' = [lastId EXCEPT ![t] = @ + Len(Paragraphs[w])]
        /\ end("done")
        /\ UNCHANGED <<row, slates, vtts, aged>>
     \/ Destroyed({t}) /\ end("dead") /\ UNCHANGED lastId
     \/ end("dead") /\ UNCHANGED <<row, points, slates, vtts, aged, lastId>>
  /\ UNCHANGED <<media, editor, scan, deleting, faults, visits>>

-----------------------------------------------------------------------------
(***************************************************************************)
(* Deletions and the unlock task.                                          *)
(***************************************************************************)

\* transcripts#destroy and the bulk delete of transcripts.
DestroyTranscript(t) ==
  /\ t \in Live
  /\ Destroyed({t})
  /\ UNCHANGED <<media, lastId, editor, task, scan, deleting, faults, visits>>

\* delete_resource_file looks for locked transcripts ...
CheckLocks ==
  /\ media /\ ~deleting
  /\ \A t \in Live : ~row[t].is_edit
  /\ deleting' = TRUE
  /\ UNCHANGED <<media, row, points, lastId, slates, vtts, aged, editor, task,
                 scan, faults, visits>>

\* ... and then deletes the media file.
DeleteResourceFile ==
  /\ deleting /\ media
  /\ deleting' = FALSE
  /\ media' = FALSE
  /\ Destroyed(Transcripts)
  /\ UNCHANGED <<lastId, editor, task, scan, faults, visits>>

\* The bulk delete of media files does not look for locks.
BulkDeleteFiles ==
  /\ media
  /\ media' = FALSE
  /\ Destroyed(Transcripts)
  /\ UNCHANGED <<lastId, editor, task, scan, deleting, faults, visits>>

DayPasses(t) ==
  /\ t \in Live \ aged /\ row[t].is_edit
  /\ aged' = aged \cup {t}
  /\ UNCHANGED <<media, row, points, lastId, slates, vtts, editor, task, scan,
                 deleting, faults, visits>>

\* A fault to seed in ScanLocks: the age is compared the wrong way round.
ScanLocksYoung ==
  /\ scan = {}
  /\ scan' = {t \in Live \ aged : row[t].is_edit}
  /\ scan' # {}
  /\ UNCHANGED <<media, row, points, lastId, slates, vtts, aged, editor, task,
                 deleting, faults, visits>>

\* aviary:unlock_transcript reads the locked rows ...
ScanLocks ==
  /\ scan = {}
  /\ aged # {} /\ scan' = aged
  /\ UNCHANGED <<media, row, points, lastId, slates, vtts, aged, editor, task,
                 deleting, faults, visits>>

\* ... and unlocks, one by one, those it found to be old; an error ends the run.
UnlockTranscript(t) ==
  /\ t \in scan
  /\ \/ /\ ReindexWorks
        /\ scan' = scan \ {t}
        /\ row' = [row EXCEPT ![t].is_edit = FALSE]
        /\ aged' = aged \ {t}
     \/ ReindexRaises /\ scan' = {} /\ UNCHANGED <<row, aged>>
  /\ UNCHANGED <<media, points, lastId, slates, vtts, editor, task, deleting, visits>>

-----------------------------------------------------------------------------
JobStep(w) ==
  \/ PickUp(w) \/ SaveSlate(w) \/ UpdateAttributes(w) \/ ReadPoints(w)
  \/ WritePoints(w) \/ CopyWebvtt(w) \/ CommitWebvtt(w)

UploadStep(w) == ClearPoints(w) \/ ParseUpload(w)

UserStep ==
  \/ \E u \in Users :
       \/ \E t \in Transcripts : Edit(u, t)
       \/ \E w \in Saves : SaveTranscript(u, w)
       \/ UpdateTranscript(u) \/ Abandon(u)
  \/ \E w \in Uploads, t \in Transcripts : BeginUpload(w, t)
  \/ \E t \in Transcripts : TouchTranscript(t) \/ DestroyTranscript(t)
  \/ CheckLocks \/ DeleteResourceFile \/ BulkDeleteFiles

Next ==
  \/ UserStep
  \/ \E w \in Writers : JobStep(w) \/ UploadStep(w) \/ WriterFails(w)
  \/ \E t \in Transcripts : DayPasses(t) \/ UnlockTranscript(t)
  \/ ScanLocks

Spec == Init /\ [][Next]_vars

\* Sidekiq keeps running what is queued, time passes and cron keeps starting
\* the unlock task.  Nobody is obliged to do anything in a window.
Fairness ==
  /\ \A w \in Writers : WF_vars(JobStep(w) \/ UploadStep(w))
  /\ \A t \in Transcripts : WF_vars(DayPasses(t)) /\ WF_vars(UnlockTranscript(t))
  /\ WF_vars(ScanLocks)

FairSpec == Spec /\ Fairness

-----------------------------------------------------------------------------
\* The lock as a lease (EditLease): what the row, the windows, the jobs and the
\* unlock task keep of it.
LeaseLock ==
  [t \in Transcripts |-> IF t \notin Live THEN "gone"
                         ELSE IF row[t].is_edit THEN "held" ELSE "free"]

MayUnlock(w, t) ==
  task[w].t = t /\ task[w].is_edit /\ task[w].stage \in {"loaded", "saved"}

LeaseClaims ==
  [t \in Transcripts |->
     {<<"user", u>> : u \in {u \in Users : editor[u] = t}}
     \cup {<<"save", w>> : w \in {w \in Saves : MayUnlock(w, t)}}
     \cup (IF t \in scan THEN {<<"cron", None>>} ELSE {})]

Lease == INSTANCE EditLease WITH
  lock <- LeaseLock, claims <- LeaseClaims, People <- {"user"} \X Users,
  Agents <- ({"save"} \X Saves) \cup {<<"cron", None>>}

\* The type invariant: attempts stay within the retries Sidekiq allows, and ids
\* of points are natural numbers.
TypeOK ==
  /\ media \in BOOLEAN
  /\ row \in [Transcripts -> Row]
  /\ points \in [Transcripts -> PointSet]
  /\ lastId \in [Transcripts -> Nat]
  /\ slates \subseteq File
  /\ vtts \subseteq File
  /\ aged \subseteq Transcripts
  /\ editor \in [Users -> Transcripts \cup {None}]
  /\ task \in [Writers -> Task]
  /\ scan \subseteq Transcripts
  /\ deleting \in BOOLEAN
  /\ faults \in 0..MaxFaults
  /\ visits \in 0..MaxVisits

\* A row that names a file the store no longer has is always a debt: a writer
\* that replaced the file had its update of the row undone, and has not succeeded
\* since.  (The file store is not part of the transaction: file_transcript.rb
\* replaces attachments inside save, and reindexes after that.)
OwesSlate(w, t) ==
  /\ task[w].t = t
  /\ \/ task[w].stage = "dead"
     \/ task[w].att > 0 /\ task[w].stage \in {"queued", "loaded"}

OwesWebvtt(w, t) ==
  /\ task[w].t = t /\ task[w].titled
  /\ \/ task[w].stage = "dead"
     \/ task[w].att > 0 /\ task[w].stage \in
          {"queued", "loaded", "saved", "updated", "read", "pointed", "copied"}

SlateKept(t) == row[t].slate \in slates \cup {None} \/ \E w \in Saves : OwesSlate(w, t)
WebvttKept(t) == row[t].vtt \in vtts \/ \E w \in Writers : OwesWebvtt(w, t)

MissingFileIsOwed == \A t \in Live : SlateKept(t) /\ WebvttKept(t)

\* A writer that had the transcript to itself from finding the row to its end
\* leaves its forms in agreement: every point and the WebVTT file, and after an
\* edit the editor's document, are those of the document it brought, whatever
\* jobs that failed, ran into one another or were killed before it left behind.
\* (TranscriptEditJob#perform, TranscriptsController#create.)
SoloWriterPublishes ==
  \A w \in Writers :
    /\ task[w].stage = "done" /\ task[w].solo /\ task[w].titled
    /\ task[w].t \in Live
    => /\ w \in Saves => row[task[w].t].slate = Own(w)
       /\ row[task[w].t].vtt = Own(w)
       /\ Shows(task[w].t, w)

\* Annotations point at points by id, so no save may trade the rows of a transcript
\* for new ones: it updates those there are, and adds or removes the surplus
\* (update_existing_points).  Steps are judged singly: a re-upload does trade all rows,
\* by removing them in one step (ClearPoints) and adding others in the next
\* (ParseUpload).
Ids(rows) == {p.id : p \in rows}

KeepsPointIds ==
  \A t \in Transcripts :
    \/ Ids(points[t]) \subseteq Ids(points'[t])
    \/ Ids(points'[t]) \subseteq Ids(points[t])

StepsKeepPointIds == [][KeepsPointIds]_vars

\* The lock is a lease: whatever windows, jobs, retries and the unlock task do, a
\* lock ends only by the hand of a window that has the transcript open, a job that
\* found it locked or a task that found it old, or with the transcript itself.
LeaseKept == Lease!Spec

\* Every save is carried out or has failed for good, in the end: a job that
\* raises is queued again, but not for ever (application_job.rb).
SavesSettle ==
  \A w \in Saves :
    task[w].stage = "queued" ~> task[w].stage \in {"done", "dead"}

\* No lock is held for ever, not even one whose window was closed or whose job
\* died, once people stop opening the editor (unlock_transcript.rake).
LocksReleased ==
  \A t \in Transcripts : row[t].is_edit ~> ~row[t].is_edit
=============================================================================
