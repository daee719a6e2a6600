# A formal model of Aviary

Aviary is a Rails application for publishing audio and video collections: an
organization keeps collections of resources, a resource has media files, and a
media file has transcripts and indexes that visitors search and read beside the
player. Rows are kept in MySQL, uploads and transcript files in a file store
(Paperclip, S3), the search index in Solr; Sidekiq runs background jobs, cron a few
tasks.

This directory models the parts of it in which several requests, jobs and tasks
work on the same rows, and the windows in which their answers arrive. The modules
are TLA+; TLC checks small instances of them, and TLAPS proves theorems about
TranscriptEditing (and the lease it implements), IndexSegments, Playlists,
ThesaurusImports, SearchIndex and BulkSelection for every instance. Paths below are relative to `src/`.
`PROJECT.json` ties every definition that models
code to its lines, every property to a run and to a fault it detects.

## 1. Inventory

What the parts are, what each keeps, what can happen to it, and what makes it
correct. Sections 3 to 9 describe the parts that are modelled.

| Part | State it keeps | Operations | Hard behaviours | What makes it correct |
|---|---|---|---|---|
| Transcript editing: `transcripts_controller.rb`, `transcript_edit_job.rb`, `draftjs_service.rb`, `file_transcript.rb`, `unlock_transcript.rake` | a row with the lock and the names of two stored files; one row per paragraph (points); the stored slate (the editor's document) and WebVTT file | open, save, cancel, re-upload, delete, bulk edits, the job, the unlock task | a save is a job of several transactions on any thread, retried when it raises; the file store is changed inside transactions that may be undone; locks that are forgotten | the three forms of a text agree; no file is lost unnoticed; points keep their ids, on which annotations hang; locks are released, and only old ones by the task |
| Index segments: `interview_index_controller.rb`, `indexes_controller.rb`, `interview_index_helper.rb`, `file_index_point.rb` | one row per segment: start, end, duration, for an index and its translation | create, move, delete, import, "Save & Create New" | the end of a segment is a copy of its neighbour's start; neighbours are rewritten before the request's own row is validated; uniqueness is looked up, not enforced | segments tile, do not overlap, have their twins, lie within the media, one at a time |
| Playlists: `playlist_resources_controller.rb`, `playlists_controller.rb`, `playlist_presenter.rb`, `playlist_manager.rb` | entries with a place, items with a clip, a total duration | add, bulk assign, toggle, clip, remove, sort, and media deletion from outside | places and the duration are copies each request recomputes, in steps | duration is the sum; places are 1..n; an entry keeps a file; a deleted file is gone |
| Media files: `collection_resource_file.rb`, `resource_file_management.rb` | the file, its place, its download period, the storage an organization uses | upload, replace, reorder, enable downloads, delete | callbacks that recompute columns on any save; counters read, added to and written back | a download period ends when it was set to; storage is what is stored |
| Resources and search index: `collection_resource.rb`, `solr_indexer.rb`, `resource_manager.rb` | metadata values, a Solr document per resource | save, bulk edit, delete, reindex after every save of any part | the document is a snapshot, written inside transactions that may be undone; either store may fail | the index ends up agreeing with the rows |
| Collections: `collection.rb`, `delete_collections_worker.rb` | resources, settings, a deletion mark | create, mark deleted, destroy by a worker | a long destruction in the background, beside ordinary use; what is marked is hidden from the callbacks that destroy it | what is marked goes, all of it; what is being edited stays |
| Thesauri: `thesaurus_terms_writer_worker.rb`, `thesaurus/` | terms, their number, an uploaded file per second | import (append or overwrite), edit | two imports at once, or in one second; restarts; errors swallowed half-way | an import leaves the terms of its file, the number is right, no file is left behind |
| Interviews: `interviews/interview.rb`, `managers_controller.rb`, `notes_controller.rb` | metadata, notes, a status computed of them | edit, notes, import and export of OHMS XML | a status kept in a column and computed elsewhere | the status shown is the status computed |
| Transcript synchronisation: `interviews/transcripts_controller.rb`, `ohms_transcript_manager.rb` | timecodes over the lines of a transcript | set a timecode, upload | timecodes are parsed and spread by arithmetic | timecodes rise, none is lost |
| Parsers: `index_transcript_manager.rb`, `export_transcript.rb`, `youtube_cc.rb` | none | WebVTT, SRT, OHMS, text and CSV to points and back | times written in several forms | what is exported reads back as it was |
| Bulk edits and session: `bulk_operation.rb`, `resource_bulk_edit.js`, `collection_resource_table.js` | lists of ids in the session, and in each window | tick, select all, clear, review, carry out | the list is kept twice; whole sessions are written back by requests that overlap; answers come late or not at all | what is changed is what was picked and reviewed; the window never stays covered |
| The list of a playlist: `playlist.js`, `playlist_resources_controller.rb` | the entries shown, the next page, a filter | scroll, filter, drag | pages are offsets into a list that changes; answers given up; timers a second late | pages join with none lost or twice; a drag stays |
| Access control: `ability.rb`, `public_share_utilities.rb`, `public_access_url.rb` | roles, links with an expiry | decide on a request | an expiry checked at the request | a link opens what it names, until it expires |
| Annotations: `annotations_controller.rb`, `annotation.rb` | annotations of points, by id, with a sequence number | add, change, delete | a sequence number read and then written | targets last; numbers differ |
| Metadata fields: `field_management/`, `field_settings_job.rb` | settings as JSON, one row per organization or collection | change, reorder, copy by a job | a row rewritten whole | no change undoes another |
| Organizations, users, plans | accounts, invitations, limits | sign up, invite, subscribe | limits checked before they are used up | no more than the plan allows |
| Search pages, catalogue, IIIF, tables, presenters | none | read | none of their own | - |
| The editor in the browser | the open document | open, save, close | a window that is closed just so | - |

Components meet in four ways. Requests and jobs share rows, with a transaction
per save and next to no locks beyond it. Saves of one record call others through
callbacks: a transcript reindexes its media file, which reindexes its resource;
an item adds up its playlist. Controllers queue jobs. Deletions cascade: a
resource takes its files, their transcripts and the playlist items of both. And
windows hold copies of what the server has, on which people act.

## 2. Plan

Most important first. All of the following is done.

1. **TranscriptEditing**, with all of its invariants proved in TranscriptEditingProofs; and
   **EditLease**, what the lock of a transcript promises apart from how it is kept,
   which TranscriptEditing implements (run `TranscriptUploads`, proved there too).
2. **IndexSegments**, with its types and that segments stay tiled and apart, and the
   twins of a translation, proved in IndexSegmentsProofs.
3. **Playlists**, with all of its invariants proved in PlaylistsProofs; **PlaylistListing**,
   the list of a playlist in a window, with all of its invariants proved in
   PlaylistListingProofs.
4. **SearchIndex**: resources, media files, their documents in Solr and the removal of
   collections, in one module because the callbacks of all of them write the same
   documents and the same transactions are at stake; all of its safety properties are
   proved in SearchIndexProofs.
5. **ThesaurusImports**, with all of its invariants proved in ThesaurusImportsProofs.
6. **BulkSelection**: the session, the windows and the bulk edits they start, with all of
   its invariants proved in BulkSelectionProofs.

SearchIndex has its abstract specification as an invariant (`IndexFresh`: the document
is a function of the rows wherever nothing crossed) rather than as a module, for its
steps are those of the program and no coarser ones say more.

What could be added: download periods and the storage counter of media files
(arithmetic on columns no modelled part reads), timecodes of synchronised interviews
(arithmetic on one row).

## 3. Transcript editing

`TranscriptEditing.tla`, `EditLease.tla`; instances in `MCTranscriptEditing.tla`.

**State.** `row` holds of each row of `file_transcripts` what matters (`is_edit`,
`locked_by`, which slate and WebVTT file it names), `points` and `lastId` the rows of
`file_transcript_points`, `slates` and `vtts` the file store. `aged` says which
locked rows have an `updated_at` older than a day. `editor` is what each window
holds; `task` is the job of each save and the request of each re-upload, with its own
copy of the row as `FileTranscript.find` gave it; `scan` and `deleting` are what the
unlock task and `delete_resource_file` have read and not yet acted on.
A document is an abstract value with a sequence of texts; a stored file is
the document and the attempt that stored it, for each attempt stores a new name.

**Actions.** `Edit`, `SaveTranscript`, `UpdateTranscript` and `Abandon` are what a
window does, together with the page it was opened from: that page posts "Finish Editing"
(`UpdateTranscript`) when the window is closed, if it is still open itself. Saving only
queues the job. The job is
`PickUp`, `SaveSlate`, `UpdateAttributes`, `ReadPoints`, `WritePoints`, `CopyWebvtt`,
`CommitWebvtt`: one action per transaction or file operation of
`TranscriptEditJob#perform` and what it calls. A save replaces stored files, updates the row and reindexes
(`ReindexWorks`, `ReindexRaises`); when the reindexing raises the
row is undone and the files are not. `Raised` is what Sidekiq does with a job that
raised. A re-upload is `BeginUpload`, the same
two file steps, `ClearPoints` and `ParseUpload`. `WriterFails` is a network error or
a killed process at any step. `DestroyTranscript`, `CheckLocks`,
`DeleteResourceFile` and `BulkDeleteFiles` delete; `ScanLocks` and `UnlockTranscript`
are the cron task, `DayPasses` the time.

**Runs.**

| Run | Instance | Checks |
|---|---|---|
| `TranscriptEdits` | two saves of one transcript on two threads, a retry, a failure, blank titles, deletions, the unlock task | `TypeOK`, `MissingFileIsOwed`, `SoloWriterPublishes`, `StepsKeepPointIds` hold |
| `TranscriptUploads` | a save racing a re-upload, the unlock task, deletions | `SoloWriterPublishes` and `LeaseKept` hold |
| `TranscriptProgress` | two people, two transcripts, a save, under `Fairness` | `SavesSettle`, `LocksReleased` hold |

What they show. A file may be lost (the store is not part of the transaction) but
never silently: as long as the row names a missing file there is a writer that
raised or died after it replaced it (`MissingFileIsOwed`). Whatever state earlier
saves left behind, crashed and half-done ones included, a writer that has the
transcript to itself from finding the row to its end leaves all three forms its own
(`SoloWriterPublishes`). No save trades a transcript's points, which annotations point at
by id, for new ones (`StepsKeepPointIds`). That property judges single steps, and its run has
no re-uploads: a re-upload does replace all points, destroying them in one step and creating
others in the next, and the annotations on the old ones lose their targets.

**The lease.** `EditLease` has one lock per transcript (free, held or gone) and the set
of those who may end it. `TranscriptEditing` maps to it by `LeaseLock` and `LeaseClaims`: a
window with the editor open, a save that found the row locked and will clear `is_edit`,
and the unlock task for the rows it found overdue are the claimants. `LeaseKept` is
`EditLease!Spec` under that mapping (`Lease`): every step of the code is a step of the lease or
leaves it alone. The lease is honest about what the code does not promise: a lock
may be released by somebody other than who took it last, as `locked_by` is shown to
people and never compared, and a deletion asks nobody.

**Bounds.** Two saves are enough for every race between two jobs, and a third
adds only repetitions, as a job carries no memory from one to the next but the rows. One retry shows
both a job that is queued again and one that is given up. Documents of one and
two paragraphs make points be updated, created and deleted. `MaxVisits` bounds
how often people open an editor, without which a lock could be taken anew for ever.

**Fairness.** Sidekiq keeps running what is queued (`config/sidekiq.yml`), so each writer's
steps are weakly fair; a day passes; cron starts the unlock task daily, and the task
goes through the rows it read. Nobody is obliged to do anything in a window, which
is why locks are released by the task alone. Failures are never fair and are
bounded by `MaxFaults`.

**Proofs** (`TranscriptEditingProofs.tla`). For any sets of users, transcripts,
saves, re-uploads and texts and any bounds that satisfy `ConstantsAssumption` and
`NoneAssumption`:

- `TypeCorrect`: `Spec => []TypeOK`. The inductive invariant is
  `TInv == TypeOK /\ WritersAtWork`: a writer that has begun has a transcript.
- `PointIdsKept`: `Spec => StepsKeepPointIds`, from `TInv` and the
  lemma `RewrittenKeepsIds`, which says what `update_existing_points` does to
  ids whatever rows it read and finds.
- `NoFileLostUnowed`: `Spec => []MissingFileIsOwed`. On its own the property
  is not inductive: deleting "the file the writer knows of" keeps the others' files
  only because a stored file belongs to one writer and one attempt, and because the
  file a row names is that of a writer that stored it. That is `FilesBelong`, and `IInv` is
  `TInv /\ FilesBelong /\ MissingFileIsOwed`; the proof has one step per action and
  under it one per conjunct the action disturbs.
- `SoloWritersPublish`: `Spec => []SoloWriterPublishes`. `SoloInv` adds three facts to
  `TInv`. `PointsInOrder`: points of a transcript have ids of their own, none beyond
  the last one given out. `SoloApart`: nobody else is at work on the transcript of a
  writer still called solo. `SoloAchieves`: what such a writer has done so far (stored
  its document, read the points, written them, stored its file) is what the
  transcript has. Two lemmas about points carry it, `NumberedForms` for a re-upload
  and `RewrittenForms` for an edit: the rows that `update_existing_points` leaves,
  updated, created and removed, are in the order of their ids the paragraphs of the
  text, provided the rows it read are still those there are. Each action of a writer
  then has its lemma (`...Advances`): it keeps its promise and leaves other
  transcripts alone. Windows, the unlock task and deletions keep the files and
  points of every transcript that stays.

The last part of the module proves `LeaseImplemented`: `Spec => LeaseKept`. Initial states
map to initial states; then there is a lemma per kind of action, which says which action
of the lease it is (opening an editor is `Take`, a save that picks up its row and the
scan of the task are `Claim`, the update of the row is `Release`, failures and closed
windows are `GiveUp`) or that it is a stutter. Its invariant `LInv` is `TInv`, that the task
finds only locked rows overdue, and that a re-upload carries no document of an editor.

Only model-checked: liveness (`SavesSettle`, `LocksReleased`).

## 4. Index segments

`IndexSegments.tla`; instances in `MCIndexSegments.tla`.

**State.** `rows` are the rows of `file_index_points` of a media index or of an interview's index
(`main`) and its translation (`alt`): start, end and duration in seconds. `made` says
which rows of `file_indexes` there are. `req` is the request of each editor: the form,
the record it holds in memory and what that record believes the database holds
(`held`), on which depends what columns a save writes (`Merged`).

**Actions.** `Create`, `Update` and `Destroy` are submitted forms. A request then goes
through `Assign` (the first `update(params)`, which reads the hours of `hh:mm:ss` as
seconds: `Cast`), `Neighbours` and `Shorten` (`set_end_time`, which saves the segment
before), `Validate` and `Write` (the save), `Twin` (the same for the translation), or
`Find`, `Fix` and `Delete` (`update_end_time`).

**Runs.**

| Run | Instance | Checks |
|---|---|---|
| `IndexSegments` | two kinds of index in one run: an interview in two languages under one editor, with blank titles and "Save & Create New"; a media file of known duration under two racing requests, with end times in the form. Two requests over up to three imported segments, a time in the second hour | `TypeOK`, `CreateAndDestroyTile`, `SegmentsStayApart`, `TwinsStayAligned` hold |
| `SegmentRefused` | one request | `RefusedChangesNothing` fails: the neighbour is already rewritten |

What they show. Whatever segments it starts from, a request that no other ran
beside keeps what was tiled tiled, what was apart apart and what had a twin
beside its twin. `SegmentsStayApart` is stated for moves within the first hour: in the
second the row takes itself for its own predecessor, because the first save has put
it at the number of its hours. `TwinsStayAligned` is stated without "Save & Create New",
which saves the twin at the time of the player, and for rows of which no two start
together: the uniqueness of start times is looked up, so two racing requests may leave such
a pair, and the one twin is then found for both.

**Bounds.** The neighbourhood of a segment is the one before and the one after, so
three segments and a new one have a first, a last and a middle, and every move passes
none, one or two others. The instance has an hour of four seconds, so that 5 has
hours and 0, 1 and 3 have none. Seconds are whole: nothing depends on fractions.
Two requests at once are enough for check-then-act races, which are between two.

**Approximations.** The queries of `set_end_time` are one step, and so is the first
`update(params)` with its own validation: both read once and act on what was read.
An index begins as an import of segments in the order of their times leaves it; the
import skips segments that are not valid, which start after the end of the media. A second
language may have been added to the interview after the import: then there are no twins, nor
an index for them, until a segment is saved, and deleting one fails after the deletion.

**Proofs** (`IndexSegmentsProofs.tla`; two lemmas on counting in
`RankLemmas.tla`, which PlaylistsProofs uses as well). For any finite set of times and any
number of editors, requests and segments:

- `SegmentTypes`: `Spec => []TypeOK`. The inductive invariant `TInv` adds that `lastId` bounds
  the ids and, stage by stage, what a request holds (`Formed`): a start before it looks for
  neighbours, an end before it validates, and from the validation on a start within the media.
- `SegmentsTile`: `Spec => []CreateAndDestroyTile`, from `TInv` and `TileInv`. While a request is
  called solo no other runs; and what it has made of the rows it found is known at each
  stage (`Creating`, `Removing`): before `Shorten` nothing, after it the rows to which its segment
  would fit (`Fits`), with the other language untouched or finished. Two lemmas on sets of
  rows carry it: inserting a segment that ends where the next one starts, behind one
  that was shortened to its start (`InsertRow`), and removing one whose predecessor was
  lengthened to the next (`RemoveRow`). The steps must also show that the validations let
  these rewritings through.
- `SegmentsApart`: `Spec => []SegmentsStayApart`, from those two and `ApartInv`. It looks at the
  segments beside the one the record stands for (`Others`), which stay apart throughout, and
  says of the record how far it has found its place (`Settling`): its end is no later than
  what starts after it, what starts before it ends by its start, and its own row is where
  the record believes it. The end of that row is the one thing it may be wrong about: an
  update that finds its own row as the segment before has just ended it at the new start,
  and then writes only what it knows to have changed. Either end is early enough. For a
  segment moved from the second hour on the first saving would put the row at another
  start among the others, where they need not be apart any more.
- `TwinsAligned`: `Spec => []TwinsStayAligned`, from those two and `TwinInv`, which follows the
  keys (id, language, start) of the rows: a segment being moved has its own key at the
  start its record believes the database has (`held`), whether or not the first saving was
  refused, and after both languages are written both keys have moved to the new start.

Nothing is left to the model checker alone but `RefusedChangesNothing`, which does not hold.

## 5. Playlists

`Playlists.tla`; instances in `MCPlaylists.tla`.

**State.** `entries` and `items` are the rows of `playlist_resources` and
`playlist_items` of one playlist, `duration` its column, `resources` and `files` the
media there are. `req` is the request of each user: what is left to do (`todo`,
`order`), and of the adding up the items it has listed and the duration read with
them (`seen`, `held`). A sort holds in `order` the rows the page shows, as they are to
stand: any of the entries, since a filter or the pages not fetched yet leave some out, and
perhaps the row of an entry that is gone (`Rows`).

**Actions.** `AddResource`, `AssignResources`, `ToggleItem`, `RemoveEntries`, `Sort`,
`DeleteFile` and `DeleteResource` begin a request. `AddEntry` and `AddItem` are
`PlaylistPresenter.add_resource_to_playlist`; `Look`, `SetClip` and `RemoveItem` are
`toggle_item`, which looks, counts and acts in steps; `RemoveEntry`, `Renumber` and
`Number` are removal with `sort_manager`, and `sort`: one row at a time in the order of
ids, each gets the number of its place among the rows sent, and the rest keep theirs. After each committed item
`List`, `Sum` and `Save` are `update_duration_playlist`: it lists the items, finds each
again (and gives up if one is gone) and writes the sum if it differs from what it read.

**Runs.**

| Run | Instance | Checks |
|---|---|---|
| `PlaylistRaces` | three requests of any kinds, two of them at once; a resource of two files, added any number of times | `TypeOK`, `SoloChangeTotals`, `NumbersKept`, `LastItemStays` hold |

What they show. The duration may be left wrong by two racing requests, for the older
sum may be saved last; the next change that nothing disturbs repairs it
(`SoloChangeTotals`). Removals close the gap in the places of entries, whatever the places
were before; adding and toggling keep them 1..n, and so does a sort of the rows that hold
the first places, as a page without a filter sends it (`NumbersKept`). A drag under a filter, or
on a page that still shows an entry that is gone, does not, and the run has both: what is
shown gets the places 1, 2, ... although other entries have them, or a place is left
out, until a removal puts it right. Nor do the bulk edit, which counts from 1
beside what is there, and the deletion of a resource. A request that takes an item off
an entry with no other at work leaves the entry another (`LastItemStays`); two that
race can each take what the other counted on, and the model has them do so. No item
outlives its entry or its file, and each is of a file of its entry's resource (`TypeOK`),
though requests look and act in steps: the foreign keys, and the validation that an item
has its file, are asked again when it is written.

**Bounds.** Two files show an entry that keeps one; one resource, added again
and again, makes as many entries as there are requests. Two requests at once are
enough for the lookups and the lost sum, and the third is the one that repairs what they
left, or that removes after a sort under a filter after an addition.

**Approximations.** `update_duration_playlist` loads the playlist and its items in
one step, and finds the items again in one. An entry's description and the
reindexing of its resource, whose errors are swallowed, are left out.

**Proofs** (`PlaylistsProofs.tla`). For any finite sets of resources and files and any
number of users and requests:

- `PlaylistTypes`: `Spec => []TypeOK`. That an item's entry is of the resource of its
  file does not follow from the rows alone: a request holds the file and the entry
  it will join, read earlier. The inductive invariant `TInv` adds `RequestsFit`: the files
  a request has still to add are of the resource of the entry it adds them to, if that
  is still there; and, because an entry's id must not come to mean another entry,
  `IdsUsed`: no id is newer than the newest.
- `LastItemKept`: `Spec => []LastItemStays`, from `TInv` and `StaysInv`: while a request is
  called solo no other is at work, it has at most one item to take off, and there is
  another of the same entry that it will not.

- `SoloChangesTotal`: `Spec => []SoloChangeTotals`, from `Alone` and `CountsInv`: what a
  request that is alone has listed and read is what there is, what it has summed is the
  sum of what there is, and once it is past adding up the duration is that sum.
  `StepWorks` is the heart: every step that changes an item goes on to list. The sum itself
  stays an opaque function of the items, so that no fold is unfolded.
- `NumbersAreKept`: `Spec => []NumbersKept`, from `Alone` and `NumbersInv`. In the middle of
  a sort or of `sort_manager` the numbers are in no order, so the invariant relates them to
  what is left to do: each entry among the rows sent has the number of its place there or is
  still to get it (`Placing`), and, where the rows sent were the first of entries numbered
  from 1, the others hold just the numbers after them (`Whole`). `FirstAreWhole` and
  `RenumberPlaces` begin it, `PlacingGoesOn` is one step, `PlacingEnds` the last: places
  given without repetition to entries that are there cannot be more than the entries. That
  ids can be put in order at all is `Ascending`, by counting ranks instead of by induction.

All invariants of the run are proved.

## 6. The list of a playlist in a window

`PlaylistListing.tla`; instance in `MCPlaylistListing.tla`.

**State.** `place` is `sort_order` of each entry on the server, `writes` the drags that
are being saved, each with the numbers it has still to write. The rest is the window
(`playlist.js`): the filter, the entries `shown`, the next `page`, `ended`
(`playlist_ended`), the one `request` that is out, the `spinner`, the "No Resource Found"
`message` and the pending `timers` that look for an empty list.

**Actions.** `Type`, `Scroll` and `Drag` are the person's; `ServePage` and `SaveNumber` the
server's, the second one row at a time; `TakePage` and `LookEmpty` the window's;
`FailPage` and `FailDrag` a request that is lost. `RemoveElsewhere` is another window,
whose removal renumbers all entries (Playlists).

**Run.** `PlaylistListing`: three entries in pages of one, four pages asked for, two drags,
one removal elsewhere, one failure, and filters that match all entries, two, none, and one
too short to fetch anything. `TypeOK`, `PagesJoin`, `DragsStick`, `SaysNoneRightly` and
`LoadingEnds` hold.

What it shows. Pages are offsets and lists are typed away and dragged while pages are
under way; still, as long as a list is fetched under one filter and no other window
interferes (`clean`), it holds the first entries of the playlist, each once
(`PagesJoin`), and once drags are saved their order (`DragsStick`). The reason is that a drag
permutes only what is loaded, and numbers just that. `clean` ends with a drag under a
filter, which numbers the entries that match from 1 and leaves the others where they are,
and with a second drag before the first is saved.

**Bounds.** Three pages of one entry have a first, a middle and a last page and an empty
one; two drags race each other and a page; larger pages change no order of events.

**Fairness.** The server serves, the window takes answers and its timers run. Nobody has to
type or scroll, so `LoadingEnds` is a promise about the program only; it excepts a failed
request, whose spinner stays.

**Proofs** (`PlaylistListingProofs.tla`). For any finite set of entries, any filters, any
size of page and any bounds that satisfy `ListingAssumption` (a page has an entry, and
one page may be asked for):

- `ListingTyped`: `Spec => []TypeOK`. Page numbers and timers stay within their bound
  because each took a page that was asked for (`Tallied`); `WindowSane` adds that the page
  asked for is the next one and that a list which has had none, or says so, is empty.
- `PagesAlwaysJoin`, `DragsEndAsShown` and `NoneIsNone`: `Spec => []` of `PagesJoin`,
  `DragsStick` and `SaysNoneRightly`. None is inductive: while the rows of a drag are being
  saved, some entries have their old numbers and some their new ones, two may share one,
  and pages are served in that order. The invariant `LInv` therefore speaks of the numbers
  `T` that the entries are to have once all is saved (`Due`), no two the same (`Numbers`):
  the list is the start of the playlist by `T`, and so is the page that has been served its
  continuation (`Shows`); and the numbers there are now differ from `T` only among the
  entries whose numbers are within the pages fetched (`Near`).
- The argument is two lemmas about listing a set by numbers. `SortsAgree`: lists by
  numbers that agree beyond some `L` agree beyond any place from `L` on, and have
  the same members before it, so that a page served amid a drag is the one that follows
  the list, and a list half saved holds the right entries in some order. `NumberIs`: by
  numbers from 1 on, each entry is listed in the place of its number, so that a
  drag, which numbers what is loaded by its places, gives out just the numbers these
  entries had. That there is a list at all is `Sorted`, by counting ranks instead of by
  induction, and `MaxIs` and `LeastNumber` find the greatest and the least of some numbers.
- The steps: a first page takes the numbers as they are for `T` (`FirstPage`), later ones
  keep it (`NextPage`, `PageJoins`), as does each row that is saved (`RowSaved`); a drag
  chooses it anew (`DragJoins`).

Only model-checked: `LoadingEnds`.

## 7. Selecting rows for a bulk edit

`BulkSelection.tla`; instance in `MCBulkSelection.tla`.

**State.** `session` holds the ids picked in the table of resources, in that of
interviews and on the search page (`search_playlist_id`), shared by all windows of a
browser. `tab` is what each window has: the ids it
believes picked (a list in which an id can be twice), ticked boxes, how many handlers
are bound to "Select All", whether the overlay is up, the review dialog and what it
lists. `wire` are the requests under way, each with the copy of the session it read and will
write back whole (`session_store.rb`).

**Actions.** `Visit`, `TurnPage`, `Tick`, `Untick`, `ClickUnbound`, `SelectPage`, `SelectAll`,
`ClearAll`, `Review`, `CloseReview`, `ApplyEdit` are clicks; `Rebind`, `Reload` and `Poll` are
timers; `Read`, `Commit` and `Deliver` a request served in three steps, so that two may
overlap; `Fail` a request or an answer that is lost. `SearchPage` is the search page
(`catalog_controller.rb`, `searchpage.js`): it adds a pick, drops one, or has its list
replaced, by "select all", another search or the use of the picks; of its window nothing else
is kept. The answer to "Clear selected", and the
loss of it, reloads the page in its own handler, so `Deliver` and `Fail` of it open the page.

**Runs.**

| Run | Instance | Checks |
|---|---|---|
| `BulkSelection` | one window, two ids in pages of one, six clicks, the first of which may be on the search page, which finds one of the ids; two requests on the wire (one may belong to a page that was left), one loss, up to two handlers | `TypeOK`, `ActsOnPicked`, `ActsOnListed`, `TickedArePicked`, `LoaderLifts` hold |
| `BulkListedBelow` | the same, nothing lost | `ListedIsActedOn` fails: the review lists what is picked elsewhere |

What they show. Where the window waited for its answers, a bulk edit changes nothing the
window does not count as picked (`ActsOnPicked`). Nor does it change anything but what its
review listed, where no list that the review prefers was in the way (`ActsOnListed`): the
review takes picks of the search page first, then interviews, then resources, so that picks
left on the search page crowd out both tables and picked interviews crowd out the resources.
Both exceptions are in the run, and section 10 shows what comes of one. A box that is ticked is
picked, except those clicked in the half second before their handlers are bound; the
overlay always lifts. Between overlapping requests a click may be lost; the properties
say for whom they hold (`alone`).

**Bounds.** Two pages of one id each, so that a page can be turned and its first and only
id taken for "the first of those picked"; six clicks reach a reviewed edit after a
select, a clear or a page turn; a loss counts as one of the six, so that those with one
have five. Handlers beyond two send more of the same. One pick on the
search page, of an id that the table has too, stays in the session for as long as it is not
replaced, which is all that a review can tell of it.

**Fairness.** Requests are served and delivered; clicks are never owed.

**Proofs** (`BulkSelectionProofs.tla`). The four invariants, for any windows, any finite set of
ids, any pages without an id twice, and any bounds. None of them is inductive alone; `BInv`
joins them with

- `TInv` and `Awaited`: which windows have requests out. A page that loads is all that its
  window waits for; any other request is about the table the window shows; nothing that was
  answered belongs to a page that was left.
- `Attentive`, of the window `alone` names: one errand is out at a time (`OneErrand`; "Select
  All" may send several requests for the same), what the server has read is what it has
  (`Current`), the session holds no more than the window counts, or the errand will see to it
  (`Counted`, `Settles`), what is sent is what is counted (`Fits`), and an open review dialog
  shows what the session has or waits to be told (`DialogTrue`).

The lists of the window are the other half: an id can be in one several times, ticking
appends it again and unticking drops the first. `AtPicks`, `WithoutKeeps` and `OrderHas` say
what is left in such a list; that ticked boxes are picked (`BoxesArePicked`) and that the
session holds no more than the window counts (`EditsWhatIsPicked`) both rest on them.

Only model-checked: `LoaderLifts`. `ListedIsActedOn` is false (section 10).

## 8. Imports into a thesaurus

`ThesaurusImports.tla`; instance in `MCThesaurusImports.tla`.

**State.** `rows`, the terms of the thesaurus, and `number`, its column
`number_of_terms`; `files`, the file of each second; `job`, the worker of each import with
what it has read and not yet acted on: the rows it will destroy, the terms its transaction
sees, the number it found.

**Actions.** `Upload` and `Deactivate` are requests. `Start`, `Load`, `Destroy`, `Look`,
`Commit`, `Count`, `Save`, `DeleteFile` and `Mail` are the worker in the order of
`thesaurus_terms_writer_worker.rb`, with one step per transaction: old terms are destroyed
one at a time, new ones are looked up and written in one transaction. `Raise` is an error,
which the worker's rescue swallows; `Restart` puts what runs back in its queue.

**Run.** `ThesaurusImports`: two imports, two terms, files that are malformed, empty, of one
or two terms, two seconds, one restart, one error. `TypeOK`, `ImportExact`, `CountRight`,
`AppendsKept`, `FilesOwned` and `ImportsEnd` hold.

What it shows. An import that no other ran beside leaves just what it says, and the right
number, whatever racing, failed or interrupted ones left; racing imports may leave terms
twice, or none, and a wrong number, which nothing repairs but the next import.
`ImportExact` is about the list the worker read: of two uploads in one second the file of
both holds the later list, the earlier one is lost, and no property forbids it. Appending
imports lose nothing, however many run, unless one overwrites. No file is left by
imports that succeeded, although those of one second share theirs.

**Bounds.** Two imports meet in every way two can, and a restart makes one of them run a third
time. Two terms make a deletion be half done and a list be half there already.

**Fairness.** Time passes and Sidekiq works what is queued; errors and restarts are bounded.
Restarts are graceful: Sidekiq pushes what it was running back. A killed process, whose
jobs open-source Sidekiq loses, is not modelled.

**Proofs** (`ThesaurusImportsProofs.tla`). All five invariants, for any finite sets of
imports and terms and any bounds:

- `ImportTypes`: `TypeOK` with the rows a finite set is inductive (`TInv`).
- `AppendsLoseNothing`: `KInv` adds to `TInv` and the property `DestroyerForgets` (while a
  worker is loading or destroying rows, nothing is claimed as kept) and `SureSeesTrue` (what
  the transaction of a worker in `sure` has seen is there until it commits).
- `ImportsAreExact` and `CountsAreRight`: `EInv` adds `Alone` (the worker in `apart` is the
  only one that runs), `Quiet` (since one completed so nothing writes), and `Progressed`: for
  each stage, what the worker has made of the rows it began with.
- `FilesBelong`: `FilesOwned` with `TInv` is inductive.

Only model-checked: `ImportsEnd`.

## 9. The search index and the removal of collections

`SearchIndex.tla`; instance in `MCSearchIndex.tla`.

**State.** `db` is what is committed: of each collection, resource and media file the
change that wrote it last (`stamp`), whether a collection is marked deleted, whether a
file has a transcript and whether that is locked. `doc` is the document of each resource in
Solr, `jobs` the scheduled runs of `DeleteCollectionsWorker`. `act` is what each request
or worker does: the changes its transaction has still to make (`todo`, a set; `First` is the
one that is next, by the order `Turn` in which rows are found: what belongs to a row goes
before it, the transcript of a file before the file), the snapshot it sees
(`view`), the rows it holds (`dirty`), what it is about to index.

**Actions.** `Submit` begins one of fifteen kinds of requests: saving or adding resources,
files and transcripts, opening an editor, deleting each of them alone or in bulk, marking
collections, the rake task that indexes all. `Perform` starts the worker. A transaction is
`Open`, then for each row `Change` (which waits for rows others hold, and for foreign keys),
`Fetch`, and `Index` or `Unindex` of the callbacks, then `Commit`; after it come `Points`,
`Reload`, `Write` and `Again` as the controllers have them. `SolrFails`, `DatabaseFails` and
`Restart` are the faults. Collections that are marked are hidden from the callbacks that
run while they are destroyed (`Fetch`), as the default scope hides them.

**Runs.**

| Run | Instance | Checks |
|---|---|---|
| `SearchIndex` | two collections, two resources, two media files of one of them, two requests at once and a worker, one error or restart | `TypeOK`, `IndexFresh`, `LocksSpared`, `MarkedCollectionsGo` hold |
| `CollectionsGo` | one request, no error | `CollectionsGo` fails: a collection with a transcript makes the worker raise |

What they show. The documents are what the database holds wherever nothing crossed and
nothing failed, through all callbacks and cascades, and where something did, the next
change that nothing disturbs puts them right (`IndexFresh`). A locked transcript's file is
destroyed only in bulk or if it was locked while the deletion ran (`LocksSpared`). Marked
collections go however often the worker is interrupted, unless one of them has a
transcript, which makes each run raise (`MarkedCollectionsGo`; section 10).

**Bounds.** Two files under one resource show a cascade over several rows and the
reindexing between them; a second resource and collection show that others are left alone,
and a worker that goes from one collection to the next. Two requests are enough for a
document older than another to be written last; the second is also the one that repairs it.

**Fairness.** While any request or job can go on, one does; nothing is said of which. This is
enough as each does finitely many steps. A request that was at work in a collection when it
was marked ends within the minute the worker waits (the rake task excepted).

**Proofs** (`SearchIndexProofs.tla`). For any sets of collections, resources, files and
requests, any finite set of workers, any order `Turn` that puts children before parents, and
any bounds. The steps are first sorted by what they do to an actor's record (`Moves`,
`Begins`, `Marks`, `Restarts`: `NextCases`), so that each invariant is shown to survive nine
kinds of step instead of thirty.

- `TypesHold`: `Spec => []TypeOK`. That a file has its resource, and a lock its transcript, is a
  matter of foreign keys and of rows held until a commit: `Keys` says that of what a
  transaction has dropped no file is left and none can come, and that no two transactions hold
  one row. `Shapes` says how far an actor can be with what it does, from its record alone.
- `IndexStaysFresh`: `Spec => []IndexFresh`. `AllReach`: what an actor writes is of the resources
  it is counted at work on. `Mending` and `Resting`: two actors on one resource both count as
  crossed; one that answers for a resource (nobody crossed it there, or what was crossed has
  been put right) sees its committed rows, and has told Solr what its transaction sees, or
  has a change of it still to make, or a collection still to destroy; and what nobody works on is
  right. The collection of a resource being hidden from its callbacks does no harm to it:
  every resource that a cascade drops is removed from the index by itself.
- `LockedFilesAreSpared`: `Spec => LocksSpared`. `Sparing`: in what a deletion is about to take
  that looked for locks and was not crossed, nothing is locked; and the worker never drops a
  file that is locked, for a lock is on a transcript, the transcript of a file goes first, and
  that raises where the collection is hidden.

Only model-checked: `MarkedCollectionsGo`.

## 10. Violations

Three properties that a comment or a message of the repository states do not hold of the
code; each has a run in which TLC finds the shortest way there, and an entry under
"findings" in `PROJECT.json` that quotes the statement. They are kept as properties
so that a repaired program, and its repaired model, turns them into passing runs.

- `RefusedChangesNothing` (`SegmentRefused`): a segment that is refused has already rewritten
  the end of the one before it.
- `ListedIsActedOn` (`BulkListedBelow`): the review of a bulk edit of resources lists what
  was picked on the search page, or the interviews picked in their table, and the edit
  changes the resources picked in the table of resources.
- `CollectionsGo` (`CollectionsGo`): a collection with a transcript is never destroyed, for
  reindexing on the way asks for the id of a collection that is hidden.

## 11. Checking it

    tlc -workers 2 -config TranscriptEdits.cfg MCTranscriptEditing.tla
    tlapm TranscriptEditingProofs.tla

Every `.cfg` belongs to the `MC` module of its component, as `PROJECT.json` lists. The
longest, `SearchIndex` and `PlaylistRaces`, take one to three minutes. Deadlock is not
checked: the bounded counts of requests and faults let every instance come to rest. Definitions
whose comment begins "A fault to seed" are plausible faults of the code: putting one in
place of the definition after it makes the property named in `PROJECT.json` fail.

Liveness is TLC's alone, and so is what a recursive sum or fold computes: the proofs treat
it as an opaque function of its argument. All proofs assume no more than the ASSUMEs of their modules.

## 12. What is not modelled

- The texts: parsing, formatting, markup, languages, the values of metadata fields. A
  document is a value with paragraphs; a segment is its times; a term is a value.
- Most of the JavaScript by length, which is vendored: the video player and its VR,
  Chromecast and Vimeo plug-ins, scroll bars, token fields, and a compiled editor. Of the
  scripts written for Aviary, `index_transcript.js` and `collection_resource.js` move, mark and
  scroll what the server rendered; the parts of them with a protocol of their own (the list of
  a playlist, picking rows, opening an editor) are modelled.
- The search page itself: of its selection, the list in the session is part of section 7, and
  putting its picks into a playlist is a series of `AddResource` requests of section 5.
- Download periods and the storage counter of media files: each a column computed by one
  callback and read by no modelled part. Thumbnails, uploads to S3 and transcoding.
- Caches of associations within a request, documents of collections in Solr, and the
  creation of collections and resources, before which nobody refers to them.
- The alternative transcript that an OHMS upload with two languages creates, and the
  timed tasks and exports that only read.
- A killed Sidekiq process, which loses its jobs.
- Solr beyond the documents of resources and that it may fail, and S3 beyond which
  files are stored. Both are external.
- Annotations, settings of metadata fields, access control, plans and accounts: rows written, or
  decisions taken, by one request each.

Modelled, and in the runs, but judged by no property, since no code, document or test says what
should come of it: a lock taken between the look for locks and the deletion, or before a marked
collection is destroyed; two requests that each leave a playlist entry the item the other takes;
starts in the second hour of an index, and the last end while the length of the media is unknown;
a deletion that fails before it reaches the translation; a refused re-upload; two uploads of
terms in one second. A re-upload also gives the points of a transcript new ids. `PROJECT.json`
lists them among its hazards, each with the reason.
