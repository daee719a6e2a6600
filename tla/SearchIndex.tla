---------------------------- MODULE SearchIndex ----------------------------
(***************************************************************************)
(* Collections, their resources and media files, and what Solr knows of    *)
(* the resources.                                                          *)
(*                                                                         *)
(* A resource's document in Solr is a copy of its row, its files and their *)
(* points.  Callbacks write it anew after every change, most of them       *)
(* inside the transaction that makes the change, from what that            *)
(* transaction sees; Solr takes no part in commits and rollbacks.          *)
(* Collections are only marked deleted by a request; a worker destroys     *)
(* them a minute later.                                                    *)
(***************************************************************************)
EXTENDS Integers, FiniteSets

CONSTANTS
  Collections, Resources, Files,
  Home,      \* the collection of each resource
  Owner,     \* the resource of each file
  Turn,      \* the order in which rows are found, those of a parent before its own
  Users,     \* the requests that may run at once
  Workers,   \* the Sidekiq threads that may delete collections
  None,
  MaxWork,   \* requests (bound)
  MaxFaults  \* errors of Solr or the database, and restarts of Sidekiq (bound)

Entities == Collections \cup Resources \cup Files
Actors == Users \cup Workers

ASSUME ConstantsAssumption ==
  /\ Collections \cap Resources = {} /\ Collections \cap Files = {}
  /\ Resources \cap Files = {} /\ Users \cap Workers = {}
  /\ IsFiniteSet(Workers)
  /\ Home \in [Resources -> Collections] /\ Owner \in [Files -> Resources]
  /\ Turn \in [Entities -> Nat] /\ \A x, y \in Entities : Turn[x] = Turn[y] => x = y
  /\ \A r \in Resources : Turn[r] < Turn[Home[r]]
  /\ \A f \in Files : Turn[f] < Turn[Owner[f]]
  /\ None \notin Entities /\ MaxWork \in Nat /\ MaxFaults \in Nat

VARIABLES
  db,       \* what is committed: the row of each entity
  doc,      \* Solr: the document of each resource
  jobs,     \* scheduled runs of DeleteCollectionsWorker
  act,      \* what each actor is doing
  work, faults, restarts,
  suspect   \* history: resources that two actors, or an error, worked on
            \* since the last change that was carried out undisturbed

vars == <<db, doc, jobs, act, work, faults, restarts, suspect>>

Stamp == 0..MaxWork

\* A row: the change that wrote it last (for a file, it or its points); of a collection,
\* whether it is marked deleted; of a file, whether it has a transcript, and whether
\* somebody edits that.
Rows == [stamp : Stamp, deleted : BOOLEAN, transcript : BOOLEAN, locked : BOOLEAN]
ASSUME NoneAssumption == None \notin Rows

NewRow(stamp) == [stamp |-> stamp, deleted |-> FALSE, transcript |-> FALSE, locked |-> FALSE]

FilesOf(r) == {f \in Files : Owner[f] = r}
ResourcesOf(c) == {r \in Resources : Home[r] = c}
Under(e) == IF e \in Files THEN Owner[e] ELSE e

\* What a document says of a resource that a connection sees so.
Document(r, v) ==
  [title |-> v[r].stamp, files |-> {<<f, v[f].stamp>> : f \in {f \in FilesOf(r) : v[f] # None}}]

Here(c, v) == v[c] # None /\ ~v[c].deleted
Active(r, v) == Here(Home[r], v)

\* todo: the changes its transaction has still to make; view: what the transaction sees,
\* None outside of one; dirty: the rows it has written; seen: what it is about to index;
\* list: collections or resources still to come; touch: the resources it works on;
\* crossed: another actor has worked on them meanwhile.
Idle == [op |-> "none", pc |-> "idle", todo |-> {}, view |-> None, dirty |-> {},
         seen |-> None, list |-> {}, at |-> None, touch |-> {}, stamp |-> 0,
         bulk |-> FALSE, crossed |-> FALSE]

InTransaction == {"change", "fetch", "index", "remove", "commit"}
Running == InTransaction \cup {"open", "points", "reload", "reindex", "again"}

Init ==
  /\ \E with \in SUBSET Files : \E without \in SUBSET (Files \ with) :
       db = [e \in Entities |->
               IF e \in with THEN [NewRow(0) EXCEPT !.transcript = TRUE]
               ELSE IF e \in Files \ without THEN None ELSE NewRow(0)]
  /\ doc = [r \in Resources |-> Document(r, db)]
  /\ jobs = 0 /\ act = [a \in Actors |-> Idle]
  /\ work = 0 /\ faults = 0 /\ restarts = 0 /\ suspect = {}

-----------------------------------------------------------------------------
(***************************************************************************)
(* Requests, and the worker, begin.                                        *)
(***************************************************************************)
AtWork == {a \in Actors : act[a].pc \in Running}

Begin(a, r) ==
  LET beside == {x \in AtWork \ {a} : act[x].touch \cap r.touch # {}} IN
  /\ act' = [x \in Actors |->
               IF x = a THEN [r EXCEPT !.crossed = beside # {}]
               ELSE IF x \in beside THEN [act[x] EXCEPT !.crossed = TRUE] ELSE act[x]]
  /\ suspect' = suspect \cup UNION {act[x].touch \cap r.touch : x \in beside}

\* A request about an entity of a collection that its user still sees; locks are looked
\* for before a deletion, unless it is one of the bulk operations.
Request(u, op, at, todo, bulk) ==
  LET r == Under(at) IN
  /\ db[at] # None \/ op = "addFile"
  /\ db[r] # None /\ Active(r, db)
  /\ Begin(u, [Idle EXCEPT !.op = op, !.pc = "open", !.at = at, !.todo = todo, !.bulk = bulk,
                 !.touch = {r}, !.stamp = work + 1])
  /\ UNCHANGED <<db, doc, jobs>>

Do(change, e) == [do |-> change, at |-> e]

\* CollectionResourcesController#update.
SaveResource(u, r) == Request(u, "saveResource", r, {Do("save", r)}, FALSE)

\* A media file is added, or its settings or place are saved.
SaveFile(u, f) ==
  Request(u, IF db[f] = None THEN "addFile" ELSE "saveFile", f, {Do("save", f)}, FALSE)

\* TranscriptsController: a transcript is uploaded or replaced, opened in the editor or
\* deleted.
SaveTranscript(u, f) ==
  /\ db[f] # None
  /\ \/ Request(u, "upload", f, {Do("upload", f)}, FALSE)
     \/ db[f].transcript /\ Request(u, "lock", f, {Do("lock", f)}, FALSE)
     \/ db[f].transcript /\ Request(u, "strip", f, {Do("strip", f)}, FALSE)

Locked(f) == db[f] # None /\ db[f].locked

\* A fault to seed in Unlocked: the look is forgotten.
UnlockedAnyway(fs) == TRUE

Unlocked(fs) == \A f \in fs : ~Locked(f)

DeleteFile(u, f, bulk) ==
  /\ bulk \/ Unlocked({f})
  /\ Request(u, "deleteFile", f, {}, bulk)

DeleteResource(u, r, bulk) ==
  /\ bulk \/ Unlocked(FilesOf(r))
  /\ Request(u, "deleteResource", r, {}, bulk)

\* Collections are marked, which every page takes for deleted, and the worker is
\* scheduled; the bulk operation marks several and looks for no locks.
Mark(cs) ==
  /\ db' = [e \in Entities |-> IF e \in cs THEN [db[e] EXCEPT !.deleted = TRUE] ELSE db[e]]
  /\ jobs' = jobs + 1
  /\ act' = [a \in Actors |-> [act[a] EXCEPT !.crossed = @ \/ \E r \in act[a].touch : Home[r] \in cs]]
  /\ suspect' = suspect \cup {r \in UNION {act[a].touch : a \in AtWork} : Home[r] \in cs}
  /\ UNCHANGED doc

DeleteCollection(c) ==
  /\ Here(c, db) /\ \A r \in ResourcesOf(c) : Unlocked(FilesOf(r))
  /\ Mark({c})

DeleteCollections(cs) ==
  /\ cs # {} /\ \A c \in cs : Here(c, db)
  /\ Mark(cs)

\* rake aviary:solr_index:collection_resources
Reindex(u) ==
  LET there == {r \in Resources : db[r] # None} IN
  /\ Begin(u, [Idle EXCEPT !.op = "rake", !.pc = "reload", !.list = there, !.touch = there])
  /\ UNCHANGED <<db, doc, jobs>>

\* A fault to seed in Marked: through the default scope, which hides them.
MarkedInScope == {c \in Collections : Here(c, db) /\ db[c].deleted}

Gone(c) == db[c] # None /\ db[c].deleted

Marked == {c \in Collections : Gone(c)}

\* A minute after the request the worker finds the collections that are marked; what was
\* at work in them when they were marked has ended by then (the task only reads).
Perform(w) ==
  /\ jobs > 0 /\ act[w].pc = "idle"
  /\ \A u \in Users : act[u].op # "rake" => \A r \in act[u].touch : ~Gone(Home[r])
  /\ jobs' = jobs - 1
  /\ \/ Marked = {} /\ UNCHANGED <<act, suspect>>
     \/ /\ Marked # {}
        /\ Begin(w, [Idle EXCEPT !.op = "destroy", !.pc = "open", !.list = Marked,
                       !.touch = {r \in Resources : Home[r] \in Marked /\ db[r] # None}])
  /\ UNCHANGED <<db, doc, work, faults, restarts>>

-----------------------------------------------------------------------------
(***************************************************************************)
(* A transaction: changes, each with its callbacks, and the commit.        *)
(***************************************************************************)

\* An entity and what belongs to it.
Within(e) ==
  {e} \cup {r \in Resources : Home[r] = e} \cup {f \in Files : e \in {Owner[f], Home[Owner[f]]}}

\* What destroying an entity destroys, of a file its transcript as well.
Drop(e, v) ==
  LET rows == {x \in Within(e) : v[x] # None \/ (x = e /\ e \notin Files)}
  IN  {Do("drop", x) : x \in rows} \cup {Do("strip", f) : f \in {f \in rows \cap Files : v[f].transcript}}

\* The change that is next, or being made.
Before(x, y) ==
  Turn[x.at] < Turn[y.at] \/ (x.at = y.at /\ (x.do = "strip" \/ y.do # "strip"))

First(r) == {x \in r.todo : \A y \in r.todo : Before(x, y)}

\* An error: the transaction is rolled back, and what Solr was told stays told.
Raised(a) ==
  /\ act' = [act EXCEPT ![a] = Idle]
  /\ suspect' = suspect \cup act[a].touch

\* It begins, and finds what there is to destroy.
Open(a) ==
  /\ act[a].pc = "open"
  /\ \/ /\ act[a].todo # {}
        /\ act' = [act EXCEPT ![a].pc = "change", ![a].view = db]
        /\ UNCHANGED suspect
     \/ /\ act[a].todo = {}
        /\ \E e \in IF act[a].op = "destroy" THEN act[a].list ELSE {act[a].at} :
             IF Drop(e, db) = {} THEN Raised(a)
             ELSE /\ act' = [act EXCEPT ![a].pc = "change", ![a].view = db, ![a].at = e,
                                       ![a].todo = Drop(e, db)]
                  /\ UNCHANGED suspect
  /\ UNCHANGED <<db, doc, jobs>>

\* The row as the database has it for this transaction.
Row(a, e) == IF e \in act[a].dirty THEN act[a].view[e] ELSE db[e]

\* A fault to seed in NewVersion: the lock outlives the transcript.
NewVersionLocked(a, change) ==
  LET e == change.at IN
  IF change.do = "drop" THEN None
  ELSE IF Row(a, e) = None THEN NewRow(act[a].stamp)
  ELSE IF change.do = "save" THEN [Row(a, e) EXCEPT !.stamp = act[a].stamp]
  ELSE [Row(a, e) EXCEPT !.transcript = change.do # "strip",
                         !.locked = @ \/ change.do = "lock"]

NewVersion(a, change) ==
  LET e == change.at IN
  IF change.do = "drop" THEN None
  ELSE IF Row(a, e) = None THEN NewRow(act[a].stamp)
  ELSE IF change.do = "save" THEN [Row(a, e) EXCEPT !.stamp = act[a].stamp]
  ELSE [Row(a, e) EXCEPT !.transcript = change.do # "strip",
                              !.locked = change.do = "lock" \/ (@ /\ change.do = "upload")]

\* Writes a row, once no other transaction holds it or its parent; a row that is gone is
\* not written, and foreign keys guard files.
Change(a) ==
  act[a].pc = "change" /\ \E change \in First(act[a]) :
  LET e == change.at
      adds == act[a].op = "addFile"
      held == UNION {act[x].dirty : x \in Actors \ {a}}
      there == Row(a, e) # None \/ adds
      refused ==
        \/ adds /\ Row(a, Owner[e]) = None
        \/ /\ change.do = "drop"
           /\ \/ \E f \in FilesOf(e) : Row(a, f) # None
              \/ e \in Files /\ there /\ Row(a, e).transcript
  IN
  /\ e \notin held /\ (e \in Resources => FilesOf(e) \cap held = {}) /\ (adds => Owner[e] \notin held)
  /\ \/ refused /\ Raised(a)
     \/ /\ ~refused
        /\ act' = [act EXCEPT ![a].pc = "fetch",
                     ![a].view[e] = IF there THEN NewVersion(a, change) ELSE None,
                     ![a].dirty = IF there THEN @ \cup {e} ELSE @]
        /\ UNCHANGED suspect
  /\ UNCHANGED <<db, doc, jobs>>

\* What follows a change.
Advance(r, change) ==
  [r EXCEPT !.todo = @ \ {change}, !.seen = None,
            !.pc = IF r.todo = {change} THEN "commit" ELSE "change"]

\* A fault to seed in Sees: through a connection of its own.
SeesCommitted(a) == db

Sees(a) == act[a].view

\* The callbacks of a change gather what the transaction sees of the resource.  The
\* collection of a resource is nil once it is marked deleted: that raises, but where a
\* file is destroyed, when it is swallowed and nothing is indexed.
Fetch(a) ==
  act[a].pc = "fetch" /\ \E change \in First(act[a]) :
  LET r == Under(change.at)
      v == Sees(a)
      drops == change.do = "drop"
      there == r \in Resources /\ v[r] # None
      lost == there /\ ~Active(r, v)
  IN
  /\ \/ /\ change.at \in Collections \/ (drops /\ change.at \in Files /\ lost)
        /\ act' = [act EXCEPT ![a] = Advance(@, change)] /\ UNCHANGED suspect
     \/ /\ drops /\ change.at \in Resources
        /\ act' = [act EXCEPT ![a].pc = "remove"] /\ UNCHANGED suspect
     \/ /\ r \in Resources /\ ~(drops /\ r = change.at) /\ (~there \/ (lost /\ ~drops))
        /\ Raised(a)
     \/ /\ there /\ ~lost /\ ~(drops /\ r = change.at)
        /\ act' = [act EXCEPT ![a].pc = "index", ![a].seen = Document(r, v)]
        /\ UNCHANGED suspect
  /\ UNCHANGED <<db, doc, jobs>>

Index(a) ==
  /\ act[a].pc = "index"
  /\ \E change \in First(act[a]) :
       /\ doc' = [doc EXCEPT ![Under(change.at)] = act[a].seen]
       /\ act' = [act EXCEPT ![a] = Advance(@, change)]
  /\ UNCHANGED <<db, jobs, suspect>>

\* after_destroy :remove_from_solr
Unindex(a) ==
  /\ act[a].pc = "remove"
  /\ \E change \in First(act[a]) :
       /\ doc' = [doc EXCEPT ![change.at] = None]
       /\ act' = [act EXCEPT ![a] = Advance(@, change)]
  /\ UNCHANGED <<db, jobs, suspect>>

\* The end of what an actor does: if nothing came between, all is as it should be.
Done(a, r) ==
  /\ act' = [act EXCEPT ![a] = Idle]
  /\ suspect' = IF r.crossed THEN suspect ELSE suspect \ r.touch

Committed(r) == [e \in Entities |-> IF e \in r.dirty THEN r.view[e] ELSE db[e]]

Commit(a) ==
  LET r == act[a]
      next == [r EXCEPT !.view = None, !.dirty = {}]
  IN
  /\ r.pc = "commit"
  /\ db' = Committed(r)
  /\ \/ /\ \/ r.op \in {"saveFile", "addFile", "lock", "strip", "deleteFile"}
           \/ r.op = "deleteResource" /\ r.bulk
           \/ r.op = "destroy" /\ r.list = {r.at}
        /\ Done(a, r)
     \/ /\ r.op = "destroy" /\ r.list # {r.at}
        /\ act' = [act EXCEPT ![a] = [next EXCEPT !.pc = "open", !.list = @ \ {r.at}]]
        /\ UNCHANGED suspect
     \/ /\ r.op \in {"saveResource", "upload"} \/ (r.op = "deleteResource" /\ ~r.bulk)
        /\ act' = [act EXCEPT ![a] = [next EXCEPT !.pc =
                     CASE r.op = "upload" -> "points" [] r.op = "saveResource" -> "reload"
                       [] OTHER -> "again"]]
        /\ UNCHANGED suspect
  /\ UNCHANGED <<doc, jobs>>

-----------------------------------------------------------------------------
(***************************************************************************)
(* After the transaction.                                                  *)
(***************************************************************************)

\* The points of an uploaded transcript are written in a transaction of their own.
Points(a) ==
  LET f == act[a].at IN
  /\ act[a].pc = "points" /\ \A x \in Actors : f \notin act[x].dirty
  /\ \/ /\ db[f] # None /\ db[f].transcript
        /\ db' = [db EXCEPT ![f].stamp = act[a].stamp]
        /\ act' = [act EXCEPT ![a].pc = "reload"] /\ UNCHANGED suspect
     \/ (IF db[f] = None THEN TRUE ELSE ~db[f].transcript) /\ Raised(a) /\ UNCHANGED db
  /\ UNCHANGED <<doc, jobs>>

\* The next of the resources the task has listed, or the end.
Following(a, r) ==
  IF act[a].list \subseteq {r} THEN Done(a, act[a])
  ELSE act' = [act EXCEPT ![a].pc = "reload", ![a].list = @ \ {r}] /\ UNCHANGED suspect

\* reindex_collection_resource outside a transaction: of a resource that is gone it
\* raises, of one without a collection it writes nothing.
Reload(a) ==
  LET rake == act[a].op = "rake" IN
  /\ act[a].pc = "reload"
  /\ \/ rake /\ act[a].list = {} /\ Done(a, act[a])
     \/ \E r \in IF rake THEN act[a].list ELSE {Under(act[a].at)} :
          \/ db[r] = None /\ ~rake /\ Raised(a)
          \/ /\ IF db[r] = None THEN rake ELSE ~Active(r, db)
             /\ Following(a, r)
          \/ /\ db[r] # None /\ Active(r, db)
             /\ act' = [act EXCEPT ![a].pc = "reindex", ![a].seen = Document(r, db), ![a].at = r]
             /\ UNCHANGED suspect
  /\ UNCHANGED <<db, doc, jobs>>

Write(a) ==
  LET r == Under(act[a].at) IN
  /\ act[a].pc = "reindex"
  /\ doc' = [doc EXCEPT ![r] = act[a].seen]
  /\ Following(a, r)
  /\ UNCHANGED <<db, jobs>>

\* Sunspot.remove, once more, but for the bulk edit.
Again(a) ==
  /\ act[a].pc = "again"
  /\ doc' = [doc EXCEPT ![act[a].at] = None]
  /\ Done(a, act[a])
  /\ UNCHANGED <<db, jobs>>

\* Solr fails: reindexing swallows it, what else is told to Solr raises.
SolrFails(a) ==
  /\ \/ /\ act[a].pc = "index" /\ act[a].op # "saveResource"
        /\ \E change \in First(act[a]) :
             act' = [act EXCEPT ![a] = [Advance(@, change) EXCEPT !.crossed = TRUE]]
        /\ suspect' = suspect \cup act[a].touch
     \/ /\ \/ act[a].pc \in {"remove", "again"}
           \/ act[a].pc = "reindex" /\ act[a].op # "rake"
           \/ act[a].pc = "index" /\ act[a].op = "saveResource"
        /\ Raised(a)
  /\ UNCHANGED <<db, doc, jobs>>

\* The database fails, a transaction is rolled back.
DatabaseFails(a) ==
  /\ act[a].pc \in {"open", "change", "commit"} /\ Raised(a)
  /\ UNCHANGED <<db, doc, jobs>>

\* Sidekiq is restarted: the runs that are interrupted are queued again.
Restart ==
  LET cut == {w \in Workers : act[w].pc \in Running} IN
  /\ cut # {} /\ faults + restarts < MaxFaults /\ restarts' = restarts + 1
  /\ act' = [a \in Actors |-> IF a \in cut THEN Idle ELSE act[a]]
  /\ jobs' = jobs + Cardinality(cut)
  /\ suspect' = suspect \cup UNION {act[w].touch : w \in cut}
  /\ UNCHANGED <<db, doc, work, faults>>

-----------------------------------------------------------------------------
Submit(u) ==
  /\ act[u].pc = "idle" /\ work < MaxWork /\ work' = work + 1
  /\ \/ \E r \in Resources : SaveResource(u, r) \/ \E bulk \in BOOLEAN : DeleteResource(u, r, bulk)
     \/ \E f \in Files :
          SaveFile(u, f) \/ SaveTranscript(u, f) \/ \E bulk \in BOOLEAN : DeleteFile(u, f, bulk)
     \/ Reindex(u)
     \/ \E c \in Collections : DeleteCollection(c)
     \/ \E cs \in SUBSET Collections : DeleteCollections(cs)
  /\ UNCHANGED <<faults, restarts>>

Step(a) ==
  /\ \/ Open(a) \/ Change(a) \/ Fetch(a) \/ Index(a) \/ Unindex(a) \/ Commit(a)
     \/ Points(a) \/ Reload(a) \/ Write(a) \/ Again(a)
  /\ UNCHANGED <<work, faults, restarts>>

Fault(a) ==
  /\ faults + restarts < MaxFaults /\ faults' = faults + 1
  /\ SolrFails(a) \/ DatabaseFails(a)
  /\ UNCHANGED <<work, restarts>>

Next ==
  \/ \E u \in Users : Submit(u)
  \/ \E w \in Workers : Perform(w)
  \/ \E a \in Actors : Step(a) \/ Fault(a)
  \/ Restart

Spec == Init /\ [][Next]_vars

\* While a request can be served or a job carried on, something is.
FairSpec ==
  Spec /\ WF_vars((\E a \in Actors : Step(a)) \/ (\E w \in Workers : Perform(w)))

-----------------------------------------------------------------------------
\* The type invariant; the foreign keys hold, and what is locked is there.
TypeOK ==
  /\ \A e \in Entities : db[e] # None => db[e] \in Rows
  /\ \A f \in Files : db[f] # None => db[Owner[f]] # None /\ (db[f].locked => db[f].transcript)
  /\ \A r \in Resources : doc[r] # None => doc[r].title \in Stamp
  /\ jobs \in Nat /\ work \in Stamp /\ suspect \subseteq Resources
  /\ \A a \in Actors : act[a].pc \in Running \cup {"idle"}

\* What Solr says of a resource is what the database holds, and nothing if it is gone:
\* the callbacks of every change, deep in a cascade or not, leave the right document.
\* Where two actors crossed or an error struck, the next change of the resource that is
\* carried out undisturbed, or the rake task, puts it right.
IndexFresh ==
  \A r \in Resources \ suspect :
    (\A a \in AtWork : r \notin act[a].touch) =>
      IF db[r] = None THEN doc[r] = None
      ELSE Active(r, db) => doc[r] = Document(r, db)

\* "You cannot delete this ... until the transcript is unlocked."
\* (collection_resources_controller.rb, collections_controller.rb): a media file whose
\* transcript is being edited is destroyed only in bulk, or if it was locked while the
\* deletion was at work.
LocksSpared ==
  [][\A f \in Files : Locked(f) /\ db'[f] = None =>
       \E a \in Actors : f \in act[a].dirty /\ (act[a].bulk \/ act[a].crossed)]_vars

\* A collection that is marked is destroyed (DeleteCollectionsWorker), however often the
\* worker is interrupted, unless a collection that is marked has a transcript or an error
\* of Solr or the database ended the worker.
MarkedCollectionsGo ==
  \A c \in Collections :
    Gone(c) ~>
      \/ db[c] = None \/ faults > 0
      \/ \E f \in Files : db[f] # None /\ db[f].transcript /\ Gone(Home[Owner[f]])

\* "Collection deleted successfully." (config/locales/en.yml, said when it is marked): a
\* worker destroys "all related to deleted collections" (delete_collections_worker.rb).
CollectionsGo ==
  \A c \in Collections : Gone(c) ~> db[c] = None
=============================================================================
