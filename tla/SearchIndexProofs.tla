------------------------- MODULE SearchIndexProofs -------------------------
(***************************************************************************)
(* What holds of rows and of Solr's documents for any number of            *)
(* collections, resources, files, requests and workers: foreign keys hold, *)
(* what Solr says is fresh wherever nobody was disturbed, and what is      *)
(* locked is spared.  The invariants come first, then what each step does  *)
(* to the records of actors, then the proof that each invariant survives.  *)
(***************************************************************************)
EXTENDS SearchIndex, FiniteSetTheorems, TLAPS

Saves == {"saveResource", "saveFile", "addFile", "upload", "lock", "strip"}
Deletes == {"deleteFile", "deleteResource", "destroy"}

Views == [Entities -> Rows \cup {None}]
Docs == [title : Stamp, files : SUBSET (Files \X Stamp)]
Changes == [do : {"save", "upload", "lock", "strip", "drop"}, at : Entities]

Doings ==
  [op : Saves \cup Deletes \cup {"rake", "none"}, pc : Running \cup {"idle"},
   todo : SUBSET Changes, view : Views \cup {None}, dirty : SUBSET Entities,
   seen : Docs \cup {None}, list : SUBSET (Collections \cup Resources),
   at : Entities \cup {None}, touch : SUBSET Resources, stamp : Stamp,
   bulk : BOOLEAN, crossed : BOOLEAN]

Types ==
  /\ db \in Views /\ doc \in [Resources -> Docs \cup {None}]
  /\ jobs \in Nat /\ work \in Stamp /\ suspect \subseteq Resources
  /\ act \in [Actors -> Doings]
  /\ \A a \in Actors : IF act[a].pc \in InTransaction THEN act[a].view \in Views ELSE act[a].dirty = {}

\* How far an actor can be with what it does, from its record alone.
SaveShape(q) ==
  /\ q.at \in Resources \cup Files /\ q.touch = {Under(q.at)} /\ q.list = {}
  /\ q.op = "saveResource" => q.at \in Resources
  /\ q.op = "addFile" => q.at \in Files
  /\ q.pc = "open" => q.todo # {}
  /\ \A x \in q.todo : x.at = q.at /\ x.do # "drop"
  /\ q.dirty \subseteq {q.at} /\ \A e \in q.dirty : q.view[e] # None
  /\ q.pc \in InTransaction \cup {"open", "points", "reload", "reindex"}
  /\ q.pc \in {"points", "reload", "reindex"} => q.op \in {"saveResource", "upload"}

DeleteShape(q) ==
  /\ q.pc = "open" => q.todo = {}
  /\ \A x \in q.todo : x.do = "drop" \/ (x.do = "strip" /\ x.at \in Files)
  /\ \A x \in q.todo : x.at \in Within(q.at)
  /\ q.dirty \subseteq Within(q.at) /\ \A e \in q.dirty \ Files : q.view[e] = None
  /\ q.pc \in {"fetch", "index", "remove"} =>
       \A x \in First(q) : x.do = "drop" => q.view[x.at] = None
  /\ q.op = "destroy" =>
       /\ q.list \subseteq Collections
       /\ q.pc \in InTransaction \cup {"open"}
       /\ q.pc \in InTransaction => q.at \in q.list
  /\ q.op # "destroy" =>
       /\ q.at \in Resources \cup Files /\ q.touch = {Under(q.at)} /\ q.list = {}
       /\ q.pc \in InTransaction \cup {"open", "again"}
  /\ q.op = "deleteResource" =>
       /\ q.at \in Resources
       /\ q.pc \in InTransaction => Do("drop", q.at) \in q.todo \/ q.view[q.at] = None

Shape(q) ==
  /\ q.pc = "idle" => q.touch = {} /\ q.op = "none"
  /\ q.pc \in {"commit", "points", "reload", "reindex"} => q.todo = {}
  /\ q.pc = "again" => q.op = "deleteResource"
  /\ q.pc = "remove" => \A x \in First(q) : x.do = "drop" /\ x.at \in Resources
  /\ q.op = "none" => q.pc = "idle"
  /\ q.op = "rake" => q.pc \in {"reload", "reindex"} /\ q.list \subseteq q.touch
                      /\ (q.pc = "reindex" => q.at \in q.list)
  /\ q.op \in Saves => SaveShape(q)
  /\ q.op \in Deletes => DeleteShape(q)

Shapes == \A a \in Actors : Shape(act[a])

\* A lock is on a transcript that is there.
Sound(v) == \A f \in Files : v[f] # None /\ v[f].locked => v[f].transcript

\* Foreign keys: of a resource that a transaction has dropped no file is left, and none
\* can come; of a file that it has written the resource is there for it.
DropsGuarded(a) ==
  \A r \in Resources \cap act[a].dirty :
    act[a].view[r] = None =>
      \A f \in FilesOf(r) : Row(a, f) = None /\ \A b \in Actors \ {a} : f \notin act[b].dirty

AddsGuarded(a) ==
  \A f \in Files \cap act[a].dirty : act[a].view[f] # None => Row(a, Owner[f]) # None

Keys ==
  /\ Sound(db)
  /\ \A f \in Files : db[f] # None => db[Owner[f]] # None
  /\ \A a \in Actors : act[a].pc \in InTransaction => Sound(act[a].view)
  /\ \A a, b \in Actors : a # b => act[a].dirty \cap act[b].dirty = {}
  /\ \A a \in Actors : DropsGuarded(a) /\ AddsGuarded(a)
  /\ \A a \in Actors : \A e \in act[a].dirty \ Files : db[e] # None

\* What an actor writes is of the resources it works on; what the worker destroys is
\* marked.
Reaches(a) ==
  /\ \A x \in act[a].todo : x.at \notin Collections => Under(x.at) \in act[a].touch
  /\ \A e \in act[a].dirty \ Collections : Under(e) \in act[a].touch
  /\ act[a].op = "destroy" =>
       /\ \A c \in act[a].list : ~Here(c, db) /\ \A r \in ResourcesOf(c) : db[r] # None => r \in act[a].touch
       /\ act[a].pc \in InTransaction => ~Here(act[a].at, act[a].view)
  /\ act[a].pc \in InTransaction =>
       \A c \in Collections \ act[a].dirty : Here(c, db) => Here(c, act[a].view)

\* Two actors on one resource both know.
AllReach == \A a \in Actors : Reaches(a)

Sole ==
  \A a, b \in Actors : a # b =>
    \A r \in act[a].touch \cap act[b].touch : act[a].crossed /\ act[b].crossed /\ r \in suspect

\* What an actor leaves of a resource will be right.
Answers(a, r) == r \in act[a].touch /\ (~act[a].crossed \/ r \notin suspect)

Fresh(r, v, d) == IF v[r] = None THEN d[r] = None ELSE Active(r, v) => d[r] = Document(r, v)

Agrees(a, r) == \A x \in {r} \cup FilesOf(r) : x \notin act[a].dirty => act[a].view[x] = db[x]

Comes(q, r) == q.op = "destroy" /\ Home[r] \in q.list /\ (q.pc \in InTransaction => Home[r] # q.at)

Right(a, r) ==
  /\ act[a].pc \in InTransaction =>
       /\ Agrees(a, r)
       /\ Fresh(r, act[a].view, doc) \/ (\E x \in act[a].todo : Under(x.at) = r)
            \/ (Comes(act[a], r) /\ db[r] # None)
  /\ act[a].pc = "index" =>
       \A x \in First(act[a]) : Under(x.at) = r =>
         act[a].view[r] # None /\ act[a].seen = Document(r, act[a].view)
  /\ act[a].pc = "open" /\ act[a].op = "destroy" =>
       Fresh(r, db, doc) \/ (Comes(act[a], r) /\ db[r] # None)
  /\ act[a].pc = "again" => db[r] = None
  /\ act[a].pc = "reindex" /\ Under(act[a].at) = r => db[r] # None /\ act[a].seen = Document(r, db)
  /\ act[a].op = "rake" => db[r] # None /\ (r \in act[a].list \/ Fresh(r, db, doc))

Mending == Sole /\ \A a \in Actors : \A r \in Resources : Answers(a, r) => Right(a, r)

\* What nobody works on is right.
Resting ==
  \A r \in Resources \ suspect : (\A a \in Actors : r \notin act[a].touch) => Fresh(r, db, doc)

\* What is locked a deletion that looked for locks, or the worker, does not take.
Spares(a) ==
  LET q == act[a] IN
  /\ q.op \in Deletes => \A f \in Files \cap q.dirty : q.view[f] # None => ~q.view[f].locked
  /\ q.op \in {"deleteFile", "deleteResource"} /\ ~q.bulk /\ ~q.crossed =>
       \A f \in Files \cap Within(q.at) : ~Locked(f)
  /\ q.op = "destroy" =>
       \A f \in Files \cap q.dirty :
         \/ q.view[f] = None /\ ~Locked(f)
         \/ q.pc = "fetch" /\ \E x \in First(q) : x.at = f /\ x.do = "strip"

Sparing == \A a \in Actors : Spares(a)

-----------------------------------------------------------------------------
(***************************************************************************)
(* The steps, by what they do to the records of the actors: what each      *)
(* invariant below is shown to survive.                                    *)
(***************************************************************************)
Fixed(a) ==
  /\ \A b \in Actors \ {a} : act'[b] = act[b]
  /\ act'[a].op = act[a].op /\ act'[a].touch = act[a].touch /\ act'[a].stamp = act[a].stamp
  /\ act'[a].bulk = act[a].bulk

Raises(a) ==
  /\ act'[a] = Idle /\ (\A b \in Actors \ {a} : act'[b] = act[b])
  /\ suspect' = suspect \cup act[a].touch
  /\ UNCHANGED <<db, doc>>

Ends(a) ==
  /\ act'[a] = Idle /\ (\A b \in Actors \ {a} : act'[b] = act[b])
  /\ suspect' = IF act[a].crossed THEN suspect ELSE suspect \ act[a].touch

Opens(a) ==
  /\ act[a].pc = "open" /\ act'[a].pc = "change"
  /\ Fixed(a) /\ act'[a].crossed = act[a].crossed
  /\ act'[a].view = db /\ act'[a].dirty = act[a].dirty /\ act'[a].list = act[a].list
  /\ \/ act[a].todo # {} /\ act'[a].todo = act[a].todo /\ act'[a].at = act[a].at
     \/ /\ act[a].todo = {} /\ act'[a].todo = Drop(act'[a].at, db) /\ act'[a].todo # {}
        /\ act'[a].at \in IF act[a].op = "destroy" THEN act[a].list ELSE {act[a].at}
  /\ UNCHANGED <<db, doc, suspect>>

There(a, e) == Row(a, e) # None \/ act[a].op = "addFile"

\* What a transaction that writes this entity has checked.
MayChange(a, x) ==
  /\ \A b \in Actors \ {a} : x.at \notin act[b].dirty
  /\ x.at \in Resources => \A f \in FilesOf(x.at) : \A b \in Actors \ {a} : f \notin act[b].dirty
  /\ act[a].op = "addFile" =>
       Row(a, Owner[x.at]) # None /\ \A b \in Actors \ {a} : Owner[x.at] \notin act[b].dirty
  /\ x.do = "drop" =>
       /\ \A f \in FilesOf(x.at) : Row(a, f) = None
       /\ x.at \in Files /\ There(a, x.at) => ~Row(a, x.at).transcript

Changed(a, x) ==
  /\ act[a].pc = "change" /\ act'[a].pc = "fetch" /\ x \in First(act[a])
  /\ MayChange(a, x)
  /\ Fixed(a) /\ act'[a].crossed = act[a].crossed
  /\ act'[a].todo = act[a].todo /\ act'[a].at = act[a].at /\ act'[a].list = act[a].list
  /\ act'[a].view = [act[a].view EXCEPT ![x.at] = IF There(a, x.at) THEN NewVersion(a, x) ELSE None]
  /\ act'[a].dirty = IF There(a, x.at) THEN act[a].dirty \cup {x.at} ELSE act[a].dirty
  /\ UNCHANGED <<db, doc, suspect>>

Gathered(a, x) ==
  /\ act[a].pc = "fetch" /\ x \in First(act[a])
  /\ Fixed(a) /\ act'[a].crossed = act[a].crossed
  /\ act'[a].todo = act[a].todo /\ act'[a].at = act[a].at /\ act'[a].list = act[a].list
  /\ act'[a].view = act[a].view /\ act'[a].dirty = act[a].dirty
  /\ \/ act'[a].pc = "remove" /\ x.do = "drop" /\ x.at \in Resources
     \/ /\ act'[a].pc = "index" /\ ~(x.do = "drop" /\ Under(x.at) = x.at) /\ Under(x.at) \in Resources
        /\ act[a].view[Under(x.at)] # None /\ Active(Under(x.at), act[a].view)
        /\ act'[a].seen = Document(Under(x.at), act[a].view)
  /\ UNCHANGED <<db, doc, suspect>>

Advanced(a, x) ==
  /\ act[a].pc \in {"fetch", "index", "remove"} /\ x \in First(act[a]) /\ Fixed(a)
  /\ act'[a].todo = act[a].todo \ {x} /\ act'[a].pc = (IF act'[a].todo = {} THEN "commit" ELSE "change")
  /\ act'[a].at = act[a].at /\ act'[a].list = act[a].list
  /\ act'[a].view = act[a].view /\ act'[a].dirty = act[a].dirty
  /\ UNCHANGED db

\* Nothing is indexed, something is, or Solr was out of reach.
Told(a, x) ==
  \/ /\ act[a].pc = "fetch" /\ act'[a].crossed = act[a].crossed /\ UNCHANGED <<doc, suspect>>
     /\ x.at \notin Collections =>
          /\ x.do = "drop" /\ x.at \in Files
          /\ act[a].view[Under(x.at)] # None /\ ~Active(Under(x.at), act[a].view)
  \/ /\ act[a].pc = "index" /\ act'[a].crossed = act[a].crossed /\ UNCHANGED suspect
     /\ doc' = [doc EXCEPT ![Under(x.at)] = act[a].seen]
  \/ /\ act[a].pc = "remove" /\ act'[a].crossed = act[a].crossed /\ UNCHANGED suspect
     /\ doc' = [doc EXCEPT ![x.at] = None]
  \/ act[a].pc = "index" /\ act'[a].crossed /\ suspect' = suspect \cup act[a].touch /\ UNCHANGED doc

Commits(a) ==
  /\ act[a].pc = "commit" /\ db' = Committed(act[a]) /\ UNCHANGED doc
  /\ \/ /\ \/ act[a].op \in {"saveFile", "addFile", "lock", "strip", "deleteFile", "deleteResource"}
           \/ act[a].op = "destroy" /\ act[a].list = {act[a].at}
        /\ Ends(a)
     \/ /\ Fixed(a) /\ act'[a].crossed = act[a].crossed /\ act'[a].dirty = {} /\ UNCHANGED suspect
        /\ act'[a].todo = act[a].todo /\ act'[a].at = act[a].at
        /\ \/ /\ act[a].op = "destroy" /\ act'[a].pc = "open"
              /\ act'[a].list = act[a].list \ {act[a].at}
           \/ /\ act[a].op = "upload" /\ act'[a].pc = "points" /\ act'[a].list = act[a].list
           \/ /\ act[a].op = "saveResource" /\ act'[a].pc = "reload" /\ act'[a].list = act[a].list
           \/ /\ act[a].op = "deleteResource" /\ act'[a].pc = "again" /\ act'[a].list = act[a].list

Pointed(a) ==
  /\ act[a].pc = "points" /\ act'[a].pc = "reload"
  /\ Fixed(a) /\ act'[a].crossed = act[a].crossed
  /\ act'[a].todo = act[a].todo /\ act'[a].at = act[a].at /\ act'[a].list = act[a].list
  /\ act'[a].dirty = act[a].dirty
  /\ db[act[a].at] # None /\ \A b \in Actors : act[a].at \notin act[b].dirty
  /\ db' = [db EXCEPT ![act[a].at].stamp = act[a].stamp]
  /\ UNCHANGED <<doc, suspect>>

Follows(a, r) ==
  \/ act[a].list \subseteq {r} /\ Ends(a)
  \/ /\ Fixed(a) /\ act'[a].pc = "reload" /\ act'[a].crossed = act[a].crossed
     /\ act'[a].todo = act[a].todo /\ act'[a].at = act[a].at /\ act'[a].dirty = act[a].dirty
     /\ act'[a].list = act[a].list \ {r} /\ act'[a].list # {} /\ UNCHANGED suspect

\* What the next resource is, after the transaction.
Next1(a, r) == IF act[a].op = "rake" THEN r \in act[a].list ELSE r = Under(act[a].at)

Reloads(a, r) ==
  /\ act[a].pc = "reload" /\ Next1(a, r) /\ UNCHANGED <<db, doc>>
  /\ \/ (IF db[r] = None THEN act[a].op = "rake" ELSE ~Active(r, db)) /\ Follows(a, r)
     \/ /\ db[r] # None /\ Active(r, db)
        /\ Fixed(a) /\ act'[a].pc = "reindex" /\ act'[a].crossed = act[a].crossed
        /\ act'[a].todo = act[a].todo /\ act'[a].at = r /\ act'[a].dirty = act[a].dirty
        /\ act'[a].list = act[a].list /\ act'[a].seen = Document(r, db) /\ UNCHANGED suspect

Writes(a) ==
  /\ act[a].pc = "reindex" /\ Follows(a, Under(act[a].at)) /\ UNCHANGED db
  /\ doc' = [doc EXCEPT ![Under(act[a].at)] = act[a].seen]

Repeats(a) ==
  /\ act[a].pc = "again" /\ Ends(a) /\ UNCHANGED db
  /\ doc' = [doc EXCEPT ![act[a].at] = None]

Moves(a) ==
  /\ act[a].pc \in Running
  /\ \/ Raises(a)
     \/ Opens(a)
     \/ \E x \in Changes : Changed(a, x) \/ Gathered(a, x) \/ (Advanced(a, x) /\ Told(a, x))
     \/ Commits(a)
     \/ Pointed(a)
     \/ \E r \in Resources : Reloads(a, r)
     \/ act[a].pc = "reload" /\ act[a].op = "rake" /\ act[a].list = {} /\ Ends(a) /\ UNCHANGED <<db, doc>>
     \/ Writes(a)
     \/ Repeats(a)

-----------------------------------------------------------------------------
(***************************************************************************)
(* Types.                                                                  *)
(***************************************************************************)

LEMMA IdleDoing == Idle \in Doings
BY ConstantsAssumption DEF Idle, Doings, Stamp, Running, InTransaction, Saves, Deletes

LEMMA UnderType == \A e \in Entities : Under(e) \in Entities /\ (e \notin Collections => Under(e) \in Resources)
BY ConstantsAssumption DEF Under, Entities

LEMMA NewRowType == ASSUME NEW s \in Stamp PROVE NewRow(s) \in Rows
BY DEF NewRow, Rows

LEMMA DocumentType ==
  ASSUME NEW v \in Views, NEW r \in Resources, v[r] # None
  PROVE  Document(r, v) \in Docs
<1>1. v[r] \in Rows /\ v[r].stamp \in Stamp
  BY DEF Views, Rows, Entities
<1>2. \A f \in {f \in FilesOf(r) : v[f] # None} : f \in Files /\ v[f].stamp \in Stamp
  BY DEF Views, Rows, Entities, FilesOf
<1>3. {<<f, v[f].stamp>> : f \in {f \in FilesOf(r) : v[f] # None}} \in SUBSET (Files \X Stamp)
  BY <1>2
<1> QED
  BY <1>1, <1>3 DEF Document, Docs

LEMMA FirstOf == ASSUME NEW q \in Doings, NEW x \in First(q) PROVE x \in q.todo /\ x \in Changes
BY DEF First, Doings

LEMMA RowType ==
  ASSUME Types, NEW a \in Actors, NEW e \in Entities
  PROVE  Row(a, e) \in Rows \cup {None}
BY DEF Types, Views, Row, Doings

LEMMA NewVersionType ==
  ASSUME Types, NEW a \in Actors, NEW x \in Changes
  PROVE  /\ NewVersion(a, x) \in Rows \cup {None}
         /\ x.do # "drop" => NewVersion(a, x) \in Rows
         /\ x.do = "drop" => NewVersion(a, x) = None
<1>1. Row(a, x.at) \in Rows \cup {None}
  BY RowType DEF Changes
<1>2. act[a].stamp \in Stamp
  BY DEF Types, Doings
<1> QED
  BY <1>1, <1>2, NewRowType, NoneAssumption DEF NewVersion, Changes, Rows

LEMMA DropType ==
  ASSUME NEW e \in Entities, NEW v
  PROVE  Drop(e, v) \in SUBSET Changes
BY DEF Drop, Changes, Do, Within, Entities

LEMMA RaisedMoves ==
  ASSUME Types, NEW a \in Actors, act[a].pc \in Running, Raised(a), UNCHANGED <<db, doc>>
  PROVE  Moves(a)
<1>1. Raises(a)
  BY DEF Raised, Raises, Types
<1> QED
  BY <1>1 DEF Moves

LEMMA OpenMoves == ASSUME Types, NEW a \in Actors, Open(a) PROVE Moves(a)
<1>0. act[a] \in Doings /\ act[a].pc \in Running /\ DOMAIN act = Actors
  BY DEF Open, Types, Running
<1>1. CASE act[a].todo # {} /\ act' = [act EXCEPT ![a].pc = "change", ![a].view = db] /\ UNCHANGED suspect
  <2>1. Opens(a)
    BY <1>0, <1>1 DEF Open, Opens, Fixed, Doings
  <2> QED
    BY <1>0, <2>1 DEF Moves
<1>2. ASSUME NEW e \in IF act[a].op = "destroy" THEN act[a].list ELSE {act[a].at},
             act[a].todo = {}, Drop(e, db) # {},
             act' = [act EXCEPT ![a].pc = "change", ![a].view = db, ![a].at = e, ![a].todo = Drop(e, db)],
             UNCHANGED suspect
      PROVE  Moves(a)
  <2>1. Opens(a)
    BY <1>0, <1>2 DEF Open, Opens, Fixed, Doings
  <2> QED
    BY <1>0, <2>1 DEF Moves
<1>3. CASE Raised(a)
  BY <1>0, <1>3, RaisedMoves DEF Open
<1> QED
  BY <1>1, <1>2, <1>3 DEF Open

LEMMA ChangeMoves == ASSUME Types, NEW a \in Actors, Change(a) PROVE Moves(a)
<1>0. act[a] \in Doings /\ act[a].pc \in Running /\ DOMAIN act = Actors /\ UNCHANGED <<db, doc>>
  BY DEF Change, Types, Running, InTransaction
<1>1. CASE Raised(a)
  BY <1>0, <1>1, RaisedMoves
<1>2. CASE ~Raised(a)
  <2> DEFINE Held == UNION {act[b].dirty : b \in Actors \ {a}}
  <2>0. PICK x \in First(act[a]) :
          /\ x.at \notin Held /\ (x.at \in Resources => FilesOf(x.at) \cap Held = {})
          /\ act[a].op = "addFile" => Owner[x.at] \notin Held /\ Row(a, Owner[x.at]) # None
          /\ x.do = "drop" =>
               /\ \A f \in FilesOf(x.at) : Row(a, f) = None
               /\ ~(x.at \in Files /\ There(a, x.at) /\ Row(a, x.at).transcript)
          /\ act' = [act EXCEPT ![a].pc = "fetch",
                       ![a].view[x.at] = IF There(a, x.at) THEN NewVersion(a, x) ELSE None,
                       ![a].dirty = IF There(a, x.at) THEN @ \cup {x.at} ELSE @]
          /\ UNCHANGED suspect
    BY <1>2, Zenon DEF Change, There
  <2>1. MayChange(a, x)
    BY <2>0 DEF MayChange
  <2>2. x \in Changes
    BY <1>0, FirstOf
  <2>3. Changed(a, x)
    BY <1>0, <2>0, <2>1 DEF Changed, Fixed, Doings, Change
  <2> QED
    BY <1>0, <2>2, <2>3 DEF Moves
<1> QED
  BY <1>1, <1>2

LEMMA AdvanceMoves ==
  ASSUME Types, NEW a \in Actors, NEW x \in First(act[a]), UNCHANGED db,
         act[a].pc \in {"fetch", "index", "remove"},
         \/ act' = [act EXCEPT ![a] = Advance(act[a], x)]
         \/ act' = [act EXCEPT ![a] = [Advance(act[a], x) EXCEPT !.crossed = TRUE]]
  PROVE  /\ Advanced(a, x)
         /\ act' = [act EXCEPT ![a] = Advance(act[a], x)] => act'[a].crossed = act[a].crossed
         /\ act'[a].crossed = act[a].crossed \/ act'[a].crossed
<1>0. act[a] \in Doings /\ DOMAIN act = Actors
  BY DEF Types
<1>1. x \in act[a].todo
  BY <1>0, FirstOf
<1>2. act[a].todo = {x} <=> act[a].todo \ {x} = {}
  BY <1>1
<1>3. CASE act' = [act EXCEPT ![a] = Advance(act[a], x)]
  BY <1>0, <1>2, <1>3 DEF Advanced, Advance, Fixed, Doings
<1>4. CASE act' # [act EXCEPT ![a] = Advance(act[a], x)]
  <2>1. act' = [act EXCEPT ![a] = [act[a] EXCEPT !.todo = act[a].todo \ {x}, !.seen = None,
                  !.pc = IF act[a].todo = {x} THEN "commit" ELSE "change", !.crossed = TRUE]]
    BY <1>0, <1>4 DEF Advance, Doings
  <2> QED
    BY <1>0, <1>2, <1>4, <2>1 DEF Advanced, Fixed, Doings
<1> QED
  BY <1>3, <1>4

LEMMA FetchMoves == ASSUME Types, NEW a \in Actors, Fetch(a) PROVE Moves(a)
<1>0. /\ act[a] \in Doings /\ act[a].pc \in Running /\ DOMAIN act = Actors /\ UNCHANGED <<db, doc>>
      /\ act[a].pc = "fetch" /\ act[a].crossed \in BOOLEAN
  BY DEF Fetch, Types, Running, InTransaction, Doings
<1>1. PICK x \in First(act[a]) :
        \/ /\ x.at \in Collections \/ (x.do = "drop" /\ x.at \in Files /\ Under(x.at) \in Resources
                /\ act[a].view[Under(x.at)] # None /\ ~Active(Under(x.at), act[a].view))
           /\ act' = [act EXCEPT ![a] = Advance(act[a], x)] /\ UNCHANGED suspect
        \/ /\ x.do = "drop" /\ x.at \in Resources
           /\ act' = [act EXCEPT ![a].pc = "remove"] /\ UNCHANGED suspect
        \/ Raised(a)
        \/ /\ Under(x.at) \in Resources /\ act[a].view[Under(x.at)] # None
           /\ Active(Under(x.at), act[a].view) /\ ~(x.do = "drop" /\ Under(x.at) = x.at)
           /\ act' = [act EXCEPT ![a].pc = "index", ![a].seen = Document(Under(x.at), act[a].view)]
           /\ UNCHANGED suspect
  BY DEF Fetch, Sees
<1>2. x \in Changes
  BY <1>0, FirstOf
<1>3. CASE /\ x.at \in Collections \/ (x.do = "drop" /\ x.at \in Files /\ Under(x.at) \in Resources
                /\ act[a].view[Under(x.at)] # None /\ ~Active(Under(x.at), act[a].view))
           /\ act' = [act EXCEPT ![a] = Advance(act[a], x)] /\ UNCHANGED suspect
  <2>1. Advanced(a, x) /\ act'[a].crossed = act[a].crossed
    BY <1>0, <1>3, AdvanceMoves
  <2>2. Told(a, x)
    BY <1>0, <1>3, <2>1 DEF Told
  <2> QED
    BY <1>0, <1>2, <2>1, <2>2 DEF Moves
<1>4. CASE x.do = "drop" /\ x.at \in Resources /\ act' = [act EXCEPT ![a].pc = "remove"] /\ UNCHANGED suspect
  <2>1. Gathered(a, x)
    BY <1>0, <1>4 DEF Gathered, Fixed, Doings
  <2> QED
    BY <1>0, <1>2, <2>1 DEF Moves
<1>5. CASE Raised(a)
  BY <1>0, <1>5, RaisedMoves
<1>6. CASE /\ Under(x.at) \in Resources /\ act[a].view[Under(x.at)] # None
           /\ Active(Under(x.at), act[a].view) /\ ~(x.do = "drop" /\ Under(x.at) = x.at)
           /\ act' = [act EXCEPT ![a].pc = "index", ![a].seen = Document(Under(x.at), act[a].view)]
           /\ UNCHANGED suspect
  <2>1. Gathered(a, x)
    BY <1>0, <1>6 DEF Gathered, Fixed, Doings
  <2> QED
    BY <1>0, <1>2, <2>1 DEF Moves
<1> QED
  BY <1>1, <1>3, <1>4, <1>5, <1>6

LEMMA IndexMoves == ASSUME Types, NEW a \in Actors, Index(a) \/ Unindex(a) PROVE Moves(a)
<1>0. /\ act[a] \in Doings /\ act[a].pc \in Running /\ DOMAIN act = Actors /\ UNCHANGED <<db, suspect>>
      /\ act[a].pc \in {"index", "remove"} /\ act[a].crossed \in BOOLEAN
  BY DEF Index, Unindex, Types, Running, InTransaction, Doings
<1>1. PICK x \in First(act[a]) :
        /\ act' = [act EXCEPT ![a] = Advance(act[a], x)]
        /\ \/ act[a].pc = "index" /\ doc' = [doc EXCEPT ![Under(x.at)] = act[a].seen]
           \/ act[a].pc = "remove" /\ doc' = [doc EXCEPT ![x.at] = None]
  BY DEF Index, Unindex
<1>2. x \in Changes
  BY <1>0, FirstOf
<1>3. Advanced(a, x) /\ act'[a].crossed = act[a].crossed
  BY <1>0, <1>1, AdvanceMoves
<1>4. Told(a, x)
  BY <1>0, <1>1, <1>3 DEF Told
<1> QED
  BY <1>0, <1>2, <1>3, <1>4 DEF Moves

LEMMA DoneEnds == ASSUME Types, NEW a \in Actors, Done(a, act[a]) PROVE Ends(a)
BY DEF Done, Ends, Types

LEMMA CommitMoves == ASSUME Types, NEW a \in Actors, Commit(a) PROVE Moves(a)
<1>0. /\ act[a] \in Doings /\ act[a].pc \in Running /\ DOMAIN act = Actors /\ UNCHANGED doc
      /\ act[a].pc = "commit" /\ db' = Committed(act[a])
  BY DEF Commit, Types, Running, InTransaction
<1>1. CASE Done(a, act[a]) /\ (\/ act[a].op \in {"saveFile", "addFile", "lock", "strip", "deleteFile", "deleteResource"}
                               \/ act[a].op = "destroy" /\ act[a].list = {act[a].at})
  <2>0. Ends(a)
    BY <1>1, DoneEnds
  <2>1. Commits(a)
    BY <1>0, <1>1, <2>0 DEF Commits
  <2> QED
    BY <1>0, <2>1 DEF Moves
<1>2. ASSUME NEW pc, NEW list,
             act' = [act EXCEPT ![a] = [act[a] EXCEPT !.view = None, !.dirty = {}, !.pc = pc, !.list = list]],
             UNCHANGED suspect,
             \/ act[a].op = "destroy" /\ pc = "open" /\ list = act[a].list \ {act[a].at}
             \/ act[a].op = "upload" /\ pc = "points" /\ list = act[a].list
             \/ act[a].op = "saveResource" /\ pc = "reload" /\ list = act[a].list
             \/ act[a].op = "deleteResource" /\ pc = "again" /\ list = act[a].list
      PROVE  Moves(a)
  <2>1. /\ act'[a].pc = pc /\ act'[a].list = list /\ act'[a].dirty = {} /\ act'[a].at = act[a].at
        /\ act'[a].todo = act[a].todo /\ act'[a].crossed = act[a].crossed /\ Fixed(a)
    BY <1>0, <1>2 DEF Fixed, Doings
  <2>2. Commits(a)
    BY <1>0, <1>2, <2>1 DEF Commits
  <2> QED
    BY <1>0, <2>2 DEF Moves
<1>3. ASSUME act[a].op = "destroy", UNCHANGED suspect,
             act' = [act EXCEPT ![a] = [[act[a] EXCEPT !.view = None, !.dirty = {}]
                                          EXCEPT !.pc = "open", !.list = @ \ {act[a].at}]]
      PROVE  Moves(a)
  <2>1. act' = [act EXCEPT ![a] = [act[a] EXCEPT !.view = None, !.dirty = {}, !.pc = "open",
                                                  !.list = act[a].list \ {act[a].at}]]
    BY <1>0, <1>3 DEF Doings
  <2> QED
    BY <1>2, <1>3, <2>1
<1>4. ASSUME NEW pc, UNCHANGED suspect,
             act' = [act EXCEPT ![a] = [[act[a] EXCEPT !.view = None, !.dirty = {}] EXCEPT !.pc = pc]],
             \/ act[a].op = "upload" /\ pc = "points"
             \/ act[a].op = "saveResource" /\ pc = "reload"
             \/ act[a].op = "deleteResource" /\ pc = "again"
      PROVE  Moves(a)
  <2>1. act' = [act EXCEPT ![a] = [act[a] EXCEPT !.view = None, !.dirty = {}, !.pc = pc,
                                                  !.list = act[a].list]]
    BY <1>0, <1>4 DEF Doings
  <2> QED
    BY <1>2, <1>4, <2>1
<1>5. \/ Done(a, act[a]) /\ (\/ act[a].op \in {"saveFile", "addFile", "lock", "strip", "deleteFile", "deleteResource"}
                             \/ act[a].op = "destroy" /\ act[a].list = {act[a].at})
      \/ /\ act[a].op = "destroy" /\ UNCHANGED suspect
         /\ act' = [act EXCEPT ![a] = [[act[a] EXCEPT !.view = None, !.dirty = {}]
                                          EXCEPT !.pc = "open", !.list = @ \ {act[a].at}]]
      \/ /\ act[a].op \in {"saveResource", "upload", "deleteResource"} /\ UNCHANGED suspect
         /\ act' = [act EXCEPT ![a] = [[act[a] EXCEPT !.view = None, !.dirty = {}] EXCEPT !.pc =
                      CASE act[a].op = "upload" -> "points" [] act[a].op = "saveResource" -> "reload"
                        [] OTHER -> "again"]]
  BY DEF Commit
<1>6. \A op \in {"saveResource", "upload", "deleteResource"} :
        LET pc == CASE op = "upload" -> "points" [] op = "saveResource" -> "reload" [] OTHER -> "again"
        IN  \/ op = "upload" /\ pc = "points"
            \/ op = "saveResource" /\ pc = "reload"
            \/ op = "deleteResource" /\ pc = "again"
  OBVIOUS
<1> QED
  BY <1>1, <1>3, <1>4, <1>5, <1>6

LEMMA PointsMoves == ASSUME Types, NEW a \in Actors, Points(a) PROVE Moves(a)
<1>0. act[a] \in Doings /\ act[a].pc \in Running /\ DOMAIN act = Actors /\ UNCHANGED doc
  BY DEF Points, Types, Running
<1>1. CASE Raised(a) /\ UNCHANGED db
  BY <1>0, <1>1, RaisedMoves
<1>2. CASE /\ db[act[a].at] # None /\ db' = [db EXCEPT ![act[a].at].stamp = act[a].stamp]
           /\ act' = [act EXCEPT ![a].pc = "reload"] /\ UNCHANGED suspect
  <2>1. Pointed(a)
    BY <1>0, <1>2 DEF Points, Pointed, Fixed, Doings
  <2> QED
    BY <1>0, <2>1 DEF Moves
<1> QED
  BY <1>1, <1>2 DEF Points

LEMMA FollowingFollows ==
  ASSUME Types, NEW a \in Actors, NEW r, Following(a, r), act[a].pc \in {"reload", "reindex"}
  PROVE  Follows(a, r)
<1>0. act[a] \in Doings /\ DOMAIN act = Actors
  BY DEF Types
<1>1. CASE act[a].list \subseteq {r}
  BY <1>1, DoneEnds DEF Following, Follows
<1>2. CASE ~(act[a].list \subseteq {r})
  BY <1>0, <1>2 DEF Following, Follows, Fixed, Doings
<1> QED
  BY <1>1, <1>2

LEMMA WriteMoves == ASSUME Types, NEW a \in Actors, Write(a) \/ Again(a) PROVE Moves(a)
<1>0. act[a] \in Doings /\ act[a].pc \in Running /\ DOMAIN act = Actors /\ UNCHANGED db
  BY DEF Write, Again, Types, Running
<1>1. CASE Write(a)
  <2>1. Writes(a)
    BY <1>1, FollowingFollows DEF Write, Writes
  <2> QED
    BY <1>0, <2>1 DEF Moves
<1>2. CASE Again(a)
  <2>1. Repeats(a)
    BY <1>2, DoneEnds DEF Again, Repeats
  <2> QED
    BY <1>0, <2>1 DEF Moves
<1> QED
  BY <1>1, <1>2

LEMMA ReloadedResource ==
  ASSUME Types, Shapes, NEW a \in Actors, act[a].pc = "reload",
         NEW r \in IF act[a].op = "rake" THEN act[a].list ELSE {Under(act[a].at)}
  PROVE  r \in Resources
<1>0. act[a] \in Doings /\ Shape(act[a])
  BY DEF Types, Shapes
<1>1. CASE act[a].op = "rake"
  BY <1>0, <1>1 DEF Shape, Doings
<1>2. CASE act[a].op # "rake"
  <2>1. act[a].op \in Saves
    BY <1>0, <1>2 DEF Shape, Doings, DeleteShape, InTransaction
  <2> QED
    BY <1>0, <1>2, <2>1, UnderType, ConstantsAssumption DEF Shape, SaveShape, Entities
<1> QED
  BY <1>1, <1>2

LEMMA ReloadMoves ==
  ASSUME Types, Shapes, NEW a \in Actors, Reload(a)
  PROVE  Moves(a)
<1>0. act[a] \in Doings /\ act[a].pc = "reload" /\ DOMAIN act = Actors /\ UNCHANGED <<db, doc>> /\ Shape(act[a])
  BY DEF Reload, Types, Shapes
<1>1. act[a].pc \in Running
  BY <1>0 DEF Running
<1>2. CASE act[a].op = "rake" /\ act[a].list = {} /\ Done(a, act[a])
  BY <1>0, <1>1, <1>2, DoneEnds DEF Moves
<1>3. CASE Raised(a)
  BY <1>0, <1>1, <1>3, RaisedMoves
<1>4. ASSUME NEW r \in IF act[a].op = "rake" THEN act[a].list ELSE {Under(act[a].at)},
             \/ /\ IF db[r] = None THEN act[a].op = "rake" ELSE ~Active(r, db)
                /\ Following(a, r)
             \/ /\ db[r] # None /\ Active(r, db) /\ UNCHANGED suspect
                /\ act' = [act EXCEPT ![a].pc = "reindex", ![a].seen = Document(r, db), ![a].at = r]
      PROVE  Moves(a)
  <2>1. r \in Resources
    BY <1>0, <1>4, ReloadedResource
  <2>2. Next1(a, r)
    BY <1>4 DEF Next1
  <2>3. CASE (IF db[r] = None THEN act[a].op = "rake" ELSE ~Active(r, db)) /\ Following(a, r)
    <3>1. Follows(a, r)
      BY <1>0, <2>3, FollowingFollows
    <3>2. Reloads(a, r)
      BY <1>0, <2>2, <2>3, <3>1 DEF Reloads
    <3> QED
      BY <1>1, <2>1, <3>2 DEF Moves
  <2>4. CASE /\ db[r] # None /\ Active(r, db) /\ UNCHANGED suspect
             /\ act' = [act EXCEPT ![a].pc = "reindex", ![a].seen = Document(r, db), ![a].at = r]
    <3>1. /\ Fixed(a) /\ act'[a].pc = "reindex" /\ act'[a].crossed = act[a].crossed
          /\ act'[a].todo = act[a].todo /\ act'[a].at = r /\ act'[a].dirty = act[a].dirty
          /\ act'[a].list = act[a].list /\ act'[a].seen = Document(r, db)
      BY <1>0, <2>4 DEF Fixed, Doings
    <3>2. Reloads(a, r)
      BY <1>0, <2>2, <2>4, <3>1 DEF Reloads
    <3> QED
      BY <1>1, <2>1, <3>2 DEF Moves
  <2> QED
    BY <1>4, <2>3, <2>4
<1> QED
  BY <1>2, <1>3, <1>4 DEF Reload

LEMMA SolrFailsMoves == ASSUME Types, NEW a \in Actors, SolrFails(a) \/ DatabaseFails(a) PROVE Moves(a)
<1>0. act[a].pc \in Running /\ UNCHANGED <<db, doc>>
  BY DEF SolrFails, DatabaseFails, Running, InTransaction
<1>1. CASE Raised(a)
  BY <1>0, <1>1, RaisedMoves
<1>2. ASSUME NEW x \in First(act[a]), act[a].pc = "index",
             act' = [act EXCEPT ![a] = [Advance(act[a], x) EXCEPT !.crossed = TRUE]],
             suspect' = suspect \cup act[a].touch
      PROVE  Moves(a)
  <2>1. x \in Changes
    BY FirstOf DEF Types
  <2>2. Advanced(a, x) /\ (act'[a].crossed = act[a].crossed \/ act'[a].crossed)
    BY <1>0, <1>2, AdvanceMoves
  <2>3. act'[a].crossed
    BY <1>2 DEF Advance, Types, Doings
  <2>4. Told(a, x)
    BY <1>0, <1>2, <2>3 DEF Told
  <2> QED
    BY <1>0, <2>1, <2>2, <2>4 DEF Moves
<1> QED
  BY <1>1, <1>2 DEF SolrFails, DatabaseFails

LEMMA StepMoves ==
  ASSUME Types, Shapes, NEW a \in Actors, Step(a) \/ Fault(a)
  PROVE  Moves(a) /\ UNCHANGED <<jobs, work>>
<1>1. Moves(a)
  BY OpenMoves, ChangeMoves, FetchMoves, IndexMoves, CommitMoves, PointsMoves, ReloadMoves, WriteMoves,
     SolrFailsMoves DEF Step, Fault
<1>2. UNCHANGED <<jobs, work>>
  BY DEF Step, Fault, Open, Change, Fetch, Index, Unindex, Commit, Points, Reload, Write, Again,
         SolrFails, DatabaseFails
<1> QED
  BY <1>1, <1>2

-----------------------------------------------------------------------------
(***************************************************************************)
(* Every step keeps the types.                                             *)
(***************************************************************************)
Typed == act' \in [Actors -> Doings]

LEMMA PutTyped ==
  ASSUME Types, NEW a \in Actors, NEW q \in Doings, act' = [act EXCEPT ![a] = q]
  PROVE  Typed
BY DEF Types, Typed

LEMMA RaisedTyped == ASSUME Types, NEW a \in Actors, Raised(a) \/ Done(a, act[a]) PROVE Typed
BY PutTyped, IdleDoing DEF Raised, Done

LEMMA OpenTyped == ASSUME Types, Shapes, NEW a \in Actors, Open(a) PROVE Typed
<1>0. act[a] \in Doings /\ DOMAIN act = Actors /\ db \in Views
  BY DEF Types
<1>1. CASE act' = [act EXCEPT ![a].pc = "change", ![a].view = db]
  <2>1. [act[a] EXCEPT !.pc = "change", !.view = db] \in Doings
    BY <1>0 DEF Doings, Running, InTransaction
  <2>2. act' = [act EXCEPT ![a] = [act[a] EXCEPT !.pc = "change", !.view = db]]
    BY <1>0, <1>1 DEF Types
  <2> QED
    BY <2>1, <2>2, PutTyped
<1>2. ASSUME NEW e \in IF act[a].op = "destroy" THEN act[a].list ELSE {act[a].at},
             act[a].todo = {}, act[a].pc = "open",
             act' = [act EXCEPT ![a].pc = "change", ![a].view = db, ![a].at = e, ![a].todo = Drop(e, db)]
      PROVE  Typed
  <2>0. Shape(act[a])
    BY DEF Shapes
  <2>1. e \in Entities
    BY <1>0, <1>2, <2>0 DEF Doings, Entities, Shape, DeleteShape, SaveShape
  <2>2. Drop(e, db) \in SUBSET Changes
    BY <2>1, DropType
  <2>3. [act[a] EXCEPT !.pc = "change", !.view = db, !.at = e, !.todo = Drop(e, db)] \in Doings
    BY <1>0, <2>1, <2>2 DEF Doings, Running, InTransaction
  <2>4. act' = [act EXCEPT ![a] = [act[a] EXCEPT !.pc = "change", !.view = db, !.at = e,
                                                  !.todo = Drop(e, db)]]
    BY <1>0, <1>2 DEF Types
  <2> QED
    BY <2>3, <2>4, PutTyped
<1>3. CASE Raised(a)
  BY <1>3, RaisedTyped
<1> QED
  BY <1>1, <1>2, <1>3 DEF Open

LEMMA ChangeTyped == ASSUME Types, NEW a \in Actors, Change(a) PROVE Typed
<1>0. act[a] \in Doings /\ DOMAIN act = Actors /\ act[a].view \in Views
  BY DEF Types, Change, InTransaction
<1>1. CASE Raised(a)
  BY <1>1, RaisedTyped
<1>2. ASSUME NEW x \in First(act[a]),
             act' = [act EXCEPT ![a].pc = "fetch",
                       ![a].view[x.at] = IF There(a, x.at) THEN NewVersion(a, x) ELSE None,
                       ![a].dirty = IF There(a, x.at) THEN @ \cup {x.at} ELSE @]
      PROVE  Typed
  <2> DEFINE w == IF There(a, x.at) THEN NewVersion(a, x) ELSE None
             d == IF There(a, x.at) THEN act[a].dirty \cup {x.at} ELSE act[a].dirty
             v == [act[a].view EXCEPT ![x.at] = w]
  <2>1. x \in Changes /\ x.at \in Entities
    BY <1>0, FirstOf DEF Changes
  <2>2. w \in Rows \cup {None}
    BY <2>1, NewVersionType
  <2>3. v \in Views
    BY <1>0, <2>1, <2>2 DEF Views
  <2>4. d \in SUBSET Entities
    BY <1>0, <2>1 DEF Doings
  <2>5. act' = [act EXCEPT ![a] = [act[a] EXCEPT !.pc = "fetch", !.view = v, !.dirty = d]]
    BY <1>0, <1>2 DEF Doings
  <2> HIDE DEF v, d, w
  <2>6. [act[a] EXCEPT !.pc = "fetch", !.view = v, !.dirty = d] \in Doings
    BY <1>0, <2>3, <2>4 DEF Doings, Running, InTransaction
  <2> QED
    BY <2>5, <2>6, PutTyped
<1> QED
  BY <1>1, <1>2, Zenon DEF Change, There

LEMMA AdvanceTyped ==
  ASSUME NEW q \in Doings, NEW x
  PROVE  /\ Advance(q, x) \in Doings
         /\ [Advance(q, x) EXCEPT !.crossed = TRUE] \in Doings
<1>1. Advance(q, x) \in Doings
  <2> DEFINE t == q.todo \ {x}
             c == IF q.todo = {x} THEN "commit" ELSE "change"
  <2>1. t \in SUBSET Changes
    BY DEF Doings
  <2>2. c \in Running \cup {"idle"}
    BY DEF Running, InTransaction
  <2>3. Advance(q, x) = [q EXCEPT !.todo = t, !.seen = None, !.pc = c]
    BY DEF Advance
  <2> HIDE DEF t, c
  <2> QED
    BY <2>1, <2>2, <2>3 DEF Doings
<1>2. \A p \in Doings : [p EXCEPT !.crossed = TRUE] \in Doings
  BY DEF Doings
<1> QED
  BY <1>1, <1>2

LEMMA FetchTyped == ASSUME Types, NEW a \in Actors, Fetch(a) PROVE Typed
<1>0. act[a] \in Doings /\ DOMAIN act = Actors /\ act[a].view \in Views
  BY DEF Types, Fetch, InTransaction
<1>1. CASE Raised(a)
  BY <1>1, RaisedTyped
<1>2. ASSUME NEW x, act' = [act EXCEPT ![a] = Advance(act[a], x)] PROVE Typed
  BY <1>0, <1>2, AdvanceTyped, PutTyped
<1>3. CASE act' = [act EXCEPT ![a].pc = "remove"]
  <2>1. [act[a] EXCEPT !.pc = "remove"] \in Doings
    BY <1>0 DEF Doings, Running, InTransaction
  <2> QED
    BY <1>0, <1>3, <2>1, PutTyped
<1>4. ASSUME NEW x \in First(act[a]), Under(x.at) \in Resources, act[a].view[Under(x.at)] # None,
             act' = [act EXCEPT ![a].pc = "index", ![a].seen = Document(Under(x.at), act[a].view)]
      PROVE  Typed
  <2>1. Document(Under(x.at), act[a].view) \in Docs
    BY <1>0, <1>4, DocumentType
  <2>2. [act[a] EXCEPT !.pc = "index", !.seen = Document(Under(x.at), act[a].view)] \in Doings
    BY <1>0, <2>1 DEF Doings, Running, InTransaction
  <2>3. act' = [act EXCEPT ![a] = [act[a] EXCEPT !.pc = "index",
                                                  !.seen = Document(Under(x.at), act[a].view)]]
    BY <1>0, <1>4
  <2> QED
    BY <2>2, <2>3, PutTyped
<1> QED
  BY <1>1, <1>2, <1>3, <1>4 DEF Fetch, Sees

LEMMA IndexTyped == ASSUME Types, NEW a \in Actors, Index(a) \/ Unindex(a) PROVE Typed
<1>0. act[a] \in Doings
  BY DEF Types
<1>1. PICK x : act' = [act EXCEPT ![a] = Advance(act[a], x)]
  BY DEF Index, Unindex
<1> QED
  BY <1>0, <1>1, AdvanceTyped, PutTyped

LEMMA CommitTyped == ASSUME Types, NEW a \in Actors, Commit(a) PROVE Typed
<1>0. act[a] \in Doings
  BY DEF Types
<1> DEFINE q == [act[a] EXCEPT !.view = None, !.dirty = {}]
<1>1. q \in Doings
  BY <1>0 DEF Doings
<1>2. [q EXCEPT !.pc = "open", !.list = @ \ {act[a].at}] \in Doings
  BY <1>1 DEF Doings, Running, InTransaction
<1>3. \A pc \in {"points", "reload", "again"} : [q EXCEPT !.pc = pc] \in Doings
  BY <1>1 DEF Doings, Running, InTransaction
<1>4. \/ Done(a, act[a])
      \/ act' = [act EXCEPT ![a] = [q EXCEPT !.pc = "open", !.list = @ \ {act[a].at}]]
      \/ \E pc \in {"points", "reload", "again"} : act' = [act EXCEPT ![a] = [q EXCEPT !.pc = pc]]
  BY DEF Commit
<1> HIDE DEF q
<1> QED
  BY <1>2, <1>3, <1>4, RaisedTyped, PutTyped

LEMMA PointsTyped == ASSUME Types, NEW a \in Actors, Points(a) PROVE Typed
<1>0. act[a] \in Doings
  BY DEF Types
<1>1. [act[a] EXCEPT !.pc = "reload"] \in Doings
  BY <1>0 DEF Doings, Running
<1> QED
  BY <1>1, RaisedTyped, PutTyped DEF Points

LEMMA FollowingTyped ==
  ASSUME Types, NEW a \in Actors, NEW r, Following(a, r) PROVE Typed
<1>0. act[a] \in Doings /\ DOMAIN act = Actors
  BY DEF Types
<1>1. [act[a] EXCEPT !.pc = "reload", !.list = act[a].list \ {r}] \in Doings
  BY <1>0 DEF Doings, Running
<1>2. CASE act' = [act EXCEPT ![a].pc = "reload", ![a].list = @ \ {r}]
  <2>1. act' = [act EXCEPT ![a] = [act[a] EXCEPT !.pc = "reload", !.list = act[a].list \ {r}]]
    BY <1>0, <1>2
  <2> QED
    BY <1>1, <2>1, PutTyped
<1> QED
  BY <1>2, RaisedTyped DEF Following

LEMMA ReloadTyped == ASSUME Types, Shapes, NEW a \in Actors, Reload(a) PROVE Typed
<1>0. act[a] \in Doings /\ DOMAIN act = Actors /\ db \in Views
  BY DEF Types
<1>1. ASSUME NEW r \in Resources, db[r] # None,
             act' = [act EXCEPT ![a].pc = "reindex", ![a].seen = Document(r, db), ![a].at = r]
      PROVE  Typed
  <2>1. Document(r, db) \in Docs
    BY <1>0, <1>1, DocumentType
  <2>2. [act[a] EXCEPT !.pc = "reindex", !.seen = Document(r, db), !.at = r] \in Doings
    BY <1>0, <2>1 DEF Doings, Running, Entities
  <2>3. act' = [act EXCEPT ![a] = [act[a] EXCEPT !.pc = "reindex", !.seen = Document(r, db), !.at = r]]
    BY <1>0, <1>1
  <2> QED
    BY <2>2, <2>3, PutTyped
<1>2. \A r \in IF act[a].op = "rake" THEN act[a].list ELSE {Under(act[a].at)} : r \in Resources
  BY ReloadedResource DEF Reload
<1> QED
  BY <1>1, <1>2, RaisedTyped, FollowingTyped DEF Reload

LEMMA WriteTyped == ASSUME Types, NEW a \in Actors, Write(a) \/ Again(a) PROVE Typed
BY FollowingTyped, RaisedTyped DEF Write, Again

LEMMA SolrFailsTyped == ASSUME Types, NEW a \in Actors, SolrFails(a) \/ DatabaseFails(a) PROVE Typed
<1>0. act[a] \in Doings
  BY DEF Types
<1> QED
  BY <1>0, AdvanceTyped, PutTyped, RaisedTyped DEF SolrFails, DatabaseFails

LEMMA StepTyped == ASSUME Types, Shapes, NEW a \in Actors, Step(a) \/ Fault(a) PROVE Typed
BY OpenTyped, ChangeTyped, FetchTyped, IndexTyped, CommitTyped, PointsTyped, ReloadTyped, WriteTyped,
   SolrFailsTyped DEF Step, Fault

-----------------------------------------------------------------------------
(***************************************************************************)
(* Steps that are not an actor's own: requests and the worker begin,       *)
(* collections are marked, Sidekiq restarts.                               *)
(***************************************************************************)
Disturbs(b, disturbed) ==
  act'[b] = IF disturbed THEN [act[b] EXCEPT !.crossed = TRUE] ELSE act[b]

\* What the actor begins.
Starts(q) ==
  /\ q.dirty = {}
  /\ \/ /\ q.pc = "open" /\ q.list = {} /\ q.at \in Resources \cup Files /\ q.touch = {Under(q.at)}
        /\ \/ /\ q.op \in Saves /\ (\E x \in Changes : q.todo = {x} /\ x.at = q.at /\ x.do # "drop")
              /\ q.op = "saveResource" => q.at \in Resources
              /\ q.op = "addFile" => q.at \in Files
           \/ /\ q.op \in {"deleteFile", "deleteResource"} /\ q.todo = {}
              /\ q.op = "deleteResource" => q.at \in Resources
              /\ ~q.bulk => \A f \in Files \cap Within(q.at) : ~Locked(f)
     \/ /\ q.pc = "reload" /\ q.op = "rake" /\ q.todo = {}
        /\ q.list = {r \in Resources : db[r] # None} /\ q.touch = q.list
     \/ /\ q.pc = "open" /\ q.op = "destroy" /\ q.todo = {} /\ q.list = Marked
        /\ q.touch = {r \in Resources : Home[r] \in Marked /\ db[r] # None}

Begins(a) ==
  /\ act[a].pc = "idle" /\ Starts(act'[a])
  /\ act'[a].crossed \in BOOLEAN
  /\ \A b \in Actors \ {a} : Disturbs(b, act[b].touch \cap act'[a].touch # {})
  /\ \A b \in Actors \ {a} : act[b].touch \cap act'[a].touch # {} =>
       act'[a].crossed /\ act[b].touch \cap act'[a].touch \subseteq suspect'
  /\ suspect \subseteq suspect' /\ suspect' \subseteq Resources /\ UNCHANGED <<db, doc>>

Marks ==
  \E cs \in SUBSET Collections :
    /\ \A c \in cs : Here(c, db)
    /\ db' = [e \in Entities |-> IF e \in cs THEN [db[e] EXCEPT !.deleted = TRUE] ELSE db[e]]
    /\ \A b \in Actors : Disturbs(b, \E r \in act[b].touch : Home[r] \in cs)
    /\ \A b \in Actors : \A r \in act[b].touch : Home[r] \in cs => r \in suspect'
    /\ suspect \subseteq suspect' /\ suspect' \subseteq Resources /\ UNCHANGED doc

Restarts ==
  /\ \A b \in Actors : act'[b] = act[b] \/ (act'[b] = Idle /\ act[b].touch \subseteq suspect')
  /\ suspect \subseteq suspect' /\ suspect' \subseteq Resources /\ UNCHANGED <<db, doc>>

LEMMA BeginBegins ==
  ASSUME Types, Shapes, NEW a \in Actors, act[a].pc = "idle", NEW q \in Doings, Starts(q),
         q.crossed = FALSE, Begin(a, q), UNCHANGED <<db, doc>>
  PROVE  Begins(a) /\ Typed
<1> DEFINE Beside == {x \in AtWork \ {a} : act[x].touch \cap q.touch # {}}
<1>1. /\ act' = [x \in Actors |->
                   IF x = a THEN [q EXCEPT !.crossed = Beside # {}]
                   ELSE IF x \in Beside THEN [act[x] EXCEPT !.crossed = TRUE] ELSE act[x]]
      /\ suspect' = suspect \cup UNION {act[x].touch \cap q.touch : x \in Beside}
  BY DEF Begin
<1>2. \A b \in Actors : b \notin AtWork => act[b].touch = {}
  BY DEF AtWork, Types, Doings, Shapes, Shape
<1>3. \A b \in Actors \ {a} : b \in Beside <=> act[b].touch \cap q.touch # {}
  BY <1>2 DEF AtWork
<1>4. Beside \subseteq Actors
  BY DEF AtWork
<1> HIDE DEF Beside
<1>5. Typed
  <2>1. \A p \in Doings, c \in BOOLEAN : [p EXCEPT !.crossed = c] \in Doings
    BY DEF Doings
  <2>2. (Beside # {}) \in BOOLEAN
    OBVIOUS
  <2>3. \A x \in Actors : act[x] \in Doings
    BY DEF Types
  <2> QED
    BY <1>1, <2>1, <2>2, <2>3, Zenon DEF Typed
<1>6. act'[a] = [q EXCEPT !.crossed = Beside # {}]
  BY <1>1
<1>7. /\ act'[a].op = q.op /\ act'[a].pc = q.pc /\ act'[a].todo = q.todo /\ act'[a].dirty = q.dirty
      /\ act'[a].list = q.list /\ act'[a].at = q.at /\ act'[a].touch = q.touch /\ act'[a].bulk = q.bulk
      /\ act'[a].crossed = (Beside # {})
  BY <1>6 DEF Doings
<1>8. Starts(act'[a])
  BY <1>7 DEF Starts
<1>9. \A b \in Actors \ {a} : Disturbs(b, act[b].touch \cap act'[a].touch # {})
  BY <1>1, <1>3, <1>7 DEF Disturbs
<1>10. \A b \in Actors \ {a} : act[b].touch \cap act'[a].touch # {} =>
         act'[a].crossed /\ act[b].touch \cap act'[a].touch \subseteq suspect'
  BY <1>1, <1>3, <1>7
<1>11. suspect \subseteq suspect' /\ suspect' \subseteq Resources
  <2>1. \A x \in Actors : act[x].touch \subseteq Resources
    BY DEF Types, Doings
  <2> QED
    BY <1>1, <1>4, <2>1 DEF Types
<1> QED
  BY <1>5, <1>7, <1>8, <1>9, <1>10, <1>11 DEF Begins

LEMMA RequestBegins ==
  ASSUME Types, Shapes, NEW u \in Actors, act[u].pc = "idle", work + 1 \in Stamp,
         NEW op \in Saves \cup Deletes, NEW at \in Resources \cup Files, NEW todo \in SUBSET Changes,
         NEW bulk \in BOOLEAN, Request(u, op, at, todo, bulk),
         \/ /\ op \in Saves /\ (\E x \in Changes : todo = {x} /\ x.at = at /\ x.do # "drop")
            /\ op = "saveResource" => at \in Resources
            /\ op = "addFile" => at \in Files
         \/ /\ op \in {"deleteFile", "deleteResource"} /\ todo = {}
            /\ op = "deleteResource" => at \in Resources
            /\ ~bulk => \A f \in Files \cap Within(at) : ~Locked(f)
  PROVE  Begins(u) /\ Typed
<1> DEFINE q == [Idle EXCEPT !.op = op, !.pc = "open", !.at = at, !.todo = todo, !.bulk = bulk,
                   !.touch = {Under(at)}, !.stamp = work + 1]
<1>1. Under(at) \in Resources
  BY UnderType, ConstantsAssumption DEF Entities
<1>2. q \in Doings
  BY <1>1 DEF Idle, Doings, Running, Entities, Stamp, Changes
<1>3. /\ q.op = op /\ q.pc = "open" /\ q.at = at /\ q.todo = todo /\ q.bulk = bulk /\ q.list = {}
      /\ q.touch = {Under(at)} /\ q.dirty = {} /\ q.crossed = FALSE
  BY DEF Idle
<1>4. Begin(u, q) /\ UNCHANGED <<db, doc>>
  BY DEF Request
<1> HIDE DEF q
<1>5. Starts(q)
  BY <1>3 DEF Starts
<1> QED
  BY <1>2, <1>3, <1>4, <1>5, BeginBegins

LEMMA WithinFile ==
  /\ \A f \in Files : Files \cap Within(f) = {f}
  /\ \A r \in Resources : Files \cap Within(r) = FilesOf(r)
BY ConstantsAssumption DEF Within, FilesOf

LEMMA SavesBegin ==
  ASSUME Types, Shapes, NEW u \in Actors, act[u].pc = "idle", work + 1 \in Stamp
  PROVE  /\ \A r \in Resources : SaveResource(u, r) => Begins(u) /\ Typed
         /\ \A f \in Files : SaveFile(u, f) \/ SaveTranscript(u, f) => Begins(u) /\ Typed
<1>1. \A c \in {"save", "upload", "lock", "strip", "drop"}, e \in Entities :
        Do(c, e) \in Changes /\ Do(c, e).at = e /\ Do(c, e).do = c
  BY DEF Do, Changes
<1>2. ASSUME NEW op \in Saves, NEW c \in {"save", "upload", "lock", "strip"}, NEW e \in Resources \cup Files,
             Request(u, op, e, {Do(c, e)}, FALSE),
             op = "saveResource" => e \in Resources, op = "addFile" => e \in Files
      PROVE  Begins(u) /\ Typed
  <2>1. e \in Entities
    BY DEF Entities
  <2>2. Do(c, e) \in Changes /\ Do(c, e).at = e /\ Do(c, e).do # "drop"
    BY <1>1, <2>1
  <2> QED
    BY <1>2, <2>2, RequestBegins
<1>3. ASSUME NEW r \in Resources, SaveResource(u, r) PROVE Begins(u) /\ Typed
  BY <1>2, <1>3 DEF SaveResource, Saves
<1>4. ASSUME NEW f \in Files, SaveFile(u, f) PROVE Begins(u) /\ Typed
  BY <1>2, <1>4 DEF SaveFile, Saves
<1>5. ASSUME NEW f \in Files, SaveTranscript(u, f) PROVE Begins(u) /\ Typed
  BY <1>2, <1>5 DEF SaveTranscript, Saves
<1> QED
  BY <1>3, <1>4, <1>5

LEMMA DeletesBegin ==
  ASSUME Types, Shapes, NEW u \in Actors, act[u].pc = "idle", work + 1 \in Stamp, NEW bulk \in BOOLEAN
  PROVE  /\ \A r \in Resources : DeleteResource(u, r, bulk) => Begins(u) /\ Typed
         /\ \A f \in Files : DeleteFile(u, f, bulk) => Begins(u) /\ Typed
<1>1. ASSUME NEW r \in Resources, DeleteResource(u, r, bulk) PROVE Begins(u) /\ Typed
  <2>1. ~bulk => \A f \in Files \cap Within(r) : ~Locked(f)
    BY <1>1, WithinFile DEF DeleteResource, Unlocked
  <2> QED
    BY <1>1, <2>1, RequestBegins DEF DeleteResource, Deletes
<1>2. ASSUME NEW f \in Files, DeleteFile(u, f, bulk) PROVE Begins(u) /\ Typed
  <2>1. ~bulk => \A g \in Files \cap Within(f) : ~Locked(g)
    BY <1>2, WithinFile DEF DeleteFile, Unlocked
  <2> QED
    BY <1>2, <2>1, RequestBegins DEF DeleteFile, Deletes
<1> QED
  BY <1>1, <1>2

LEMMA ReindexBegins ==
  ASSUME Types, Shapes, NEW u \in Actors, act[u].pc = "idle", Reindex(u)
  PROVE  Begins(u) /\ Typed
<1> DEFINE there == {r \in Resources : db[r] # None}
           q == [Idle EXCEPT !.op = "rake", !.pc = "reload", !.list = there, !.touch = there]
<1>1. q \in Doings
  BY IdleDoing DEF Doings, Running
<1>2. /\ q.op = "rake" /\ q.pc = "reload" /\ q.list = there /\ q.touch = there /\ q.todo = {}
      /\ q.dirty = {} /\ q.crossed = FALSE
  BY DEF Idle
<1>3. Begin(u, q) /\ UNCHANGED <<db, doc>>
  BY DEF Reindex
<1>4. Starts(q)
  <2> HIDE DEF q
  <2> QED
    BY <1>2 DEF Starts
<1> HIDE DEF q
<1> QED
  BY <1>1, <1>2, <1>3, <1>4, BeginBegins

LEMMA PerformBegins ==
  ASSUME Types, Shapes, NEW w \in Actors, Perform(w)
  PROVE  (Begins(w) /\ Typed) \/ UNCHANGED <<db, doc, act, suspect>>
<1> DEFINE q == [Idle EXCEPT !.op = "destroy", !.pc = "open", !.list = Marked,
                   !.touch = {r \in Resources : Home[r] \in Marked /\ db[r] # None}]
<1>1. q \in Doings
  BY IdleDoing DEF Doings, Running, Marked, Deletes
<1>2. /\ q.op = "destroy" /\ q.pc = "open" /\ q.list = Marked /\ q.todo = {} /\ q.dirty = {}
      /\ q.touch = {r \in Resources : Home[r] \in Marked /\ db[r] # None} /\ q.crossed = FALSE
  BY DEF Idle
<1>3. act[w].pc = "idle" /\ UNCHANGED <<db, doc>> /\ (UNCHANGED <<act, suspect>> \/ Begin(w, q))
  BY DEF Perform
<1> HIDE DEF q
<1>4. Starts(q)
  BY <1>2 DEF Starts
<1> QED
  BY <1>1, <1>2, <1>3, <1>4, BeginBegins

LEMMA MarkMarks ==
  ASSUME Types, Shapes, NEW cs \in SUBSET Collections, \A c \in cs : Here(c, db), Mark(cs)
  PROVE  Marks /\ Typed
<1>1. /\ db' = [e \in Entities |-> IF e \in cs THEN [db[e] EXCEPT !.deleted = TRUE] ELSE db[e]]
      /\ act' = [a \in Actors |-> [act[a] EXCEPT !.crossed = @ \/ \E r \in act[a].touch : Home[r] \in cs]]
      /\ suspect' = suspect \cup {r \in UNION {act[a].touch : a \in AtWork} : Home[r] \in cs}
      /\ UNCHANGED doc
  BY DEF Mark
<1>2. \A b \in Actors : b \notin AtWork => act[b].touch = {}
  BY DEF AtWork, Types, Doings, Shapes, Shape
<1>3. \A b \in Actors : act[b] \in Doings /\ act[b].touch \subseteq Resources
  BY DEF Types, Doings
<1>4. ASSUME NEW b \in Actors PROVE Disturbs(b, \E r \in act[b].touch : Home[r] \in cs) /\ act'[b] \in Doings
  <2> DEFINE d == \E r \in act[b].touch : Home[r] \in cs
  <2>1. act'[b] = [act[b] EXCEPT !.crossed = act[b].crossed \/ d]
    BY <1>1, <1>3
  <2> HIDE DEF d
  <2>2. CASE d = TRUE
    BY <1>3, <2>1, <2>2 DEF Disturbs, Doings, d
  <2>3. CASE d # TRUE
    <3>1. ~d
      BY <2>3 DEF d
    <3>2. act'[b] = act[b]
      BY <1>3, <2>1, <3>1 DEF Doings
    <3> QED
      BY <1>3, <3>1, <3>2 DEF Disturbs, d
  <2> QED
    BY <2>2, <2>3
<1>5. \A b \in Actors : \A r \in act[b].touch : Home[r] \in cs => r \in suspect'
  BY <1>1, <1>2
<1>6. suspect' \subseteq Resources /\ suspect \subseteq suspect'
  BY <1>1, <1>3 DEF AtWork, Types
<1>7. Typed
  BY <1>1, <1>4, Zenon DEF Typed
<1>8. \A b \in Actors : Disturbs(b, \E r \in act[b].touch : Home[r] \in cs)
  BY <1>4
<1> QED
  BY <1>1, <1>5, <1>6, <1>7, <1>8, Zenon DEF Marks

LEMMA SubmitBegins ==
  ASSUME Types, Shapes, NEW u \in Users, Submit(u)
  PROVE  (Begins(u) \/ Marks) /\ Typed
<1>1. u \in Actors /\ act[u].pc = "idle"
  BY DEF Actors, Submit
<1>2. work + 1 \in Stamp
  BY ConstantsAssumption DEF Submit, Types, Stamp
<1>3. ASSUME NEW c \in Collections, DeleteCollection(c) PROVE Marks /\ Typed
  BY <1>3, MarkMarks DEF DeleteCollection
<1>4. ASSUME NEW cs \in SUBSET Collections, DeleteCollections(cs) PROVE Marks /\ Typed
  BY <1>4, MarkMarks DEF DeleteCollections
<1> QED
  BY <1>1, <1>2, <1>3, <1>4, SavesBegin, DeletesBegin, ReindexBegins DEF Submit

LEMMA RestartRestarts == ASSUME Types, Restart PROVE Restarts /\ Typed /\ jobs' \in Nat
<1> DEFINE cut == {w \in Workers : act[w].pc \in Running}
<1>1. /\ act' = [a \in Actors |-> IF a \in cut THEN Idle ELSE act[a]]
      /\ suspect' = suspect \cup UNION {act[w].touch : w \in cut}
      /\ jobs' = jobs + Cardinality(cut) /\ UNCHANGED <<db, doc>>
  BY DEF Restart
<1>2. \A a \in Actors : act[a] \in Doings /\ act[a].touch \subseteq Resources
  BY DEF Types, Doings
<1>3. cut \subseteq Actors
  BY DEF Actors
<1>4. Typed
  BY <1>1, <1>2, IdleDoing, Zenon DEF Typed
<1>5. Cardinality(cut) \in Nat
  BY ConstantsAssumption, FS_Subset, FS_CardinalityType
<1> HIDE DEF cut
<1>6. Restarts
  BY <1>1, <1>2, <1>3 DEF Restarts, Types
<1> QED
  BY <1>1, <1>4, <1>5, <1>6 DEF Types

LEMMA NextCases ==
  ASSUME Types, Shapes, [Next]_vars
  PROVE  /\ Typed /\ jobs' \in Nat /\ work' \in Stamp
         /\ \/ Marks \/ Restarts \/ UNCHANGED <<db, doc, act, suspect>>
            \/ \E a \in Actors : Begins(a) \/ Moves(a)
<1>1. ASSUME NEW u \in Users, Submit(u)
      PROVE  Typed /\ jobs' \in Nat /\ work' \in Stamp /\ (Marks \/ Begins(u))
  <2>1. work' \in Stamp
    BY <1>1, ConstantsAssumption DEF Submit, Types, Stamp
  <2>2. jobs' \in {jobs, jobs + 1}
    BY <1>1 DEF Submit, SaveResource, SaveFile, SaveTranscript, DeleteResource, DeleteFile, Request, Reindex,
                DeleteCollection, DeleteCollections, Mark
  <2> QED
    BY <1>1, <2>1, <2>2, SubmitBegins DEF Types
<1>2. ASSUME NEW w \in Workers, Perform(w)
      PROVE  /\ Typed /\ jobs' \in Nat /\ work' \in Stamp
             /\ Begins(w) \/ UNCHANGED <<db, doc, act, suspect>>
  <2>1. w \in Actors
    BY DEF Actors
  <2>2. jobs' \in Nat /\ work' \in Stamp
    BY <1>2 DEF Perform, Types
  <2> QED
    BY <1>2, <2>1, <2>2, PerformBegins DEF Types, Typed
<1>3. ASSUME NEW a \in Actors, Step(a) \/ Fault(a)
      PROVE  Typed /\ jobs' \in Nat /\ work' \in Stamp /\ Moves(a)
  BY <1>3, StepMoves, StepTyped DEF Types
<1>4. CASE Restart
  <2>1. work' \in Stamp
    BY <1>4 DEF Restart, Types
  <2> QED
    BY <1>4, <2>1, RestartRestarts
<1>5. CASE UNCHANGED vars
  BY <1>5 DEF vars, Types, Typed
<1>6. Users \subseteq Actors /\ Workers \subseteq Actors
  BY DEF Actors
<1> QED
  BY <1>1, <1>2, <1>3, <1>4, <1>5, <1>6 DEF Next

LEMMA CommittedTyped ==
  ASSUME Types, NEW a \in Actors, act[a].pc = "commit"
  PROVE  Committed(act[a]) \in Views
BY DEF Types, Committed, Views, InTransaction, Doings

LEMMA MovesTyped ==
  ASSUME Types, Shapes, NEW a \in Actors, Moves(a), Typed
  PROVE  /\ db' \in Views /\ doc' \in [Resources -> Docs \cup {None}] /\ suspect' \subseteq Resources
         /\ IF act'[a].pc \in InTransaction THEN act'[a].view \in Views ELSE act'[a].dirty = {}
<1>0. /\ act[a] \in Doings /\ act'[a] \in Doings /\ db \in Views /\ suspect \subseteq Resources
      /\ act[a].touch \subseteq Resources /\ doc \in [Resources -> Docs \cup {None}]
      /\ IF act[a].pc \in InTransaction THEN act[a].view \in Views ELSE act[a].dirty = {}
  BY DEF Types, Typed, Doings
<1>1. Idle.pc \notin InTransaction /\ Idle.dirty = {}
  BY DEF Idle, InTransaction
<1>2. CASE Raises(a)
  BY <1>0, <1>1, <1>2 DEF Raises
<1>3. CASE Opens(a)
  BY <1>0, <1>3 DEF Opens, InTransaction
<1>4. ASSUME NEW x \in Changes, Changed(a, x)
      PROVE  act'[a].view \in Views /\ UNCHANGED <<db, doc, suspect>> /\ act'[a].pc \in InTransaction
  <2>1. NewVersion(a, x) \in Rows \cup {None}
    BY NewVersionType
  <2>2. act[a].view \in Views
    BY <1>0, <1>4 DEF Changed, InTransaction
  <2>3. act'[a].view = [act[a].view EXCEPT ![x.at] = IF There(a, x.at) THEN NewVersion(a, x) ELSE None]
    BY <1>4 DEF Changed
  <2> QED
    BY <1>4, <2>1, <2>2, <2>3 DEF Changed, Views, InTransaction
<1>5. ASSUME NEW x \in Changes, Gathered(a, x) \/ (Advanced(a, x) /\ Told(a, x))
      PROVE  /\ act'[a].view \in Views /\ act'[a].pc \in InTransaction /\ UNCHANGED db
             /\ doc' \in [Resources -> Docs \cup {None}] /\ suspect' \subseteq Resources
  <2>1. act'[a].view \in Views /\ act'[a].pc \in InTransaction
    BY <1>0, <1>5 DEF Gathered, Advanced, InTransaction
  <2>2. doc' \in [Resources -> Docs \cup {None}]
    <3>1. act[a].seen \in Docs \cup {None}
      BY <1>0 DEF Doings
    <3> QED
      BY <1>0, <1>5, <3>1 DEF Gathered, Told
  <2> QED
    BY <1>0, <1>5, <2>1, <2>2 DEF Gathered, Advanced, Told
<1>6. CASE Commits(a)
  <2>1. db' \in Views /\ UNCHANGED doc
    BY <1>6, CommittedTyped DEF Commits
  <2>2. suspect' \subseteq Resources /\ act'[a].dirty = {} /\ act'[a].pc \notin InTransaction
    BY <1>0, <1>1, <1>6 DEF Commits, Ends, InTransaction
  <2> QED
    BY <1>0, <2>1, <2>2
<1>7. CASE Pointed(a)
  <2>1. db' = [db EXCEPT ![act[a].at].stamp = act[a].stamp] /\ UNCHANGED <<doc, suspect>>
    BY <1>7 DEF Pointed
  <2>2. db' \in Views
    <3>1. act[a].stamp \in Stamp
      BY <1>0 DEF Doings
    <3>2. db[act[a].at] # None
      BY <1>7 DEF Pointed
    <3>3. \A row \in Rows : [row EXCEPT !.stamp = act[a].stamp] \in Rows
      BY <3>1 DEF Rows
    <3> QED
      BY <1>0, <2>1, <3>2, <3>3 DEF Views
  <2>3. act'[a].dirty = {} /\ act'[a].pc \notin InTransaction
    BY <1>0, <1>7 DEF Pointed, InTransaction
  <2> QED
    BY <1>0, <2>1, <2>2, <2>3
<1>8. ASSUME NEW r, Follows(a, r), act[a].pc \in {"reload", "reindex"}
      PROVE  act'[a].dirty = {} /\ act'[a].pc \notin InTransaction /\ suspect' \subseteq Resources
  BY <1>0, <1>1, <1>8 DEF Follows, Ends, InTransaction
<1>9. ASSUME NEW r \in Resources, Reloads(a, r)
      PROVE  /\ act'[a].dirty = {} /\ act'[a].pc \notin InTransaction /\ suspect' \subseteq Resources
             /\ UNCHANGED <<db, doc>>
  <2>1. CASE Follows(a, r)
    BY <1>8, <1>9, <2>1 DEF Reloads
  <2>2. CASE ~Follows(a, r)
    BY <1>0, <1>9, <2>2 DEF Reloads, InTransaction
  <2> QED
    BY <2>1, <2>2
<1>10. ASSUME Writes(a) \/ Repeats(a) \/ (Ends(a) /\ UNCHANGED <<db, doc>>)
       PROVE  /\ act'[a].dirty = {} /\ act'[a].pc \notin InTransaction /\ suspect' \subseteq Resources
              /\ UNCHANGED db /\ doc' \in [Resources -> Docs \cup {None}]
  <2>1. act[a].seen \in Docs \cup {None}
    BY <1>0 DEF Doings
  <2>2. doc' \in [Resources -> Docs \cup {None}] /\ UNCHANGED db
    BY <1>0, <1>10, <2>1 DEF Writes, Repeats
  <2> QED
    BY <1>0, <1>1, <1>8, <1>10, <2>2 DEF Writes, Repeats, Ends
<1> QED
  BY <1>0, <1>2, <1>3, <1>4, <1>5, <1>6, <1>7, <1>9, <1>10 DEF Moves

LEMMA DisturbedFields ==
  ASSUME Types, NEW b \in Actors, NEW disturbed, Disturbs(b, disturbed)
  PROVE  /\ act'[b].op = act[b].op /\ act'[b].pc = act[b].pc /\ act'[b].todo = act[b].todo
         /\ act'[b].view = act[b].view /\ act'[b].dirty = act[b].dirty /\ act'[b].seen = act[b].seen
         /\ act'[b].list = act[b].list /\ act'[b].at = act[b].at /\ act'[b].touch = act[b].touch
         /\ act'[b].stamp = act[b].stamp /\ act'[b].bulk = act[b].bulk
         /\ act'[b].crossed = (disturbed \/ act[b].crossed)
BY DEF Disturbs, Types, Doings

LEMMA TypesNext == ASSUME Types, Shapes, [Next]_vars PROVE Types'
<1>0. /\ Typed /\ jobs' \in Nat /\ work' \in Stamp
      /\ \/ Marks \/ Restarts \/ UNCHANGED <<db, doc, act, suspect>>
         \/ \E a \in Actors : Begins(a) \/ Moves(a)
  BY NextCases
<1> DEFINE Of(b) == IF act'[b].pc \in InTransaction THEN act'[b].view \in Views ELSE act'[b].dirty = {}
<1> DEFINE All == /\ db' \in Views /\ doc' \in [Resources -> Docs \cup {None}] /\ suspect' \subseteq Resources
                  /\ \A b \in Actors : Of(b)
<1>2. \A b \in Actors : act'[b] = act[b] \/ act'[b] = Idle => Of(b)
  BY DEF Types, Idle, InTransaction
<1>3. ASSUME NEW b \in Actors, NEW disturbed, Disturbs(b, disturbed) PROVE Of(b)
  BY <1>3, DisturbedFields DEF Types
<1>4. ASSUME Marks PROVE All
  <2>1. PICK cs \in SUBSET Collections :
          /\ \A c \in cs : Here(c, db)
          /\ db' = [e \in Entities |-> IF e \in cs THEN [db[e] EXCEPT !.deleted = TRUE] ELSE db[e]]
          /\ \A b \in Actors : Disturbs(b, \E r \in act[b].touch : Home[r] \in cs)
          /\ suspect' \subseteq Resources /\ UNCHANGED doc
    BY <1>4 DEF Marks
  <2>2. db' \in Views
    BY <2>1 DEF Types, Views, Here, Rows, Entities
  <2> QED
    BY <1>3, <2>1, <2>2 DEF Types
<1>5. ASSUME Restarts PROVE All
  BY <1>2, <1>5 DEF Restarts, Types
<1>6. ASSUME UNCHANGED <<db, doc, act, suspect>> PROVE All
  BY <1>2, <1>6 DEF Types
<1>7. ASSUME NEW a \in Actors, Begins(a) PROVE All
  <2>1. Of(a)
    BY <1>7 DEF Begins, Starts, InTransaction
  <2>2. \A b \in Actors \ {a} : Of(b)
    BY <1>3, <1>7 DEF Begins
  <2> QED
    BY <1>7, <2>1, <2>2 DEF Begins, Types
<1>8. ASSUME NEW a \in Actors, Moves(a) PROVE All
  <2>1. \A b \in Actors \ {a} : act'[b] = act[b]
    BY <1>8 DEF Moves, Raises, Opens, Changed, Gathered, Advanced, Commits, Pointed, Reloads, Writes, Repeats,
                Follows, Ends, Fixed
  <2> QED
    BY <1>0, <1>2, <1>8, <2>1, MovesTyped
<1>9. All
  BY <1>0, <1>4, <1>5, <1>6, <1>7, <1>8
<1>10. Types' <=> All /\ Typed /\ jobs' \in Nat /\ work' \in Stamp
  BY DEF Types, Typed, Views
<1> QED
  BY <1>0, <1>9, <1>10

-----------------------------------------------------------------------------
(***************************************************************************)
(* Every step keeps the shapes of the records.                             *)
(***************************************************************************)
LEMMA FirstSame ==
  ASSUME NEW p, NEW q, p.todo = q.todo
  PROVE  First(p) = First(q)
BY DEF First

\* Two changes that are both the next are of one row, and both of its transcript or neither.
LEMMA FirstAlike ==
  ASSUME NEW q \in Doings, NEW x \in First(q), NEW y \in First(q)
  PROVE  x.at = y.at /\ (x.do = "strip" <=> y.do = "strip")
<1>1. x \in Changes /\ y \in Changes /\ Before(x, y) /\ Before(y, x)
  BY FirstOf DEF First
<1>2. Turn[x.at] \in Nat /\ Turn[y.at] \in Nat
  BY <1>1, ConstantsAssumption DEF Changes
<1> QED
  BY <1>1, <1>2 DEF Before

LEMMA IdleShape == Shape(Idle)
BY DEF Shape, Idle, Saves, Deletes, InTransaction

LEMMA ShapeDisturbed ==
  ASSUME Types, Shapes, NEW b \in Actors, NEW disturbed, Disturbs(b, disturbed)
  PROVE  Shape(act'[b])
<1>1. First(act'[b]) = First(act[b])
  BY DisturbedFields, FirstSame
<1>2. Shape(act[b])
  BY DEF Shapes
<1> QED
  BY <1>1, <1>2, DisturbedFields DEF Shape, SaveShape, DeleteShape

LEMMA ShapeBegins ==
  ASSUME Types, Shapes, Typed, NEW a \in Actors, Begins(a)
  PROVE  Shape(act'[a])
<1>1. SUFFICES ASSUME NEW q, Starts(q) PROVE Shape(q)
  BY DEF Begins
<1>2. CASE q.op \in Saves
  <2>1. /\ q.dirty = {} /\ q.pc = "open" /\ q.list = {} /\ q.at \in Resources \cup Files
        /\ q.touch = {Under(q.at)} /\ (\E x \in Changes : q.todo = {x} /\ x.at = q.at /\ x.do # "drop")
        /\ q.op = "saveResource" => q.at \in Resources
        /\ q.op = "addFile" => q.at \in Files
    BY <1>1, <1>2 DEF Starts, Saves
  <2>2. SaveShape(q)
    BY <2>1 DEF SaveShape
  <2> QED
    BY <1>2, <2>1, <2>2 DEF Shape, Saves, Deletes, InTransaction
<1>3. CASE q.op \in Deletes
  <2>1. q.dirty = {} /\ q.pc = "open" /\ q.todo = {}
    BY <1>1, <1>3 DEF Starts, Saves, Deletes
  <2>2. q.op = "destroy" => q.list \subseteq Collections
    BY <1>1 DEF Starts, Saves, Marked
  <2>3. /\ q.op # "destroy" => q.at \in Resources \cup Files /\ q.touch = {Under(q.at)} /\ q.list = {}
        /\ q.op = "deleteResource" => q.at \in Resources
    BY <1>1, <1>3 DEF Starts, Saves, Deletes
  <2>4. DeleteShape(q)
    BY <2>1, <2>2, <2>3 DEF DeleteShape, InTransaction
  <2> QED
    BY <1>3, <2>1, <2>4 DEF Shape, Saves, Deletes, InTransaction
<1>4. CASE q.op = "rake"
  <2>1. q.dirty = {} /\ q.pc = "reload" /\ q.todo = {} /\ q.list = q.touch
    BY <1>1, <1>4 DEF Starts, Saves
  <2> QED
    BY <1>4, <2>1 DEF Shape, Saves, Deletes, InTransaction
<1>5. q.op \in Saves \/ q.op \in Deletes \/ q.op = "rake"
  BY <1>1 DEF Starts, Saves, Deletes
<1> QED
  BY <1>2, <1>3, <1>4, <1>5

LEMMA ShapeOpens ==
  ASSUME Types, Shapes, Typed, NEW a \in Actors, Opens(a)
  PROVE  Shape(act'[a])
<1>0. act[a] \in Doings /\ Shape(act[a]) /\ act[a].dirty = {} /\ db \in Views
  BY DEF Types, Shapes, Opens, InTransaction
<1>1. /\ act[a].pc = "open" /\ act'[a].pc = "change" /\ act'[a].op = act[a].op /\ act'[a].touch = act[a].touch
      /\ act'[a].view = db /\ act'[a].dirty = {} /\ act'[a].list = act[a].list
      /\ \/ act[a].todo # {} /\ act'[a].todo = act[a].todo /\ act'[a].at = act[a].at
         \/ /\ act[a].todo = {} /\ act'[a].todo = Drop(act'[a].at, db) /\ act'[a].todo # {}
            /\ act'[a].at \in IF act[a].op = "destroy" THEN act[a].list ELSE {act[a].at}
  BY <1>0 DEF Opens, Fixed
<1>2. CASE act[a].op \in Saves
  BY <1>0, <1>1, <1>2 DEF Shape, SaveShape, Saves, Deletes, InTransaction
<1>3. CASE act[a].op \in Deletes
  <2> DEFINE at == act'[a].at
  <2>1. act'[a].todo = Drop(at, db) /\ at \in IF act[a].op = "destroy" THEN act[a].list ELSE {act[a].at}
    BY <1>0, <1>1, <1>3 DEF Shape, DeleteShape
  <2>2. \A x \in Drop(at, db) : /\ x.do = "drop" \/ (x.do = "strip" /\ x.at \in Files)
                                /\ x.at \in Within(at)
    BY DEF Drop, Do
  <2>3. at \in Resources => Do("drop", at) \in Drop(at, db)
    BY ConstantsAssumption DEF Drop, Within
  <2> HIDE DEF at
  <2>4. DeleteShape(act'[a])
    BY <1>0, <1>1, <1>3, <2>1, <2>2, <2>3 DEF Shape, DeleteShape, InTransaction, at
  <2> QED
    BY <1>0, <1>1, <1>3, <2>4 DEF Shape, Saves, Deletes, InTransaction
<1>4. act[a].op \in Saves \cup Deletes
  BY <1>0, <1>1 DEF Doings, Shape
<1> QED
  BY <1>2, <1>3, <1>4

LEMMA ShapeChanged ==
  ASSUME Types, Shapes, Typed, NEW a \in Actors, NEW x \in Changes, Changed(a, x)
  PROVE  Shape(act'[a])
<1>0. act[a] \in Doings /\ Shape(act[a]) /\ act[a].view \in Views
  BY DEF Types, Shapes, Changed, InTransaction
<1> DEFINE w == IF There(a, x.at) THEN NewVersion(a, x) ELSE None
<1>1. /\ act[a].pc = "change" /\ act'[a].pc = "fetch" /\ act'[a].op = act[a].op /\ act'[a].touch = act[a].touch
      /\ act'[a].todo = act[a].todo /\ act'[a].at = act[a].at /\ act'[a].list = act[a].list
      /\ act'[a].view = [act[a].view EXCEPT ![x.at] = w]
      /\ act'[a].dirty = IF There(a, x.at) THEN act[a].dirty \cup {x.at} ELSE act[a].dirty
      /\ x \in act[a].todo /\ x \in First(act[a])
  BY <1>0, FirstOf DEF Changed, Fixed
<1>2. /\ x.do = "drop" => w = None
      /\ x.do # "drop" /\ There(a, x.at) => w # None
  BY NewVersionType, NoneAssumption
<1>3. act'[a].view[x.at] = w /\ \A e \in Entities \ {x.at} : act'[a].view[e] = act[a].view[e]
  BY <1>0, <1>1 DEF Views, Changes
<1>4. act[a].dirty \subseteq Entities /\ x.at \in Entities
  BY <1>0 DEF Doings, Changes
<1> HIDE DEF w
<1>5. CASE act[a].op \in Saves
  <2>1. SaveShape(act[a]) /\ x.at = act[a].at /\ x.do # "drop"
    BY <1>0, <1>1, <1>5 DEF Shape, SaveShape
  <2>2. act'[a].dirty \subseteq {x.at}
    BY <1>1, <2>1 DEF SaveShape
  <2>3. \A e \in act'[a].dirty : act'[a].view[e] # None
    <3>1. CASE There(a, x.at)
      BY <1>2, <1>3, <2>1, <2>2, <3>1
    <3>2. CASE ~There(a, x.at)
      <4>1. There(a, x.at) \/ x.at \notin act[a].dirty
        BY <2>1 DEF There, Row, SaveShape
      <4> QED
        BY <1>1, <2>2, <3>2, <4>1
    <3> QED
      BY <3>1, <3>2
  <2>4. SaveShape(act'[a])
    BY <1>1, <2>1, <2>2, <2>3 DEF SaveShape, InTransaction
  <2> QED
    BY <1>1, <1>5, <2>4 DEF Shape, Saves, Deletes, InTransaction
<1>6. CASE act[a].op \in Deletes
  <2>1. DeleteShape(act[a])
    BY <1>0, <1>6 DEF Shape
  <2>2. act'[a].dirty \subseteq Within(act'[a].at)
    BY <1>1, <2>1 DEF DeleteShape
  <2>3. \A e \in act'[a].dirty \ Files : act'[a].view[e] = None
    <3>1. x.at \notin Files => w = None
      BY <1>1, <1>2, <2>1 DEF DeleteShape
    <3> QED
      BY <1>1, <1>3, <1>4, <2>1, <3>1 DEF DeleteShape
  <2>4. \A y \in First(act'[a]) : y.do = "drop" => act'[a].view[y.at] = None
    <3>1. First(act'[a]) = First(act[a])
      BY <1>1, FirstSame
    <3>2. ASSUME NEW y \in First(act[a]), y.do = "drop" PROVE y.at = x.at /\ x.do = "drop"
      <4>1. x.do = "drop" \/ x.do = "strip"
        BY <1>1, <2>1 DEF DeleteShape
      <4> QED
        BY <1>0, <1>1, <3>2, <4>1, FirstAlike
    <3> QED
      BY <1>2, <1>3, <3>1, <3>2
  <2>5. act[a].op = "deleteResource" =>
          Do("drop", act'[a].at) \in act'[a].todo \/ act'[a].view[act'[a].at] = None
    <3>1. CASE act[a].op = "deleteResource" /\ x.at = act[a].at
      <4>1. x.at \notin Files
        BY <2>1, <3>1, ConstantsAssumption DEF DeleteShape
      <4>2. w = None
        BY <1>1, <1>2, <2>1, <4>1 DEF DeleteShape
      <4> QED
        BY <1>1, <1>3, <3>1, <4>2
    <3>2. CASE act[a].op = "deleteResource" /\ x.at # act[a].at
      <4>1. act[a].at \in Entities \ {x.at}
        BY <2>1, <3>2 DEF DeleteShape, Entities
      <4> QED
        BY <1>1, <1>3, <2>1, <3>2, <4>1 DEF DeleteShape, InTransaction
    <3> QED
      BY <3>1, <3>2
  <2>6. DeleteShape(act'[a])
    BY <1>1, <2>1, <2>2, <2>3, <2>4, <2>5 DEF DeleteShape, InTransaction
  <2> QED
    BY <1>1, <1>6, <2>6 DEF Shape, Saves, Deletes, InTransaction
<1>7. act[a].op \in Saves \cup Deletes
  BY <1>0, <1>1 DEF Doings, Shape
<1> QED
  BY <1>5, <1>6, <1>7

LEMMA ShapeGathered ==
  ASSUME Types, Shapes, Typed, NEW a \in Actors, NEW x \in Changes, Gathered(a, x)
  PROVE  Shape(act'[a])
<1>0. act[a] \in Doings /\ Shape(act[a])
  BY DEF Types, Shapes
<1>1. /\ act[a].pc = "fetch" /\ act'[a].pc \in {"remove", "index"} /\ x \in First(act[a]) /\ x \in act[a].todo
      /\ act'[a].op = act[a].op /\ act'[a].touch = act[a].touch
      /\ act'[a].todo = act[a].todo /\ act'[a].at = act[a].at /\ act'[a].list = act[a].list
      /\ act'[a].view = act[a].view /\ act'[a].dirty = act[a].dirty
      /\ act'[a].pc = "remove" => x.do = "drop" /\ x.at \in Resources
  BY <1>0, FirstOf DEF Gathered, Fixed
<1>2. First(act'[a]) = First(act[a])
  BY <1>1, FirstSame
<1>3. \A y \in First(act[a]) : y.at = x.at /\ (y.do = "strip" <=> x.do = "strip") /\ y \in act[a].todo
  BY <1>0, <1>1, FirstAlike, FirstOf
<1>4. act'[a].pc = "remove" => act[a].op \in Deletes /\ \A y \in First(act[a]) : y.do = "drop" /\ y.at \in Resources
  <2>1. act[a].op \in Saves => x.do # "drop"
    BY <1>0, <1>1 DEF Shape, SaveShape
  <2>2. act[a].op \in Deletes => \A y \in act[a].todo : y.do \in {"drop", "strip"}
    BY <1>0 DEF Shape, DeleteShape
  <2>3. act[a].op \in Saves \cup Deletes
    BY <1>0, <1>1 DEF Doings, Shape
  <2> QED
    BY <1>1, <1>3, <2>1, <2>2, <2>3
<1>5. CASE act[a].op \in Saves
  <2>1. SaveShape(act'[a])
    BY <1>0, <1>1, <1>5 DEF Shape, SaveShape, InTransaction
  <2> QED
    BY <1>1, <1>2, <1>5, <1>4, <2>1 DEF Shape, Saves, Deletes, InTransaction
<1>6. CASE act[a].op \in Deletes
  <2>1. DeleteShape(act[a])
    BY <1>0, <1>6 DEF Shape
  <2>2. \A y \in First(act[a]) : y.do = "drop" => act[a].view[y.at] = None
    BY <1>1, <2>1 DEF DeleteShape
  <2>3. DeleteShape(act'[a])
    BY <1>1, <1>2, <2>1, <2>2 DEF DeleteShape, InTransaction
  <2> QED
    BY <1>1, <1>2, <1>6, <1>4, <2>3 DEF Shape, Saves, Deletes, InTransaction
<1>7. act[a].op \in Saves \cup Deletes
  BY <1>0, <1>1 DEF Doings, Shape
<1> QED
  BY <1>5, <1>6, <1>7

LEMMA ShapeAdvanced ==
  ASSUME Types, Shapes, Typed, NEW a \in Actors, NEW x \in Changes, Advanced(a, x), Told(a, x)
  PROVE  Shape(act'[a])
<1>0. act[a] \in Doings /\ Shape(act[a])
  BY DEF Types, Shapes
<1>1. /\ act[a].pc \in {"fetch", "index", "remove"} /\ x \in First(act[a]) /\ x \in act[a].todo
      /\ act'[a].op = act[a].op /\ act'[a].touch = act[a].touch
      /\ act'[a].todo = act[a].todo \ {x} /\ act'[a].pc = (IF act'[a].todo = {} THEN "commit" ELSE "change")
      /\ act'[a].at = act[a].at /\ act'[a].list = act[a].list
      /\ act'[a].view = act[a].view /\ act'[a].dirty = act[a].dirty
  BY <1>0, FirstOf DEF Advanced, Fixed
<1>2. act'[a].pc \in {"change", "commit"}
  BY <1>1
<1>3. CASE act[a].op \in Saves
  <2>1. SaveShape(act'[a])
    BY <1>0, <1>1, <1>2, <1>3 DEF Shape, SaveShape, InTransaction
  <2> QED
    BY <1>1, <1>2, <1>3, <2>1 DEF Shape, Saves, Deletes, InTransaction
<1>4. CASE act[a].op \in Deletes
  <2>1. DeleteShape(act[a])
    BY <1>0, <1>4 DEF Shape
  <2>2. act[a].op = "deleteResource" =>
          Do("drop", act[a].at) \in act'[a].todo \/ act[a].view[act[a].at] = None
    <3>1. x = Do("drop", act[a].at) => act[a].view[act[a].at] = None
      BY <1>1, <2>1 DEF DeleteShape, Do
    <3> QED
      BY <1>1, <2>1, <3>1 DEF DeleteShape, InTransaction
  <2>3. DeleteShape(act'[a])
    BY <1>1, <1>2, <2>1, <2>2 DEF DeleteShape, InTransaction
  <2> QED
    BY <1>1, <1>2, <1>4, <2>3 DEF Shape, Saves, Deletes, InTransaction
<1>5. act[a].op \in Saves \cup Deletes
  BY <1>0, <1>1 DEF Doings, Shape
<1> QED
  BY <1>3, <1>4, <1>5

LEMMA ShapeCommits ==
  ASSUME Types, Shapes, Typed, NEW a \in Actors, Commits(a)
  PROVE  Shape(act'[a])
<1>0. act[a] \in Doings /\ Shape(act[a]) /\ act[a].pc = "commit" /\ act[a].todo = {}
  BY DEF Types, Shapes, Commits, Shape
<1>1. CASE Ends(a)
  BY <1>1, IdleShape DEF Ends
<1>2. CASE ~Ends(a)
  <2>1. /\ act'[a].op = act[a].op /\ act'[a].touch = act[a].touch /\ act'[a].dirty = {} /\ act'[a].todo = {}
        /\ act'[a].at = act[a].at
        /\ \/ /\ act[a].op = "destroy" /\ act'[a].pc = "open"
              /\ act'[a].list = act[a].list \ {act[a].at}
           \/ /\ act[a].op = "upload" /\ act'[a].pc = "points" /\ act'[a].list = act[a].list
           \/ /\ act[a].op = "saveResource" /\ act'[a].pc = "reload" /\ act'[a].list = act[a].list
           \/ /\ act[a].op = "deleteResource" /\ act'[a].pc = "again" /\ act'[a].list = act[a].list
    BY <1>0, <1>2 DEF Commits, Fixed
  <2>2. CASE act[a].op \in {"upload", "saveResource"}
    <3>1. SaveShape(act'[a])
      BY <1>0, <2>1, <2>2 DEF Shape, SaveShape, Saves
    <3> QED
      BY <2>1, <2>2, <3>1 DEF Shape, Saves, Deletes, InTransaction
  <2>3. CASE act[a].op \in {"destroy", "deleteResource"}
    <3>1. DeleteShape(act'[a])
      BY <1>0, <2>1, <2>3 DEF Shape, DeleteShape, Deletes, InTransaction
    <3> QED
      BY <2>1, <2>3, <3>1 DEF Shape, Saves, Deletes, InTransaction
  <2> QED
    BY <2>1, <2>2, <2>3
<1> QED
  BY <1>1, <1>2

LEMMA ShapePointed ==
  ASSUME Types, Shapes, Typed, NEW a \in Actors, Pointed(a)
  PROVE  Shape(act'[a])
<1>0. act[a] \in Doings /\ Shape(act[a]) /\ act[a].dirty = {}
  BY DEF Types, Shapes, Pointed, InTransaction
<1>1. /\ act[a].pc = "points" /\ act'[a].pc = "reload" /\ act'[a].op = act[a].op /\ act'[a].touch = act[a].touch
      /\ act'[a].todo = act[a].todo /\ act'[a].at = act[a].at /\ act'[a].list = act[a].list
      /\ act'[a].dirty = {}
  BY <1>0 DEF Pointed, Fixed
<1>2. act[a].op \in Saves
  BY <1>0, <1>1 DEF Shape, Doings, DeleteShape, InTransaction
<1>3. SaveShape(act'[a]) /\ act[a].todo = {}
  BY <1>0, <1>1, <1>2 DEF Shape, SaveShape
<1> QED
  BY <1>1, <1>2, <1>3 DEF Shape, Saves, Deletes, InTransaction

LEMMA ShapeFollows ==
  ASSUME Types, Shapes, Typed, NEW a \in Actors, NEW r, Follows(a, r), act[a].pc \in {"reload", "reindex"}
  PROVE  Shape(act'[a])
<1>0. act[a] \in Doings /\ Shape(act[a]) /\ act[a].dirty = {}
  BY DEF Types, Shapes, InTransaction
<1>1. CASE Ends(a)
  BY <1>1, IdleShape DEF Ends
<1>2. CASE ~Ends(a)
  <2>1. /\ act'[a].pc = "reload" /\ act'[a].op = act[a].op /\ act'[a].touch = act[a].touch
        /\ act'[a].todo = act[a].todo /\ act'[a].at = act[a].at /\ act'[a].dirty = {}
        /\ act'[a].list = act[a].list \ {r} /\ act'[a].list # {}
    BY <1>0, <1>2 DEF Follows, Fixed
  <2>2. act[a].op = "rake"
    BY <1>0, <2>1 DEF Shape, Doings, SaveShape, DeleteShape, InTransaction
  <2> QED
    BY <1>0, <2>1, <2>2 DEF Shape, Saves, Deletes, InTransaction
<1> QED
  BY <1>1, <1>2

LEMMA ShapeReloads ==
  ASSUME Types, Shapes, Typed, NEW a \in Actors, NEW r \in Resources, Reloads(a, r)
  PROVE  Shape(act'[a])
<1>0. act[a] \in Doings /\ Shape(act[a]) /\ act[a].dirty = {} /\ act[a].pc = "reload"
  BY DEF Types, Shapes, InTransaction, Reloads
<1>1. CASE Follows(a, r)
  BY <1>0, <1>1, ShapeFollows
<1>2. CASE ~Follows(a, r)
  <2>1. /\ act'[a].pc = "reindex" /\ act'[a].op = act[a].op /\ act'[a].touch = act[a].touch
        /\ act'[a].todo = act[a].todo /\ act'[a].at = r /\ act'[a].dirty = {}
        /\ act'[a].list = act[a].list /\ Next1(a, r)
    BY <1>0, <1>2 DEF Reloads, Fixed
  <2>2. CASE act[a].op = "rake"
    BY <1>0, <2>1, <2>2 DEF Shape, Next1, Saves, Deletes, InTransaction
  <2>3. CASE act[a].op \in Saves
    <3>1. SaveShape(act[a]) /\ r = Under(act[a].at) /\ Under(r) = r
      BY <1>0, <2>1, <2>3, ConstantsAssumption DEF Shape, Next1, Saves, Under
    <3>2. act[a].todo = {} /\ act[a].op \in {"saveResource", "upload"}
      BY <1>0, <3>1 DEF Shape, SaveShape
    <3>3. SaveShape(act'[a])
      BY <2>1, <3>1, <3>2 DEF SaveShape, InTransaction
    <3> QED
      BY <2>1, <2>3, <3>2, <3>3 DEF Shape, Saves, Deletes, InTransaction
  <2> QED
    BY <1>0, <2>2, <2>3 DEF Shape, Doings, DeleteShape, InTransaction
<1> QED
  BY <1>1, <1>2

LEMMA MovesOnly ==
  ASSUME NEW a \in Actors, Moves(a), NEW b \in Actors \ {a} PROVE act'[b] = act[b]
BY DEF Moves, Raises, Opens, Changed, Gathered, Advanced, Commits, Pointed, Reloads, Writes, Repeats,
       Follows, Ends, Fixed

LEMMA ShapesNext == ASSUME Types, Shapes, [Next]_vars PROVE Shapes'
<1>0. /\ Typed
      /\ \/ Marks \/ Restarts \/ UNCHANGED <<db, doc, act, suspect>>
         \/ \E a \in Actors : Begins(a) \/ Moves(a)
  BY NextCases
<1>1. SUFFICES \A b \in Actors : Shape(act'[b])
  BY DEF Shapes, Shape, SaveShape, DeleteShape, First, Within, Under
<1>2. \A b \in Actors : act'[b] = act[b] \/ act'[b] = Idle => Shape(act'[b])
  BY IdleShape DEF Shapes
<1>3. CASE Marks
  BY <1>3, ShapeDisturbed DEF Marks
<1>4. CASE Restarts \/ UNCHANGED <<db, doc, act, suspect>>
  BY <1>2, <1>4 DEF Restarts
<1>5. ASSUME NEW a \in Actors, Begins(a) PROVE \A b \in Actors : Shape(act'[b])
  BY <1>0, <1>5, ShapeBegins, ShapeDisturbed DEF Begins
<1>6. ASSUME NEW a \in Actors, Moves(a) PROVE \A b \in Actors : Shape(act'[b])
  <2>1. Shape(act'[a])
    <3>1. Raises(a) \/ Ends(a) => Shape(act'[a])
      BY IdleShape DEF Raises, Ends
    <3>2. Writes(a) => Shape(act'[a])
      BY <1>0, ShapeFollows DEF Writes
    <3> QED
      BY <1>0, <1>6, <3>1, <3>2, ShapeOpens, ShapeChanged, ShapeGathered, ShapeAdvanced, ShapeCommits,
         ShapePointed, ShapeReloads DEF Moves, Repeats
  <2> QED
    BY <1>2, <1>6, <2>1, MovesOnly
<1> QED
  BY <1>0, <1>3, <1>4, <1>5, <1>6

LEMMA TypesInit == Init => Types /\ Shapes
<1> SUFFICES ASSUME NEW with \in SUBSET Files, NEW without \in SUBSET (Files \ with),
                    db = [e \in Entities |->
                            IF e \in with THEN [NewRow(0) EXCEPT !.transcript = TRUE]
                            ELSE IF e \in Files \ without THEN None ELSE NewRow(0)],
                    doc = [r \in Resources |-> Document(r, db)],
                    jobs = 0, act = [a \in Actors |-> Idle], work = 0, suspect = {}
             PROVE  Types /\ Shapes
  BY DEF Init
<1>1. 0 \in Stamp
  BY ConstantsAssumption DEF Stamp
<1>2. NewRow(0) \in Rows /\ [NewRow(0) EXCEPT !.transcript = TRUE] \in Rows
  BY <1>1 DEF NewRow, Rows
<1>3. db \in Views
  BY <1>2 DEF Views
<1>4. \A r \in Resources : db[r] # None /\ r \in Entities
  BY <1>2, ConstantsAssumption, NoneAssumption DEF Entities
<1>5. doc \in [Resources -> Docs \cup {None}]
  BY <1>3, <1>4, DocumentType
<1>6. \A a \in Actors : act[a] = Idle
  OBVIOUS
<1>7. Types
  BY <1>1, <1>3, <1>5, <1>6, IdleDoing DEF Types, Idle, InTransaction
<1> QED
  BY <1>6, <1>7, IdleShape DEF Shapes

LEMMA TypesInvariant == Spec => [](Types /\ Shapes)
<1>1. Init => Types /\ Shapes
  BY TypesInit
<1>2. (Types /\ Shapes) /\ [Next]_vars => (Types /\ Shapes)'
  BY TypesNext, ShapesNext
<1> QED
  BY <1>1, <1>2, PTL DEF Spec

-----------------------------------------------------------------------------
(***************************************************************************)
(* Foreign keys and locks.                                                 *)
(***************************************************************************)

LEMMA KeysQuiet ==
  ASSUME Keys,
         \A e \in Resources \cup Files : db'[e] = db[e],
         \A e \in Entities : db[e] # None => db'[e] # None,
         \A b \in Actors :
           \/ /\ act'[b].dirty = act[b].dirty /\ act'[b].view = act[b].view
              /\ act'[b].pc \in InTransaction => act[b].pc \in InTransaction
           \/ act'[b].dirty = {} /\ (act'[b].pc \in InTransaction => act'[b].view = db),
         \A b \in Actors : act[b].dirty \subseteq Entities
  PROVE  Keys'
<1>1. \A f \in Files : Owner[f] \in Resources /\ f \in Resources \cup Files /\ Owner[f] \in Resources \cup Files
  BY ConstantsAssumption
<1>2. \A b \in Actors : act'[b].dirty \subseteq act[b].dirty
  OBVIOUS
<1>3. ASSUME NEW b \in Actors, act'[b].dirty # {}, NEW e \in Resources \cup Files
      PROVE  Row(b, e)' = Row(b, e) /\ act'[b].dirty = act[b].dirty /\ act'[b].view = act[b].view
  BY <1>3 DEF Row
<1>4. Sound(db)' /\ Sound(db)
  BY <1>1 DEF Keys, Sound
<1>5. \A f \in Files : db'[f] # None => db'[Owner[f]] # None
  BY <1>1 DEF Keys
<1>6. \A b \in Actors : act'[b].pc \in InTransaction => Sound(act'[b].view)
  BY <1>4 DEF Keys, Sound
<1>7. \A b, c \in Actors : b # c => act'[b].dirty \cap act'[c].dirty = {}
  BY <1>2 DEF Keys
<1>8. ASSUME NEW b \in Actors PROVE DropsGuarded(b)'
  <2>1. SUFFICES ASSUME NEW r \in Resources \cap act'[b].dirty, act'[b].view[r] = None, NEW f \in FilesOf(r)
                 PROVE  Row(b, f)' = None /\ \A c \in Actors \ {b} : f \notin act'[c].dirty
    BY DEF DropsGuarded, FilesOf
  <2>2. f \in Files
    BY DEF FilesOf
  <2>3. Row(b, f) = None /\ \A c \in Actors \ {b} : f \notin act[c].dirty
    BY <1>3, <2>1, <2>2 DEF Keys, DropsGuarded
  <2> QED
    BY <1>2, <1>3, <2>2, <2>3
<1>9. ASSUME NEW b \in Actors PROVE AddsGuarded(b)'
  <2>1. SUFFICES ASSUME NEW f \in Files \cap act'[b].dirty, act'[b].view[f] # None
                 PROVE  Row(b, Owner[f])' # None
    BY DEF AddsGuarded
  <2>2. Row(b, Owner[f])' = Row(b, Owner[f]) /\ act'[b].dirty = act[b].dirty /\ act'[b].view = act[b].view
    BY <1>1, <1>3, <2>1
  <2>3. AddsGuarded(b)
    BY DEF Keys
  <2> QED
    BY <2>1, <2>2, <2>3 DEF AddsGuarded
<1>10. \A b \in Actors : \A e \in act'[b].dirty \ Files : db'[e] # None
  BY <1>2 DEF Keys
<1> QED
  BY <1>4, <1>5, <1>6, <1>7, <1>8, <1>9, <1>10 DEF Keys, Sound

LEMMA NewVersionSound ==
  ASSUME Types, Keys, NEW a \in Actors, act[a].pc \in InTransaction, NEW x \in Changes, x.at \in Files
  PROVE  LET w == NewVersion(a, x) IN w # None /\ w.locked => w.transcript
<1>1. Row(a, x.at) \in Rows \cup {None}
  BY RowType DEF Changes
<1>2. Row(a, x.at) # None /\ Row(a, x.at).locked => Row(a, x.at).transcript
  BY DEF Keys, Sound, Row
<1> QED
  BY <1>1, <1>2, NoneAssumption DEF NewVersion, NewRow, Rows, Changes

LEMMA AddsFiles ==
  ASSUME Types, Shapes, NEW a \in Actors, act[a].op = "addFile", NEW x \in act[a].todo
  PROVE  x.at \in Files
BY DEF Types, Shapes, Shape, SaveShape, Saves

LEMMA KeysChanged ==
  ASSUME Types, Shapes, Keys, NEW a \in Actors, NEW x \in Changes, Changed(a, x)
  PROVE  Keys'
<1> DEFINE w == IF There(a, x.at) THEN NewVersion(a, x) ELSE None
<1>0. /\ act[a] \in Doings /\ Shape(act[a]) /\ act[a].view \in Views /\ act[a].pc \in InTransaction
      /\ x \in act[a].todo /\ x.at \in Entities /\ MayChange(a, x) /\ UNCHANGED db
      /\ act'[a].pc = "fetch"
  BY FirstOf DEF Types, Shapes, Changed, InTransaction, Changes
<1>1. /\ \A b \in Actors \ {a} : act'[b] = act[b]
      /\ act'[a].view = [act[a].view EXCEPT ![x.at] = w]
      /\ act'[a].dirty = IF There(a, x.at) THEN act[a].dirty \cup {x.at} ELSE act[a].dirty
  BY DEF Changed, Fixed
<1>2. act'[a].view[x.at] = w /\ \A e \in Entities \ {x.at} : act'[a].view[e] = act[a].view[e]
  BY <1>0, <1>1 DEF Views
<1>3. /\ x.do = "drop" => w = None
      /\ x.do # "drop" /\ There(a, x.at) => w # None
      /\ ~There(a, x.at) => w = None
      /\ x.at \in Files /\ w # None /\ w.locked => w.transcript
  BY <1>0, NewVersionType, NewVersionSound, NoneAssumption
<1> HIDE DEF w
<1>4. /\ \A b \in Actors \ {a} : \A e : Row(b, e)' = Row(b, e)
      /\ \A e \in Entities \ {x.at} : Row(a, e)' = Row(a, e)
      /\ There(a, x.at) => Row(a, x.at)' = w
      /\ ~There(a, x.at) => Row(a, x.at) = None /\ Row(a, x.at)' = None
  <2>1. ~There(a, x.at) => Row(a, x.at) = None
    BY DEF There
  <2> QED
    BY <1>0, <1>1, <1>2, <1>3, <2>1 DEF Row
<1>5. Sound(act'[a].view)
  <2>1. Sound(act[a].view)
    BY <1>0 DEF Keys
  <2> QED
    BY <1>2, <1>3, <2>1 DEF Sound, Entities
<1>6. \A b, c \in Actors : b # c => act'[b].dirty \cap act'[c].dirty = {}
  BY <1>0, <1>1 DEF Keys, MayChange
<1>7. \A b \in Actors : \A e \in act'[b].dirty \ Files : db'[e] # None
  <2>1. ASSUME x.at \notin Files, There(a, x.at), x.at \notin act[a].dirty PROVE db[x.at] # None
    <3>1. act[a].op # "addFile"
      BY <1>0, <2>1, AddsFiles
    <3> QED
      BY <2>1, <3>1 DEF There, Row
  <2> QED
    BY <1>0, <1>1, <2>1 DEF Keys
<1>8. ASSUME NEW r \in Resources \cap act'[a].dirty, act'[a].view[r] = None, NEW f \in FilesOf(r)
      PROVE  Row(a, f)' = None /\ \A c \in Actors \ {a} : f \notin act'[c].dirty
  <2>0. f \in Files /\ f \in Entities /\ r \in Entities /\ f # r
    BY ConstantsAssumption DEF FilesOf, Entities
  <2>1. CASE r = x.at
    <3>1. x.do = "drop"
      <4>1. CASE There(a, x.at)
        BY <1>2, <1>3, <1>8, <2>1, <4>1
      <4>2. CASE ~There(a, x.at)
        <5>1. x.at \in act[a].dirty /\ Row(a, x.at) = None
          BY <1>1, <1>4, <1>8, <2>1, <4>2
        <5>2. act[a].view[x.at] = None
          BY <5>1 DEF Row
        <5>3. act[a].op \notin Saves
          BY <1>0, <5>1, <5>2 DEF Shape, SaveShape
        <5>4. act[a].op \in Deletes
          BY <1>0, <5>3 DEF Doings, Shape, InTransaction
        <5> QED
          BY <1>0, <2>1, <5>4, ConstantsAssumption DEF Shape, DeleteShape
      <4> QED
        BY <4>1, <4>2
    <3>2. Row(a, f) = None /\ \A c \in Actors \ {a} : f \notin act[c].dirty
      BY <1>0, <1>8, <2>1, <3>1 DEF MayChange
    <3> QED
      BY <1>1, <1>4, <2>0, <2>1, <3>2
  <2>2. CASE r # x.at
    <3>1. r \in act[a].dirty /\ act[a].view[r] = None
      BY <1>1, <1>2, <1>8, <2>0, <2>2
    <3>2. Row(a, f) = None /\ \A c \in Actors \ {a} : f \notin act[c].dirty
      BY <1>8, <3>1 DEF Keys, DropsGuarded
    <3>3. CASE f # x.at
      BY <1>1, <1>4, <2>0, <3>2, <3>3
    <3>4. CASE f = x.at
      <4>1. act[a].op \notin Saves
        BY <1>0, <3>1 DEF Shape, SaveShape
      <4>2. ~There(a, x.at)
        BY <3>2, <3>4, <4>1 DEF There, Saves
      <4> QED
        BY <1>1, <1>4, <3>2, <3>4, <4>2
    <3> QED
      BY <3>3, <3>4
  <2> QED
    BY <2>1, <2>2
<1>9. ASSUME NEW b \in Actors \ {a}, NEW r \in Resources \cap act[b].dirty, act[b].view[r] = None,
             NEW f \in FilesOf(r)
      PROVE  Row(b, f) = None /\ \A c \in Actors \ {b} : f \notin act'[c].dirty
  <2>0. f \in Files /\ f \in Entities /\ Owner[f] = r
    BY DEF FilesOf, Entities
  <2>1. Row(b, f) = None /\ \A c \in Actors \ {b} : f \notin act[c].dirty
    BY <1>9 DEF Keys, DropsGuarded
  <2>2. f \notin act'[a].dirty
    <3>1. SUFFICES ASSUME f = x.at, There(a, x.at) PROVE FALSE
      BY <1>1, <2>1
    <3>2. act[a].op # "addFile"
      BY <1>0, <1>9, <2>0, <3>1 DEF MayChange
    <3>3. Row(a, f) # None
      BY <3>1, <3>2 DEF There
    <3>4. db[f] # None
      BY <2>1, <3>3 DEF Row
    <3>5. f \notin act[b].dirty
      BY <1>0, <3>1 DEF MayChange
    <3> QED
      BY <2>1, <3>4, <3>5 DEF Row
  <2> QED
    BY <1>1, <2>1, <2>2
<1>10. ASSUME NEW b \in Actors PROVE DropsGuarded(b)'
  <2>1. SUFFICES ASSUME NEW r \in Resources \cap act'[b].dirty, act'[b].view[r] = None, NEW f \in FilesOf(r)
                 PROVE  Row(b, f)' = None /\ \A c \in Actors \ {b} : f \notin act'[c].dirty
    BY DEF DropsGuarded, FilesOf
  <2>2. CASE b = a
    BY <1>8, <2>1, <2>2
  <2>3. CASE b # a
    <3>1. Row(b, f)' = Row(b, f)
      BY <1>4, <2>3
    <3> QED
      BY <1>1, <1>9, <2>1, <2>3, <3>1
  <2> QED
    BY <2>2, <2>3
<1>11. ASSUME NEW f \in Files \cap act'[a].dirty, act'[a].view[f] # None
       PROVE  Row(a, Owner[f])' # None
  <2>0. /\ f \in Entities /\ Owner[f] \in Entities /\ Owner[f] \in Resources /\ Owner[f] \notin Files
        /\ f \in FilesOf(Owner[f])
    BY ConstantsAssumption DEF Entities, FilesOf
  <2>1. CASE f = x.at
    <3>1. There(a, x.at) /\ x.do # "drop"
      BY <1>2, <1>3, <1>11, <2>1
    <3>2. Row(a, Owner[f]) # None
      <4>1. CASE act[a].op = "addFile"
        BY <1>0, <2>1, <4>1 DEF MayChange
      <4>2. CASE act[a].op # "addFile"
        <5>1. Row(a, f) # None
          BY <2>1, <3>1, <4>2 DEF There
        <5>2. CASE f \in act[a].dirty
          BY <1>11, <5>1, <5>2 DEF Keys, AddsGuarded, Row
        <5>3. CASE f \notin act[a].dirty
          <6>1. db[Owner[f]] # None
            BY <5>1, <5>3 DEF Row, Keys
          <6>2. ~(Owner[f] \in act[a].dirty /\ act[a].view[Owner[f]] = None)
            BY <2>0, <5>1 DEF Keys, DropsGuarded
          <6> QED
            BY <6>1, <6>2 DEF Row
        <5> QED
          BY <5>2, <5>3
      <4> QED
        BY <4>1, <4>2
    <3> QED
      BY <1>4, <2>0, <2>1, <3>2
  <2>2. CASE f # x.at
    <3>1. f \in act[a].dirty /\ act[a].view[f] # None
      BY <1>1, <1>2, <1>11, <2>0, <2>2
    <3>2. Row(a, Owner[f]) # None
      BY <1>11, <3>1 DEF Keys, AddsGuarded
    <3>3. CASE Owner[f] # x.at
      BY <1>4, <2>0, <3>2, <3>3
    <3>4. CASE Owner[f] = x.at
      <4>1. There(a, x.at)
        BY <3>2, <3>4 DEF There
      <4>2. Row(a, f) # None
        BY <3>1 DEF Row
      <4>3. x.do # "drop"
        BY <1>0, <2>0, <3>4, <4>2 DEF MayChange
      <4> QED
        BY <1>3, <1>4, <3>4, <4>1, <4>3
    <3> QED
      BY <3>3, <3>4
  <2> QED
    BY <2>1, <2>2
<1>12. ASSUME NEW b \in Actors PROVE AddsGuarded(b)'
  <2>1. SUFFICES ASSUME NEW f \in Files \cap act'[b].dirty, act'[b].view[f] # None
                 PROVE  Row(b, Owner[f])' # None
    BY DEF AddsGuarded
  <2>2. CASE b = a
    BY <1>11, <2>1, <2>2
  <2>3. CASE b # a
    <3>1. Row(b, Owner[f])' = Row(b, Owner[f])
      BY <1>4, <2>3
    <3>2. AddsGuarded(b)
      BY DEF Keys
    <3> QED
      BY <1>1, <2>1, <2>3, <3>1, <3>2 DEF AddsGuarded
  <2> QED
    BY <2>2, <2>3
<1> QED
  BY <1>0, <1>1, <1>5, <1>6, <1>7, <1>10, <1>12 DEF Keys, Sound

LEMMA KeysCommits ==
  ASSUME Types, Shapes, Keys, NEW a \in Actors, Commits(a)
  PROVE  Keys'
<1>0. act[a] \in Doings /\ act[a].pc \in InTransaction
  BY DEF Types, Commits, InTransaction
<1>1. \A e \in Entities : db'[e] = Row(a, e)
  BY DEF Commits, Committed, Row
<1>2. /\ \A b \in Actors \ {a} : act'[b] = act[b]
      /\ act'[a].dirty = {} /\ act'[a].pc \notin InTransaction
  BY DEF Commits, Ends, Fixed, Idle, InTransaction
<1>3. \A b \in Actors \ {a} : act[b].dirty \cap act[a].dirty = {}
  BY DEF Keys
<1>4. \A f \in Files : f \in Entities /\ Owner[f] \in Entities /\ Owner[f] \in Resources /\ f \in FilesOf(Owner[f])
  BY ConstantsAssumption DEF Entities, FilesOf
<1>5. \A b \in Actors : act[b].dirty \subseteq Entities
  BY DEF Types, Doings
<1>6. Sound(db')
  BY <1>0, <1>1, <1>4 DEF Keys, Sound, Row
<1>7. ASSUME NEW f \in Files, db'[f] # None PROVE db'[Owner[f]] # None
  <2>1. Row(a, f) # None
    BY <1>1, <1>4, <1>7
  <2>2. CASE f \in act[a].dirty
    <3>1. AddsGuarded(a)
      BY DEF Keys
    <3> QED
      BY <1>1, <1>4, <2>1, <2>2, <3>1 DEF AddsGuarded, Row
  <2>3. CASE f \notin act[a].dirty
    <3>1. db[Owner[f]] # None
      BY <2>1, <2>3 DEF Row, Keys
    <3>2. DropsGuarded(a)
      BY DEF Keys
    <3> QED
      BY <1>1, <1>4, <2>1, <3>1, <3>2 DEF DropsGuarded, Row
  <2> QED
    BY <2>2, <2>3
<1>8. \A b \in Actors : act'[b].pc \in InTransaction => Sound(act'[b].view)
  BY <1>2 DEF Keys
<1>9. \A b, c \in Actors : b # c => act'[b].dirty \cap act'[c].dirty = {}
  BY <1>2 DEF Keys
<1>10. ASSUME NEW b \in Actors PROVE DropsGuarded(b)'
  <2>1. SUFFICES ASSUME NEW r \in Resources \cap act'[b].dirty, act'[b].view[r] = None, NEW f \in FilesOf(r)
                 PROVE  Row(b, f)' = None /\ \A c \in Actors \ {b} : f \notin act'[c].dirty
    BY DEF DropsGuarded, FilesOf
  <2>2. b # a /\ act'[b] = act[b]
    BY <1>2, <2>1
  <2>3. DropsGuarded(b) /\ f \in Entities
    BY <1>4 DEF Keys, FilesOf
  <2>4. Row(b, f) = None /\ \A c \in Actors \ {b} : f \notin act[c].dirty
    BY <2>1, <2>2, <2>3 DEF DropsGuarded
  <2>5. db'[f] = db[f]
    BY <1>1, <2>2, <2>3, <2>4 DEF Row
  <2> QED
    BY <1>2, <2>2, <2>4, <2>5 DEF Row
<1>11. ASSUME NEW b \in Actors PROVE AddsGuarded(b)'
  <2>1. SUFFICES ASSUME NEW f \in Files \cap act'[b].dirty, act'[b].view[f] # None
                 PROVE  Row(b, Owner[f])' # None
    BY DEF AddsGuarded
  <2>2. b # a /\ act'[b] = act[b]
    BY <1>2, <2>1
  <2>3. AddsGuarded(b) /\ DropsGuarded(a)
    BY DEF Keys
  <2>4. Row(b, Owner[f]) # None
    BY <2>1, <2>2, <2>3 DEF AddsGuarded
  <2>5. CASE Owner[f] \in act[b].dirty
    BY <2>2, <2>4, <2>5 DEF Row
  <2>6. CASE Owner[f] \notin act[b].dirty
    <3>1. Row(a, Owner[f]) # None
      BY <1>4, <2>1, <2>2, <2>3, <2>4, <2>6 DEF DropsGuarded, Row
    <3> QED
      BY <1>1, <1>4, <2>2, <2>6, <3>1 DEF Row
  <2> QED
    BY <2>5, <2>6
<1>12. ASSUME NEW b \in Actors, NEW e \in act'[b].dirty \ Files PROVE db'[e] # None
  <2>1. b # a /\ act'[b] = act[b]
    BY <1>2, <1>12
  <2>2. db[e] # None /\ e \notin act[a].dirty /\ e \in Entities
    BY <1>3, <1>5, <1>12, <2>1 DEF Keys
  <2> QED
    BY <1>1, <2>2 DEF Row
<1> QED
  BY <1>6, <1>7, <1>8, <1>9, <1>10, <1>11, <1>12 DEF Keys, Sound

LEMMA KeysPointed ==
  ASSUME Types, Shapes, Keys, NEW a \in Actors, Pointed(a)
  PROVE  Keys'
<1>0. /\ act[a].pc = "points" /\ \A b \in Actors : act[a].at \notin act[b].dirty
      /\ db[act[a].at] # None /\ db' = [db EXCEPT ![act[a].at].stamp = act[a].stamp]
  BY DEF Pointed
<1>1. /\ \A b \in Actors \ {a} : act'[b] = act[b]
      /\ act'[a].dirty = act[a].dirty /\ act[a].dirty = {} /\ act'[a].pc \notin InTransaction
  BY <1>0 DEF Pointed, Fixed, Types, InTransaction
<1>2. /\ \A e \in Entities : db'[e] # None <=> db[e] # None
      /\ \A e \in Entities : db[e] # None =>
           db'[e].locked = db[e].locked /\ db'[e].transcript = db[e].transcript
  <2>1. act[a].stamp \in Stamp /\ DOMAIN db = Entities /\ \A e \in Entities : db[e] # None => db[e] \in Rows
    BY DEF Types, Doings, Views
  <2>2. \A row \in Rows : LET new == [row EXCEPT !.stamp = act[a].stamp] IN
          new \in Rows /\ new.locked = row.locked /\ new.transcript = row.transcript
    BY <2>1 DEF Rows
  <2> QED
    BY <1>0, <2>1, <2>2, NoneAssumption
<1>3. \A f \in Files : f \in Entities /\ Owner[f] \in Entities /\ Owner[f] \in Resources
  BY ConstantsAssumption DEF Entities
<1>4. Sound(db') /\ \A f \in Files : db'[f] # None => db'[Owner[f]] # None
  BY <1>2, <1>3 DEF Keys, Sound
<1>5. ASSUME NEW b \in Actors, act'[b].dirty # {}
      PROVE  /\ act'[b] = act[b]
             /\ \A e \in Entities : Row(b, e)' # None <=> Row(b, e) # None
  <2>1. act'[b] = act[b]
    BY <1>1, <1>5
  <2> QED
    BY <1>2, <2>1 DEF Row
<1>6. ASSUME NEW b \in Actors PROVE DropsGuarded(b)'
  <2>1. SUFFICES ASSUME NEW r \in Resources \cap act'[b].dirty, act'[b].view[r] = None, NEW f \in FilesOf(r)
                 PROVE  Row(b, f)' = None /\ \A c \in Actors \ {b} : f \notin act'[c].dirty
    BY DEF DropsGuarded, FilesOf
  <2>2. act'[b] = act[b] /\ (Row(b, f)' # None <=> Row(b, f) # None)
    BY <1>3, <1>5, <2>1 DEF FilesOf
  <2>3. DropsGuarded(b)
    BY DEF Keys
  <2>4. Row(b, f) = None /\ \A c \in Actors \ {b} : f \notin act[c].dirty
    BY <2>1, <2>2, <2>3 DEF DropsGuarded
  <2> QED
    BY <1>1, <2>2, <2>4
<1>7. ASSUME NEW b \in Actors PROVE AddsGuarded(b)'
  <2>1. SUFFICES ASSUME NEW f \in Files \cap act'[b].dirty, act'[b].view[f] # None
                 PROVE  Row(b, Owner[f])' # None
    BY DEF AddsGuarded
  <2>2. act'[b] = act[b] /\ (Row(b, Owner[f])' # None <=> Row(b, Owner[f]) # None)
    BY <1>3, <1>5, <2>1
  <2>3. AddsGuarded(b)
    BY DEF Keys
  <2> QED
    BY <2>1, <2>2, <2>3 DEF AddsGuarded
<1>8. \A b \in Actors : \A e \in act'[b].dirty \ Files : db'[e] # None
  <2>1. \A b \in Actors : act[b].dirty \subseteq Entities
    BY DEF Types, Doings
  <2> QED
    BY <1>1, <1>2, <2>1 DEF Keys
<1>9. /\ \A b \in Actors : act'[b].pc \in InTransaction => Sound(act'[b].view)
      /\ \A b, c \in Actors : b # c => act'[b].dirty \cap act'[c].dirty = {}
  BY <1>1 DEF Keys
<1> QED
  BY <1>4, <1>6, <1>7, <1>8, <1>9 DEF Keys, Sound

LEMMA KeysNext == ASSUME Types, Shapes, Keys, [Next]_vars PROVE Keys'
<1>0. /\ Typed
      /\ \/ Marks \/ Restarts \/ UNCHANGED <<db, doc, act, suspect>>
         \/ \E a \in Actors : Begins(a) \/ Moves(a)
  BY NextCases
<1> DEFINE Quiet(b) ==
      \/ /\ act'[b].dirty = act[b].dirty /\ act'[b].view = act[b].view
         /\ act'[b].pc \in InTransaction => act[b].pc \in InTransaction
      \/ act'[b].dirty = {} /\ (act'[b].pc \in InTransaction => act'[b].view = db)
<1>1. \A b \in Actors : act[b].dirty \subseteq Entities
  BY DEF Types, Doings
<1>2. \A b \in Actors : act'[b] = act[b] \/ act'[b] = Idle => Quiet(b)
  BY DEF Idle, InTransaction
<1>3. \A b \in Actors : \A disturbed : Disturbs(b, disturbed) => Quiet(b)
  BY DisturbedFields
<1>4. ASSUME UNCHANGED db, \A b \in Actors : Quiet(b) PROVE Keys'
  BY <1>1, <1>4, KeysQuiet
<1>5. CASE Marks
  <2>1. PICK cs \in SUBSET Collections :
          /\ \A c \in cs : Here(c, db)
          /\ db' = [e \in Entities |-> IF e \in cs THEN [db[e] EXCEPT !.deleted = TRUE] ELSE db[e]]
          /\ \A b \in Actors : Disturbs(b, \E r \in act[b].touch : Home[r] \in cs)
    BY <1>5 DEF Marks
  <2>2. \A e \in Resources \cup Files : db'[e] = db[e]
    BY <2>1, ConstantsAssumption DEF Entities
  <2>3. \A e \in Entities : db[e] # None => db'[e] # None
    <3>1. \A row \in Rows : [row EXCEPT !.deleted = TRUE] # None
      BY NoneAssumption DEF Rows
    <3> QED
      BY <2>1, <3>1 DEF Types, Views
  <2>4. \A b \in Actors : Quiet(b)
    BY <1>3, <2>1
  <2> QED
    BY <1>1, <2>2, <2>3, <2>4, KeysQuiet
<1>6. CASE Restarts \/ UNCHANGED <<db, doc, act, suspect>>
  <2>1. \A b \in Actors : act'[b] = act[b] \/ act'[b] = Idle
    BY <1>6 DEF Restarts
  <2>2. UNCHANGED db
    BY <1>6 DEF Restarts
  <2> QED
    BY <1>2, <1>4, <2>1, <2>2
<1>7. ASSUME NEW a \in Actors, Begins(a) PROVE Keys'
  <2>1. Quiet(a)
    BY <1>7 DEF Begins, Starts, InTransaction
  <2> QED
    BY <1>3, <1>4, <1>7, <2>1 DEF Begins
<1>8. ASSUME NEW a \in Actors, Moves(a) PROVE Keys'
  <2>1. ASSUME UNCHANGED db, Quiet(a) PROVE Keys'
    BY <1>2, <1>4, <1>8, <2>1, MovesOnly
  <2>2. Ends(a) => Quiet(a)
    BY <1>2 DEF Ends
  <2>3. CASE Raises(a)
    BY <1>2, <2>1, <2>3 DEF Raises
  <2>4. CASE Opens(a)
    <3>1. act'[a].dirty = {} /\ act'[a].view = db /\ UNCHANGED db
      BY <2>4 DEF Opens, Types, InTransaction
    <3> QED
      BY <2>1, <3>1
  <2>5. ASSUME NEW x \in Changes, Gathered(a, x) \/ (Advanced(a, x) /\ Told(a, x)) PROVE Keys'
    <3>1. Quiet(a) /\ UNCHANGED db
      BY <2>5 DEF Gathered, Advanced, InTransaction
    <3> QED
      BY <2>1, <3>1
  <2>6. ASSUME NEW r, Follows(a, r), act[a].pc \in {"reload", "reindex"} PROVE Quiet(a)
    <3>1. act[a].dirty = {}
      BY <2>6 DEF Types, InTransaction
    <3> QED
      BY <2>2, <2>6, <3>1 DEF Follows, InTransaction
  <2>7. ASSUME NEW r \in Resources, Reloads(a, r) PROVE Keys'
    <3>1. act[a].dirty = {} /\ UNCHANGED db /\ act[a].pc = "reload"
      BY <2>7 DEF Types, InTransaction, Reloads
    <3>2. Quiet(a)
      BY <2>6, <2>7, <3>1 DEF Reloads, InTransaction
    <3> QED
      BY <2>1, <3>1, <3>2
  <2>8. CASE Writes(a) \/ Repeats(a) \/ (Ends(a) /\ UNCHANGED db)
    <3>1. Quiet(a) /\ UNCHANGED db
      BY <2>2, <2>6, <2>8 DEF Writes, Repeats
    <3> QED
      BY <2>1, <3>1
  <2> QED
    BY <1>8, <2>3, <2>4, <2>5, <2>7, <2>8, KeysChanged, KeysCommits, KeysPointed DEF Moves
<1> QED
  BY <1>0, <1>5, <1>6, <1>7, <1>8

LEMMA KeysInit == Init => Keys
<1> SUFFICES ASSUME Init PROVE Keys
  OBVIOUS
<1>1. /\ \A a \in Actors : act[a] = Idle
      /\ \E with \in SUBSET Files : \E without \in SUBSET (Files \ with) :
           db = [e \in Entities |->
                   IF e \in with THEN [NewRow(0) EXCEPT !.transcript = TRUE]
                   ELSE IF e \in Files \ without THEN None ELSE NewRow(0)]
  BY DEF Init
<1>2. NewRow(0) # None /\ ~NewRow(0).locked /\ ~[NewRow(0) EXCEPT !.transcript = TRUE].locked
  BY NewRowType, NoneAssumption, ConstantsAssumption DEF NewRow, Stamp
<1>3. \A f \in Files : f \in Entities /\ Owner[f] \in Entities /\ Owner[f] \notin Files
  BY ConstantsAssumption DEF Entities
<1>4. Sound(db) /\ \A f \in Files : db[Owner[f]] # None
  BY <1>1, <1>2, <1>3 DEF Sound
<1> QED
  BY <1>1, <1>4 DEF Keys, Idle, InTransaction, DropsGuarded, AddsGuarded

LEMMA KeysInvariant == Spec => [](Types /\ Shapes /\ Keys)
<1>1. Init => Keys
  BY KeysInit
<1>2. (Types /\ Shapes) /\ Keys /\ [Next]_vars => Keys'
  BY KeysNext
<1> QED
  BY <1>1, <1>2, TypesInvariant, PTL DEF Spec

\* Rows and documents have their types; a file belongs to a resource that is there, and
\* only a transcript that is there is locked, whatever is destroyed, added, uploaded and
\* raised at once.
THEOREM TypesHold == Spec => []TypeOK
<1>1. Types /\ Shapes /\ Keys => TypeOK
  <2>1. Types => \A e \in Entities : db[e] # None => db[e] \in Rows
    BY DEF Types, Views
  <2>2. Types => \A r \in Resources : doc[r] # None => doc[r].title \in Stamp
    BY DEF Types, Docs
  <2>3. Types => jobs \in Nat /\ work \in Stamp /\ suspect \subseteq Resources
                 /\ \A a \in Actors : act[a].pc \in Running \cup {"idle"}
    BY DEF Types, Doings
  <2> QED
    BY <2>1, <2>2, <2>3 DEF Keys, Sound, TypeOK
<1> QED
  BY <1>1, KeysInvariant, PTL

-----------------------------------------------------------------------------
(***************************************************************************)
(* What an actor writes is of the resources it works on.                   *)
(***************************************************************************)

\* Nothing unmarks a collection, and no resource comes to be.
Shrinks ==
  /\ \A c \in Collections : Here(c, db') => Here(c, db)
  /\ \A r \in Resources : db'[r] # None => db[r] # None

LEMMA CollectionsGoOnly ==
  ASSUME Types, Shapes, NEW a \in Actors, NEW c \in Collections, c \in act[a].dirty
  PROVE  act[a].view[c] = None
<1>1. act[a].op \notin Saves
  BY ConstantsAssumption DEF Shapes, Shape, SaveShape
<1>2. act[a].op \in Deletes
  BY <1>1 DEF Types, Doings, Shapes, Shape, InTransaction
<1> QED
  BY <1>2, ConstantsAssumption DEF Shapes, Shape, DeleteShape

LEMMA NextShrinks == ASSUME Types, Shapes, Keys, [Next]_vars PROVE Shrinks
<1>1. \/ Marks \/ Restarts \/ UNCHANGED <<db, doc, act, suspect>>
      \/ \E a \in Actors : Begins(a) \/ Moves(a)
  BY NextCases
<1>2. UNCHANGED db => Shrinks
  BY DEF Shrinks
<1>3. CASE Marks
  <2>1. PICK cs \in SUBSET Collections :
          /\ \A c \in cs : Here(c, db)
          /\ db' = [e \in Entities |-> IF e \in cs THEN [db[e] EXCEPT !.deleted = TRUE] ELSE db[e]]
    BY <1>3 DEF Marks
  <2>2. \A c \in cs : Here(c, db)
    BY <2>1
  <2> QED
    BY <2>1, <2>2, ConstantsAssumption DEF Shrinks, Here, Entities
<1>4. ASSUME NEW a \in Actors, Commits(a) PROVE Shrinks
  <2>1. \A e \in Entities : db'[e] = Row(a, e)
    BY <1>4 DEF Commits, Committed, Row
  <2>2. \A e \in act[a].dirty \ Files : db[e] # None
    BY DEF Keys
  <2> QED
    BY <2>1, <2>2, CollectionsGoOnly, ConstantsAssumption DEF Shrinks, Row, Here, Entities
<1>5. ASSUME NEW a \in Actors, Pointed(a) PROVE Shrinks
  <2>1. db' = [db EXCEPT ![act[a].at].stamp = act[a].stamp] /\ db[act[a].at] # None
    BY <1>5 DEF Pointed
  <2>2. DOMAIN db = Entities /\ \A e \in Entities : db[e] # None => db[e] \in Rows
    BY DEF Types, Views
  <2>3. \A row \in Rows : [row EXCEPT !.stamp = act[a].stamp].deleted = row.deleted
    BY DEF Rows
  <2>4. \A e \in Entities : /\ db'[e] # None => db[e] # None
                            /\ db[e] # None => db'[e].deleted = db[e].deleted
    BY <2>1, <2>2, <2>3
  <2> QED
    BY <2>4 DEF Shrinks, Here, Entities
<1>6. ASSUME NEW a \in Actors, Moves(a), ~Commits(a), ~Pointed(a) PROVE UNCHANGED db
  BY <1>6 DEF Moves, Raises, Opens, Changed, Gathered, Advanced, Reloads, Writes, Repeats
<1> QED
  BY <1>1, <1>2, <1>3, <1>4, <1>5, <1>6 DEF Restarts, Begins

\* What an actor keeps in its reach while others work, and while it only moves on.
LEMMA ReachesKept ==
  ASSUME Shrinks, NEW b \in Actors, Reaches(b),
         act'[b].todo \subseteq act[b].todo, act'[b].touch = act[b].touch, act'[b].op = act[b].op,
         act'[b].list \subseteq act[b].list, act[b].op = "destroy" => act[b].list \subseteq Collections,
         \/ /\ act'[b].dirty = act[b].dirty /\ act'[b].view = act[b].view /\ act'[b].at = act[b].at
            /\ act'[b].pc \in InTransaction => act[b].pc \in InTransaction
         \/ act'[b].dirty = {} /\ act'[b].pc \notin InTransaction
  PROVE  Reaches(b)'
<1>1. \A x \in act'[b].todo : x.at \notin Collections => Under(x.at) \in act'[b].touch
  BY DEF Reaches
<1>2. \A e \in act'[b].dirty \ Collections : Under(e) \in act'[b].touch
  BY DEF Reaches
<1>3. ASSUME act'[b].op = "destroy", NEW c \in act'[b].list
      PROVE  ~Here(c, db') /\ \A r \in ResourcesOf(c) : db'[r] # None => r \in act'[b].touch
  BY <1>3 DEF Reaches, Shrinks, ResourcesOf
<1>4. act'[b].op = "destroy" /\ act'[b].pc \in InTransaction => ~Here(act'[b].at, act'[b].view)
  BY DEF Reaches
<1>5. act'[b].pc \in InTransaction =>
        \A c \in Collections \ act'[b].dirty : Here(c, db') => Here(c, act'[b].view)
  BY DEF Reaches, Shrinks
<1> QED
  BY <1>1, <1>2, <1>3, <1>4, <1>5 DEF Reaches, Here, ResourcesOf, Under

LEMMA IdleReaches == ASSUME NEW b \in Actors, act'[b] = Idle PROVE Reaches(b)'
BY DEF Reaches, Idle, InTransaction

LEMMA DestroyLists ==
  ASSUME Shapes, NEW b \in Actors, act[b].op = "destroy" PROVE act[b].list \subseteq Collections
BY DEF Shapes, Shape, DeleteShape, Deletes

LEMMA ReachesBegins ==
  ASSUME Types, NEW a \in Actors, Begins(a)
  PROVE  Reaches(a)'
<1>0. Starts(act'[a]) /\ UNCHANGED db
  BY DEF Begins
<1>1. SUFFICES ASSUME NEW q, q = act'[a], Starts(q)
               PROVE  /\ \A x \in q.todo : x.at \notin Collections => Under(x.at) \in q.touch
                      /\ q.dirty = {} /\ q.pc \notin InTransaction
                      /\ q.op = "destroy" =>
                           \A c \in q.list : ~Here(c, db) /\ \A r \in ResourcesOf(c) : db[r] # None => r \in q.touch
  BY <1>0 DEF Reaches, Here, ResourcesOf, Under
<1>2. q.dirty = {} /\ q.pc \notin InTransaction
  BY <1>1 DEF Starts, InTransaction
<1>3. ASSUME NEW x \in q.todo PROVE Under(x.at) \in q.touch
  BY <1>1, <1>3 DEF Starts
<1>4. ASSUME q.op = "destroy", NEW c \in q.list
      PROVE  ~Here(c, db) /\ \A r \in ResourcesOf(c) : db[r] # None => r \in q.touch
  <2>1. q.list = Marked /\ q.touch = {r \in Resources : Home[r] \in Marked /\ db[r] # None}
    BY <1>1, <1>4 DEF Starts, Saves
  <2> QED
    BY <1>4, <2>1 DEF Marked, Gone, Here, ResourcesOf
<1> QED
  BY <1>2, <1>3, <1>4

LEMMA ReachesOpens ==
  ASSUME Types, Shapes, Keys, NEW a \in Actors, Reaches(a), Opens(a)
  PROVE  Reaches(a)'
<1>0. /\ act[a] \in Doings /\ Shape(act[a]) /\ act[a].pc = "open" /\ act'[a].dirty = {} /\ act'[a].view = db
      /\ act'[a].op = act[a].op /\ act'[a].touch = act[a].touch /\ act'[a].list = act[a].list
      /\ UNCHANGED db /\ act[a].op \in Saves \cup Deletes
      /\ \/ act[a].todo # {} /\ act'[a].todo = act[a].todo /\ act'[a].at = act[a].at
         \/ /\ act[a].todo = {} /\ act'[a].todo = Drop(act'[a].at, db)
            /\ act'[a].at \in IF act[a].op = "destroy" THEN act[a].list ELSE {act[a].at}
  BY DEF Opens, Fixed, Types, Shapes, InTransaction, Doings, Shape
<1>1. act[a].op = "destroy" => act'[a].at \in act[a].list /\ act[a].list \subseteq Collections
  BY <1>0 DEF Shape, DeleteShape, Deletes
<1>2. ASSUME NEW x \in act'[a].todo, x.at \notin Collections PROVE Under(x.at) \in act[a].touch
  <2>1. CASE act[a].todo # {}
    BY <1>0, <1>2, <2>1 DEF Reaches
  <2>2. CASE act[a].todo = {}
    <3> DEFINE e == act'[a].at
    <3>1. x.at \in Within(e) /\ (db[x.at] # None \/ (x.at = e /\ e \notin Files))
      BY <1>0, <1>2, <2>2 DEF Drop, Do
    <3>2. CASE act[a].op = "destroy"
      <4>1. e \in Collections /\ \A r \in ResourcesOf(e) : db[r] # None => r \in act[a].touch
        BY <1>1, <3>2 DEF Reaches
      <4>2. db[x.at] # None /\ x.at \in Resources \cup Files
        BY <1>2, <3>1, <4>1 DEF Within
      <4>3. Under(x.at) \in ResourcesOf(e) /\ db[Under(x.at)] # None
        BY <1>2, <3>1, <4>1, <4>2, ConstantsAssumption DEF Within, Under, ResourcesOf, Keys
      <4> QED
        BY <4>1, <4>3
    <3>3. CASE act[a].op # "destroy"
      <4>1. e = act[a].at /\ e \in Resources \cup Files /\ act[a].touch = {Under(e)}
        BY <1>0, <2>2, <3>3 DEF Shape, SaveShape, DeleteShape
      <4> QED
        BY <3>1, <4>1, ConstantsAssumption DEF Within, Under
    <3> QED
      BY <3>2, <3>3
  <2> QED
    BY <2>1, <2>2
<1>3. act[a].op = "destroy" =>
        /\ \A c \in act[a].list : ~Here(c, db) /\ \A r \in ResourcesOf(c) : db[r] # None => r \in act[a].touch
        /\ ~Here(act'[a].at, db)
  BY <1>1 DEF Reaches
<1> QED
  BY <1>0, <1>2, <1>3 DEF Reaches, Here, ResourcesOf, Under

LEMMA ReachesChanged ==
  ASSUME Types, Shapes, Keys, NEW a \in Actors, NEW x \in Changes, Reaches(a), Changed(a, x)
  PROVE  Reaches(a)'
<1> DEFINE w == IF There(a, x.at) THEN NewVersion(a, x) ELSE None
<1>0. /\ act[a] \in Doings /\ Shape(act[a]) /\ act[a].view \in Views /\ act[a].pc \in InTransaction
      /\ x \in act[a].todo /\ x.at \in Entities /\ UNCHANGED db
      /\ act'[a].op = act[a].op /\ act'[a].touch = act[a].touch /\ act'[a].list = act[a].list
      /\ act'[a].todo = act[a].todo /\ act'[a].at = act[a].at /\ act'[a].pc \in InTransaction
  BY FirstOf DEF Types, Shapes, Changed, Fixed, InTransaction, Changes
<1>1. /\ act'[a].view = [act[a].view EXCEPT ![x.at] = w]
      /\ act'[a].dirty = IF There(a, x.at) THEN act[a].dirty \cup {x.at} ELSE act[a].dirty
  BY DEF Changed
<1>2. act'[a].view[x.at] = w /\ \A e \in Entities \ {x.at} : act'[a].view[e] = act[a].view[e]
  BY <1>0, <1>1 DEF Views
<1>3. x.at \notin Files /\ act[a].op \in Deletes => w = None
  <2>1. x.at \notin Files /\ act[a].op \in Deletes => x.do = "drop"
    BY <1>0 DEF Shape, DeleteShape
  <2> QED
    BY <1>0, <2>1, NewVersionType
<1> HIDE DEF w
<1>4. \A e \in act'[a].dirty \ Collections : Under(e) \in act[a].touch
  BY <1>0, <1>1 DEF Reaches
<1>5. act[a].op = "destroy" => ~Here(act[a].at, act'[a].view)
  <2>1. act[a].op = "destroy" => act[a].at \in Collections /\ ~Here(act[a].at, act[a].view)
    BY <1>0 DEF Reaches, Shape, DeleteShape, Deletes
  <2>2. act[a].at \in Collections => act[a].at \in Entities /\ act[a].at \notin Files
    BY ConstantsAssumption DEF Entities
  <2> QED
    BY <1>2, <1>3, <2>1, <2>2 DEF Here, Deletes
<1>6. ASSUME NEW c \in Collections \ act'[a].dirty, Here(c, db) PROVE Here(c, act'[a].view)
  <2>1. c \notin act[a].dirty /\ Here(c, act[a].view) /\ c \in Entities
    BY <1>0, <1>1, <1>6 DEF Reaches, Entities
  <2>2. c # x.at
    <3>1. c = x.at => ~There(a, x.at)
      BY <1>1, <1>6
    <3> QED
      BY <1>6, <2>1, <3>1 DEF There, Row, Here
  <2> QED
    BY <1>2, <2>1, <2>2 DEF Here
<1> QED
  BY <1>0, <1>4, <1>5, <1>6 DEF Reaches, Here, ResourcesOf, Under

LEMMA ReachesCommits ==
  ASSUME Shrinks, Shapes, NEW a \in Actors, Reaches(a), Commits(a) \/ Pointed(a)
         \/ (act[a].pc \in {"reload", "reindex"} /\ \E r : Follows(a, r))
         \/ (\E r \in Resources : Reloads(a, r)), Types
  PROVE  Reaches(a)'
<1>0. act[a].pc \in {"points", "reload", "reindex"} => act[a].dirty = {}
  BY DEF Types, InTransaction
<1>1. CASE act'[a] = Idle
  BY <1>1, IdleReaches
<1>2. CASE act'[a] # Idle
  <2>1. /\ act'[a].todo = act[a].todo /\ act'[a].touch = act[a].touch /\ act'[a].op = act[a].op
        /\ act'[a].list \subseteq act[a].list /\ act'[a].dirty = {} /\ act'[a].pc \notin InTransaction
    BY <1>0, <1>2 DEF Commits, Pointed, Reloads, Follows, Ends, Fixed, InTransaction
  <2> QED
    BY <2>1, ReachesKept, DestroyLists
<1> QED
  BY <1>1, <1>2

LEMMA ReachesNext ==
  ASSUME Types, Shapes, Keys, AllReach, [Next]_vars PROVE AllReach'
<1>0. /\ Shrinks
      /\ \/ Marks \/ Restarts \/ UNCHANGED <<db, doc, act, suspect>>
         \/ \E a \in Actors : Begins(a) \/ Moves(a)
  BY NextCases, NextShrinks
<1>1. SUFFICES \A b \in Actors : Reaches(b)'
  BY DEF AllReach
<1>2. ASSUME NEW b \in Actors, act'[b] = act[b] \/ act'[b] = Idle PROVE Reaches(b)'
  <2>1. CASE act'[b] = act[b]
    BY <1>0, <2>1, ReachesKept, DestroyLists DEF AllReach
  <2> QED
    BY <1>2, <2>1, IdleReaches
<1>3. ASSUME NEW b \in Actors, NEW disturbed, Disturbs(b, disturbed) PROVE Reaches(b)'
  <2>1. /\ act'[b].todo = act[b].todo /\ act'[b].touch = act[b].touch /\ act'[b].op = act[b].op
        /\ act'[b].list = act[b].list /\ act'[b].dirty = act[b].dirty /\ act'[b].view = act[b].view
        /\ act'[b].at = act[b].at /\ act'[b].pc = act[b].pc
    BY <1>3, DisturbedFields
  <2> QED
    BY <1>0, <2>1, ReachesKept, DestroyLists DEF AllReach
<1>4. CASE Marks
  BY <1>3, <1>4 DEF Marks
<1>5. CASE Restarts \/ UNCHANGED <<db, doc, act, suspect>>
  BY <1>2, <1>5 DEF Restarts
<1>6. ASSUME NEW a \in Actors, Begins(a) PROVE \A b \in Actors : Reaches(b)'
  BY <1>3, <1>6, ReachesBegins DEF Begins
<1>7. ASSUME NEW a \in Actors, Moves(a) PROVE \A b \in Actors : Reaches(b)'
  <2>1. Reaches(a)'
    <3>1. CASE act'[a] = Idle
      BY <1>2, <3>1
    <3>2. ASSUME NEW x \in Changes, Gathered(a, x) \/ (Advanced(a, x) /\ Told(a, x)) PROVE Reaches(a)'
      <4>1. /\ act'[a].todo \subseteq act[a].todo /\ act'[a].touch = act[a].touch /\ act'[a].op = act[a].op
            /\ act'[a].list = act[a].list /\ act'[a].dirty = act[a].dirty /\ act'[a].view = act[a].view
            /\ act'[a].at = act[a].at /\ act[a].pc \in InTransaction
        BY <3>2 DEF Gathered, Advanced, Fixed, InTransaction
      <4> QED
        BY <1>0, <4>1, ReachesKept, DestroyLists DEF AllReach
    <3>3. CASE Opens(a)
      BY <3>3, ReachesOpens DEF AllReach
    <3>4. ASSUME NEW x \in Changes, Changed(a, x) PROVE Reaches(a)'
      BY <3>4, ReachesChanged DEF AllReach
    <3>5. CASE Commits(a) \/ Pointed(a) \/ Writes(a) \/ (\E r \in Resources : Reloads(a, r))
      BY <1>0, <3>5, ReachesCommits DEF AllReach, Writes
    <3> QED
      BY <1>7, <3>1, <3>2, <3>3, <3>4, <3>5 DEF Moves, Raises, Ends, Repeats
  <2> QED
    BY <1>2, <1>7, <2>1, MovesOnly
<1> QED
  BY <1>0, <1>4, <1>5, <1>6, <1>7

LEMMA ReachesInvariant == Spec => [](Types /\ Shapes /\ Keys /\ AllReach)
<1>1. Init => AllReach
  BY DEF Init, AllReach, Reaches, Idle, InTransaction
<1>2. (Types /\ Shapes /\ Keys) /\ AllReach /\ [Next]_vars => AllReach'
  BY ReachesNext
<1> QED
  BY <1>1, <1>2, KeysInvariant, PTL DEF Spec

-----------------------------------------------------------------------------
(***************************************************************************)
(* What Solr says is fresh: an actor that nobody disturbs leaves the right *)
(* document, and what nobody works on stays right.                         *)
(***************************************************************************)
LEMMA TouchKept ==
  ASSUME NEW a \in Actors, Moves(a)
  PROVE  (act'[a].touch = act[a].touch /\ act'[a].op = act[a].op) \/ (act'[a] = Idle /\ act'[a].touch = {})
<1>1. Raises(a) \/ Ends(a) => act'[a] = Idle /\ act'[a].touch = {}
  BY DEF Raises, Ends, Idle
<1>2. ASSUME NEW x, Changed(a, x) \/ Gathered(a, x) \/ Advanced(a, x) PROVE Fixed(a)
  BY <1>2 DEF Changed, Gathered, Advanced
<1>3. Opens(a) \/ Pointed(a) => Fixed(a)
  BY DEF Opens, Pointed
<1>4. ASSUME NEW s, Commits(a) \/ Reloads(a, s) \/ Follows(a, s) PROVE Fixed(a) \/ Ends(a)
  BY <1>4 DEF Commits, Reloads, Follows
<1>5. Fixed(a) => act'[a].touch = act[a].touch /\ act'[a].op = act[a].op
  BY DEF Fixed
<1> QED
  BY <1>1, <1>2, <1>3, <1>4, <1>5 DEF Moves, Writes, Repeats

\* What is suspected no longer an actor has carried out that nobody crossed.
LEMMA Cleared ==
  ASSUME NEW a \in Actors, Moves(a), NEW r \in suspect, r \notin suspect'
  PROVE  Ends(a) /\ ~act[a].crossed /\ r \in act[a].touch
<1>1. Ends(a) \/ suspect \subseteq suspect'
  <2>1. ASSUME NEW x, Changed(a, x) \/ Gathered(a, x) \/ Told(a, x) PROVE suspect \subseteq suspect'
    BY <2>1 DEF Changed, Gathered, Told
  <2>2. Raises(a) \/ Opens(a) \/ Pointed(a) => suspect \subseteq suspect'
    BY DEF Raises, Opens, Pointed
  <2>3. ASSUME NEW s, Commits(a) \/ Reloads(a, s) \/ Follows(a, s) PROVE Ends(a) \/ suspect \subseteq suspect'
    BY <2>3 DEF Commits, Reloads, Follows
  <2> QED
    BY <2>1, <2>2, <2>3 DEF Moves, Writes, Repeats
<1>2. Ends(a)
  BY <1>1
<1>3. suspect' = IF act[a].crossed THEN suspect ELSE suspect \ act[a].touch
  BY <1>2 DEF Ends
<1> QED
  BY <1>2, <1>3

LEMMA CrossedStays ==
  ASSUME Types, Typed, NEW a \in Actors, Moves(a), act[a].crossed
  PROVE  act'[a].crossed \/ act'[a].touch = {}
<1>1. Raises(a) \/ Ends(a) => act'[a].touch = {}
  BY DEF Raises, Ends, Idle
<1>2. ASSUME NEW x, Changed(a, x) \/ Gathered(a, x) \/ Told(a, x) PROVE act'[a].crossed
  BY <1>2 DEF Changed, Gathered, Told
<1>3. Opens(a) \/ Pointed(a) => act'[a].crossed
  BY DEF Opens, Pointed
<1>4. ASSUME NEW s, Commits(a) \/ Reloads(a, s) \/ Follows(a, s) PROVE act'[a].crossed \/ Ends(a)
  BY <1>4 DEF Commits, Reloads, Follows
<1> QED
  BY <1>1, <1>2, <1>3, <1>4 DEF Moves, Writes, Repeats

LEMMA SoleNext == ASSUME Types, Shapes, Sole, [Next]_vars PROVE Sole'
<1>0. /\ Typed
      /\ \/ Marks \/ Restarts \/ UNCHANGED <<db, doc, act, suspect>>
         \/ \E a \in Actors : Begins(a) \/ Moves(a)
  BY NextCases
<1>1. SUFFICES ASSUME NEW a \in Actors, NEW b \in Actors, a # b, NEW r \in act'[a].touch \cap act'[b].touch
               PROVE  act'[a].crossed /\ act'[b].crossed /\ r \in suspect'
  BY DEF Sole
<1>2. Idle.touch = {}
  BY DEF Idle
<1>3. CASE Marks \/ Restarts \/ UNCHANGED <<db, doc, act, suspect>>
  <2>1. \A x \in {a, b} : \/ act'[x] = act[x]
                          \/ act'[x].touch = act[x].touch /\ (act[x].crossed => act'[x].crossed)
    BY <1>1, <1>2, <1>3, DisturbedFields DEF Marks, Restarts
  <2>2. suspect \subseteq suspect'
    BY <1>3 DEF Marks, Restarts
  <2> QED
    BY <1>1, <2>1, <2>2 DEF Sole
<1>4. ASSUME NEW c \in Actors, Begins(c) PROVE act'[a].crossed /\ act'[b].crossed /\ r \in suspect'
  <2>1. \A x \in Actors \ {c} : /\ act'[x].touch = act[x].touch
                                /\ act'[x].crossed = ((act[x].touch \cap act'[c].touch # {}) \/ act[x].crossed)
    BY <1>4, DisturbedFields DEF Begins
  <2>2. \A x \in Actors \ {c} : act[x].touch \cap act'[c].touch # {} =>
          act'[c].crossed /\ act[x].touch \cap act'[c].touch \subseteq suspect'
    BY <1>4 DEF Begins
  <2>3. CASE a # c /\ b # c
    BY <1>1, <1>4, <2>1, <2>3 DEF Sole, Begins
  <2>4. CASE a = c
    BY <1>1, <2>1, <2>2, <2>4
  <2>5. CASE b = c
    BY <1>1, <2>1, <2>2, <2>5
  <2> QED
    BY <2>3, <2>4, <2>5
<1>5. ASSUME NEW c \in Actors, Moves(c) PROVE act'[a].crossed /\ act'[b].crossed /\ r \in suspect'
  <2>1. \A x \in Actors \ {c} : act'[x] = act[x]
    BY <1>5, MovesOnly
  <2>2. \A x \in {a, b} : r \in act[x].touch
    BY <1>1, <1>5, <2>1, TouchKept
  <2>3. act[a].crossed /\ act[b].crossed /\ r \in suspect
    BY <1>1, <2>2 DEF Sole
  <2>4. \A x \in {a, b} : act'[x].crossed
    BY <1>0, <1>1, <1>5, <2>1, <2>3, CrossedStays
  <2>5. r \in suspect'
    <3>1. SUFFICES ASSUME r \notin suspect' PROVE FALSE
      OBVIOUS
    <3>2. ~act[c].crossed /\ r \in act[c].touch
      BY <1>5, <2>3, <3>1, Cleared
    <3> QED
      BY <2>3, <3>2, <1>1, <2>2 DEF Sole
  <2> QED
    BY <2>4, <2>5
<1> QED
  BY <1>0, <1>3, <1>4, <1>5

LEMMA DocumentSame ==
  ASSUME NEW r \in Resources, NEW v, NEW w, \A x \in {r} \cup FilesOf(r) : v[x] = w[x]
  PROVE  Document(r, v) = Document(r, w)
<1>1. {f \in FilesOf(r) : v[f] # None} = {f \in FilesOf(r) : w[f] # None}
  OBVIOUS
<1>2. {<<f, v[f].stamp>> : f \in {f \in FilesOf(r) : v[f] # None}}
        = {<<f, w[f].stamp>> : f \in {f \in FilesOf(r) : w[f] # None}}
  BY <1>1
<1> QED
  BY <1>2 DEF Document

LEMMA FreshKept ==
  ASSUME NEW r \in Resources, NEW v, NEW w, NEW d, NEW e, Fresh(r, v, d), e[r] = d[r],
         \A x \in {r} \cup FilesOf(r) : v[x] = w[x], Active(r, w) => Active(r, v)
  PROVE  Fresh(r, w, e)
<1>1. v[r] = w[r]
  OBVIOUS
<1> QED
  BY <1>1, DocumentSame DEF Fresh

LEMMA OwnRows ==
  ASSUME NEW r \in Resources, NEW x \in {r} \cup FilesOf(r)
  PROVE  x \in Entities \ Collections /\ Under(x) = r
BY ConstantsAssumption DEF Entities, Under, FilesOf

\* Rows and documents of resources that an actor does not work on it leaves alone.
LEMMA Elsewhere ==
  ASSUME Types, Shapes, AllReach, NEW a \in Actors, Moves(a), NEW r \in Resources \ act[a].touch
  PROVE  /\ \A x \in {r} \cup FilesOf(r) : db'[x] = db[x]
         /\ doc'[r] = doc[r]
<1>0. /\ act[a] \in Doings /\ Shape(act[a]) /\ Reaches(a) /\ DOMAIN doc = Resources
      /\ DOMAIN db = Entities /\ act[a].touch \subseteq Resources /\ act[a].pc \in Running
  BY DEF Types, Shapes, AllReach, Views, Moves, Doings
<1>1. \A x \in {r} \cup FilesOf(r) : db'[x] = db[x]
  <2>1. CASE Commits(a)
    <3>1. ASSUME NEW x \in {r} \cup FilesOf(r) PROVE x \notin act[a].dirty /\ x \in Entities
      BY <1>0, OwnRows DEF Reaches
    <3> QED
      BY <2>1, <3>1 DEF Commits, Committed
  <2>2. CASE Pointed(a)
    <3>1. act[a].op \in Saves /\ act[a].touch = {Under(act[a].at)}
      BY <1>0, <2>2 DEF Pointed, Shape, SaveShape, DeleteShape, Doings, InTransaction
    <3>2. \A x \in {r} \cup FilesOf(r) : x # act[a].at
      BY <3>1, OwnRows
    <3> QED
      BY <1>0, <2>2, <3>2, OwnRows DEF Pointed
  <2>3. CASE ~Commits(a) /\ ~Pointed(a)
    BY <2>3 DEF Moves, Raises, Opens, Changed, Gathered, Advanced, Reloads, Writes, Repeats
  <2> QED
    BY <2>1, <2>2, <2>3
<1>2. doc'[r] = doc[r]
  <2>1. ASSUME NEW x \in Changes, Advanced(a, x), Told(a, x) PROVE doc'[r] = doc[r]
    <3>1. x \in act[a].todo
      BY <1>0, <2>1, FirstOf DEF Advanced
    <3>2. x.at \notin Collections => Under(x.at) # r
      BY <1>0, <3>1 DEF Reaches
    <3>3. x.at \in Collections => Under(x.at) # r /\ x.at # r
      BY ConstantsAssumption DEF Under
    <3>4. x.at # r
      BY <3>2, <3>3, OwnRows
    <3>5. doc' \in {doc, [doc EXCEPT ![Under(x.at)] = act[a].seen], [doc EXCEPT ![x.at] = None]}
      BY <2>1 DEF Told
    <3> QED
      BY <1>0, <3>2, <3>3, <3>4, <3>5
  <2>2. CASE Writes(a)
    <3>1. Under(act[a].at) \in act[a].touch
      <4>1. CASE act[a].op = "rake"
        <5>1. act[a].at \in act[a].touch
          BY <1>0, <2>2, <4>1 DEF Writes, Shape
        <5> QED
          BY <1>0, <5>1, OwnRows
      <4>2. CASE act[a].op # "rake"
        BY <1>0, <2>2, <4>2 DEF Writes, Shape, SaveShape, DeleteShape, Doings, InTransaction
      <4> QED
        BY <4>1, <4>2
    <3> QED
      BY <1>0, <2>2, <3>1 DEF Writes
  <2>3. CASE Repeats(a)
    <3>1. act[a].at \in Resources /\ act[a].touch = {Under(act[a].at)}
      BY <1>0, <2>3 DEF Repeats, Shape, DeleteShape, Deletes
    <3>2. act[a].at \in act[a].touch
      BY <3>1, OwnRows
    <3> QED
      BY <1>0, <2>3, <3>2 DEF Repeats
  <2> QED
    BY <2>1, <2>2, <2>3 DEF Moves, Raises, Opens, Changed, Gathered, Commits, Pointed, Reloads
<1> QED
  BY <1>1, <1>2

\* What an actor knows of a resource stays right while nobody touches its rows.
LEMMA RightKept ==
  ASSUME NEW b \in Actors, NEW r \in Resources, Right(b, r),
         \A x \in {r} \cup FilesOf(r) : db'[x] = db[x], doc'[r] = doc[r],
         Active(r, db') => Active(r, db),
         act'[b].op = act[b].op, act'[b].pc = act[b].pc, act'[b].todo = act[b].todo,
         act'[b].view = act[b].view, act'[b].dirty = act[b].dirty, act'[b].seen = act[b].seen,
         act'[b].list = act[b].list, act'[b].at = act[b].at
  PROVE  Right(b, r)'
<1>1. First(act'[b]) = First(act[b])
  BY FirstSame
<1>2. Agrees(b, r) => Agrees(b, r)'
  BY DEF Agrees, FilesOf
<1>3. Fresh(r, db, doc) => Fresh(r, db', doc')
  BY FreshKept
<1>4. Fresh(r, act[b].view, doc) => Fresh(r, act'[b].view, doc')
  BY FreshKept
<1>5. Document(r, db') = Document(r, db) /\ db'[r] = db[r]
  BY DocumentSame
<1>6. Comes(act[b], r) => Comes(act'[b], r)
  BY DEF Comes
<1> QED
  BY <1>1, <1>2, <1>3, <1>4, <1>5, <1>6 DEF Right, Comes, Fresh, Document, Active, Here, FilesOf, Under, First

\* The same after a step, part by part.
LEMMA RightAfter ==
  ASSUME NEW a \in Actors, NEW r \in Resources, NEW q, q = act'[a],
         q.pc \in InTransaction =>
           /\ \A x \in {r} \cup FilesOf(r) : x \notin q.dirty => q.view[x] = db'[x]
           /\ Fresh(r, q.view, doc') \/ (\E x \in q.todo : Under(x.at) = r) \/ (Comes(q, r) /\ db'[r] # None),
         q.pc = "index" => \A x \in First(q) : Under(x.at) = r => q.view[r] # None /\ q.seen = Document(r, q.view),
         q.pc = "open" /\ q.op = "destroy" => Fresh(r, db', doc') \/ (Comes(q, r) /\ db'[r] # None),
         q.pc = "again" => db'[r] = None,
         q.pc = "reindex" /\ Under(q.at) = r => db'[r] # None /\ q.seen = Document(r, db'),
         q.op = "rake" => db'[r] # None /\ (r \in q.list \/ Fresh(r, db', doc'))
  PROVE  Right(a, r)'
BY DEF Right, Agrees, Comes, Fresh, Document, Active, Here, FilesOf, Under, First

LEMMA RightOpens ==
  ASSUME Types, Shapes, NEW a \in Actors, NEW r \in act[a].touch, Right(a, r), Opens(a)
  PROVE  Right(a, r)'
<1>0. /\ act[a] \in Doings /\ Shape(act[a]) /\ r \in Resources /\ UNCHANGED <<db, doc>>
      /\ act[a].pc = "open" /\ act[a].op \in Saves \cup Deletes
  BY DEF Types, Shapes, Opens, Doings, Shape
<1> SUFFICES ASSUME NEW q, q = act'[a] PROVE Right(a, r)'
  OBVIOUS
<1>1. /\ q.pc = "change" /\ q.view = db /\ q.op = act[a].op /\ q.list = act[a].list
      /\ \/ act[a].todo # {} /\ q.todo = act[a].todo /\ q.at = act[a].at
         \/ /\ act[a].todo = {} /\ q.todo = Drop(q.at, db) /\ q.todo # {}
            /\ q.at \in IF act[a].op = "destroy" THEN act[a].list ELSE {act[a].at}
  BY DEF Opens, Fixed
<1>2. Fresh(r, db, doc) \/ (\E x \in q.todo : Under(x.at) = r) \/ (Comes(q, r) /\ db[r] # None)
  <2>1. CASE act[a].op \in Saves
    <3>1. SaveShape(act[a])
      BY <1>0, <2>1 DEF Shape
    <3>2. act[a].todo # {} /\ \A x \in act[a].todo : Under(x.at) = r
      BY <1>0, <3>1 DEF SaveShape
    <3> QED
      BY <1>1, <3>2
  <2>2. CASE act[a].op \in Deletes \ {"destroy"}
    <3>1. /\ act[a].todo = {} /\ q.at = act[a].at /\ q.todo = Drop(q.at, db) /\ q.todo # {}
          /\ q.at \in Resources \cup Files /\ Under(q.at) = r
      BY <1>0, <1>1, <2>2 DEF Shape, DeleteShape
    <3>2. \A x \in q.todo : x.at \in Within(q.at)
      BY <3>1 DEF Drop, Do
    <3>3. \A e \in Within(q.at) : Under(e) = Under(q.at)
      BY <3>1, ConstantsAssumption DEF Within, Under
    <3> QED
      BY <3>1, <3>2, <3>3
  <2>3. CASE act[a].op = "destroy"
    <3>1. act[a].todo = {} /\ q.at \in act[a].list /\ q.todo = Drop(q.at, db)
      BY <1>0, <1>1, <2>3 DEF Shape, DeleteShape, Deletes
    <3>2. Fresh(r, db, doc) \/ (Home[r] \in act[a].list /\ db[r] # None)
      BY <1>0, <2>3 DEF Right, Comes
    <3>3. CASE Home[r] # q.at
      BY <1>1, <2>3, <3>2, <3>3 DEF Comes
    <3>4. CASE Home[r] = q.at /\ db[r] # None
      <4>1. Do("drop", r) \in q.todo /\ Do("drop", r).at = r
        BY <1>0, <3>1, <3>4 DEF Drop, Within, Do
      <4> QED
        BY <1>0, <4>1, OwnRows
    <3> QED
      BY <3>2, <3>3, <3>4
  <2> QED
    BY <1>0, <2>1, <2>2, <2>3
<1> QED
  BY <1>0, <1>1, <1>2, RightAfter DEF Shape

LEMMA RightChanged ==
  ASSUME Types, Shapes, NEW a \in Actors, NEW x \in Changes, NEW r \in Resources, Right(a, r), Changed(a, x)
  PROVE  Right(a, r)'
<1>0. /\ act[a] \in Doings /\ Shape(act[a]) /\ UNCHANGED <<db, doc>> /\ act[a].view \in Views
      /\ act[a].pc \in InTransaction /\ act[a].pc = "change" /\ x \in act[a].todo /\ x.at \in Entities
      /\ act[a].op \in Saves \cup Deletes
  BY FirstOf DEF Types, Shapes, Changed, InTransaction, Doings, Shape, Changes
<1> DEFINE w == IF There(a, x.at) THEN NewVersion(a, x) ELSE None
<1> SUFFICES ASSUME NEW q, q = act'[a] PROVE Right(a, r)'
  OBVIOUS
<1>1. /\ q.pc = "fetch" /\ q.op = act[a].op /\ q.list = act[a].list /\ q.todo = act[a].todo /\ q.at = act[a].at
      /\ q.view = [act[a].view EXCEPT ![x.at] = w]
      /\ q.dirty = IF There(a, x.at) THEN act[a].dirty \cup {x.at} ELSE act[a].dirty
  BY DEF Changed, Fixed
<1>2. q.view[x.at] = w /\ \A e \in Entities \ {x.at} : q.view[e] = act[a].view[e]
  BY <1>0, <1>1 DEF Views
<1>3. x.at \in Collections => w = None
  <2>1. x.at \in Collections => act[a].op \in Deletes
    BY <1>0, ConstantsAssumption DEF Shape, SaveShape
  <2>2. x.at \in Collections => x.do = "drop"
    BY <1>0, <2>1, ConstantsAssumption DEF Shape, DeleteShape
  <2> QED
    BY <1>0, <2>2, NewVersionType
<1> HIDE DEF w
<1>4. Agrees(a, r)
  BY <1>0 DEF Right
<1>5. \A y \in {r} \cup FilesOf(r) : y \notin q.dirty => q.view[y] = db[y]
  <2>1. ASSUME NEW y \in {r} \cup FilesOf(r), y \notin q.dirty, y = x.at PROVE q.view[y] = db[y]
    <3>1. ~There(a, x.at) /\ x.at \notin act[a].dirty
      BY <1>1, <2>1
    <3>2. w = None /\ db[x.at] = None
      BY <3>1 DEF There, Row, w
    <3> QED
      BY <1>2, <2>1, <3>2
  <2>2. ASSUME NEW y \in {r} \cup FilesOf(r), y \notin q.dirty, y # x.at PROVE q.view[y] = db[y]
    <3>1. y \notin act[a].dirty /\ y \in Entities
      BY <1>1, <2>2, OwnRows
    <3> QED
      BY <1>2, <1>4, <2>2, <3>1 DEF Agrees
  <2> QED
    BY <2>1, <2>2
<1>6. Fresh(r, q.view, doc) \/ (\E y \in q.todo : Under(y.at) = r) \/ (Comes(q, r) /\ db[r] # None)
  <2>1. CASE Under(x.at) = r
    BY <1>0, <1>1, <2>1
  <2>2. CASE \E y \in act[a].todo : Under(y.at) = r
    BY <1>1, <2>2
  <2>3. CASE Comes(act[a], r) /\ db[r] # None
    BY <1>0, <1>1, <2>3 DEF Comes, InTransaction
  <2>4. CASE Under(x.at) # r /\ Fresh(r, act[a].view, doc)
    <3>1. \A y \in {r} \cup FilesOf(r) : q.view[y] = act[a].view[y]
      BY <1>2, <2>4, OwnRows
    <3>2. Active(r, q.view) => Active(r, act[a].view)
      <4>1. Home[r] \in Collections /\ Home[r] \in Entities
        BY ConstantsAssumption DEF Entities
      <4> QED
        BY <1>2, <1>3, <4>1 DEF Active, Here
    <3> QED
      BY <2>4, <3>1, <3>2, FreshKept
  <2> QED
    BY <1>0, <2>1, <2>2, <2>3, <2>4 DEF Right
<1>7. q.op # "rake"
  BY <1>0, <1>1 DEF Saves, Deletes
<1> QED
  BY <1>0, <1>1, <1>5, <1>6, <1>7, RightAfter DEF InTransaction

LEMMA RightGathered ==
  ASSUME Types, Shapes, NEW a \in Actors, NEW x \in Changes, NEW r \in Resources, Right(a, r), Gathered(a, x)
  PROVE  Right(a, r)'
<1>0. /\ act[a] \in Doings /\ Shape(act[a]) /\ UNCHANGED <<db, doc>>
      /\ act[a].pc \in InTransaction /\ act[a].pc = "fetch" /\ x \in First(act[a])
      /\ act[a].op \in Saves \cup Deletes
  BY DEF Types, Shapes, Gathered, InTransaction, Doings, Shape
<1> SUFFICES ASSUME NEW q, q = act'[a] PROVE Right(a, r)'
  OBVIOUS
<1>1. /\ q.pc \in {"remove", "index"} /\ q.op = act[a].op /\ q.list = act[a].list /\ q.todo = act[a].todo
      /\ q.at = act[a].at /\ q.view = act[a].view /\ q.dirty = act[a].dirty
      /\ q.pc = "index" => q.seen = Document(Under(x.at), q.view) /\ q.view[Under(x.at)] # None
  BY DEF Gathered, Fixed
<1>2. First(q) = First(act[a])
  BY <1>1, FirstSame
<1>3. \A y \in First(q) : y.at = x.at
  BY <1>0, <1>2, FirstAlike
<1>4. Comes(q, r) <=> Comes(act[a], r)
  BY <1>0, <1>1 DEF Comes, InTransaction
<1>5. q.op # "rake"
  BY <1>0, <1>1 DEF Saves, Deletes
<1>6. /\ Agrees(a, r)
      /\ Fresh(r, act[a].view, doc) \/ (\E y \in act[a].todo : Under(y.at) = r)
           \/ (Comes(act[a], r) /\ db[r] # None)
  BY <1>0 DEF Right
<1> QED
  BY <1>0, <1>1, <1>3, <1>4, <1>5, <1>6, RightAfter DEF Agrees, InTransaction

LEMMA RightAdvanced ==
  ASSUME Types, Shapes, AllReach, NEW a \in Actors, NEW x \in Changes, NEW r \in act[a].touch, Right(a, r),
         Advanced(a, x), Told(a, x), ~act'[a].crossed \/ r \notin suspect'
  PROVE  Right(a, r)'
<1>0. /\ act[a] \in Doings /\ Shape(act[a]) /\ UNCHANGED db /\ r \in Resources /\ DOMAIN doc = Resources
      /\ act[a].pc \in InTransaction /\ act[a].pc \in {"fetch", "index", "remove"} /\ x \in First(act[a])
      /\ act[a].op \in Saves \cup Deletes
  BY DEF Types, Shapes, Advanced, InTransaction, Doings, Shape
<1> SUFFICES ASSUME NEW q, q = act'[a] PROVE Right(a, r)'
  OBVIOUS
<1>1. /\ q.pc \in {"commit", "change"} /\ q.op = act[a].op /\ q.list = act[a].list
      /\ q.todo = act[a].todo \ {x} /\ q.at = act[a].at /\ q.view = act[a].view /\ q.dirty = act[a].dirty
  BY DEF Advanced, Fixed
<1>2. Comes(q, r) <=> Comes(act[a], r)
  BY <1>0, <1>1 DEF Comes, InTransaction
<1>3. q.op # "rake"
  BY <1>0, <1>1 DEF Saves, Deletes
<1>4. /\ Agrees(a, r)
      /\ Fresh(r, act[a].view, doc) \/ (\E y \in act[a].todo : Under(y.at) = r)
           \/ (Comes(act[a], r) /\ db[r] # None)
  BY <1>0 DEF Right
<1>5. Fresh(r, q.view, doc') \/ (\E y \in q.todo : Under(y.at) = r) \/ (Comes(q, r) /\ db[r] # None)
  <2>1. CASE Under(x.at) # r
    <3>1. x.at # r
      BY <1>0, <2>1, OwnRows
    <3>2. doc'[r] = doc[r]
      <4>1. doc' \in {doc, [doc EXCEPT ![Under(x.at)] = act[a].seen], [doc EXCEPT ![x.at] = None]}
        BY DEF Told
      <4> QED
        BY <1>0, <2>1, <3>1, <4>1
    <3>3. Fresh(r, act[a].view, doc) => Fresh(r, q.view, doc')
      BY <1>0, <1>1, <3>2, FreshKept
    <3> QED
      BY <1>1, <1>2, <1>4, <2>1, <3>3
  <2>2. CASE Under(x.at) = r
    <3>0. x.at \notin Collections
      BY <1>0, <2>2, ConstantsAssumption DEF Under
    <3>1. CASE act[a].pc = "fetch"
      <4>1. act[a].view[r] # None /\ ~Active(r, act[a].view)
        BY <2>2, <3>0, <3>1 DEF Told
      <4> QED
        BY <1>1, <4>1 DEF Fresh
    <3>2. CASE act[a].pc = "index"
      <4>1. doc' = [doc EXCEPT ![r] = act[a].seen]
        BY <1>0, <2>2, <3>2 DEF Told
      <4>2. act[a].view[r] # None /\ act[a].seen = Document(r, act[a].view)
        BY <1>0, <2>2, <3>2 DEF Right
      <4> QED
        BY <1>0, <1>1, <4>1, <4>2 DEF Fresh
    <3>3. CASE act[a].pc = "remove"
      <4>1. x.do = "drop" /\ x.at \in Resources /\ x \in act[a].todo
        BY <1>0, <3>3, FirstOf DEF Shape
      <4>2. x.at = r
        BY <2>2, <4>1, OwnRows
      <4>3. act[a].op \in Deletes
        BY <1>0, <4>1 DEF Shape, SaveShape
      <4>4. act[a].view[r] = None
        BY <1>0, <3>3, <4>1, <4>2, <4>3 DEF Shape, DeleteShape
      <4>5. doc'[r] = None
        BY <1>0, <3>3, <4>2 DEF Told
      <4> QED
        BY <1>1, <4>4, <4>5 DEF Fresh
    <3> QED
      BY <1>0, <3>1, <3>2, <3>3
  <2> QED
    BY <2>1, <2>2
<1> QED
  BY <1>0, <1>1, <1>3, <1>4, <1>5, RightAfter DEF Agrees, InTransaction

\* What a transaction has written it commits; what it has not written is as it saw it.
LEMMA CommittedRows ==
  ASSUME Types, NEW a \in Actors, NEW r \in Resources, Agrees(a, r), Commits(a)
  PROVE  \A x \in {r} \cup FilesOf(r) : db'[x] = act[a].view[x]
<1>1. \A x \in {r} \cup FilesOf(r) : x \in Entities
  BY OwnRows
<1> QED
  BY <1>1 DEF Commits, Committed, Agrees

LEMMA CommittedFresh ==
  ASSUME Types, AllReach, NEW a \in Actors, NEW r \in Resources, Agrees(a, r), Commits(a),
         Fresh(r, act[a].view, doc)
  PROVE  Fresh(r, db', doc')
<1>1. \A x \in {r} \cup FilesOf(r) : act[a].view[x] = db'[x]
  BY CommittedRows
<1>2. Active(r, db') => Active(r, act[a].view)
  <2>1. Home[r] \in Collections /\ Home[r] \in Entities
    BY ConstantsAssumption DEF Entities
  <2>2. act[a].pc \in InTransaction
    BY DEF Commits, InTransaction
  <2>3. db'[Home[r]] = IF Home[r] \in act[a].dirty THEN act[a].view[Home[r]] ELSE db[Home[r]]
    BY <2>1 DEF Commits, Committed
  <2>4. Home[r] \notin act[a].dirty /\ Here(Home[r], db) => Here(Home[r], act[a].view)
    BY <2>1, <2>2 DEF AllReach, Reaches
  <2> QED
    BY <2>3, <2>4 DEF Active, Here
<1>3. doc'[r] = doc[r]
  BY DEF Commits
<1> QED
  BY <1>1, <1>2, <1>3, FreshKept

LEMMA RightCommits ==
  ASSUME Types, Shapes, AllReach, NEW a \in Actors, NEW r \in act[a].touch, Right(a, r), Commits(a)
  PROVE  /\ act'[a] # Idle => Right(a, r)'
         /\ act'[a] = Idle => Fresh(r, db', doc')
<1>0. /\ act[a] \in Doings /\ Shape(act[a]) /\ UNCHANGED doc /\ r \in Resources
      /\ act[a].pc \in InTransaction /\ act[a].pc = "commit" /\ act[a].todo = {}
      /\ act[a].op \in Saves \cup Deletes
  BY DEF Types, Shapes, Commits, InTransaction, Doings, Shape
<1>1. /\ Agrees(a, r)
      /\ Fresh(r, act[a].view, doc) \/ (Comes(act[a], r) /\ db[r] # None)
  BY <1>0 DEF Right
<1>2. Fresh(r, act[a].view, doc) => Fresh(r, db', doc')
  BY <1>0, <1>1, CommittedFresh
<1>3. ASSUME Comes(act[a], r), db[r] # None PROVE db'[r] # None
  <2>1. act[a].at \in Collections /\ Home[r] # act[a].at /\ act[a].dirty \subseteq Within(act[a].at)
    BY <1>0, <1>3 DEF Comes, Shape, DeleteShape, Deletes, Doings
  <2>2. r \notin Within(act[a].at)
    BY <1>0, <2>1, ConstantsAssumption DEF Within
  <2>3. r \notin act[a].dirty /\ r \in Entities
    BY <1>0, <2>1, <2>2 DEF Entities
  <2> QED
    BY <1>3, <2>3 DEF Commits, Committed
<1>4. ASSUME act'[a] = Idle PROVE Fresh(r, db', doc')
  <2>1. \/ act[a].op \in {"saveFile", "addFile", "lock", "strip", "deleteFile", "deleteResource"}
        \/ act[a].op = "destroy" /\ act[a].list = {act[a].at}
    BY <1>4 DEF Commits, Idle
  <2>2. ~Comes(act[a], r)
    BY <1>0, <2>1 DEF Comes
  <2> QED
    BY <1>1, <1>2, <2>2
<1>5. ASSUME act'[a] # Idle PROVE Right(a, r)'
  <2> SUFFICES ASSUME NEW q, q = act'[a] PROVE Right(a, r)'
    OBVIOUS
  <2>1. /\ q.op = act[a].op /\ q.at = act[a].at
        /\ \/ q.op = "destroy" /\ q.pc = "open" /\ q.list = act[a].list \ {act[a].at}
           \/ q.op \in {"upload", "saveResource"} /\ q.pc \in {"points", "reload"}
           \/ q.op = "deleteResource" /\ q.pc = "again"
    BY <1>5 DEF Commits, Ends, Fixed
  <2>2. q.op = "destroy" => Fresh(r, db', doc') \/ (Comes(q, r) /\ db'[r] # None)
    BY <1>0, <1>1, <1>2, <1>3, <2>1 DEF Comes, InTransaction
  <2>3. q.op = "deleteResource" => db'[r] = None
    <3>1. SUFFICES ASSUME q.op = "deleteResource" PROVE db'[r] = None
      OBVIOUS
    <3>2. act[a].at = r /\ act[a].view[r] = None
      <4>1. /\ act[a].at \in Resources /\ act[a].touch = {Under(act[a].at)}
            /\ act[a].view[act[a].at] = None
        BY <1>0, <2>1, <3>1 DEF Shape, DeleteShape, Deletes
      <4> QED
        BY <4>1, OwnRows
    <3> QED
      BY <1>0, <1>1, <3>2, CommittedRows
  <2> QED
    BY <1>0, <2>1, <2>2, <2>3, RightAfter DEF InTransaction
<1> QED
  BY <1>4, <1>5

\* The rake task goes through its list, a request through its one resource.
LEMMA RightFollows ==
  ASSUME Types, Shapes, NEW a \in Actors, NEW r \in act[a].touch, NEW s,
         act[a].pc \in {"reload", "reindex"}, Next1(a, s), Follows(a, s),
         act[a].op = "rake" => db'[r] # None /\ (r \in act[a].list \/ Fresh(r, db', doc')),
         s = r => Fresh(r, db', doc')
  PROVE  /\ act'[a] # Idle => Right(a, r)'
         /\ act'[a] = Idle => Fresh(r, db', doc')
<1>0. act[a] \in Doings /\ Shape(act[a]) /\ r \in Resources
  BY DEF Types, Shapes, Doings
<1>1. act[a].op # "rake" => s = r /\ act[a].list = {}
  <2>1. act[a].op # "rake" => act[a].op \in Saves
    BY <1>0 DEF Shape, DeleteShape, Doings, InTransaction
  <2> QED
    BY <1>0, <2>1 DEF Shape, SaveShape, Next1
<1>2. ASSUME act'[a] = Idle PROVE Fresh(r, db', doc')
  <2>1. act[a].list \subseteq {s}
    BY <1>2 DEF Follows, Idle
  <2> QED
    BY <1>1, <2>1
<1>3. ASSUME act'[a] # Idle PROVE Right(a, r)'
  <2> SUFFICES ASSUME NEW q, q = act'[a] PROVE Right(a, r)'
    OBVIOUS
  <2>1. q.pc = "reload" /\ q.op = act[a].op /\ q.list = act[a].list \ {s} /\ q.list # {}
    BY <1>3 DEF Follows, Ends, Fixed
  <2>2. q.op = "rake" => db'[r] # None /\ (r \in q.list \/ Fresh(r, db', doc'))
    BY <2>1
  <2> QED
    BY <1>0, <2>1, <2>2, RightAfter DEF InTransaction
<1> QED
  BY <1>2, <1>3

LEMMA RightReloads ==
  ASSUME Types, Shapes, NEW a \in Actors, NEW r \in act[a].touch, NEW s \in Resources, Right(a, r),
         Reloads(a, s)
  PROVE  /\ act'[a] # Idle => Right(a, r)'
         /\ act'[a] = Idle => Fresh(r, db', doc')
<1>0. /\ act[a] \in Doings /\ Shape(act[a]) /\ r \in Resources /\ UNCHANGED <<db, doc>>
      /\ act[a].pc = "reload" /\ Next1(a, s)
      /\ act[a].op = "rake" => db[r] # None /\ (r \in act[a].list \/ Fresh(r, db, doc))
  BY DEF Types, Shapes, Doings, Reloads, Right
<1>1. CASE (IF db[s] = None THEN act[a].op = "rake" ELSE ~Active(s, db)) /\ Follows(a, s)
  <2>1. s = r => Fresh(r, db, doc)
    BY <1>0, <1>1 DEF Fresh
  <2> QED
    BY <1>0, <1>1, <2>1, RightFollows
<1>2. CASE /\ db[s] # None /\ Fixed(a) /\ act'[a].pc = "reindex" /\ act'[a].at = s
           /\ act'[a].list = act[a].list /\ act'[a].seen = Document(s, db)
  <2> SUFFICES ASSUME NEW q, q = act'[a] PROVE Right(a, r)' /\ q # Idle
    OBVIOUS
  <2>1. /\ q.pc = "reindex" /\ q.at = s /\ q.op = act[a].op /\ q.list = act[a].list
        /\ q.seen = Document(s, db)
    BY <1>2 DEF Fixed
  <2>2. Under(s) = s
    BY OwnRows
  <2>3. q # Idle
    BY <2>1 DEF Idle
  <2> QED
    BY <1>0, <1>2, <2>1, <2>2, <2>3, RightAfter DEF InTransaction
<1> QED
  BY <1>1, <1>2 DEF Reloads

LEMMA RightWrites ==
  ASSUME Types, Shapes, NEW a \in Actors, NEW r \in act[a].touch, Right(a, r), Writes(a)
  PROVE  /\ act'[a] # Idle => Right(a, r)'
         /\ act'[a] = Idle => Fresh(r, db', doc')
<1> DEFINE s == Under(act[a].at)
<1>0. /\ act[a] \in Doings /\ Shape(act[a]) /\ r \in Resources /\ UNCHANGED db /\ DOMAIN doc = Resources
      /\ act[a].pc = "reindex" /\ doc' = [doc EXCEPT ![s] = act[a].seen] /\ Follows(a, s)
      /\ act[a].op = "rake" => db[r] # None /\ (r \in act[a].list \/ Fresh(r, db, doc))
      /\ s = r => db[r] # None /\ act[a].seen = Document(r, db)
  BY DEF Types, Shapes, Doings, Writes, Right
<1>1. Next1(a, s)
  <2>1. CASE act[a].op = "rake"
    <3>1. act[a].at \in act[a].list /\ act[a].at \in Resources
      BY <1>0, <2>1 DEF Shape, Doings
    <3> QED
      BY <2>1, <3>1, OwnRows DEF Next1
  <2> QED
    BY <2>1 DEF Next1
<1> HIDE DEF s
<1>2. s = r => Fresh(r, db', doc')
  BY <1>0 DEF Fresh
<1>3. r \in Resources
  BY <1>0
<1>4. ASSUME s # r, Fresh(r, db, doc) PROVE Fresh(r, db', doc')
  <2>1. doc'[r] = doc[r] /\ \A x \in {r} \cup FilesOf(r) : db[x] = db'[x]
    BY <1>0, <1>4
  <2>2. Active(r, db') => Active(r, db)
    BY <1>0
  <2> QED
    BY <1>4, <1>3, <2>1, <2>2, FreshKept
<1>5. act[a].op = "rake" => db'[r] # None /\ (r \in act[a].list \/ Fresh(r, db', doc'))
  BY <1>0, <1>2, <1>4
<1>6. act[a].pc \in {"reload", "reindex"} /\ Follows(a, s)
  BY <1>0
<1> QED
  BY <1>1, <1>2, <1>5, <1>6, RightFollows

LEMMA RightRepeats ==
  ASSUME Types, Shapes, NEW a \in Actors, NEW r \in act[a].touch, Right(a, r), Repeats(a)
  PROVE  Fresh(r, db', doc')
<1>0. act[a] \in Doings /\ Shape(act[a]) /\ act[a].pc = "again" /\ UNCHANGED db /\ db[r] = None /\ r \in Resources
  BY DEF Types, Shapes, Repeats, Right, Doings
<1>1. act[a].at \in Resources /\ act[a].touch = {Under(act[a].at)}
  BY <1>0 DEF Shape, DeleteShape, Deletes
<1>2. act[a].at = r
  BY <1>1, OwnRows
<1> QED
  BY <1>0, <1>2 DEF Repeats, Types, Fresh

LEMMA RightBegins ==
  ASSUME NEW a \in Actors, Begins(a), NEW r \in Resources, r \in act'[a].touch
  PROVE  Right(a, r)'
<1> SUFFICES ASSUME NEW q, q = act'[a] PROVE Right(a, r)'
  OBVIOUS
<1>0. Starts(q) /\ UNCHANGED <<db, doc>> /\ r \in q.touch
  BY DEF Begins
<1>1. /\ q.pc \in {"open", "reload"}
      /\ q.op = "rake" => db[r] # None /\ r \in q.list
      /\ q.pc = "open" /\ q.op = "destroy" => Home[r] \in q.list /\ db[r] # None
  BY <1>0 DEF Starts, Saves
<1> QED
  BY <1>0, <1>1, RightAfter DEF InTransaction, Comes

LEMMA RightMoves ==
  ASSUME Types, Shapes, AllReach, NEW a \in Actors, NEW r \in act[a].touch, Right(a, r), Moves(a)
  PROVE  /\ act'[a].touch # {} /\ (~act'[a].crossed \/ r \notin suspect') => Right(a, r)'
         /\ act'[a] = Idle /\ r \notin suspect' => Fresh(r, db', doc')
<1>0. Idle.touch = {} /\ Idle.pc = "idle" /\ r \in Resources /\ Shape(act[a])
  BY DEF Idle, Types, Doings, Shapes
<1>1. CASE Raises(a)
  BY <1>0, <1>1 DEF Raises
<1>2. CASE Opens(a)
  <2>1. act'[a] # Idle
    BY <1>0, <1>2 DEF Opens
  <2> QED
    BY <1>2, <2>1, RightOpens
<1>3. ASSUME NEW x \in Changes, Changed(a, x) \/ Gathered(a, x) \/ (Advanced(a, x) /\ Told(a, x))
      PROVE  act'[a] # Idle /\ (~act'[a].crossed \/ r \notin suspect' => Right(a, r)')
  <2>1. act'[a] # Idle
    BY <1>0, <1>3 DEF Changed, Gathered, Advanced
  <2> QED
    BY <1>0, <1>3, <2>1, RightChanged, RightGathered, RightAdvanced
<1>4. CASE Commits(a)
  BY <1>0, <1>4, RightCommits
<1>5. CASE Pointed(a)
  <2> SUFFICES ASSUME NEW q, q = act'[a] PROVE Right(a, r)' /\ q # Idle
    OBVIOUS
  <2>1. q.pc = "reload" /\ q.op = act[a].op /\ act[a].pc = "points"
    BY <1>5 DEF Pointed, Fixed
  <2>2. q.op # "rake"
    BY <1>0, <2>1 DEF Shape
  <2> QED
    BY <1>0, <2>1, <2>2, RightAfter DEF InTransaction
<1>6. ASSUME NEW s \in Resources, Reloads(a, s)
      PROVE  (act'[a] # Idle => Right(a, r)') /\ (act'[a] = Idle => Fresh(r, db', doc'))
  BY <1>6, RightReloads
<1>7. CASE act[a].pc = "reload" /\ act[a].op = "rake" /\ act[a].list = {} /\ Ends(a) /\ UNCHANGED <<db, doc>>
  <2>1. Fresh(r, db, doc)
    BY <1>7 DEF Right
  <2> QED
    BY <1>0, <1>7, <2>1 DEF Ends
<1>8. CASE Writes(a)
  BY <1>0, <1>8, RightWrites
<1>9. CASE Repeats(a)
  BY <1>0, <1>9, RightRepeats DEF Repeats, Ends
<1> QED
  BY <1>0, <1>1, <1>2, <1>3, <1>4, <1>5, <1>6, <1>7, <1>8, <1>9 DEF Moves

\* Who answers for a resource has answered for it before, or begins.
LEMMA Answered ==
  ASSUME Types, Typed, Sole, NEW a \in Actors, Moves(a), NEW b \in Actors, NEW r \in act'[b].touch,
         ~act'[b].crossed \/ r \notin suspect'
  PROVE  Answers(b, r)
<1>1. r \in act[b].touch
  BY MovesOnly, TouchKept
<1>2. act[b].crossed => act'[b].crossed
  BY MovesOnly, CrossedStays
<1>3. SUFFICES ASSUME act'[b].crossed, r \notin suspect', act[b].crossed, r \in suspect PROVE FALSE
  BY <1>1, <1>2 DEF Answers
<1>4. Ends(a) /\ ~act[a].crossed /\ r \in act[a].touch
  BY <1>3, Cleared
<1>5. a # b
  BY <1>4 DEF Ends, Idle
<1> QED
  BY <1>1, <1>4, <1>5 DEF Sole

LEMMA HereShrinks ==
  ASSUME Shrinks, NEW r \in Resources
  PROVE  Active(r, db') => Active(r, db)
BY ConstantsAssumption DEF Shrinks, Active

\* Steps that are no actor's own change no rows but those of collections.
LEMMA Aside ==
  ASSUME Types, NEW r \in Resources,
         Marks \/ Restarts \/ UNCHANGED <<db, doc, act, suspect>> \/ \E a \in Actors : Begins(a)
  PROVE  (\A x \in {r} \cup FilesOf(r) : db'[x] = db[x]) /\ doc'[r] = doc[r] /\ suspect \subseteq suspect'
<1>1. CASE Marks
  <2>1. PICK cs \in SUBSET Collections :
          /\ db' = [e \in Entities |-> IF e \in cs THEN [db[e] EXCEPT !.deleted = TRUE] ELSE db[e]]
          /\ suspect \subseteq suspect' /\ UNCHANGED doc
    BY <1>1 DEF Marks
  <2>2. \A x \in {r} \cup FilesOf(r) : x \in Entities \ Collections
    BY OwnRows
  <2> QED
    BY <2>1, <2>2
<1> QED
  BY <1>1 DEF Restarts, Begins

LEMMA MendingNext ==
  ASSUME Types, Shapes, Keys, AllReach, Mending, [Next]_vars PROVE Mending'
<1>0. /\ Typed
      /\ \/ Marks \/ Restarts \/ UNCHANGED <<db, doc, act, suspect>>
         \/ \E a \in Actors : Begins(a) \/ Moves(a)
  BY NextCases
<1>1. Sole /\ Sole' /\ Shrinks
  BY SoleNext, NextShrinks DEF Mending
<1>2. SUFFICES ASSUME NEW b \in Actors, NEW r \in Resources, r \in act'[b].touch,
                      ~act'[b].crossed \/ r \notin suspect'
               PROVE  Right(b, r)'
  BY <1>1 DEF Mending, Answers
<1>3. Active(r, db') => Active(r, db)
  BY <1>1, HereShrinks
<1>4. ASSUME NEW disturbed, Disturbs(b, disturbed), \A x \in {r} \cup FilesOf(r) : db'[x] = db[x],
             doc'[r] = doc[r], suspect \subseteq suspect'
      PROVE  Right(b, r)'
  <2>1. /\ act'[b].op = act[b].op /\ act'[b].pc = act[b].pc /\ act'[b].todo = act[b].todo
        /\ act'[b].view = act[b].view /\ act'[b].dirty = act[b].dirty /\ act'[b].seen = act[b].seen
        /\ act'[b].list = act[b].list /\ act'[b].at = act[b].at /\ act'[b].touch = act[b].touch
        /\ act[b].crossed => act'[b].crossed
    BY <1>4, DisturbedFields
  <2>2. Answers(b, r)
    BY <1>2, <1>4, <2>1 DEF Answers
  <2>3. Right(b, r)
    BY <2>2 DEF Mending
  <2> QED
    BY <1>3, <1>4, <2>1, <2>3, RightKept
<1>5. CASE Marks \/ Restarts \/ UNCHANGED <<db, doc, act, suspect>>
  <2>1. (\A x \in {r} \cup FilesOf(r) : db'[x] = db[x]) /\ doc'[r] = doc[r] /\ suspect \subseteq suspect'
    BY <1>5, Aside
  <2>2. CASE Marks
    BY <1>4, <2>1, <2>2 DEF Marks
  <2>3. CASE Restarts \/ UNCHANGED <<db, doc, act, suspect>>
    <3>1. act'[b] # Idle
      BY <1>2 DEF Idle
    <3>2. Disturbs(b, FALSE)
      BY <2>3, <3>1 DEF Restarts, Disturbs
    <3> QED
      BY <1>4, <2>1, <3>2
  <2> QED
    BY <1>5, <2>2, <2>3
<1>6. ASSUME NEW a \in Actors, Begins(a) PROVE Right(b, r)'
  <2>1. CASE b = a
    BY <1>2, <1>6, <2>1, RightBegins
  <2>2. CASE b # a
    <3>1. (\A x \in {r} \cup FilesOf(r) : db'[x] = db[x]) /\ doc'[r] = doc[r] /\ suspect \subseteq suspect'
      BY <1>6, Aside
    <3> QED
      BY <1>4, <1>6, <2>2, <3>1 DEF Begins
  <2> QED
    BY <2>1, <2>2
<1>7. ASSUME NEW a \in Actors, Moves(a) PROVE Right(b, r)'
  <2>1. Answers(b, r) /\ Right(b, r)
    BY <1>0, <1>1, <1>2, <1>7, Answered DEF Mending
  <2>2. CASE b = a
    BY <1>2, <1>7, <2>1, <2>2, RightMoves DEF Answers
  <2>3. CASE b # a
    <3>1. act'[b] = act[b]
      BY <1>7, <2>3, MovesOnly
    <3>2. r \notin act[a].touch
      BY <1>1, <2>1, <2>3 DEF Sole, Answers
    <3>3. (\A x \in {r} \cup FilesOf(r) : db'[x] = db[x]) /\ doc'[r] = doc[r]
      BY <1>7, <3>2, Elsewhere
    <3> QED
      BY <1>3, <2>1, <3>1, <3>3, RightKept
  <2> QED
    BY <2>2, <2>3
<1> QED
  BY <1>0, <1>5, <1>6, <1>7

LEMMA RestingNext ==
  ASSUME Types, Shapes, Keys, AllReach, Mending, Resting, [Next]_vars PROVE Resting'
<1>0. \/ Marks \/ Restarts \/ UNCHANGED <<db, doc, act, suspect>>
      \/ \E a \in Actors : Begins(a) \/ Moves(a)
  BY NextCases
<1>1. Sole /\ Shrinks
  BY NextShrinks DEF Mending
<1>2. SUFFICES ASSUME NEW r \in Resources \ suspect', \A b \in Actors : r \notin act'[b].touch
               PROVE  Fresh(r, db', doc')
  BY DEF Resting, Fresh, Active, Here, Document, FilesOf
<1>3. Active(r, db') => Active(r, db)
  BY <1>1, HereShrinks
<1>4. ASSUME r \notin suspect, \A b \in Actors : r \notin act[b].touch,
             \A x \in {r} \cup FilesOf(r) : db'[x] = db[x], doc'[r] = doc[r]
      PROVE  Fresh(r, db', doc')
  <2>1. Fresh(r, db, doc)
    BY <1>2, <1>4 DEF Resting
  <2> QED
    BY <1>3, <1>4, <2>1, FreshKept
<1>5. CASE Marks \/ Restarts \/ UNCHANGED <<db, doc, act, suspect>> \/ \E a \in Actors : Begins(a)
  <2>1. (\A x \in {r} \cup FilesOf(r) : db'[x] = db[x]) /\ doc'[r] = doc[r] /\ suspect \subseteq suspect'
    BY <1>2, <1>5, Aside
  <2>2. ASSUME NEW b \in Actors PROVE r \notin act[b].touch
    <3>1. CASE Restarts
      BY <1>2, <3>1 DEF Restarts
    <3>2. CASE UNCHANGED <<db, doc, act, suspect>>
      BY <1>2, <3>2
    <3>3. CASE Marks
      BY <1>2, <3>3, DisturbedFields DEF Marks
    <3>4. ASSUME NEW a \in Actors, Begins(a) PROVE r \notin act[b].touch
      <4>1. CASE b = a
        BY <3>4, <4>1 DEF Begins, Types, Doings, Shapes, Shape
      <4>2. CASE b # a
        BY <1>2, <3>4, <4>2, DisturbedFields DEF Begins
      <4> QED
        BY <4>1, <4>2
    <3> QED
      BY <1>5, <3>1, <3>2, <3>3, <3>4
  <2> QED
    BY <1>2, <1>4, <2>1, <2>2
<1>6. ASSUME NEW a \in Actors, Moves(a) PROVE Fresh(r, db', doc')
  <2>1. \A b \in Actors \ {a} : r \notin act[b].touch
    BY <1>2, <1>6, MovesOnly
  <2>2. CASE r \notin act[a].touch
    <3>1. r \notin suspect
      BY <1>2, <1>6, <2>2, Cleared
    <3>2. (\A x \in {r} \cup FilesOf(r) : db'[x] = db[x]) /\ doc'[r] = doc[r]
      BY <1>2, <1>6, <2>2, Elsewhere
    <3> QED
      BY <1>4, <2>1, <2>2, <3>1, <3>2
  <2>3. CASE r \in act[a].touch
    <3>1. act'[a] = Idle
      BY <1>2, <1>6, <2>3, TouchKept
    <3>2. Answers(a, r)
      <4>1. r \in suspect => ~act[a].crossed
        BY <1>2, <1>6, Cleared
      <4> QED
        BY <2>3, <4>1 DEF Answers
    <3>3. Right(a, r)
      BY <1>2, <3>2 DEF Mending
    <3> QED
      BY <1>2, <1>6, <2>3, <3>1, <3>3, RightMoves
  <2> QED
    BY <2>2, <2>3
<1> QED
  BY <1>0, <1>5, <1>6

LEMMA MendingInit == Init => Mending /\ Resting
<1> SUFFICES ASSUME Init PROVE Mending /\ Resting
  OBVIOUS
<1>1. \A a \in Actors : act[a].touch = {}
  BY DEF Init, Idle
<1>2. Mending
  BY <1>1 DEF Mending, Sole, Answers
<1>3. ASSUME NEW r \in Resources PROVE Fresh(r, db, doc)
  <2>1. doc[r] = Document(r, db)
    BY <1>3 DEF Init
  <2>2. db[r] # None
    <3>1. PICK with \in SUBSET Files, without \in SUBSET Files :
            db = [e \in Entities |->
                    IF e \in with THEN [NewRow(0) EXCEPT !.transcript = TRUE]
                    ELSE IF e \in Files \ without THEN None ELSE NewRow(0)]
      BY DEF Init
    <3>2. r \in Entities \ Files
      BY ConstantsAssumption DEF Entities
    <3>3. NewRow(0) # None
      BY NewRowType, NoneAssumption, ConstantsAssumption DEF Stamp
    <3> QED
      BY <3>1, <3>2, <3>3
  <2> QED
    BY <2>1, <2>2 DEF Fresh
<1> QED
  BY <1>2, <1>3 DEF Resting

\* Solr says of every resource what the database holds, deep in a cascade or not, unless
\* two actors crossed on it or an error struck, and since then nobody has carried out a
\* change of it undisturbed.
THEOREM IndexStaysFresh == Spec => []IndexFresh
<1> DEFINE Inv == Types /\ Shapes /\ Keys /\ AllReach
<1>1. Inv /\ (Mending /\ Resting) /\ [Next]_vars => (Mending /\ Resting)'
  BY MendingNext, RestingNext
<1>2. Types /\ Shapes /\ Resting => IndexFresh
  <2>1. SUFFICES ASSUME Types, Shapes, Resting, NEW r \in Resources \ suspect,
                        \A a \in AtWork : r \notin act[a].touch
                 PROVE  Fresh(r, db, doc)
    BY DEF IndexFresh, Fresh
  <2>2. \A a \in Actors \ AtWork : act[a].touch = {}
    BY <2>1 DEF AtWork, Types, Doings, Shapes, Shape
  <2> QED
    BY <2>1, <2>2 DEF Resting
<1> QED
  BY <1>1, <1>2, MendingInit, ReachesInvariant, PTL DEF Spec

LEMMA MendingInvariant == Spec => [](Types /\ Shapes /\ Keys /\ AllReach /\ Mending)
<1>1. (Types /\ Shapes /\ Keys /\ AllReach) /\ Mending /\ [Next]_vars => Mending'
  BY MendingNext
<1> QED
  BY <1>1, MendingInit, ReachesInvariant, PTL DEF Spec

-----------------------------------------------------------------------------
(***************************************************************************)
(* What is locked is spared.                                               *)
(***************************************************************************)

\* A transcript is locked, or a file dropped, by a commit of what its transaction has written.
LEMMA LocksMoves ==
  ASSUME Types, NEW f \in Files, NEW a \in Actors, Moves(a), ~(Commits(a) /\ f \in act[a].dirty)
  PROVE  (Locked(f)' <=> Locked(f)) /\ (db[f] # None => db'[f] # None)
<1>0. f \in Entities /\ db \in Views
  BY DEF Entities, Types
<1>1. SUFFICES db'[f] = db[f] \/ (db[f] # None /\ db'[f] # None /\ db'[f].locked = db[f].locked)
  BY DEF Locked
<1>2. CASE Commits(a)
  BY <1>0, <1>2 DEF Commits, Committed
<1>3. CASE Pointed(a)
  <2>1. CASE f # act[a].at
    BY <1>0, <1>3, <2>1 DEF Pointed, Views
  <2>2. CASE f = act[a].at
    <3>1. db[f] \in Rows /\ db'[f] = [db[f] EXCEPT !.stamp = act[a].stamp] /\ act[a].stamp \in Stamp
      BY <1>0, <1>3, <2>2 DEF Pointed, Views, Types, Doings
    <3>2. db'[f] \in Rows /\ db'[f].locked = db[f].locked
      BY <3>1 DEF Rows
    <3> QED
      BY <3>1, <3>2, NoneAssumption
  <2> QED
    BY <2>1, <2>2
<1>4. CASE ~Commits(a) /\ ~Pointed(a)
  BY <1>4 DEF Moves, Raises, Opens, Changed, Gathered, Advanced, Reloads, Writes, Repeats
<1> QED
  BY <1>2, <1>3, <1>4

LEMMA LocksAside ==
  ASSUME Types, NEW f \in Files,
         Marks \/ Restarts \/ UNCHANGED <<db, doc, act, suspect>> \/ \E a \in Actors : Begins(a)
  PROVE  db'[f] = db[f] /\ (Locked(f)' <=> Locked(f))
<1>1. Owner[f] \in Resources /\ f \in FilesOf(Owner[f])
  BY ConstantsAssumption DEF FilesOf
<1>2. db'[f] = db[f]
  BY <1>1, Aside
<1> QED
  BY <1>2 DEF Locked

LEMMA SparesKept ==
  ASSUME NEW b \in Actors, Spares(b), act'[b].op = act[b].op, act'[b].at = act[b].at,
         act'[b].bulk = act[b].bulk, act'[b].dirty = act[b].dirty, act'[b].view = act[b].view,
         act'[b].pc = act[b].pc, act'[b].todo = act[b].todo, act[b].crossed => act'[b].crossed,
         \A f \in Files \cap act[b].dirty : (Locked(f)' <=> Locked(f)),
         act[b].op \in {"deleteFile", "deleteResource"} /\ ~act'[b].crossed =>
           \A f \in Files \cap Within(act[b].at) : Locked(f)' => Locked(f)
  PROVE  Spares(b)'
<1>1. First(act'[b]) = First(act[b])
  BY FirstSame
<1> QED
  BY <1>1 DEF Spares, Within, First

\* The same after a step of its own, part by part.
LEMMA SparesAfter ==
  ASSUME NEW a \in Actors, NEW q, q = act'[a],
         q.op \in Deletes => \A f \in Files \cap q.dirty : q.view[f] # None => ~q.view[f].locked,
         q.op \in {"deleteFile", "deleteResource"} /\ ~q.bulk /\ ~q.crossed =>
           \A f \in Files \cap Within(q.at) : ~Locked(f)',
         q.op = "destroy" =>
           \A f \in Files \cap q.dirty :
             \/ q.view[f] = None /\ ~Locked(f)'
             \/ q.pc = "fetch" /\ \E x \in First(q) : x.at = f /\ x.do = "strip"
  PROVE  Spares(a)'
BY DEF Spares, Within, First

LEMMA IdleSpares == ASSUME NEW b \in Actors, act'[b] = Idle PROVE Spares(b)'
<1>1. Idle.op = "none"
  BY DEF Idle
<1> QED
  BY <1>1, SparesAfter DEF Deletes

LEMMA SparesChanged ==
  ASSUME Types, Shapes, Keys, NEW a \in Actors, NEW x \in Changes, Spares(a), Changed(a, x)
  PROVE  Spares(a)'
<1>0. /\ act[a] \in Doings /\ Shape(act[a]) /\ UNCHANGED db /\ act[a].view \in Views
      /\ act[a].pc \in InTransaction /\ act[a].pc = "change" /\ x \in First(act[a]) /\ x \in act[a].todo
      /\ x.at \in Entities
  BY FirstOf DEF Types, Shapes, Changed, InTransaction, Doings, Changes
<1> DEFINE w == IF There(a, x.at) THEN NewVersion(a, x) ELSE None
<1> SUFFICES ASSUME NEW q, q = act'[a] PROVE Spares(a)'
  OBVIOUS
<1>1. /\ q.pc = "fetch" /\ q.op = act[a].op /\ q.todo = act[a].todo /\ q.at = act[a].at
      /\ q.bulk = act[a].bulk /\ q.crossed = act[a].crossed
      /\ q.view = [act[a].view EXCEPT ![x.at] = w]
      /\ q.dirty = IF There(a, x.at) THEN act[a].dirty \cup {x.at} ELSE act[a].dirty
  BY DEF Changed, Fixed
<1>2. q.view[x.at] = w /\ \A e \in Entities \ {x.at} : q.view[e] = act[a].view[e]
  BY <1>0, <1>1 DEF Views
<1>3. ASSUME act[a].op \in Deletes
      PROVE  /\ x.do = "drop" \/ (x.do = "strip" /\ x.at \in Files)
             /\ x.do = "drop" => w = None
             /\ w # None => ~w.locked
  <2>1. x.do = "drop" \/ (x.do = "strip" /\ x.at \in Files)
    BY <1>0, <1>3 DEF Shape, DeleteShape
  <2>2. x.do = "strip" => NewVersion(a, x) # None /\ ~NewVersion(a, x).locked
    <3>1. Row(a, x.at) \in Rows \cup {None}
      BY <1>0, RowType
    <3> QED
      BY <3>1, NewVersionType, NoneAssumption DEF NewVersion, NewRow, Rows
  <2>3. x.do = "drop" => NewVersion(a, x) = None
    BY NewVersionType
  <2> QED
    BY <2>1, <2>2, <2>3
<1> HIDE DEF w
<1>4. \A f \in Files : f \in Entities /\ (Locked(f)' <=> Locked(f))
  BY <1>0 DEF Locked, Entities
<1>5. ASSUME act[a].op \in Deletes, NEW f \in Files \cap q.dirty, q.view[f] # None PROVE ~q.view[f].locked
  <2>1. CASE f = x.at
    BY <1>2, <1>3, <1>5, <2>1
  <2>2. CASE f # x.at
    <3>1. f \in act[a].dirty /\ q.view[f] = act[a].view[f]
      BY <1>1, <1>2, <1>4, <1>5, <2>2
    <3> QED
      BY <1>5, <3>1 DEF Spares
  <2> QED
    BY <2>1, <2>2
<1>6. ASSUME act[a].op = "destroy", NEW f \in Files \cap q.dirty
      PROVE  \/ q.view[f] = None /\ ~Locked(f)
             \/ \E y \in First(q) : y.at = f /\ y.do = "strip"
  <2>0. \A g \in Files \cap act[a].dirty : act[a].view[g] = None /\ ~Locked(g)
    BY <1>0, <1>6 DEF Spares
  <2>1. CASE f # x.at
    BY <1>1, <1>2, <1>4, <1>6, <2>0, <2>1
  <2>2. CASE f = x.at /\ x.do = "strip"
    <3>1. First(q) = First(act[a])
      BY <1>1, FirstSame
    <3> QED
      BY <1>0, <2>2, <3>1
  <2>3. CASE f = x.at /\ x.do = "drop"
    <3>1. q.view[f] = None
      BY <1>2, <1>3, <1>6, <2>3 DEF Deletes
    <3>2. CASE f \in act[a].dirty
      BY <1>6, <2>0, <3>1, <3>2
    <3>3. CASE f \notin act[a].dirty
      <4>1. There(a, x.at) /\ Row(a, x.at) = db[f]
        BY <1>1, <1>6, <2>3, <3>3 DEF Row
      <4>2. db[f] # None => ~db[f].transcript
        BY <2>3, <4>1, <1>6 DEF Changed, MayChange
      <4> QED
        BY <3>1, <4>2 DEF Keys, Sound, Locked
    <3> QED
      BY <3>2, <3>3
  <2> QED
    BY <1>3, <1>6, <2>1, <2>2, <2>3 DEF Deletes
<1>7. act[a].op \in {"deleteFile", "deleteResource"} /\ ~act[a].bulk /\ ~act[a].crossed =>
        \A f \in Files \cap Within(act[a].at) : ~Locked(f)
  BY DEF Spares
<1> QED
  BY <1>1, <1>4, <1>5, <1>6, <1>7, SparesAfter

\* A transcript that is stripped is indexed no more: its collection is marked, and that raises.
LEMMA SparesAdvances ==
  ASSUME Types, Shapes, AllReach, NEW a \in Actors, NEW x \in Changes, Spares(a),
         Gathered(a, x) \/ (Advanced(a, x) /\ Told(a, x)), act[a].crossed => act'[a].crossed
  PROVE  Spares(a)'
<1>0. /\ act[a] \in Doings /\ Shape(act[a]) /\ UNCHANGED db /\ x \in First(act[a]) /\ x \in act[a].todo
      /\ act[a].pc \in InTransaction
  BY FirstOf DEF Types, Shapes, Gathered, Advanced, InTransaction
<1> SUFFICES ASSUME NEW q, q = act'[a] PROVE Spares(a)'
  OBVIOUS
<1>1. /\ q.op = act[a].op /\ q.at = act[a].at /\ q.bulk = act[a].bulk
      /\ q.view = act[a].view /\ q.dirty = act[a].dirty
      /\ act[a].crossed => q.crossed
  BY DEF Gathered, Advanced, Fixed
<1>2. \A f \in Files : (Locked(f)' <=> Locked(f))
  BY <1>0 DEF Locked
<1>3. ASSUME act[a].op = "destroy", NEW f \in Files \cap act[a].dirty PROVE act[a].view[f] = None /\ ~Locked(f)
  <2>1. SUFFICES ASSUME act[a].pc = "fetch", NEW y \in First(act[a]), y.at = f, y.do = "strip" PROVE FALSE
    BY <1>0, <1>3 DEF Spares
  <2>2. x.at = f /\ x.do = "strip"
    BY <1>0, <2>1, FirstAlike
  <2>3. x.at \notin Collections /\ Under(x.at) = Owner[f] /\ Owner[f] \in Resources
    BY <2>2, ConstantsAssumption DEF Under
  <2>4. Gathered(a, x) /\ Active(Owner[f], act[a].view)
    BY <2>1, <2>2, <2>3 DEF Gathered, Told
  <2>5. Home[Owner[f]] = act[a].at
    <3>1. x.at \in Within(act[a].at) /\ act[a].at \in Collections
      BY <1>0, <1>3 DEF Shape, DeleteShape, Deletes, Doings
    <3> QED
      BY <2>2, <2>3, <3>1, ConstantsAssumption DEF Within
  <2>6. ~Here(act[a].at, act[a].view)
    BY <1>0, <1>3 DEF AllReach, Reaches
  <2> QED
    BY <2>4, <2>5, <2>6 DEF Active
<1>4. q.op \in Deletes => \A f \in Files \cap q.dirty : q.view[f] # None => ~q.view[f].locked
  BY <1>1 DEF Spares
<1>5. q.op \in {"deleteFile", "deleteResource"} /\ ~q.bulk /\ ~q.crossed =>
        \A f \in Files \cap Within(q.at) : ~Locked(f)'
  BY <1>1, <1>2 DEF Spares
<1>6. q.op = "destroy" => \A f \in Files \cap q.dirty : q.view[f] = None /\ ~Locked(f)'
  BY <1>1, <1>2, <1>3
<1> QED
  BY <1>4, <1>5, <1>6, SparesAfter

LEMMA SparesCommits ==
  ASSUME Types, Shapes, NEW a \in Actors, Spares(a), Commits(a)
  PROVE  Spares(a)'
<1>1. CASE act'[a] = Idle
  BY <1>1, IdleSpares
<1>2. CASE act'[a] # Idle
  <2> SUFFICES ASSUME NEW q, q = act'[a] PROVE Spares(a)'
    OBVIOUS
  <2>1. /\ q.op = act[a].op /\ q.at = act[a].at /\ q.bulk = act[a].bulk /\ q.dirty = {}
        /\ q.crossed = act[a].crossed
    BY <1>2 DEF Commits, Ends, Fixed
  <2>2. ASSUME q.op \in {"deleteFile", "deleteResource"}, ~q.bulk, ~q.crossed, NEW f \in Files \cap Within(q.at)
        PROVE  ~Locked(f)'
    <3>1. ~Locked(f) /\ (f \in act[a].dirty /\ act[a].view[f] # None => ~act[a].view[f].locked)
      BY <2>1, <2>2 DEF Spares, Deletes
    <3>2. db'[f] = IF f \in act[a].dirty THEN act[a].view[f] ELSE db[f]
      BY <2>2 DEF Commits, Committed, Entities
    <3> QED
      BY <3>1, <3>2 DEF Locked
  <2> QED
    BY <2>1, <2>2, SparesAfter
<1> QED
  BY <1>1, <1>2

LEMMA SparesMoves ==
  ASSUME Types, Shapes, Keys, AllReach, NEW a \in Actors, Spares(a), Moves(a), Typed,
         \A f \in Files : ~Commits(a) => (Locked(f)' <=> Locked(f))
  PROVE  Spares(a)'
<1>0. act[a] \in Doings /\ Shape(act[a])
  BY DEF Types, Shapes
<1>1. CASE act'[a] = Idle
  BY <1>1, IdleSpares
<1>2. CASE Opens(a)
  <2> SUFFICES ASSUME NEW q, q = act'[a] PROVE Spares(a)'
    OBVIOUS
  <2>1. /\ q.op = act[a].op /\ q.bulk = act[a].bulk /\ q.dirty = {} /\ q.crossed = act[a].crossed
        /\ act[a].op \in {"deleteFile", "deleteResource"} => q.at = act[a].at
    BY <1>2 DEF Opens, Fixed, Types, InTransaction
  <2>2. ~Commits(a)
    BY <1>2 DEF Opens, Commits
  <2> QED
    BY <2>1, <2>2, SparesAfter DEF Spares
<1>3. ASSUME NEW x \in Changes, Changed(a, x) PROVE Spares(a)'
  BY <1>3, SparesChanged
<1>4. ASSUME NEW x \in Changes, Gathered(a, x) \/ (Advanced(a, x) /\ Told(a, x)) PROVE Spares(a)'
  <2>1. act[a].crossed => act'[a].crossed
    BY <1>4 DEF Gathered, Told
  <2> QED
    BY <1>4, <2>1, SparesAdvances
<1>5. CASE Commits(a)
  BY <1>5, SparesCommits
<1>6. ASSUME act[a].pc \in {"points", "reload", "reindex"}, act'[a].op = act[a].op PROVE Spares(a)'
  <2>1. act[a].op \notin Deletes
    BY <1>0, <1>6 DEF Shape, DeleteShape, InTransaction, Deletes
  <2> QED
    BY <1>6, <2>1, SparesAfter DEF Deletes
<1>7. CASE Pointed(a) \/ Writes(a) \/ \E s \in Resources : Reloads(a, s)
  <2>1. act[a].pc \in {"points", "reload", "reindex"} /\ (act'[a] = Idle \/ act'[a].op = act[a].op)
    BY <1>7, TouchKept, Zenon DEF Pointed, Writes, Reloads
  <2> QED
    BY <1>1, <1>6, <2>1
<1> QED
  BY <1>1, <1>2, <1>3, <1>4, <1>5, <1>7 DEF Moves, Raises, Ends, Repeats

LEMMA SparesBegins ==
  ASSUME Types, NEW a \in Actors, Begins(a)
  PROVE  Spares(a)'
<1> SUFFICES ASSUME NEW q, q = act'[a] PROVE Spares(a)'
  OBVIOUS
<1>1. Starts(q) /\ UNCHANGED db
  BY DEF Begins
<1>2. q.dirty = {}
  BY <1>1 DEF Starts
<1>3. ASSUME q.op \in {"deleteFile", "deleteResource"}, ~q.bulk, NEW f \in Files \cap Within(q.at)
      PROVE  ~Locked(f)'
  <2>1. ~Locked(f)
    BY <1>1, <1>3 DEF Starts, Saves
  <2> QED
    BY <1>1, <2>1 DEF Locked
<1> QED
  BY <1>2, <1>3, SparesAfter

LEMMA SparingNext ==
  ASSUME Types, Shapes, Keys, AllReach, Mending, Sparing, [Next]_vars PROVE Sparing'
<1>0. /\ Typed
      /\ \/ Marks \/ Restarts \/ UNCHANGED <<db, doc, act, suspect>>
         \/ \E a \in Actors : Begins(a) \/ Moves(a)
  BY NextCases
<1>1. SUFFICES ASSUME NEW b \in Actors PROVE Spares(b)'
  BY DEF Sparing
<1>2. Spares(b) /\ Reaches(b) /\ Shape(act[b]) /\ act[b] \in Doings
  BY DEF Sparing, AllReach, Shapes, Types
<1>3. ASSUME NEW disturbed, Disturbs(b, disturbed), \A f \in Files : (Locked(f)' <=> Locked(f))
      PROVE  Spares(b)'
  <2>1. /\ act'[b].op = act[b].op /\ act'[b].pc = act[b].pc /\ act'[b].todo = act[b].todo
        /\ act'[b].view = act[b].view /\ act'[b].dirty = act[b].dirty /\ act'[b].at = act[b].at
        /\ act'[b].bulk = act[b].bulk
        /\ act[b].crossed => act'[b].crossed
    BY <1>3, DisturbedFields
  <2>2. \A f \in Files \cap act[b].dirty : (Locked(f)' <=> Locked(f))
    BY <1>3
  <2>3. \A f \in Files \cap Within(act[b].at) : Locked(f)' => Locked(f)
    BY <1>3
  <2> QED
    BY <1>2, <2>1, <2>2, <2>3, SparesKept
<1>4. CASE Marks
  BY <1>3, <1>4, LocksAside DEF Marks
<1>5. CASE Restarts \/ UNCHANGED <<db, doc, act, suspect>>
  <2>1. act'[b] = Idle \/ Disturbs(b, FALSE)
    BY <1>5 DEF Restarts, Disturbs
  <2> QED
    BY <1>3, <1>5, <2>1, IdleSpares, LocksAside
<1>6. ASSUME NEW a \in Actors, Begins(a) PROVE Spares(b)'
  <2>1. CASE b = a
    BY <1>6, <2>1, SparesBegins
  <2>2. CASE b # a
    BY <1>3, <1>6, <2>2, LocksAside DEF Begins
  <2> QED
    BY <2>1, <2>2
<1>7. ASSUME NEW a \in Actors, Moves(a) PROVE Spares(b)'
  <2>1. CASE b = a
    BY <1>0, <1>2, <1>7, <2>1, SparesMoves, LocksMoves
  <2>2. CASE b # a
    <3>1. act'[b] = act[b]
      BY <1>7, <2>2, MovesOnly
    <3>2. ASSUME NEW f \in Files \cap act[b].dirty PROVE (Locked(f)' <=> Locked(f))
      <4>1. f \notin act[a].dirty
        BY <2>2, <3>2 DEF Keys
      <4> QED
        BY <1>7, <4>1, LocksMoves
    <3>3. ASSUME act[b].op \in {"deleteFile", "deleteResource"}, ~act[b].crossed,
                 NEW f \in Files \cap Within(act[b].at)
          PROVE  (Locked(f)' <=> Locked(f))
      <4>1. act[b].at \in Resources \cup Files /\ act[b].touch = {Under(act[b].at)}
        BY <1>2, <3>3 DEF Shape, DeleteShape, Deletes
      <4>2. Under(f) = Under(act[b].at)
        BY <3>3, <4>1, ConstantsAssumption DEF Within, Under
      <4>3. Under(f) \notin act[a].touch
        BY <2>2, <3>3, <4>1, <4>2 DEF Mending, Sole
      <4>4. f \notin act[a].dirty
        BY <3>3, <4>3, ConstantsAssumption DEF AllReach, Reaches
      <4> QED
        BY <1>7, <4>4, LocksMoves
    <3> QED
      BY <1>2, <3>1, <3>2, <3>3, SparesKept
  <2> QED
    BY <2>1, <2>2
<1> QED
  BY <1>0, <1>4, <1>5, <1>6, <1>7

LEMMA SparingInvariant == Spec => [](Types /\ Shapes /\ Keys /\ AllReach /\ Mending /\ Sparing)
<1>1. Init => Sparing
  <2>1. ASSUME Init, NEW a \in Actors PROVE Spares(a)
    <3>1. act[a].op = "none"
      BY <2>1 DEF Init, Idle
    <3> QED
      BY <3>1 DEF Spares, Deletes
  <2> QED
    BY <2>1 DEF Sparing
<1>2. (Types /\ Shapes /\ Keys /\ AllReach /\ Mending) /\ Sparing /\ [Next]_vars => Sparing'
  BY SparingNext
<1> QED
  BY <1>1, <1>2, MendingInvariant, PTL DEF Spec

\* A media file whose transcript is being edited is destroyed only in bulk, or by a deletion
\* that another actor has crossed since it looked for locks: neither the worker nor a
\* deletion left to itself takes it.
THEOREM LockedFilesAreSpared == Spec => LocksSpared
<1> DEFINE Inv == Types /\ Shapes /\ Keys /\ AllReach /\ Mending /\ Sparing
<1> DEFINE Spared == \A f \in Files : Locked(f) /\ db'[f] = None =>
                       \E a \in Actors : f \in act[a].dirty /\ (act[a].bulk \/ act[a].crossed)
<1>1. ASSUME Inv, [Next]_vars PROVE Spared
  <2>0. SUFFICES ASSUME NEW f \in Files, Locked(f), db'[f] = None
                 PROVE  \E a \in Actors : f \in act[a].dirty /\ (act[a].bulk \/ act[a].crossed)
    OBVIOUS
  <2>1. db[f] # None /\ f \in Entities
    BY <2>0 DEF Locked, Entities
  <2>2. PICK a \in Actors : Moves(a) /\ Commits(a) /\ f \in act[a].dirty
    BY <1>1, <2>0, <2>1, NextCases, LocksAside, LocksMoves
  <2>3. /\ act[a].view[f] = None /\ act[a].pc = "commit" /\ act[a] \in Doings /\ Shape(act[a])
        /\ Spares(a)
    BY <1>1, <2>0, <2>1, <2>2 DEF Commits, Committed, Types, Shapes, Sparing
  <2>4. act[a].op \in Deletes
    BY <2>2, <2>3 DEF Shape, SaveShape, Doings
  <2>5. act[a].op # "destroy"
    BY <2>0, <2>2, <2>3 DEF Spares
  <2>6. f \in Within(act[a].at)
    BY <2>2, <2>3, <2>4 DEF Shape, DeleteShape
  <2> QED
    BY <2>0, <2>2, <2>3, <2>4, <2>5, <2>6 DEF Spares, Deletes
<1>2. Inv /\ [Next]_vars => [Spared]_vars
  BY <1>1
<1> QED
  BY <1>2, SparingInvariant, PTL DEF Spec, LocksSpared
=============================================================================
