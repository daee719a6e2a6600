----------------------------- MODULE Playlists -----------------------------
(***************************************************************************)
(* One playlist: its entries (playlist_resources, one per resource), their *)
(* items (playlist_items, one per media file) and its duration.            *)
(*                                                                         *)
(* An entry's place and the playlist's duration are copies: every request  *)
(* that changes the entries renumbers them itself, and every item that was *)
(* committed adds the playlist up again, in steps that other requests may  *)
(* come between.                                                           *)
(***************************************************************************)
EXTENDS Integers, FiniteSets, Sequences, SequencesExt, FiniteSetsExt

CONSTANTS
  Users,       \* the requests that may run at once
  Resources,   \* the collection resources, numbered by their ids
  Files,       \* the media files, numbered in the order of a resource's files
  Owner,       \* the resource of each file
  Length,      \* the duration of each file, None while it is not known
  Clips,       \* None (the whole file), or the lengths of clips a form may hold
  MaxRequests, \* how many requests are made (bound)
  None

ASSUME ConstantsAssumption ==
  /\ Files \subseteq Nat /\ IsFiniteSet(Files)
  /\ Resources \subseteq Nat /\ IsFiniteSet(Resources)
  /\ Owner \in [Files -> Resources] /\ Length \in [Files -> Nat \cup {None}]
  /\ Clips \subseteq Int \cup {None} /\ None \notin Int /\ MaxRequests \in Nat

VARIABLES
  resources, \* the collection resources there are
  files,    \* the media files there are
  entries,  \* playlist_resources
  items,    \* playlist_items
  duration, \* playlists.duration
  lastId,   \* the newest id of an entry or an item
  req,      \* the request each user has running, or ran last
  begun     \* how many requests were made

vars == <<resources, files, entries, items, duration, lastId, req, begun>>

Entry == [id : Nat, resource : Resources, sort : Nat]
Item == [id : Nat, entry : Nat, file : Files, clip : Clips \cup {None}]

Running == {"look", "work", "list", "sum", "save"}
Ended == {"idle", "done", "refused", "failed"}

\* What a request has left to do: todo holds ids of files, items or entries,
\* order the resources to add or the entries as they are to stand, again the items
\* whose commit has still to add up the playlist.  solo (no other request ran
\* meanwhile), tidy (the entries were numbered when it began, and those it sorts are
\* the first of them) and counted (it added up) are history.
Idle ==
  [pc |-> "idle", op |-> "none", entry |-> None, file |-> None, clip |-> None,
   todo |-> {}, order |-> <<>>, number |-> 0, again |-> 0, seen |-> {}, held |-> 0,
   total |-> 0, solo |-> FALSE, tidy |-> FALSE, counted |-> FALSE]

Entries(i) == {x \in entries : x.id = i}
ItemsOf(e) == {x \in items : x.entry = e}
FilesOf(r) == {f \in files : Owner[f] = r}

\* An item lasts as long as its clip, or else as its file.
Lasts(x) ==
  IF x.clip # None THEN x.clip ELSE IF Length[x.file] = None THEN 0 ELSE Length[x.file]

Total(xs) == MapThenSumSet(Lasts, xs)

\* The entries in the order of their ids.
ById(xs) ==
  CHOOSE order \in SetToSeqs({x.id : x \in xs}) :
    \A i, j \in DOMAIN order : i < j => order[i] < order[j]

Numbered(xs) == Cardinality(xs) = Cardinality({x.sort : x \in xs})
                /\ {x.sort : x \in xs} = 1..Cardinality(xs)

\* Of numbered entries, order holds the first.
FirstOf(xs, order) == ToSet(order) = {x.id : x \in {x \in xs : x.sort <= Len(order)}}

\* A playlist to which resources were added one after the other.
Init ==
  \E rs \in SUBSET Resources :
    LET rank(r) == Cardinality({q \in rs : q <= r})
        ofFile(f) == Cardinality(rs) + Cardinality({g \in Files : Owner[g] \in rs /\ g <= f})
    IN  /\ resources = Resources
        /\ files = Files
        /\ entries = {[id |-> rank(r), resource |-> r, sort |-> rank(r)] : r \in rs}
        /\ items = {[id |-> ofFile(f), entry |-> rank(Owner[f]), file |-> f, clip |-> None] :
                      f \in {f \in Files : Owner[f] \in rs}}
        /\ duration = Total(items)
        /\ lastId = Cardinality(rs) + Cardinality({f \in Files : Owner[f] \in rs})
        /\ req = [u \in Users |-> Idle]
        /\ begun = 0

-----------------------------------------------------------------------------
(***************************************************************************)
(* Requests.                                                               *)
(***************************************************************************)
Begin(u, r) ==
  LET alone == \A v \in Users \ {u} : req[v].pc \notin Running
  IN  /\ begun' = begun + 1
      /\ req' = [v \in Users |->
                   IF v = u
                   THEN [r EXCEPT !.solo = alone,
                           !.tidy = Numbered(entries) /\ (r.op = "sort" => FirstOf(entries, r.order))]
                   ELSE [req[v] EXCEPT !.solo = FALSE]]

\* The playlist is read, and with it the number of its entries.
AddResource(u, r) ==
  /\ Begin(u, [Idle EXCEPT !.pc = "work", !.op = "add", !.order = <<r>>,
                 !.number = Cardinality(entries) + 1])
  /\ UNCHANGED <<resources, files, entries, items, duration, lastId>>

\* The bulk edit of resources numbers those it adds from 1.
AssignResources(u, rs) ==
  /\ Begin(u, [Idle EXCEPT !.pc = "work", !.op = "assign", !.number = 1,
                 !.order = SetToSortSeq(rs, LAMBDA a, b : a < b)])
  /\ UNCHANGED <<resources, files, entries, items, duration, lastId>>

\* The page shows an entry and the media files of its resource.
ToggleItem(u, x, f, clip, timeOnly) ==
  /\ Owner[f] = x.resource
  /\ Begin(u, [Idle EXCEPT !.pc = "look", !.op = IF timeOnly THEN "clip" ELSE "toggle",
                 !.entry = x.id, !.file = f, !.clip = clip])
  /\ UNCHANGED <<resources, files, entries, items, duration, lastId>>

RemoveEntries(u, ids) ==
  /\ Begin(u, [Idle EXCEPT !.pc = "work", !.op = "remove", !.todo = ids])
  /\ UNCHANGED <<resources, files, entries, items, duration, lastId>>

\* The page sends the rows it shows, which are those of the pages it fetched and of
\* the filter typed, with their places in the list.
Sort(u, order) ==
  /\ Begin(u, [Idle EXCEPT !.pc = "work", !.op = "sort", !.order = order, !.todo = ToSet(order)])
  /\ UNCHANGED <<resources, files, entries, items, duration, lastId>>

\* A media file is deleted with its items, all of them in one transaction.
DeleteFile(u, f) ==
  /\ f \in files
  /\ files' = files \ {f}
  /\ items' = {x \in items : x.file # f}
  /\ Begin(u, [Idle EXCEPT !.op = "media", !.again = Cardinality(items \ items'),
                 !.pc = IF items' = items THEN "done" ELSE "list"])
  /\ UNCHANGED <<resources, entries, duration, lastId>>

\* So is a resource, with its entries and its files.
DeleteResource(u, r) ==
  /\ r \in resources
  /\ resources' = resources \ {r}
  /\ files' = files \ FilesOf(r)
  /\ entries' = {x \in entries : x.resource # r}
  /\ items' = {x \in items : Owner[x.file] # r}
  /\ Begin(u, [Idle EXCEPT !.op = "media", !.again = Cardinality(items \ items'),
                 !.pc = IF items' = items THEN "done" ELSE "list"])
  /\ UNCHANGED <<duration, lastId>>

-----------------------------------------------------------------------------
(***************************************************************************)
(* Adding a resource, and toggling an item of an entry.                    *)
(***************************************************************************)

\* The next resource gets its entry; its files will get their items one by one.
AddEntry(u) ==
  LET r == Head(req[u].order) IN
  /\ req[u].pc = "work" /\ req[u].op \in {"add", "assign"}
  /\ req[u].todo = {} /\ req[u].order # <<>>
  /\ \/ /\ r \in resources
        /\ entries' = entries \cup {[id |-> lastId + 1, resource |-> r, sort |-> req[u].number]}
        /\ lastId' = lastId + 1
        /\ req' = [req EXCEPT ![u].order = Tail(@), ![u].number = @ + 1,
                             ![u].entry = lastId', ![u].todo = FilesOf(r)]
     \/ /\ r \notin resources
        /\ req' = [req EXCEPT ![u].pc = "failed"] /\ UNCHANGED <<entries, lastId>>
  /\ UNCHANGED <<resources, files, items, duration, begun>>

\* An item of an entry that is gone is refused by the database, and one of a file
\* that is gone is not valid.
AddItem(u) ==
  LET f == Min(req[u].todo)
      left == req[u].todo \ {f}
  IN
  /\ req[u].pc = "work" /\ req[u].op \in {"add", "assign", "toggle"} /\ req[u].todo # {}
  /\ \/ /\ f \in files /\ Entries(req[u].entry) # {}
        /\ items' = items \cup {[id |-> lastId + 1, entry |-> req[u].entry,
                                file |-> f, clip |-> req[u].clip]}
        /\ lastId' = lastId + 1
        /\ req' = [req EXCEPT ![u].todo = left, ![u].again = 1, ![u].pc = "list"]
     \/ /\ f \in files /\ Entries(req[u].entry) = {}
        /\ req' = [req EXCEPT ![u].pc = "failed"] /\ UNCHANGED <<items, lastId>>
     \/ /\ f \notin files
        /\ req' = [req EXCEPT ![u].todo = left] /\ UNCHANGED <<items, lastId>>
  /\ UNCHANGED <<resources, files, entries, duration, begun>>

\* A fault to seed in Look: removes the item whatever else there is.
LookRemoves(u) ==
  LET r == req[u]
      found == {x \in ItemsOf(r.entry) : x.file = r.file}
  IN
  /\ r.pc = "look" /\ r.file \in files /\ Entries(r.entry) # {}
  /\ req' = [req EXCEPT ![u].pc = "work", ![u].op = IF found = {} THEN "toggle" ELSE "untoggle",
                       ![u].todo = IF found = {} THEN {r.file} ELSE {x.id : x \in found}]
  /\ UNCHANGED <<resources, files, entries, items, duration, lastId, begun>>

\* toggle_item looks first: the item is added if there is none, its times are
\* set, or it is removed unless it is the last.
Look(u) ==
  LET r == req[u]
      found == {x \in ItemsOf(r.entry) : x.file = r.file}
      into(op, todo) == req' = [req EXCEPT ![u].pc = "work", ![u].op = op, ![u].todo = todo]
  IN
  /\ r.pc = "look"
  /\ \/ /\ r.file \notin files \/ Entries(r.entry) = {}
        /\ req' = [req EXCEPT ![u].pc = "failed"]
     \/ /\ r.file \in files /\ Entries(r.entry) # {}
        /\ \/ found = {} /\ into("toggle", {r.file})
           \/ found # {} /\ r.op = "clip" /\ into("clip", {x.id : x \in found})
           \/ /\ r.op = "toggle" /\ Cardinality(ItemsOf(r.entry)) > 1
              /\ \E x \in found : into("untoggle", {x.id})
           \/ /\ found # {} /\ r.op = "toggle" /\ Cardinality(ItemsOf(r.entry)) <= 1
              /\ req' = [req EXCEPT ![u].pc = "refused"]
  /\ UNCHANGED <<resources, files, entries, items, duration, lastId, begun>>

\* Only a row that was there makes the playlist be added up.
Changed(u, id) ==
  req' = [req EXCEPT ![u].todo = @ \ {id},
            ![u].again = IF \E x \in items : x.id = id THEN 1 ELSE 0,
            ![u].pc = IF \E x \in items : x.id = id THEN "list" ELSE "work"]

SetClip(u) ==
  LET id == Min(req[u].todo) IN
  /\ req[u].pc = "work" /\ req[u].op = "clip" /\ req[u].todo # {}
  /\ items' = {IF x.id = id THEN [x EXCEPT !.clip = req[u].clip] ELSE x : x \in items}
  /\ Changed(u, id)
  /\ UNCHANGED <<resources, files, entries, duration, lastId, begun>>

RemoveItem(u) ==
  LET id == Min(req[u].todo) IN
  /\ req[u].pc = "work" /\ req[u].op = "untoggle" /\ req[u].todo # {}
  /\ items' = {x \in items : x.id # id}
  /\ Changed(u, id)
  /\ UNCHANGED <<resources, files, entries, duration, lastId, begun>>

-----------------------------------------------------------------------------
(***************************************************************************)
(* Removing and sorting entries.                                           *)
(***************************************************************************)

\* A fault to seed in RemoveEntry: the items stay.
RemoveEntryAlone(u) ==
  /\ req[u].pc = "work" /\ req[u].op = "remove" /\ req[u].todo # {}
  /\ entries' = {x \in entries : x.id # Min(req[u].todo)}
  /\ req' = [req EXCEPT ![u].todo = @ \ {Min(@)}]
  /\ UNCHANGED <<resources, files, items, duration, lastId, begun>>

\* An entry goes with its items in one transaction, after which the playlist is
\* added up for each of them.
RemoveEntry(u) ==
  LET e == Min(req[u].todo) IN
  /\ req[u].pc = "work" /\ req[u].op = "remove" /\ req[u].todo # {}
  /\ entries' = {x \in entries : x.id # e}
  /\ items' = items \ ItemsOf(e)
  /\ req' = [req EXCEPT ![u].todo = @ \ {e}, ![u].again = Cardinality(ItemsOf(e)),
                       ![u].pc = IF ItemsOf(e) = {} THEN "work" ELSE "list"]
  /\ UNCHANGED <<resources, files, duration, lastId, begun>>

Misplaced(xs, order) ==
  {x.id : x \in {x \in xs : ~ (x.sort \in DOMAIN order /\ order[x.sort] = x.id)}}

\* sort_manager reads the entries that are left; one that has its number is not
\* written.
Renumber(u) ==
  LET order == ById(entries) IN
  /\ req[u].pc = "work" /\ req[u].op = "remove" /\ req[u].todo = {}
  /\ req' = [req EXCEPT ![u].op = "renumber", ![u].order = order,
                       ![u].todo = Misplaced(entries, order)]
  /\ UNCHANGED <<resources, files, entries, items, duration, lastId, begun>>

\* The entry with the next id, if it is still there, gets the number of its place.
NumberFrom(u, first) ==
  LET id == Min(req[u].todo) IN
  /\ req[u].pc = "work" /\ req[u].op \in {"sort", "renumber"} /\ req[u].todo # {}
  /\ \E i \in 1..Len(req[u].order) :
       /\ req[u].order[i] = id
       /\ entries' = {IF x.id = id THEN [x EXCEPT !.sort = first + i - 1] ELSE x : x \in entries}
  /\ req' = [req EXCEPT ![u].todo = @ \ {id}]
  /\ UNCHANGED <<resources, files, items, duration, lastId, begun>>

\* A fault to seed in Number: the key of the list is taken as it is.
NumberFromZero(u) == NumberFrom(u, 0)

Number(u) == NumberFrom(u, 1)

-----------------------------------------------------------------------------
(***************************************************************************)
(* After an item was committed: update_duration_playlist.                  *)
(***************************************************************************)
List(u) ==
  /\ req[u].pc = "list"
  /\ req' = [req EXCEPT ![u].pc = "sum", ![u].seen = items, ![u].held = duration]
  /\ UNCHANGED <<resources, files, entries, items, duration, lastId, begun>>

\* The next of the items this request committed, or else the next thing to do.
Resume(r) ==
  LET next == [r EXCEPT !.seen = {}, !.held = 0, !.total = 0]
  IN  IF r.again > 1 THEN [next EXCEPT !.again = @ - 1, !.pc = "list"]
      ELSE [next EXCEPT !.again = 0, !.pc = "work"]

\* Each item is found again; one that is gone makes the rest be left alone.
Sum(u) ==
  LET ids == {x.id : x \in items} IN
  /\ req[u].pc = "sum"
  /\ req' = [req EXCEPT ![u] =
               IF \A x \in req[u].seen : x.id \in ids
               THEN [@ EXCEPT !.pc = "save", !.total = Total(req[u].seen), !.counted = TRUE]
               ELSE Resume(@)]
  /\ UNCHANGED <<resources, files, entries, items, duration, lastId, begun>>

\* A fault to seed in Save: the sum starts from the old duration.
SaveAdded(u) ==
  /\ req[u].pc = "save"
  /\ duration' = req[u].held + req[u].total
  /\ req' = [req EXCEPT ![u] = Resume(@)]
  /\ UNCHANGED <<resources, files, entries, items, lastId, begun>>

\* What equals the duration as it was read is not written.
Save(u) ==
  /\ req[u].pc = "save"
  /\ duration' = IF req[u].total = req[u].held THEN duration ELSE req[u].total
  /\ req' = [req EXCEPT ![u] = Resume(@)]
  /\ UNCHANGED <<resources, files, entries, items, lastId, begun>>

Finish(u) ==
  /\ req[u].pc = "work" /\ req[u].op # "remove"
  /\ req[u].todo = {} /\ (req[u].order = <<>> \/ req[u].op \in {"sort", "renumber"})
  /\ req' = [req EXCEPT ![u].pc = "done", ![u].order = <<>>]
  /\ UNCHANGED <<resources, files, entries, items, duration, lastId, begun>>

-----------------------------------------------------------------------------
\* The rows a page may show; 0 is that of an entry that went since it was fetched.
Rows == {x.id : x \in entries} \cup {0}

Submit(u) ==
  /\ req[u].pc \in Ended
  /\ begun < MaxRequests
  /\ \/ \E r \in resources : AddResource(u, r) \/ DeleteResource(u, r)
     \/ \E rs \in SUBSET resources \ {{}} : AssignResources(u, rs)
     \/ \E x \in entries, f \in files, clip \in Clips, timeOnly \in BOOLEAN :
          ToggleItem(u, x, f, clip, timeOnly)
     \/ \E ids \in SUBSET {x.id : x \in entries} \ {{}} : RemoveEntries(u, ids)
     \/ \E ids \in SUBSET Rows \ {{}} : \E order \in SetToSeqs(ids) : Sort(u, order)
     \/ \E f \in files : DeleteFile(u, f)

Step(u) ==
  \/ AddEntry(u) \/ AddItem(u) \/ Look(u) \/ SetClip(u) \/ RemoveItem(u)
  \/ RemoveEntry(u) \/ Renumber(u) \/ Number(u)
  \/ List(u) \/ Sum(u) \/ Save(u) \/ Finish(u)

Next == \E u \in Users : Submit(u) \/ Step(u)

Spec == Init /\ [][Next]_vars
-----------------------------------------------------------------------------
\* The type invariant: ids are unique, and an item's file is there, and its entry, which
\* is that of the file's resource.
TypeOK ==
  /\ resources \subseteq Resources /\ files \subseteq Files
  /\ entries \subseteq Entry /\ items \subseteq Item
  /\ \A x, y \in entries : x.id = y.id => x = y
  /\ \A x, y \in items : x.id = y.id => x = y
  /\ \A x \in items :
       x.file \in files /\ \E e \in Entries(x.entry) : e.resource = Owner[x.file]
  /\ \A u \in Users : req[u].pc \in Running \cup Ended /\ req[u].again \in Nat

Undisturbed(u) == req[u].pc = "done" /\ req[u].solo

\* A request that committed an item with no other request at work leaves the
\* duration of the playlist the sum of its items, whatever racing requests had
\* left before it (playlist_manager.rb: update_duration_playlist).
SoloChangeTotals ==
  \A u \in Users : Undisturbed(u) /\ req[u].counted => duration = Total(items)

\* Removing entries numbers those that are left from 1, with no gap and none
\* twice, whatever their numbers were; adding a resource, toggling, and sorting the
\* first so many of the entries keep such numbers (playlist_resources_controller.rb,
\* playlist_presenter.rb).  Sorting what a filter left, or with a row that is gone,
\* does not: the rows sent get 1, 2, ... and the others keep what they have, so
\* that numbers come twice or are left out until entries are removed.  Nor do
\* deleting a resource and the bulk edit of resources.
NumbersKept ==
  \A u \in Users :
    /\ Undisturbed(u) /\ req[u].op \notin {"media", "assign"}
    /\ req[u].tidy \/ req[u].op = "renumber"
    => Numbered(entries)

\* "Cannot deleted last file from playlist resource"
\* (playlist_resources_controller.rb): taking an item off an entry, with no other
\* request at work, never leaves the entry without items.  Two requests at once can:
\* each counts the item that the other is about to take.
LastItemStays ==
  \A u \in Users : Undisturbed(u) /\ req[u].op = "untoggle" => ItemsOf(req[u].entry) # {}
=============================================================================
