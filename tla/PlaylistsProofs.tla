-------------------------- MODULE PlaylistsProofs --------------------------
(***************************************************************************)
(* What holds of a playlist for any number of requests, resources and      *)
(* files: ids are unique, no item outlives its entry or its file, and a    *)
(* request with no other at work leaves an entry the last of its items,    *)
(* the duration the sum of the items and the entries numbered from 1.      *)
(***************************************************************************)
EXTENDS Playlists, RankLemmas, FiniteSetTheorems, TLAPS

Fields == {"pc", "op", "entry", "file", "clip", "todo", "order", "number", "again",
           "seen", "held", "total", "solo", "tidy", "counted"}

\* What the proofs need to know of a request; its sums are left out.
Formed(r) ==
  /\ DOMAIN r = Fields
  /\ r.pc \in Running \cup Ended
  /\ r.again \in Nat /\ r.number \in Nat
  /\ r.clip \in Clips \cup {None}
  /\ r.solo \in BOOLEAN

\* What a request is about to add to its entry, or to look for in it, is of the entry's
\* resource.
Fits(r, f) == f \in Files /\ \A e \in entries : e.id = r.entry => e.resource = Owner[f]

RequestFits(r) ==
  /\ r.entry = None \/ (r.entry \in Nat /\ r.entry <= lastId)
  /\ r.pc = "look" => Fits(r, r.file)
  /\ r.op \in {"add", "assign", "toggle"} => \A f \in r.todo : Fits(r, f)

RequestsFit == \A u \in Users : RequestFits(req[u])

\* Ids are given out in order.
IdsUsed == lastId \in Nat /\ (\A x \in entries : x.id <= lastId) /\ (\A x \in items : x.id <= lastId)

RequestsFormed == DOMAIN req = Users /\ \A u \in Users : Formed(req[u])

RowsOK ==
  /\ resources \subseteq Resources /\ files \subseteq Files
  /\ entries \subseteq Entry /\ items \subseteq Item
  /\ \A x, y \in entries : x.id = y.id => x = y
  /\ \A x, y \in items : x.id = y.id => x = y
  /\ \A x \in items :
       x.file \in files /\ \E e \in Entries(x.entry) : e.resource = Owner[x.file]
  /\ IsFiniteSet(entries) /\ IsFiniteSet(items)
  /\ IdsUsed

TInv == RowsOK /\ RequestsFormed /\ RequestsFit

-----------------------------------------------------------------------------
(***************************************************************************)
(* The rows at the beginning.                                              *)
(***************************************************************************)

LEMMA IdleFormed == Formed(Idle)
BY DEF Formed, Idle, Fields, Ended

LEMMA TInvInit == Init => TInv
<1> SUFFICES ASSUME NEW rs \in SUBSET Resources,
                    LET rank(r) == Cardinality({q \in rs : q <= r})
                        ofFile(f) == Cardinality(rs) + Cardinality({g \in Files : Owner[g] \in rs /\ g <= f})
                    IN  /\ resources = Resources
                        /\ files = Files
                        /\ entries = {[id |-> rank(r), resource |-> r, sort |-> rank(r)] : r \in rs}
                        /\ items = {[id |-> ofFile(f), entry |-> rank(Owner[f]), file |-> f, clip |-> None] :
                                      f \in {f \in Files : Owner[f] \in rs}}
                        /\ lastId = Cardinality(rs) + Cardinality({f \in Files : Owner[f] \in rs})
                        /\ req = [u \in Users |-> Idle]
             PROVE  TInv
  BY DEF Init
<1> DEFINE fs == {f \in Files : Owner[f] \in rs}
           rank(r) == Cardinality({q \in rs : q <= r})
           place(f) == Cardinality({g \in fs : g <= f})
           entry(r) == [id |-> rank(r), resource |-> r, sort |-> rank(r)]
           item(f) == [id |-> Cardinality(rs) + place(f), entry |-> rank(Owner[f]),
                       file |-> f, clip |-> None]
<1>1. /\ rs \in SUBSET Nat /\ IsFiniteSet(rs) /\ Cardinality(rs) \in Nat
      /\ fs \in SUBSET Nat /\ IsFiniteSet(fs) /\ Cardinality(fs) \in Nat
  BY ConstantsAssumption, FS_Subset, FS_CardinalityType
<1>2. \A f \in fs : {g \in Files : Owner[g] \in rs /\ g <= f} = {g \in fs : g <= f}
  OBVIOUS
<1>3. /\ resources = Resources /\ files = Files /\ req = [u \in Users |-> Idle]
      /\ entries = {entry(r) : r \in rs}
      /\ items = {item(f) : f \in fs}
      /\ lastId = Cardinality(rs) + Cardinality(fs)
  BY <1>2
<1>4. \A a \in rs : rank(a) \in Nat /\ rank(a) <= Cardinality(rs)
                    /\ \A b \in rs : rank(a) = rank(b) => a = b
  BY <1>1, Ranks
<1>5. \A a \in fs : place(a) \in Nat /\ place(a) <= Cardinality(fs)
                    /\ \A b \in fs : place(a) = place(b) => a = b
  <2> HIDE DEF fs
  <2> QED
    BY <1>1, Ranks
<1>6. \A f \in fs : Owner[f] \in rs /\ f \in Files
  OBVIOUS
<1>7. rs \subseteq Resources
  OBVIOUS
<1>8. IsFiniteSet(entries)
  <2> DEFINE h == [r \in rs |-> entry(r)]
  <2> HIDE DEF rank, fs, place, item
  <2>1. h \in Surjection(rs, entries)
    BY <1>3 DEF Surjection
  <2> HIDE DEF h
  <2> QED
    BY <1>1, <2>1, FS_Surjection
<1>9. IsFiniteSet(items)
  <2> DEFINE h == [f \in fs |-> item(f)]
  <2> HIDE DEF rank, fs, place, entry
  <2>1. h \in Surjection(fs, items)
    BY <1>3 DEF Surjection
  <2> HIDE DEF h
  <2> QED
    BY <1>1, <2>1, FS_Surjection
<1> HIDE DEF rank, fs, place
<1>10. \A r \in rs : /\ entry(r) \in Entry /\ entry(r).id = rank(r)
                     /\ entry(r).resource = r
  BY <1>4, <1>7 DEF Entry
<1>11. \A f \in fs : /\ item(f).id = Cardinality(rs) + place(f) /\ item(f).entry = rank(Owner[f])
                     /\ item(f).file = f /\ item(f) \in Item
  <2> SUFFICES ASSUME NEW f \in fs
               PROVE  item(f) \in Item
    OBVIOUS
  <2>1. place(f) \in Nat /\ Owner[f] \in rs /\ f \in Files
    BY <1>5, <1>6
  <2>2. rank(Owner[f]) \in Nat
    BY <1>4, <2>1
  <2>3. Cardinality(rs) + place(f) \in Nat
    BY <1>1, <2>1
  <2> QED
    BY <2>1, <2>2, <2>3 DEF Item
<1> HIDE DEF entry, item
<1>12. entries \subseteq Entry /\ \A x, y \in entries : x.id = y.id => x = y
  <2> SUFFICES ASSUME NEW r \in rs, NEW q \in rs
               PROVE  entry(r) \in Entry /\ (entry(r).id = entry(q).id => entry(r) = entry(q))
    BY <1>3
  <2> QED
    BY <1>4, <1>10
<1>13. items \subseteq Item /\ \A x, y \in items : x.id = y.id => x = y
  <2> SUFFICES ASSUME NEW f \in fs, NEW g \in fs
               PROVE  item(f) \in Item /\ (item(f).id = item(g).id => item(f) = item(g))
    BY <1>3
  <2>1. Cardinality(rs) + place(f) = Cardinality(rs) + place(g) => place(f) = place(g)
    BY <1>1, <1>5
  <2>2. item(f).id = item(g).id => place(f) = place(g)
    BY <1>11, <2>1
  <2>3. place(f) = place(g) => f = g
    BY <1>5
  <2> QED
    BY <1>11, <2>2, <2>3
<1>15. \A x \in items :
         x.file \in files /\ \E e \in Entries(x.entry) : e.resource = Owner[x.file]
  <2> SUFFICES ASSUME NEW f \in fs
               PROVE  /\ item(f).file \in files
                      /\ \E e \in Entries(item(f).entry) : e.resource = Owner[item(f).file]
    BY <1>3
  <2>1. /\ entry(Owner[f]) \in entries /\ entry(Owner[f]).id = rank(Owner[f])
        /\ entry(Owner[f]).resource = Owner[f]
    BY <1>3, <1>6, <1>10
  <2> QED
    BY <1>3, <1>6, <1>11, <2>1 DEF Entries
<1>16. IdsUsed
  <2>1. \A r \in rs : entry(r).id <= lastId
    BY <1>1, <1>3, <1>4, <1>10
  <2>2. \A f \in fs : item(f).id <= lastId
    BY <1>1, <1>3, <1>5, <1>11
  <2>3. lastId \in Nat
    BY <1>1, <1>3
  <2>4. (\A x \in entries : x.id <= lastId) /\ \A x \in items : x.id <= lastId
    BY <1>3, <2>1, <2>2
  <2> QED
    BY <2>3, <2>4 DEF IdsUsed
<1>17. RequestsFormed
  BY <1>3, IdleFormed DEF RequestsFormed
<1>18. RequestsFit
  BY <1>3 DEF RequestsFit, RequestFits, Idle
<1> QED
  BY <1>3, <1>8, <1>9, <1>12, <1>13, <1>15, <1>16, <1>17, <1>18 DEF TInv, RowsOK

-----------------------------------------------------------------------------
(***************************************************************************)
(* Requests stay well formed.                                              *)
(***************************************************************************)

LEMMA ResumeForms ==
  ASSUME NEW r, Formed(r)
  PROVE  Formed(Resume(r))
BY DEF Formed, Resume, Running, Fields

LEMMA BeginForms ==
  ASSUME RequestsFormed, NEW u \in Users, NEW r, Formed(r), Begin(u, r)
  PROVE  RequestsFormed'
<1> DEFINE alone == \A v \in Users \ {u} : req[v].pc \notin Running
           tidy == Numbered(entries) /\ (r.op = "sort" => FirstOf(entries, r.order))
<1>1. /\ alone \in BOOLEAN
      /\ req' = [v \in Users |-> IF v = u THEN [r EXCEPT !.solo = alone, !.tidy = tidy]
                               ELSE [req[v] EXCEPT !.solo = FALSE]]
  BY DEF Begin
<1> HIDE DEF alone, tidy
<1>2. Formed([r EXCEPT !.solo = alone, !.tidy = tidy])
  BY <1>1 DEF Formed, Fields
<1>3. \A v \in Users : Formed([req[v] EXCEPT !.solo = FALSE])
  BY DEF RequestsFormed, Formed, Fields
<1> QED
  BY <1>1, <1>2, <1>3 DEF RequestsFormed

-----------------------------------------------------------------------------
(***************************************************************************)
(* Entries and their ids.                                                  *)
(***************************************************************************)
Ids(es) == {x.id : x \in es}

\* Entries with ids of their own.
Keyed(es) == es \subseteq Entry /\ IsFiniteSet(es) /\ \A x, y \in es : x.id = y.id => x = y

\* Entries have as many ids as there are of them.
LEMMA IdsCount ==
  ASSUME NEW es, Keyed(es)
  PROVE  /\ Ids(es) \in SUBSET Nat /\ IsFiniteSet(Ids(es))
         /\ Cardinality(Ids(es)) = Cardinality(es) /\ Cardinality(es) \in Nat
<1> DEFINE h == [x \in es |-> x.id]
<1>1. Ids(es) \in SUBSET Nat
  BY DEF Keyed, Entry, Ids
<1>2. h \in Bijection(es, Ids(es))
  BY DEF Bijection, Injection, Surjection, IsInjective, Keyed, Ids
<1> QED
  BY <1>1, <1>2, FS_Bijection, FS_CardinalityType DEF Keyed, ExistsBijection

\* A sequence of SetToSeqs holds every member of the set once.
LEMMA SeqsOrder ==
  ASSUME NEW S, IsFiniteSet(S), NEW s \in SetToSeqs(S)
  PROVE  /\ s \in Seq(S) /\ Len(s) = Cardinality(S)
         /\ \A i, j \in 1..Len(s) : s[i] = s[j] => i = j
         /\ \A a \in S : \E i \in 1..Len(s) : s[i] = a
<1> DEFINE n == Cardinality(S)
<1>1. n \in Nat
  BY FS_CardinalityType
<1>2. s \in [1..n -> S] /\ \A i, j \in 1..n : s[i] = s[j] => i = j
  BY DEF SetToSeqs
<1>3. s \in Seq(S) /\ Len(s) = n
  <2> HIDE DEF n
  <2> QED
    BY <1>1, <1>2
<1>4. s \in Injection(1..n, S)
  BY <1>2 DEF Injection, IsInjective
<1>5. IsFiniteSet(1..n) /\ Cardinality(1..n) = n
  BY <1>1, FS_Interval
<1>6. s \in Surjection(1..n, S)
  BY <1>4, <1>5, FS_Injection
<1> QED
  BY <1>2, <1>3, <1>6 DEF Surjection

LEMMA RowsOrder ==
  ASSUME NEW S \in SUBSET Nat, IsFiniteSet(S), NEW s \in SetToSeqs(S)
  PROVE  s \in Seq(Nat)
<1>1. s \in [1..Cardinality(S) -> S] /\ Cardinality(S) \in Nat
  BY FS_CardinalityType DEF SetToSeqs
<1>2. s \in [1..Cardinality(S) -> Nat]
  <2>1. S \subseteq Nat
    OBVIOUS
  <2> QED
    BY <1>1, <2>1, Zenon
<1> QED
  BY <1>1, <1>2

LEMMA RowsFinite ==
  ASSUME RowsOK
  PROVE  Rows \in SUBSET Nat /\ IsFiniteSet(Rows)
<1>1. Keyed(entries)
  BY DEF RowsOK, Keyed
<1>2. Rows = Ids(entries) \cup {0}
  BY DEF Rows, Ids
<1> QED
  BY <1>1, <1>2, IdsCount, FS_AddElement

-----------------------------------------------------------------------------
(***************************************************************************)
(* How requests begin, and what they leave well formed.                    *)
(***************************************************************************)

\* How a request begins: it has added nothing up, takes nothing off and knows its entries.
Fresh(r) ==
  /\ r.op \in {"add", "assign", "toggle", "clip", "remove", "sort", "media"}
  /\ r.pc \notin {"sum", "save"} /\ ~ r.counted
  /\ r.pc = "look" => r.op \in {"toggle", "clip"}
  /\ r.pc = "done" => r.op = "media"
  /\ r.op = "add" => r.number = Cardinality(entries) + 1 /\ \E q : r.order = <<q>>
  /\ r.op = "sort" => /\ r.order \in Seq(Nat) /\ r.todo = ToSet(r.order)
                      /\ \A i, j \in 1..Len(r.order) : r.order[i] = r.order[j] => i = j

\* Every request begins from Idle, and only the deletion of a resource takes entries then.
LEMMA SubmitBegins ==
  ASSUME TInv, NEW u \in Users, Submit(u)
  PROVE  \E r : Formed(r) /\ Fresh(r) /\ Begin(u, r) /\ (r.op = "media" \/ entries' = entries)
<1> DEFINE Starts(r) == Formed(r) /\ Fresh(r)
           Begins == \E r : Starts(r) /\ Begin(u, r) /\ (r.op = "media" \/ entries' = entries)
<1> SUFFICES Begins
  OBVIOUS
<1> USE DEF TInv
<1>0. Cardinality(entries) + 1 \in Nat
  BY FS_CardinalityType DEF RowsOK
<1>1. ASSUME NEW r \in resources, AddResource(u, r) PROVE Begins
  <2>1. Starts([Idle EXCEPT !.pc = "work", !.op = "add", !.order = <<r>>,
                            !.number = Cardinality(entries) + 1])
    BY <1>0 DEF Formed, Fresh, Idle, Fields, Running
  <2> QED
    BY <1>1, <2>1 DEF AddResource
<1>2. ASSUME NEW r \in resources, DeleteResource(u, r) PROVE Begins
  <2> DEFINE q == [Idle EXCEPT !.op = "media", !.again = Cardinality(items \ items'),
                               !.pc = IF items' = items THEN "done" ELSE "list"]
  <2>1. Cardinality(items \ items') \in Nat
    BY FS_Subset, FS_CardinalityType DEF RowsOK
  <2>2. Starts(q)
    BY <2>1 DEF Formed, Fresh, Idle, Fields, Running, Ended
  <2>3. Begin(u, q) /\ q.op = "media"
    BY <1>2 DEF DeleteResource, Idle
  <2> QED
    BY <2>2, <2>3
<1>3. ASSUME NEW f \in files, DeleteFile(u, f) PROVE Begins
  <2> DEFINE q == [Idle EXCEPT !.op = "media", !.again = Cardinality(items \ items'),
                               !.pc = IF items' = items THEN "done" ELSE "list"]
  <2>1. Cardinality(items \ items') \in Nat
    BY FS_Subset, FS_CardinalityType DEF RowsOK
  <2>2. Starts(q)
    BY <2>1 DEF Formed, Fresh, Idle, Fields, Running, Ended
  <2>3. Begin(u, q) /\ q.op = "media"
    BY <1>3 DEF DeleteFile, Idle
  <2> QED
    BY <2>2, <2>3
<1>4. ASSUME NEW rs, AssignResources(u, rs) PROVE Begins
  <2> DEFINE order == SetToSortSeq(rs, LAMBDA a, b : a < b)
  <2>1. /\ Begin(u, [Idle EXCEPT !.pc = "work", !.op = "assign", !.number = 1, !.order = order])
        /\ entries' = entries
    BY <1>4 DEF AssignResources
  <2> HIDE DEF order
  <2>2. Starts([Idle EXCEPT !.pc = "work", !.op = "assign", !.number = 1, !.order = order])
    BY DEF Formed, Fresh, Idle, Fields, Running
  <2> QED
    BY <2>1, <2>2
<1>5. ASSUME NEW x, NEW f, NEW clip \in Clips, NEW timeOnly, ToggleItem(u, x, f, clip, timeOnly)
      PROVE  Begins
  <2>1. Starts([Idle EXCEPT !.pc = "look", !.op = IF timeOnly THEN "clip" ELSE "toggle",
                  !.entry = x.id, !.file = f, !.clip = clip])
    BY DEF Formed, Fresh, Idle, Fields, Running
  <2> QED
    BY <1>5, <2>1 DEF ToggleItem
<1>6. ASSUME NEW ids, RemoveEntries(u, ids) PROVE Begins
  <2>1. Starts([Idle EXCEPT !.pc = "work", !.op = "remove", !.todo = ids])
    BY DEF Formed, Fresh, Idle, Fields, Running
  <2> QED
    BY <1>6, <2>1 DEF RemoveEntries
<1>7. ASSUME NEW ids \in SUBSET Rows, NEW order \in SetToSeqs(ids), Sort(u, order) PROVE Begins
  <2> DEFINE todo == ToSet(order)
  <2>1. /\ order \in Seq(Nat)
        /\ \A i, j \in 1..Len(order) : order[i] = order[j] => i = j
    <3>1. ids \in SUBSET Nat /\ IsFiniteSet(ids)
      BY RowsFinite, FS_Subset
    <3> HIDE DEF Begins, todo
    <3> QED
      BY <3>1, RowsOrder, SeqsOrder
  <2> HIDE DEF todo
  <2>2. /\ Formed([Idle EXCEPT !.pc = "work", !.op = "sort", !.order = order, !.todo = todo])
        /\ Begin(u, [Idle EXCEPT !.pc = "work", !.op = "sort", !.order = order, !.todo = todo])
        /\ entries' = entries
    BY <1>7 DEF Formed, Idle, Fields, Running, Sort, todo
  <2>3. Fresh([Idle EXCEPT !.pc = "work", !.op = "sort", !.order = order, !.todo = todo])
    BY <2>1 DEF Fresh, Idle, todo
  <2> QED
    BY <2>2, <2>3
<1> QED
  BY <1>1, <1>2, <1>3, <1>4, <1>5, <1>6, <1>7 DEF Submit

LEMMA SubmitForms ==
  ASSUME TInv, NEW u \in Users, Submit(u)
  PROVE  RequestsFormed'
BY SubmitBegins, BeginForms DEF TInv

LEMMA StepForms ==
  ASSUME TInv, NEW u \in Users, Step(u)
  PROVE  RequestsFormed'
<1> USE DEF TInv
<1>0. DOMAIN req = Users /\ Formed(req[u]) /\ \A v \in Users : Formed(req[v])
  BY DEF RequestsFormed
<1>1. ASSUME NEW r, Formed(r), req' = [req EXCEPT ![u] = r] PROVE RequestsFormed'
  BY <1>0, <1>1 DEF RequestsFormed
<1> USE DEF Formed, Fields, Running, Ended
<1>2. CASE AddEntry(u)
  BY <1>0, <1>2 DEF AddEntry, RequestsFormed
<1>3. CASE AddItem(u)
  BY <1>0, <1>3 DEF AddItem, RequestsFormed
<1>4. CASE Look(u)
  BY <1>0, <1>4 DEF Look, RequestsFormed
<1>5. CASE SetClip(u)
  BY <1>0, <1>5 DEF SetClip, Changed, RequestsFormed
<1>6. CASE RemoveItem(u)
  BY <1>0, <1>6 DEF RemoveItem, Changed, RequestsFormed
<1>7. CASE RemoveEntry(u)
  <2>1. Cardinality(ItemsOf(Min(req[u].todo))) \in Nat
    BY FS_Subset, FS_CardinalityType DEF RowsOK, ItemsOf
  <2> QED
    BY <1>0, <1>7, <2>1 DEF RemoveEntry, RequestsFormed
<1>8. CASE Renumber(u)
  BY <1>0, <1>8 DEF Renumber, RequestsFormed
<1>9. CASE Number(u)
  BY <1>0, <1>9 DEF Number, NumberFrom, RequestsFormed
<1>10. CASE List(u)
  BY <1>0, <1>10 DEF List, RequestsFormed
<1>11. CASE Sum(u)
  <2>1. Formed(Resume(req[u]))
    BY <1>0, ResumeForms
  <2>2. Formed([req[u] EXCEPT !.pc = "save", !.total = Total(req[u].seen), !.counted = TRUE])
    BY <1>0
  <2> QED
    BY <1>1, <1>11, <2>1, <2>2 DEF Sum
<1>12. CASE Save(u)
  <2>1. Formed(Resume(req[u]))
    BY <1>0, ResumeForms
  <2> QED
    BY <1>1, <1>12, <2>1 DEF Save
<1>13. CASE Finish(u)
  BY <1>0, <1>13 DEF Finish, RequestsFormed
<1> QED
  BY <1>2, <1>3, <1>4, <1>5, <1>6, <1>7, <1>8, <1>9, <1>10, <1>11, <1>12, <1>13 DEF Step

-----------------------------------------------------------------------------
(***************************************************************************)
(* Rows come with new ids, and go with what hangs on them.                 *)
(***************************************************************************)

\* Rows are only removed, and items with their entry and their file.
LEMMA RowsRemoved ==
  ASSUME RowsOK, resources' \subseteq resources, files' \subseteq files,
         entries' \subseteq entries, items' \subseteq items, lastId' = lastId,
         \A x \in items' : x.file \in files',
         \A x \in items', e \in entries :
           e.id = x.entry /\ e.resource = Owner[x.file] => e \in entries'
  PROVE  RowsOK'
<1>1. IsFiniteSet(entries') /\ IsFiniteSet(items')
  BY FS_Subset DEF RowsOK
<1>2. \A x \in items' : \E e \in Entries(x.entry)' : e.resource = Owner[x.file]
  <2> SUFFICES ASSUME NEW x \in items' PROVE \E e \in Entries(x.entry)' : e.resource = Owner[x.file]
    OBVIOUS
  <2>1. PICK e \in entries : e.id = x.entry /\ e.resource = Owner[x.file]
    BY DEF RowsOK, Entries
  <2>2. e \in entries'
    BY <2>1
  <2> QED
    BY <2>1, <2>2 DEF Entries
<1>3. IdsUsed'
  BY DEF RowsOK, IdsUsed
<1> QED
  BY <1>1, <1>2, <1>3 DEF RowsOK

LEMMA AddEntryRows ==
  ASSUME TInv, NEW u \in Users, AddEntry(u)
  PROVE  RowsOK'
<1> DEFINE r == Head(req[u].order)
           x == [id |-> lastId + 1, resource |-> r, sort |-> req[u].number]
<1>1. CASE UNCHANGED <<entries, lastId>>
  BY <1>1, RowsRemoved DEF TInv, AddEntry, RowsOK
<1>2. CASE r \in resources /\ entries' = entries \cup {x} /\ lastId' = lastId + 1
  <2>1. lastId \in Nat /\ req[u].number \in Nat
    BY DEF TInv, RowsOK, IdsUsed, RequestsFormed, Formed
  <2>2. x \in Entry
    BY <1>2, <2>1 DEF TInv, RowsOK, Entry
  <2>3. x.id = lastId + 1 /\ \A y \in entries : y.id \in Nat /\ y.id <= lastId
    BY DEF TInv, RowsOK, IdsUsed, Entry
  <2> HIDE DEF x, r
  <2>4. \A y \in entries : y.id # x.id /\ y.id <= lastId + 1
    BY <2>1, <2>3
  <2>5. UNCHANGED <<resources, files, items>>
    BY DEF AddEntry
  <2>6. IsFiniteSet(entries')
    BY <1>2, FS_AddElement DEF TInv, RowsOK
  <2>7. \A y, z \in entries' : y.id = z.id => y = z
    BY <1>2, <2>4 DEF TInv, RowsOK
  <2>8. \A y \in items : y.file \in files /\ \E e \in Entries(y.entry)' : e.resource = Owner[y.file]
    BY <1>2 DEF TInv, RowsOK, Entries
  <2>9. IdsUsed'
    <3>1. \A y \in items : y.id \in Nat /\ y.id <= lastId
      BY DEF TInv, RowsOK, IdsUsed, Item
    <3>2. \A y \in items : y.id <= lastId + 1
      BY <2>1, <3>1
    <3>3. lastId + 1 \in Nat /\ x.id <= lastId + 1
      BY <2>1, <2>3
    <3> QED
      BY <1>2, <2>4, <2>5, <3>2, <3>3 DEF IdsUsed
  <2> QED
    BY <1>2, <2>2, <2>5, <2>6, <2>7, <2>8, <2>9 DEF TInv, RowsOK
<1> QED
  BY <1>1, <1>2 DEF AddEntry

\* The least of a set of numbers is one of them.
LEMMA MinIn ==
  ASSUME NEW S, S \subseteq Nat, S # {}
  PROVE  Min(S) \in S
<1>1. PICK m \in S : \A n \in S : m <= n
  BY LeastNumber
<1> QED
  BY <1>1 DEF Min

LEMMA AddItemRows ==
  ASSUME TInv, NEW u \in Users, AddItem(u)
  PROVE  RowsOK'
<1> DEFINE f == Min(req[u].todo)
           x == [id |-> lastId + 1, entry |-> req[u].entry, file |-> f, clip |-> req[u].clip]
<1>1. CASE UNCHANGED <<items, lastId>>
  BY <1>1, RowsRemoved DEF TInv, AddItem, RowsOK
<1>2. CASE f \in files /\ Entries(req[u].entry) # {} /\ items' = items \cup {x}
           /\ lastId' = lastId + 1
  <2>1. lastId \in Nat /\ req[u].clip \in Clips \cup {None} /\ f \in Files
    BY <1>2 DEF TInv, RowsOK, IdsUsed, RequestsFormed, Formed
  <2>2. PICK e \in entries : e.id = req[u].entry /\ e.resource = Owner[f]
    <3>1. PICK e \in entries : e.id = req[u].entry
      BY <1>2 DEF Entries
    <3>2. req[u].todo \subseteq Nat /\ req[u].todo # {}
      BY ConstantsAssumption DEF TInv, RequestsFit, RequestFits, Fits, AddItem
    <3>3. f \in req[u].todo
      BY <3>2, MinIn
    <3>4. Fits(req[u], f)
      BY <3>3 DEF TInv, RequestsFit, RequestFits, AddItem
    <3> QED
      BY <3>1, <3>4 DEF Fits
  <2>3. x \in Item
    <3>1. req[u].entry \in Nat
      BY <2>2 DEF TInv, RowsOK, Entry
    <3> QED
      BY <2>1, <3>1 DEF Item
  <2>4. x.id = lastId + 1 /\ x.entry = req[u].entry /\ x.file = f
        /\ \A y \in items : y.id \in Nat /\ y.id <= lastId
    BY DEF TInv, RowsOK, IdsUsed, Item
  <2> HIDE DEF x, f
  <2>5. \A y \in items : y.id # x.id /\ y.id <= lastId + 1
    BY <2>1, <2>4
  <2>6. UNCHANGED <<resources, files, entries>>
    BY DEF AddItem
  <2>7. IsFiniteSet(items')
    BY <1>2, FS_AddElement DEF TInv, RowsOK
  <2>8. \A y, z \in items' : y.id = z.id => y = z
    BY <1>2, <2>5 DEF TInv, RowsOK
  <2>9. \A y \in items' :
          y.file \in files' /\ \E d \in Entries(y.entry)' : d.resource = Owner[y.file]
    BY <1>2, <2>2, <2>4, <2>6 DEF TInv, RowsOK, Entries
  <2>10. IdsUsed'
    <3>1. \A y \in entries : y.id \in Nat /\ y.id <= lastId
      BY DEF TInv, RowsOK, IdsUsed, Entry
    <3>2. \A y \in entries : y.id <= lastId + 1
      BY <2>1, <3>1
    <3>3. lastId + 1 \in Nat /\ x.id <= lastId + 1
      BY <2>1, <2>4
    <3> QED
      BY <1>2, <2>5, <2>6, <3>2, <3>3 DEF IdsUsed
  <2> QED
    BY <1>2, <2>3, <2>6, <2>7, <2>8, <2>9, <2>10 DEF TInv, RowsOK
<1> QED
  BY <1>1, <1>2 DEF AddItem

LEMMA SubmitRows ==
  ASSUME TInv, NEW u \in Users, Submit(u)
  PROVE  RowsOK'
<1>1. ASSUME NEW r \in resources, DeleteResource(u, r) PROVE RowsOK'
  <2>1. /\ resources' = resources \ {r} /\ files' = files \ FilesOf(r) /\ lastId' = lastId
        /\ entries' = {x \in entries : x.resource # r}
        /\ items' = {x \in items : Owner[x.file] # r}
    BY <1>1 DEF DeleteResource
  <2> QED
    BY <2>1, RowsRemoved DEF TInv, RowsOK, FilesOf
<1>2. ASSUME NEW f \in files, DeleteFile(u, f) PROVE RowsOK'
  BY <1>2, RowsRemoved DEF TInv, RowsOK, DeleteFile
<1>3. CASE UNCHANGED <<resources, files, entries, items, lastId>>
  BY <1>3, RowsRemoved DEF TInv, RowsOK
<1> QED
  BY <1>1, <1>2, <1>3 DEF Submit, AddResource, AssignResources, ToggleItem, RemoveEntries, Sort

LEMMA StepRows ==
  ASSUME TInv, NEW u \in Users, Step(u)
  PROVE  RowsOK'
<1>1. CASE AddEntry(u)
  BY <1>1, AddEntryRows
<1>2. CASE AddItem(u)
  BY <1>2, AddItemRows
<1>3. CASE RemoveItem(u)
  <2>1. items' \subseteq items /\ UNCHANGED <<resources, files, entries, lastId>>
    BY <1>3 DEF RemoveItem
  <2> QED
    BY <2>1, RowsRemoved DEF TInv, RowsOK
<1>4. CASE RemoveEntry(u)
  <2> DEFINE e == Min(req[u].todo)
  <2>1. /\ UNCHANGED <<resources, files, lastId>>
        /\ entries' = {x \in entries : x.id # e} /\ items' = {x \in items : x.entry # e}
    BY <1>4 DEF RemoveEntry, ItemsOf
  <2> HIDE DEF e
  <2> QED
    BY <2>1, RowsRemoved DEF TInv, RowsOK
<1>5. CASE SetClip(u)
  <2> DEFINE id == Min(req[u].todo)
             New(x) == IF x.id = id THEN [x EXCEPT !.clip = req[u].clip] ELSE x
             h == [x \in items |-> New(x)]
  <2>1. items' = {New(x) : x \in items} /\ UNCHANGED <<resources, files, entries, lastId>>
    BY <1>5 DEF SetClip
  <2>2. req[u].clip \in Clips \cup {None}
    BY DEF TInv, RequestsFormed, Formed
  <2> HIDE DEF id
  <2>3. \A x \in items : /\ New(x) \in Item /\ New(x).id = x.id /\ New(x).entry = x.entry
                         /\ New(x).file = x.file
    BY <2>2 DEF TInv, RowsOK, Item
  <2> HIDE DEF New
  <2>4. h \in Surjection(items, items')
    BY <2>1 DEF Surjection
  <2> HIDE DEF h
  <2>5. IsFiniteSet(items')
    BY <2>4, FS_Surjection DEF TInv, RowsOK
  <2>6. items' \subseteq Item /\ \A x, y \in items' : x.id = y.id => x = y
    <3> SUFFICES ASSUME NEW x \in items, NEW y \in items
                 PROVE  New(x) \in Item /\ (New(x).id = New(y).id => New(x) = New(y))
      BY <2>1
    <3>1. x.id = y.id => x = y
      BY DEF TInv, RowsOK
    <3> QED
      BY <2>3, <3>1
  <2>7. \A x \in items' :
          x.file \in files' /\ \E e \in Entries(x.entry)' : e.resource = Owner[x.file]
    <3> SUFFICES ASSUME NEW y \in items'
                 PROVE  y.file \in files' /\ \E e \in Entries(y.entry)' : e.resource = Owner[y.file]
      OBVIOUS
    <3>1. PICK x \in items : y = New(x)
      BY <2>1
    <3>2. y.entry = x.entry /\ y.file = x.file
      BY <2>3, <3>1
    <3> QED
      BY <2>1, <3>2 DEF TInv, RowsOK, Entries
  <2>8. IdsUsed'
    BY <2>1, <2>3 DEF TInv, RowsOK, IdsUsed
  <2> QED
    BY <2>1, <2>5, <2>6, <2>7, <2>8 DEF TInv, RowsOK
<1>6. CASE Number(u)
  <2> DEFINE id == Min(req[u].todo)
             Made(i) == {IF x.id = id THEN [x EXCEPT !.sort = 1 + i - 1] ELSE x : x \in entries}
  <2>0. PICK i \in 1..Len(req[u].order) : entries' = Made(i)
    BY <1>6 DEF Number, NumberFrom
  <2> DEFINE New(x) == IF x.id = id THEN [x EXCEPT !.sort = 1 + i - 1] ELSE x
             h == [x \in entries |-> New(x)]
  <2>1. entries' = {New(x) : x \in entries} /\ UNCHANGED <<resources, files, items, lastId>>
    BY <1>6, <2>0 DEF Number, NumberFrom
  <2>2. 1 + i - 1 \in Nat
    BY <2>0
  <2> HIDE DEF id
  <2>3. \A x \in entries : New(x) \in Entry /\ New(x).id = x.id /\ New(x).resource = x.resource
    BY <2>2 DEF TInv, RowsOK, Entry
  <2> HIDE DEF New
  <2>4. h \in Surjection(entries, entries')
    BY <2>1 DEF Surjection
  <2> HIDE DEF h
  <2>5. IsFiniteSet(entries')
    BY <2>4, FS_Surjection DEF TInv, RowsOK
  <2>6. entries' \subseteq Entry /\ \A x, y \in entries' : x.id = y.id => x = y
    <3> SUFFICES ASSUME NEW x \in entries, NEW y \in entries
                 PROVE  New(x) \in Entry /\ (New(x).id = New(y).id => New(x) = New(y))
      BY <2>1
    <3>1. x.id = y.id => x = y
      BY DEF TInv, RowsOK
    <3> QED
      BY <2>3, <3>1
  <2>7. \A x \in items : \E e \in Entries(x.entry)' : e.resource = Owner[x.file]
    <3> SUFFICES ASSUME NEW x \in items
                 PROVE  \E e \in Entries(x.entry)' : e.resource = Owner[x.file]
      OBVIOUS
    <3>1. PICK e \in entries : e.id = x.entry /\ e.resource = Owner[x.file]
      BY DEF TInv, RowsOK, Entries
    <3>2. New(e) \in entries' /\ New(e).id = x.entry /\ New(e).resource = Owner[x.file]
      BY <2>1, <2>3, <3>1
    <3> QED
      BY <3>2 DEF Entries
  <2>8. IdsUsed'
    BY <2>1, <2>3 DEF TInv, RowsOK, IdsUsed
  <2> QED
    BY <2>1, <2>5, <2>6, <2>7, <2>8 DEF TInv, RowsOK
<1>7. CASE UNCHANGED <<resources, files, entries, items, lastId>>
  BY <1>7, RowsRemoved DEF TInv, RowsOK
<1> QED
  BY <1>1, <1>2, <1>3, <1>4, <1>5, <1>6, <1>7
     DEF Step, Look, Renumber, List, Sum, Save, Finish

-----------------------------------------------------------------------------
(***************************************************************************)
(* What requests hold fits their entries.                                  *)
(***************************************************************************)

\* A request keeps fitting while entries only go, or come with a new id.
LEMMA StillFits ==
  ASSUME NEW r, RequestFits(r), lastId \in Nat, lastId' \in Nat, lastId <= lastId',
         \A e \in entries' : /\ e.id \in Nat
                             /\ \/ \E d \in entries : d.id = e.id /\ d.resource = e.resource
                                \/ e.id > lastId
  PROVE  RequestFits(r)'
<1>1. \A e \in entries' : e.id = r.entry => \E d \in entries : d.id = e.id /\ d.resource = e.resource
  <2> SUFFICES ASSUME NEW e \in entries', e.id = r.entry, e.id > lastId PROVE FALSE
    OBVIOUS
  <2>1. r.entry # None
    BY ConstantsAssumption
  <2>2. r.entry \in Nat /\ r.entry <= lastId
    BY <2>1 DEF RequestFits
  <2> QED
    BY <2>2
<1>2. \A f : Fits(r, f) => Fits(r, f)'
  BY <1>1 DEF Fits
<1>3. r.entry = None \/ (r.entry \in Nat /\ r.entry <= lastId')
  BY DEF RequestFits
<1> QED
  BY <1>2, <1>3 DEF RequestFits

\* The next state of the other requests, and a new one that begins with nothing to add.
LEMMA BeginFits ==
  ASSUME TInv, NEW u \in Users, NEW r, DOMAIN r = Fields, RequestFits(r), Begin(u, r),
         entries' \subseteq entries, lastId' = lastId
  PROVE  RequestsFit'
<1>1. ASSUME NEW q, DOMAIN q = Fields, RequestFits(q), NEW b, NEW c
      PROVE  RequestFits([q EXCEPT !.solo = b, !.tidy = c])' /\ RequestFits([q EXCEPT !.solo = b])'
  <2>1. RequestFits(q)'
    <3>1. lastId \in Nat /\ lastId' \in Nat /\ lastId <= lastId'
      BY DEF TInv, RowsOK, IdsUsed
    <3>2. \A e \in entries' : e \in entries /\ e.id \in Nat
      BY DEF TInv, RowsOK, Entry
    <3> QED
      BY <1>1, <3>1, <3>2, StillFits
  <2> QED
    BY <1>1, <2>1 DEF RequestFits, Fits, Fields
<1>2. \A v \in Users : DOMAIN req[v] = Fields /\ RequestFits(req[v])
  BY DEF TInv, RequestsFormed, Formed, RequestsFit
<1> DEFINE alone == \A v \in Users \ {u} : req[v].pc \notin Running
           tidy == Numbered(entries) /\ (r.op = "sort" => FirstOf(entries, r.order))
<1>3. req' = [v \in Users |-> IF v = u THEN [r EXCEPT !.solo = alone, !.tidy = tidy]
                               ELSE [req[v] EXCEPT !.solo = FALSE]]
  BY DEF Begin
<1> HIDE DEF alone, tidy
<1> SUFFICES ASSUME NEW v \in Users PROVE RequestFits(req[v])'
  BY DEF RequestsFit
<1>4. CASE v = u
  BY <1>1, <1>3, <1>4
<1>5. CASE v # u
  BY <1>1, <1>2, <1>3, <1>5
<1> QED
  BY <1>4, <1>5

LEMMA SubmitFits ==
  ASSUME TInv, NEW u \in Users, Submit(u)
  PROVE  RequestsFit'
<1>1. ASSUME NEW r \in resources, AddResource(u, r) PROVE RequestsFit'
  <2> DEFINE q == [Idle EXCEPT !.pc = "work", !.op = "add", !.order = <<r>>,
                               !.number = Cardinality(entries) + 1]
  <2>1. Begin(u, q) /\ entries' = entries /\ lastId' = lastId
    BY <1>1 DEF AddResource
  <2>2. DOMAIN q = Fields /\ RequestFits(q)
    BY DEF Idle, Fields, RequestFits
  <2> QED
    BY <2>1, <2>2, BeginFits
<1>2. ASSUME NEW r \in resources, DeleteResource(u, r) PROVE RequestsFit'
  <2> DEFINE q == [Idle EXCEPT !.op = "media", !.again = Cardinality(items \ items'),
                               !.pc = IF items' = items THEN "done" ELSE "list"]
  <2>1. Begin(u, q) /\ entries' \subseteq entries /\ lastId' = lastId
    BY <1>2 DEF DeleteResource
  <2>2. DOMAIN q = Fields /\ RequestFits(q)
    BY DEF Idle, Fields, RequestFits
  <2> QED
    BY <2>1, <2>2, BeginFits
<1>3. ASSUME NEW f \in files, DeleteFile(u, f) PROVE RequestsFit'
  <2> DEFINE q == [Idle EXCEPT !.op = "media", !.again = Cardinality(items \ items'),
                               !.pc = IF items' = items THEN "done" ELSE "list"]
  <2>1. Begin(u, q) /\ entries' = entries /\ lastId' = lastId
    BY <1>3 DEF DeleteFile
  <2>2. DOMAIN q = Fields /\ RequestFits(q)
    BY DEF Idle, Fields, RequestFits
  <2> QED
    BY <2>1, <2>2, BeginFits
<1>4. ASSUME NEW rs, AssignResources(u, rs) PROVE RequestsFit'
  <2> DEFINE order == SetToSortSeq(rs, LAMBDA a, b : a < b)
             q == [Idle EXCEPT !.pc = "work", !.op = "assign", !.number = 1, !.order = order]
  <2>1. Begin(u, q) /\ entries' = entries /\ lastId' = lastId
    BY <1>4 DEF AssignResources
  <2> HIDE DEF order
  <2>2. DOMAIN q = Fields /\ RequestFits(q)
    BY DEF Idle, Fields, RequestFits
  <2> QED
    BY <2>1, <2>2, BeginFits
<1>5. ASSUME NEW x \in entries, NEW f \in files, NEW clip, NEW timeOnly, ToggleItem(u, x, f, clip, timeOnly)
      PROVE  RequestsFit'
  <2> DEFINE q == [Idle EXCEPT !.pc = "look", !.op = IF timeOnly THEN "clip" ELSE "toggle",
                     !.entry = x.id, !.file = f, !.clip = clip]
  <2>1. Begin(u, q) /\ entries' = entries /\ lastId' = lastId /\ Owner[f] = x.resource
    BY <1>5 DEF ToggleItem
  <2>2. x.id \in Nat /\ x.id <= lastId /\ f \in Files /\ \A e \in entries : e.id = x.id => e = x
    BY DEF TInv, RowsOK, IdsUsed, Entry
  <2>3. DOMAIN q = Fields /\ q.todo = {} /\ q.entry = x.id /\ q.file = f
    BY DEF Idle, Fields
  <2>4. RequestFits(q)
    <3> HIDE DEF q
    <3> QED
      BY <2>1, <2>2, <2>3 DEF RequestFits, Fits
  <2> QED
    BY <2>1, <2>3, <2>4, BeginFits
<1>6. ASSUME NEW ids, RemoveEntries(u, ids) PROVE RequestsFit'
  <2> DEFINE q == [Idle EXCEPT !.pc = "work", !.op = "remove", !.todo = ids]
  <2>1. Begin(u, q) /\ entries' = entries /\ lastId' = lastId
    BY <1>6 DEF RemoveEntries
  <2>2. DOMAIN q = Fields /\ RequestFits(q)
    BY DEF Idle, Fields, RequestFits
  <2> QED
    BY <2>1, <2>2, BeginFits
<1>7. ASSUME NEW order, Sort(u, order) PROVE RequestsFit'
  <2> DEFINE q == [Idle EXCEPT !.pc = "work", !.op = "sort", !.order = order, !.todo = ToSet(order)]
  <2>1. Begin(u, q) /\ entries' = entries /\ lastId' = lastId
    BY <1>7 DEF Sort
  <2>2. DOMAIN q = Fields /\ RequestFits(q)
    BY DEF Idle, Fields, RequestFits
  <2> QED
    BY <2>1, <2>2, BeginFits
<1> QED
  BY <1>1, <1>2, <1>3, <1>4, <1>5, <1>6, <1>7 DEF Submit

\* What the entries of the next state are.
LEMMA StepEntries ==
  ASSUME TInv, NEW u \in Users, Step(u)
  PROVE  /\ lastId \in Nat /\ lastId' \in Nat /\ lastId <= lastId'
         /\ \A e \in entries' : /\ e.id \in Nat
                                 /\ \/ \E d \in entries : d.id = e.id /\ d.resource = e.resource
                                    \/ e.id > lastId
<1>1. RowsOK' /\ lastId \in Nat /\ lastId' \in Nat /\ \A e \in entries' : e.id \in Nat
  BY StepRows DEF TInv, RowsOK, IdsUsed, Entry
<1>2. \A e \in entries : e.id \in Nat /\ DOMAIN e = {"id", "resource", "sort"}
  BY DEF TInv, RowsOK, Entry
<1>3. CASE entries' \subseteq entries /\ (lastId' = lastId \/ lastId' = lastId + 1)
  BY <1>1, <1>3
<1>4. CASE AddEntry(u)
  <2> DEFINE x == [id |-> lastId + 1, resource |-> Head(req[u].order), sort |-> req[u].number]
  <2>1. x.id = lastId + 1
    OBVIOUS
  <2>2. (entries' = entries \cup {x} /\ lastId' = lastId + 1) \/ UNCHANGED <<entries, lastId>>
    BY <1>4 DEF AddEntry
  <2> HIDE DEF x
  <2> QED
    BY <1>1, <2>1, <2>2
<1>5. CASE Number(u)
  <2> DEFINE id == Min(req[u].todo)
  <2>0. PICK i : entries' = {IF x.id = id THEN [x EXCEPT !.sort = 1 + i - 1] ELSE x : x \in entries}
    BY <1>5 DEF Number, NumberFrom
  <2> DEFINE New(x) == IF x.id = id THEN [x EXCEPT !.sort = 1 + i - 1] ELSE x
  <2>1. entries' = {New(x) : x \in entries} /\ lastId' = lastId
    BY <1>5, <2>0 DEF Number, NumberFrom
  <2> HIDE DEF id
  <2>2. \A x \in entries : New(x).id = x.id /\ New(x).resource = x.resource
    BY <1>2
  <2> HIDE DEF New
  <2> QED
    BY <1>1, <2>1, <2>2
<1> QED
  BY <1>3, <1>4, <1>5 DEF Step, AddItem, Look, SetClip, RemoveItem, RemoveEntry, Renumber,
     List, Sum, Save, Finish

LEMMA StepFits ==
  ASSUME TInv, NEW u \in Users, Step(u)
  PROVE  RequestsFit'
<1> DEFINE Adding == {"add", "assign", "toggle"}
<1>1. ASSUME NEW r, RequestFits(r) PROVE RequestFits(r)'
  BY <1>1, StepEntries, StillFits
<1>2. DOMAIN req = Users /\ DOMAIN req[u] = Fields /\ \A v \in Users : RequestFits(req[v])
  BY DEF TInv, RequestsFormed, RequestsFit, Formed
<1>3. \A v \in Users \ {u} : req'[v] = req[v]
  <2> SUFFICES ASSUME NEW v \in Users \ {u} PROVE req'[v] = req[v]
    OBVIOUS
  <2> QED
    BY <1>2 DEF Step, AddEntry, AddItem, Look, SetClip, RemoveItem, Changed, RemoveEntry,
       Renumber, Number, NumberFrom, List, Sum, Save, Finish
<1>4. ASSUME NEW v \in Users, v # u PROVE RequestFits(req[v])'
  <2>1. req'[v] = req[v]
    BY <1>3, <1>4
  <2> QED
    BY <1>1, <1>2, <2>1
<1> DEFINE Keeps ==
             /\ req'[u].entry = req[u].entry /\ req'[u].pc # "look"
             /\ req'[u].op \in Adding =>
                  \A f \in req'[u].todo :
                    (req[u].op \in Adding /\ f \in req[u].todo)
                    \/ (req[u].pc = "look" /\ f = req[u].file)
<1>5. ASSUME Keeps PROVE RequestFits(req[u])'
  <2>1. PICK q : q = req[u]
    OBVIOUS
  <2>2. RequestFits(q) /\ RequestFits(q)'
    BY <1>1, <1>2, <2>1
  <2>3. \A f : (q.op \in Adding /\ f \in q.todo) \/ (q.pc = "look" /\ f = q.file) => Fits(q, f)'
    BY <2>2 DEF RequestFits, Fits
  <2>4. \A f : Fits(q, f)' => Fits(req[u], f)'
    BY <1>5, <2>1 DEF Fits
  <2>5. q.entry = None \/ (q.entry \in Nat /\ q.entry <= lastId')
    BY <2>2 DEF RequestFits
  <2>6. req'[u].op \in Adding => \A f \in req'[u].todo : Fits(req[u], f)'
    BY <1>5, <2>1, <2>3, <2>4
  <2> QED
    BY <1>5, <2>1, <2>5, <2>6 DEF RequestFits, Fits
<1> USE DEF Fields
<1>6. ASSUME AddEntry(u) PROVE RequestFits(req[u])'
  <2> DEFINE r == Head(req[u].order)
             x == [id |-> lastId + 1, resource |-> r, sort |-> req[u].number]
  <2>1. CASE req' = [req EXCEPT ![u].pc = "failed"]
    <3>1. Keeps
      BY <1>2, <2>1
    <3> QED
      BY <1>5, <3>1
  <2>2. CASE /\ entries' = entries \cup {x} /\ lastId' = lastId + 1
             /\ req' = [req EXCEPT ![u].order = Tail(@), ![u].number = @ + 1,
                                   ![u].entry = lastId', ![u].todo = FilesOf(r)]
    <3>1. req'[u].entry = lastId + 1 /\ req'[u].todo = FilesOf(r) /\ req'[u].pc = "work"
      BY <1>2, <1>6, <2>2 DEF AddEntry
    <3>2. \A e \in entries : e.id \in Nat /\ e.id <= lastId
      BY DEF TInv, RowsOK, IdsUsed, Entry
    <3>3. lastId \in Nat /\ files \subseteq Files
      BY DEF TInv, RowsOK, IdsUsed
    <3>4. x.id = lastId + 1 /\ x.resource = r
      OBVIOUS
    <3> HIDE DEF x, r
    <3>5. \A e \in entries' : e.id = lastId + 1 => e = x
      BY <2>2, <3>2, <3>3
    <3>6. \A f \in FilesOf(r) : f \in Files /\ Owner[f] = r
      BY <3>3 DEF FilesOf
    <3>7. \A f \in req'[u].todo : Fits(req[u], f)'
      BY <3>1, <3>4, <3>5, <3>6 DEF Fits
    <3>8. lastId + 1 \in Nat /\ lastId + 1 <= lastId'
      BY <2>2, <3>3
    <3> QED
      BY <3>1, <3>7, <3>8 DEF RequestFits, Fits
  <2> QED
    BY <1>6, <2>1, <2>2 DEF AddEntry
<1>7. ASSUME AddItem(u) PROVE Keeps
  BY <1>2, <1>7 DEF AddItem
<1>8. ASSUME Look(u) PROVE Keeps
  BY <1>2, <1>8 DEF Look
<1>9. ASSUME SetClip(u) \/ RemoveItem(u) PROVE Keeps
  <2>1. ASSUME NEW id, Changed(u, id)
        PROVE  req'[u].entry = req[u].entry /\ req'[u].op = req[u].op /\ req'[u].pc # "look"
    <3> DEFINE there == \E x \in items : x.id = id
    <3>1. req' = [req EXCEPT ![u].todo = @ \ {id}, ![u].again = IF there THEN 1 ELSE 0,
                            ![u].pc = IF there THEN "list" ELSE "work"]
      BY <2>1 DEF Changed
    <3> HIDE DEF there
    <3> QED
      BY <1>2, <3>1
  <2>2. req[u].op \notin Adding /\ Changed(u, Min(req[u].todo))
    BY <1>9 DEF SetClip, RemoveItem
  <2> QED
    BY <2>1, <2>2
<1>10. ASSUME RemoveEntry(u) \/ Renumber(u) \/ Number(u) PROVE Keeps
  BY <1>2, <1>10 DEF RemoveEntry, Renumber, Number, NumberFrom
<1>11. ASSUME List(u) \/ Finish(u) PROVE Keeps
  BY <1>2, <1>11 DEF List, Finish
<1>12. ASSUME Sum(u) \/ Save(u) PROVE Keeps
  <2> DEFINE Same(r) == /\ r.entry = req[u].entry /\ r.op = req[u].op
                        /\ r.todo = req[u].todo /\ r.pc # "look"
             summed == [req[u] EXCEPT !.pc = "save", !.total = Total(req[u].seen), !.counted = TRUE]
  <2>1. Same(Resume(req[u])) /\ Same(summed)
    BY <1>2 DEF Resume
  <2>2. ASSUME NEW r, Same(r), req' = [req EXCEPT ![u] = r] PROVE Keeps
    BY <1>2, <2>2
  <2>3. CASE Save(u)
    <3>1. req' = [req EXCEPT ![u] = Resume(req[u])]
      BY <2>3 DEF Save
    <3> QED
      BY <2>1, <2>2, <3>1
  <2>4. CASE Sum(u)
    <3> DEFINE good == \A x \in req[u].seen : x.id \in {y.id : y \in items}
    <3>1. req' = [req EXCEPT ![u] = IF good THEN summed ELSE Resume(req[u])]
      BY <2>4 DEF Sum
    <3> HIDE DEF good, summed, Keeps
    <3>2. CASE good
      BY <2>1, <2>2, <3>1, <3>2
    <3>3. CASE ~ good
      BY <2>1, <2>2, <3>1, <3>3
    <3> QED
      BY <3>2, <3>3
  <2> QED
    BY <1>12, <2>3, <2>4
<1> HIDE DEF Keeps
<1> QED
  BY <1>4, <1>5, <1>6, <1>7, <1>8, <1>9, <1>10, <1>11, <1>12 DEF Step, RequestsFit

-----------------------------------------------------------------------------
(***************************************************************************)
(* The invariant.                                                          *)
(***************************************************************************)
LEMMA TInvNext == TInv /\ [Next]_vars => TInv'
<1> SUFFICES ASSUME TInv, [Next]_vars PROVE TInv'
  OBVIOUS
<1>1. ASSUME NEW u \in Users, Submit(u) PROVE TInv'
  BY <1>1, SubmitRows, SubmitForms, SubmitFits DEF TInv
<1>2. ASSUME NEW u \in Users, Step(u) PROVE TInv'
  BY <1>2, StepRows, StepForms, StepFits DEF TInv
<1>3. CASE UNCHANGED vars
  BY <1>3 DEF vars, TInv, RowsOK, IdsUsed, Entries, RequestsFormed, RequestsFit, RequestFits, Fits
<1> QED
  BY <1>1, <1>2, <1>3 DEF Next

LEMMA Invariant == Spec => []TInv
<1> QED
  BY TInvInit, TInvNext, PTL DEF Spec

\* Types, for any number of requests: ids are unique, no item outlives its entry or its
\* file, and an item is of a file of its entry's resource.
THEOREM PlaylistTypes == Spec => []TypeOK
<1>1. TInv => TypeOK
  BY DEF TInv, RowsOK, RequestsFormed, Formed, TypeOK
<1> QED
  BY <1>1, Invariant, PTL

-----------------------------------------------------------------------------
(***************************************************************************)
(* The last item of an entry.  Look sees another item beside the one that  *)
(* is to be taken off, and while no other request runs it stays there.     *)
(***************************************************************************)

\* No other request is at work while one that began alone is still called solo.
Alone == \A u \in Users : req[u].solo => \A v \in Users \ {u} : req[v].pc \notin Running

\* A request takes at most one item off, and leaves another of the same entry.
LeavesOne(u) ==
  req[u].solo /\ req[u].op = "untoggle" =>
    /\ \E i \in Nat : req[u].todo \subseteq {i}
    /\ \E x \in items : x.entry = req[u].entry /\ x.id \notin req[u].todo

StaysInv == Alone /\ \A u \in Users : LeavesOne(u)

LEMMA SubmitStays ==
  ASSUME TInv, StaysInv, NEW u \in Users, Submit(u)
  PROVE  StaysInv'
<1>1. PICK r : Formed(r) /\ r.op # "untoggle" /\ Begin(u, r)
  BY SubmitBegins DEF Fresh
<1> DEFINE alone == \A v \in Users \ {u} : req[v].pc \notin Running
           tidy == Numbered(entries) /\ (r.op = "sort" => FirstOf(entries, r.order))
<1>2. req' = [v \in Users |-> IF v = u THEN [r EXCEPT !.solo = alone, !.tidy = tidy]
                              ELSE [req[v] EXCEPT !.solo = FALSE]]
  BY <1>1 DEF Begin
<1> HIDE DEF tidy
<1>3. \A v \in Users : DOMAIN req[v] = Fields
  BY DEF TInv, RequestsFormed, Formed
<1>4. /\ req'[u].op # "untoggle" /\ req'[u].solo = alone
      /\ \A v \in Users \ {u} : req'[v].solo = FALSE /\ req'[v].pc = req[v].pc
  BY <1>1, <1>2, <1>3 DEF Formed, Fields
<1> QED
  BY <1>4 DEF StaysInv, Alone, LeavesOne

\* Adding an entry or an item leaves what the request is about as it was.
LEMMA Adds ==
  ASSUME TInv, NEW u \in Users, AddEntry(u) \/ AddItem(u)
  PROVE  /\ req[u].op \in {"add", "assign", "toggle"}
         /\ req'[u].op = req[u].op
         /\ req'[u].solo = req[u].solo /\ req'[u].tidy = req[u].tidy
<1>1. DOMAIN req = Users /\ DOMAIN req[u] = Fields
  BY DEF TInv, RequestsFormed, Formed
<1>2. CASE AddEntry(u)
  <2> DEFINE order == Tail(req[u].order)
             n == req[u].number + 1
             e == lastId'
             todo == FilesOf(Head(req[u].order))
  <2>1. \/ req' = [req EXCEPT ![u].order = order, ![u].number = n, ![u].entry = e, ![u].todo = todo]
        \/ req' = [req EXCEPT ![u].pc = "failed"]
    BY <1>2 DEF AddEntry
  <2> HIDE DEF order, n, e, todo
  <2> QED
    BY <1>1, <1>2, <2>1 DEF AddEntry, Fields
<1>3. CASE AddItem(u)
  <2>1. PICK todo :
          \/ req' = [req EXCEPT ![u].todo = todo, ![u].again = 1, ![u].pc = "list"]
          \/ req' = [req EXCEPT ![u].pc = "failed"]
          \/ req' = [req EXCEPT ![u].todo = todo]
    BY <1>3 DEF AddItem
  <2> QED
    BY <1>1, <1>3, <2>1 DEF AddItem, Fields
<1> QED
  BY <1>2, <1>3

\* A request that runs is the only one that can be solo, and only remembers what it was.
LEMMA StepRemembers ==
  ASSUME TInv, Alone, NEW u \in Users, Step(u)
  PROVE  /\ \A v \in Users \ {u} : req'[v] = req[v] /\ ~ req[v].solo
         /\ req'[u].solo = req[u].solo /\ req'[u].tidy = req[u].tidy
<1> DEFINE Remembers(r) == r.solo = req[u].solo /\ r.tidy = req[u].tidy
<1>1. DOMAIN req = Users /\ DOMAIN req[u] = Fields
  BY DEF TInv, RequestsFormed, Formed
<1>2. req[u].pc \in Running
  BY DEF Step, AddEntry, AddItem, Look, SetClip, RemoveItem, RemoveEntry, Renumber, Number, NumberFrom,
     List, Sum, Save, Finish, Running
<1>3. \A v \in Users \ {u} : req'[v] = req[v] /\ ~ req[v].solo
  <2>1. \A v \in Users \ {u} : ~ req[v].solo
    BY <1>2 DEF Alone
  <2>2. \A v \in Users \ {u} : req'[v] = req[v]
    <3> SUFFICES ASSUME NEW v \in Users \ {u} PROVE req'[v] = req[v]
      OBVIOUS
    <3> QED
      BY <1>1 DEF Step, AddEntry, AddItem, Look, SetClip, RemoveItem, Changed, RemoveEntry,
         Renumber, Number, NumberFrom, List, Sum, Save, Finish
  <2> QED
    BY <2>1, <2>2
<1>4. Remembers(req'[u])
  <2>1. \A r : DOMAIN r = Fields => Resume(r).solo = r.solo /\ Resume(r).tidy = r.tidy
    BY DEF Resume, Fields
  <2>2. CASE Sum(u)
    <3> DEFINE summed == [req[u] EXCEPT !.pc = "save", !.total = Total(req[u].seen), !.counted = TRUE]
    <3>1. Remembers(summed)
      BY <1>1 DEF Fields
    <3>2. req' = [req EXCEPT ![u] = summed] \/ req' = [req EXCEPT ![u] = Resume(req[u])]
      BY <2>2, <1>1 DEF Sum
    <3> HIDE DEF summed
    <3> QED
      BY <1>1, <2>1, <3>1, <3>2
  <2>3. CASE Save(u)
    <3>1. req' = [req EXCEPT ![u] = Resume(req[u])]
      BY <2>3 DEF Save
    <3> QED
      BY <1>1, <2>1, <3>1
  <2>4. CASE Look(u)
    BY <1>1, <2>4 DEF Look, Fields
  <2>5. CASE AddEntry(u) \/ AddItem(u)
    BY <1>1, <2>5, Adds
  <2>6. ASSUME NEW id, Changed(u, id) PROVE Remembers(req'[u])
    <3> DEFINE there == \E x \in items : x.id = id
    <3>1. req' = [req EXCEPT ![u].todo = @ \ {id}, ![u].again = IF there THEN 1 ELSE 0,
                            ![u].pc = IF there THEN "list" ELSE "work"]
      BY <2>6 DEF Changed
    <3> HIDE DEF there
    <3> QED
      BY <1>1, <3>1 DEF Fields
  <2>7. CASE RemoveEntry(u) \/ Renumber(u) \/ Number(u) \/ List(u) \/ Finish(u)
    BY <1>1, <2>7 DEF RemoveEntry, Renumber, Number, NumberFrom, List, Finish, Fields
  <2> QED
    BY <2>2, <2>3, <2>4, <2>5, <2>6, <2>7 DEF Step, SetClip, RemoveItem
<1> QED
  BY <1>3, <1>4

LEMMA StepStays ==
  ASSUME TInv, StaysInv, NEW u \in Users, Step(u)
  PROVE  StaysInv'
<1> DEFINE Left(r, xs) == /\ \E i \in Nat : r.todo \subseteq {i}
                          /\ \E x \in xs : x.entry = r.entry /\ x.id \notin r.todo
<1>1. DOMAIN req = Users /\ DOMAIN req[u] = Fields
  BY DEF TInv, RequestsFormed, Formed
<1>2. /\ \A v \in Users \ {u} : req'[v] = req[v] /\ ~ req[v].solo
      /\ req'[u].solo = req[u].solo
  BY StepRemembers DEF StaysInv
<1>3. req[u].pc \in Running
  BY DEF Step, AddEntry, AddItem, Look, SetClip, RemoveItem, RemoveEntry, Renumber, Number, NumberFrom,
     List, Sum, Save, Finish, Running
<1>5. ASSUME req[u].solo, req'[u].op = "untoggle" PROVE Left(req'[u], items')
  <2>0. \A x, y \in items : x.id = y.id => x = y
    BY DEF TInv, RowsOK
  <2>1. CASE Look(u) /\ req[u].op # "untoggle"
    <3> DEFINE here == ItemsOf(req[u].entry)
    <3>1. PICK y \in here : req'[u].todo = {y.id}
      BY <1>1, <1>5, <2>1 DEF Look, Fields, ItemsOf
    <3>2. /\ Cardinality(here) > 1 /\ items' = items
          /\ req'[u].entry = req[u].entry /\ y.id \in Nat
      BY <1>1, <1>5, <2>1 DEF Look, Fields, ItemsOf, TInv, RowsOK, Item
    <3>3. PICK x \in here : x # y
      <4>1. here # {y}
        BY <3>2, FS_Singleton
      <4> QED
        BY <4>1
    <3> QED
      BY <2>0, <3>1, <3>2, <3>3 DEF ItemsOf
  <2>2. CASE RemoveItem(u)
    <3>1. /\ req[u].op = "untoggle" /\ req[u].todo # {}
          /\ req'[u].todo = req[u].todo \ {Min(req[u].todo)} /\ req'[u].entry = req[u].entry
          /\ items' = {x \in items : x.id # Min(req[u].todo)}
      BY <1>1, <2>2 DEF RemoveItem, Changed, Fields
    <3>2. Left(req[u], items)
      BY <1>5, <3>1 DEF StaysInv, LeavesOne
    <3>3. Min(req[u].todo) \in req[u].todo
      BY <3>1, <3>2, MinIn
    <3> QED
      BY <3>1, <3>2, <3>3
  <2>3. CASE /\ req[u].op = "untoggle" /\ req'[u].todo = req[u].todo
             /\ req'[u].entry = req[u].entry /\ items' = items
    BY <1>5, <2>3 DEF StaysInv, LeavesOne
  <2>4. ASSUME ~ (Look(u) /\ req[u].op # "untoggle"), ~ RemoveItem(u)
        PROVE  /\ req[u].op = "untoggle" /\ req'[u].todo = req[u].todo
               /\ req'[u].entry = req[u].entry /\ items' = items
    <3>1. /\ Resume(req[u]).op = req[u].op /\ Resume(req[u]).todo = req[u].todo
          /\ Resume(req[u]).entry = req[u].entry
      BY <1>1 DEF Resume, Fields
    <3>2. CASE Sum(u)
      <4> DEFINE summed == [req[u] EXCEPT !.pc = "save", !.total = Total(req[u].seen), !.counted = TRUE]
      <4>1. /\ summed.op = req[u].op /\ summed.todo = req[u].todo /\ summed.entry = req[u].entry
        BY <1>1 DEF Fields
      <4>2. /\ req' = [req EXCEPT ![u] = summed] \/ req' = [req EXCEPT ![u] = Resume(req[u])]
            /\ items' = items
        BY <3>2, <1>1 DEF Sum
      <4> HIDE DEF summed
      <4> QED
        BY <1>1, <1>5, <3>1, <4>1, <4>2
    <3>3. CASE Save(u)
      <4>1. req' = [req EXCEPT ![u] = Resume(req[u])] /\ items' = items
        BY <3>3 DEF Save
      <4> QED
        BY <1>1, <1>5, <3>1, <4>1
    <3>4. CASE List(u) \/ Finish(u)
      BY <1>1, <1>5, <3>4 DEF List, Finish, Fields
    <3>5. CASE AddEntry(u) \/ AddItem(u)
      BY <1>1, <1>5, <3>5, Adds
    <3>7. CASE SetClip(u)
      BY <1>1, <1>5, <3>7 DEF SetClip, Changed, Fields
    <3>8. CASE Look(u)
      BY <1>1, <1>5, <2>4, <3>8 DEF Look, Fields
    <3>6. CASE RemoveEntry(u) \/ Renumber(u) \/ Number(u)
      BY <1>1, <1>5, <3>6 DEF RemoveEntry, Renumber, Number, NumberFrom, Fields
    <3> QED
      BY <2>4, <3>2, <3>3, <3>4, <3>5, <3>6, <3>7, <3>8 DEF Step
  <2> QED
    BY <2>1, <2>2, <2>3, <2>4
<1> QED
  BY <1>2, <1>3, <1>5 DEF StaysInv, Alone, LeavesOne

LEMMA StaysNext == TInv /\ StaysInv /\ [Next]_vars => StaysInv'
<1> SUFFICES ASSUME TInv, StaysInv, [Next]_vars PROVE StaysInv'
  OBVIOUS
<1>1. CASE UNCHANGED vars
  BY <1>1 DEF vars, StaysInv, Alone, LeavesOne
<1> QED
  BY <1>1, SubmitStays, StepStays DEF Next

\* Taking an item off an entry with no other request at work never takes the last, for any
\* number of requests, whatever racing requests did before ("Cannot deleted last file from
\* playlist resource", playlist_resources_controller.rb).
THEOREM LastItemKept == Spec => []LastItemStays
<1>1. Init => StaysInv
  BY DEF Init, Idle, StaysInv, Alone, LeavesOne
<1>2. StaysInv => LastItemStays
  BY DEF StaysInv, LeavesOne, LastItemStays, Undisturbed, ItemsOf
<1> QED
  BY <1>1, <1>2, StaysNext, Invariant, PTL DEF Spec

-----------------------------------------------------------------------------
(***************************************************************************)
(* The duration of the playlist.  A request that is alone reads, adds up   *)
(* and saves the items there are, and changes them only where it goes on   *)
(* to add them up.                                                         *)
(***************************************************************************)
AddingUp == {"list", "sum", "save"}

\* How far a request that is alone has come with adding the playlist up.
Counts(r, xs, d) ==
  /\ r.pc = "sum" => r.seen = xs /\ r.held = d
  /\ r.pc = "save" => r.total = Total(xs) /\ r.held = d
  /\ r.pc \notin AddingUp /\ r.counted => d = Total(xs)

CountsInv == \A u \in Users : req[u].solo => Counts(req[u], items, duration)

LEMMA SubmitCounts ==
  ASSUME TInv, CountsInv, NEW u \in Users, Submit(u)
  PROVE  CountsInv'
<1>1. PICK r : Formed(r) /\ Fresh(r) /\ Begin(u, r)
  BY SubmitBegins
<1> DEFINE alone == \A v \in Users \ {u} : req[v].pc \notin Running
           tidy == Numbered(entries) /\ (r.op = "sort" => FirstOf(entries, r.order))
<1>2. req' = [v \in Users |-> IF v = u THEN [r EXCEPT !.solo = alone, !.tidy = tidy]
                              ELSE [req[v] EXCEPT !.solo = FALSE]]
  BY <1>1 DEF Begin
<1> HIDE DEF alone, tidy
<1>3. \A v \in Users : DOMAIN req[v] = Fields
  BY DEF TInv, RequestsFormed, Formed
<1>4. /\ req'[u].pc \notin {"sum", "save"} /\ ~ req'[u].counted
      /\ \A v \in Users \ {u} : req'[v].solo = FALSE
  BY <1>1, <1>2, <1>3 DEF Formed, Fields, Fresh
<1> QED
  BY <1>4 DEF CountsInv, Counts

\* Until it adds up, a request leaves the duration alone, and the items too unless it goes on
\* to add them up.
LEMMA StepWorks ==
  ASSUME TInv, NEW u \in Users, Step(u), req[u].pc \notin AddingUp
  PROVE  /\ duration' = duration
         /\ req'[u].pc # "list" =>
              items' = items /\ req'[u].pc \notin AddingUp /\ req'[u].counted = req[u].counted
<1>1. DOMAIN req = Users /\ DOMAIN req[u] = Fields
  BY DEF TInv, RequestsFormed, Formed
<1> DEFINE Untouched == /\ items' = items /\ req'[u].pc \notin AddingUp
                        /\ req'[u].counted = req[u].counted
<1>2. CASE AddEntry(u)
  <2> DEFINE order == Tail(req[u].order)
             n == req[u].number + 1
             e == lastId'
             todo == FilesOf(Head(req[u].order))
  <2>1. /\ \/ req' = [req EXCEPT ![u].order = order, ![u].number = n, ![u].entry = e, ![u].todo = todo]
           \/ req' = [req EXCEPT ![u].pc = "failed"]
        /\ items' = items /\ duration' = duration
    BY <1>2 DEF AddEntry
  <2> HIDE DEF order, n, e, todo
  <2> QED
    BY <1>1, <2>1 DEF Fields, AddingUp
<1>3. CASE AddItem(u)
  <2>1. PICK todo :
          \/ req' = [req EXCEPT ![u].todo = todo, ![u].again = 1, ![u].pc = "list"]
          \/ req' = [req EXCEPT ![u].pc = "failed"] /\ items' = items
          \/ req' = [req EXCEPT ![u].todo = todo] /\ items' = items
    BY <1>3 DEF AddItem
  <2>2. duration' = duration
    BY <1>3 DEF AddItem
  <2> QED
    BY <1>1, <2>1, <2>2 DEF Fields, AddingUp
<1>4. CASE Look(u)
  BY <1>1, <1>4 DEF Look, Fields, AddingUp
<1>5. CASE SetClip(u) \/ RemoveItem(u)
  <2> DEFINE id == Min(req[u].todo)
             there == \E x \in items : x.id = id
  <2>1. /\ duration' = duration
        /\ req' = [req EXCEPT ![u].todo = @ \ {id}, ![u].again = IF there THEN 1 ELSE 0,
                             ![u].pc = IF there THEN "list" ELSE "work"]
    BY <1>5 DEF SetClip, RemoveItem, Changed
  <2>2. ~ there => items' = items
    BY <1>5 DEF SetClip, RemoveItem
  <2> HIDE DEF id, there
  <2> QED
    BY <1>1, <2>1, <2>2 DEF Fields, AddingUp
<1>6. CASE RemoveEntry(u)
  <2> DEFINE e == Min(req[u].todo)
             gone == ItemsOf(e) = {}
             n == Cardinality(ItemsOf(e))
  <2>1. /\ duration' = duration /\ (gone => items' = items)
        /\ req' = [req EXCEPT ![u].todo = @ \ {e}, ![u].again = n,
                             ![u].pc = IF gone THEN "work" ELSE "list"]
    BY <1>6 DEF RemoveEntry
  <2> HIDE DEF e, gone, n
  <2> QED
    BY <1>1, <2>1 DEF Fields, AddingUp
<1>7. CASE Renumber(u) \/ Number(u) \/ Finish(u)
  BY <1>1, <1>7 DEF Renumber, Number, NumberFrom, Finish, Fields, AddingUp
<1> QED
  BY <1>2, <1>3, <1>4, <1>5, <1>6, <1>7 DEF Step, List, Sum, Save, AddingUp

LEMMA StepCounts ==
  ASSUME TInv, Alone, CountsInv, NEW u \in Users, Step(u)
  PROVE  CountsInv'
<1>1. DOMAIN req = Users /\ DOMAIN req[u] = Fields
  BY DEF TInv, RequestsFormed, Formed
<1>2. /\ \A v \in Users \ {u} : req'[v] = req[v] /\ ~ req[v].solo
      /\ req'[u].solo = req[u].solo
  BY StepRemembers
<1>3. ASSUME req[u].solo PROVE Counts(req'[u], items', duration')
  <2>0. Counts(req[u], items, duration)
    BY <1>3 DEF CountsInv
  <2>r. Resume(req[u]).pc \notin {"sum", "save"} /\ Resume(req[u]).counted = req[u].counted
    BY <1>1 DEF Resume, Fields
  <2>1. CASE req[u].pc \notin AddingUp
    BY <2>0, <2>1, StepWorks DEF Counts, AddingUp
  <2>2. CASE List(u)
    <3>1. /\ req'[u].pc = "sum" /\ req'[u].seen = items /\ req'[u].held = duration
          /\ items' = items /\ duration' = duration
      BY <1>1, <2>2 DEF List, Fields
    <3> QED
      BY <3>1 DEF Counts, AddingUp
  <2>3. CASE Sum(u)
    <3>1. req[u].seen = items /\ req[u].held = duration
      BY <2>0, <2>3 DEF Sum, Counts
    <3> DEFINE summed == [req[u] EXCEPT !.pc = "save", !.total = Total(req[u].seen), !.counted = TRUE]
    <3>2. summed.pc = "save" /\ summed.total = Total(req[u].seen) /\ summed.held = req[u].held
      BY <1>1 DEF Fields
    <3>3. req' = [req EXCEPT ![u] = summed] /\ items' = items /\ duration' = duration
      BY <2>3, <3>1 DEF Sum
    <3> HIDE DEF summed
    <3>4. req'[u] = summed
      BY <1>1, <3>3
    <3> QED
      BY <3>1, <3>2, <3>3, <3>4 DEF Counts, AddingUp
  <2>4. CASE Save(u)
    <3>1. req[u].total = Total(items) /\ req[u].held = duration
      BY <2>0, <2>4 DEF Save, Counts
    <3>2. duration' = Total(items) /\ items' = items /\ req'[u] = Resume(req[u])
      BY <1>1, <2>4, <3>1 DEF Save
    <3> QED
      BY <2>r, <3>2 DEF Counts
  <2>5. req[u].pc \in AddingUp => List(u) \/ Sum(u) \/ Save(u)
    BY DEF AddingUp, Step, AddEntry, AddItem, Look, SetClip, RemoveItem, RemoveEntry, Renumber,
       Number, NumberFrom, Finish
  <2> QED
    BY <2>1, <2>2, <2>3, <2>4, <2>5
<1> QED
  BY <1>2, <1>3 DEF CountsInv

\* A request that committed an item with no other at work leaves the duration of the playlist
\* the sum of its items, for any number of requests, items and clips, and whatever duration
\* racing requests had left (playlist_manager.rb: update_duration_playlist).
THEOREM SoloChangesTotal == Spec => []SoloChangeTotals
<1>1. Init => StaysInv /\ CountsInv
  BY DEF Init, Idle, StaysInv, Alone, LeavesOne, CountsInv, Counts
<1>2. TInv /\ StaysInv /\ CountsInv /\ [Next]_vars => CountsInv'
  <2> SUFFICES ASSUME TInv, StaysInv, CountsInv, [Next]_vars PROVE CountsInv'
    OBVIOUS
  <2>1. CASE UNCHANGED vars
    BY <2>1 DEF vars, CountsInv, Counts
  <2> QED
    BY <2>1, SubmitCounts, StepCounts DEF Next, StaysInv
<1>3. CountsInv => SoloChangeTotals
  BY DEF CountsInv, Counts, SoloChangeTotals, Undisturbed, AddingUp
<1> QED
  BY <1>1, <1>2, <1>3, StaysNext, Invariant, PTL DEF Spec

-----------------------------------------------------------------------------
(***************************************************************************)
(* The numbers of the entries.  A request that is alone gives each entry   *)
(* it was sent the number of its place, or adds one at the end.            *)
(***************************************************************************)
\* The entries that are not to be numbered.
Left(order, es) == {x \in es : \A i \in 1..Len(order) : order[i] # x.id}

\* Every entry that order holds is still to be numbered or has the number of its place.
Placing(order, todo, es) ==
  /\ order \in Seq(Nat)
  /\ \A i, j \in 1..Len(order) : order[i] = order[j] => i = j
  /\ \A i \in 1..Len(order), x \in es : x.id = order[i] => x.id \in todo \/ x.sort = i

\* Order holds entries only, and the others have the numbers that come after theirs.
Whole(order, es) ==
  /\ \A i \in 1..Len(order) : order[i] \in Ids(es)
  /\ {x.sort : x \in Left(order, es)} = (Len(order) + 1)..Cardinality(es)

Ops == {"add", "assign", "toggle", "clip", "untoggle", "remove", "renumber", "sort", "media"}

\* What a request that is alone, and found the entries numbered if tidy, makes of them.
Numbers(r, es) ==
  /\ r.op \in Ops
  /\ r.pc = "look" => r.op \in {"toggle", "clip"}
  /\ r.op = "remove" => r.pc # "done"
  /\ r.op \in {"add", "toggle", "clip", "untoggle"} /\ r.tidy => Numbered(es)
  /\ r.op = "add" /\ r.order # <<>> =>
       r.number = Cardinality(es) + 1 /\ \E q : r.order = <<q>>
  /\ r.op \in {"sort", "renumber"} /\ r.pc # "done" =>
       /\ Placing(r.order, r.todo, es)
       /\ r.tidy \/ r.op = "renumber" => Whole(r.order, es)
  /\ r.op = "renumber" \/ (r.op = "sort" /\ r.tidy) => (r.pc = "done" => Numbered(es))

NumbersInv == \A u \in Users : req[u].solo => Numbers(req[u], entries)

\* A set of numbers can be put in order.
LEMMA Ascending ==
  ASSUME NEW S \in SUBSET Nat, IsFiniteSet(S)
  PROVE  \E s \in SetToSeqs(S) : \A i, j \in DOMAIN s : i < j => s[i] < s[j]
<1> DEFINE n == Cardinality(S)
           upto(a) == {x \in S : x <= a}
           rank(a) == Cardinality(upto(a))
           r == [a \in S |-> rank(a)]
           s == [i \in 1..n |-> CHOOSE a \in S : rank(a) = i]
<1>1. n \in Nat
  BY FS_CardinalityType
<1>2. \A a, b \in S : /\ rank(a) \in Nat /\ rank(a) <= n
                      /\ rank(a) = rank(b) => a = b
  <2> SUFFICES ASSUME NEW a \in S, NEW b \in S
               PROVE  /\ rank(a) \in Nat /\ rank(a) <= n
                      /\ rank(a) = rank(b) => a = b
    OBVIOUS
  <2> QED
    BY Ranks
<1>3. \A a \in S : IsFiniteSet(upto(a)) /\ rank(a) # 0
  <2> TAKE a \in S
  <2>1. upto(a) \in SUBSET S /\ a \in upto(a)
    OBVIOUS
  <2> HIDE DEF upto
  <2> QED
    BY <2>1, FS_Subset, FS_EmptySet
<1>4. \A a, b \in S : a <= b => rank(a) <= rank(b)
  <2> SUFFICES ASSUME NEW a \in S, NEW b \in S, a <= b
               PROVE  rank(a) <= rank(b)
    OBVIOUS
  <2>1. \A x \in S : x <= a => x <= b
    <3>1. \A x \in S : x \in Nat
      OBVIOUS
    <3> QED
      BY <3>1
  <2>2. upto(a) \in SUBSET upto(b)
    BY <2>1
  <2> HIDE DEF upto
  <2> QED
    BY <1>3, <2>2, FS_Subset
<1> HIDE DEF upto
<1>5. r \in Injection(S, 1..n)
  <2> HIDE DEF rank, n
  <2>1. r \in [S -> 1..n]
    BY <1>1, <1>2, <1>3
  <2> QED
    BY <1>2, <2>1 DEF Injection, IsInjective
<1>6. IsFiniteSet(1..n) /\ Cardinality(1..n) = n
  BY <1>1, FS_Interval
<1>7. r \in Surjection(S, 1..n)
  <2> HIDE DEF r
  <2> QED
    BY <1>5, <1>6, FS_Injection
<1>8. \A i \in 1..n : s[i] \in S /\ rank(s[i]) = i
  <2> HIDE DEF rank, n
  <2>1. \A i \in 1..n : \E a \in S : rank(a) = i
    BY <1>7 DEF Surjection
  <2> QED
    BY <2>1
<1> HIDE DEF rank, r
<1>9. s \in [1..n -> S]
  BY <1>8
<1> HIDE DEF s
<1>10. \A i, j \in 1..n : i # j => s[i] # s[j]
  BY <1>8
<1>11. s \in SetToSeqs(S) /\ DOMAIN s = 1..n
  BY <1>9, <1>10 DEF SetToSeqs
<1>12. \A i, j \in 1..n : i < j => s[i] < s[j]
  <2> SUFFICES ASSUME NEW i \in 1..n, NEW j \in 1..n, i < j
               PROVE  s[i] < s[j]
    OBVIOUS
  <2>1. s[i] \in S /\ s[j] \in S /\ rank(s[i]) = i /\ rank(s[j]) = j
    BY <1>8
  <2>2. ~ (s[j] <= s[i])
    <3>1. s[j] <= s[i] => rank(s[j]) <= rank(s[i])
      BY <1>4, <2>1
    <3>2. s[j] <= s[i] => j <= i
      BY <2>1, <3>1
    <3> QED
      BY <3>2
  <2>3. s[i] \in Nat /\ s[j] \in Nat
    BY <2>1
  <2> QED
    BY <2>2, <2>3
<1> QED
  BY <1>11, <1>12

\* sort_manager has every entry once.
LEMMA ByIdOrders ==
  ASSUME NEW es, Keyed(es)
  PROVE  ById(es) \in SetToSeqs(Ids(es))
<1> DEFINE S == Ids(es)
<1>1. \E s \in SetToSeqs(S) : \A i, j \in DOMAIN s : i < j => s[i] < s[j]
  BY IdsCount, Ascending
<1> QED
  BY <1>1 DEF ById, Ids

\* sort_manager begins with what is not in its place yet.
LEMMA RenumberPlaces ==
  ASSUME NEW es, Keyed(es)
  PROVE  Placing(ById(es), Misplaced(es, ById(es)), es) /\ Whole(ById(es), es)
<1> DEFINE s == ById(es)
<1>1. s \in SetToSeqs(Ids(es)) /\ Ids(es) \in SUBSET Nat /\ Cardinality(Ids(es)) = Cardinality(es)
  BY IdsCount, ByIdOrders
<1> HIDE DEF s
<1>2. /\ s \in Seq(Ids(es)) /\ Len(s) = Cardinality(es)
      /\ \A i, j \in 1..Len(s) : s[i] = s[j] => i = j
      /\ \A a \in Ids(es) : \E i \in 1..Len(s) : s[i] = a
  BY <1>1, IdsCount, SeqsOrder
<1>3. s \in Seq(Nat) /\ DOMAIN s = 1..Len(s)
  BY <1>1, <1>2
<1>4. ASSUME NEW i \in 1..Len(s), NEW x \in es, x.id = s[i]
      PROVE  x.id \in Misplaced(es, s) \/ x.sort = i
  <2>1. x.id \in Misplaced(es, s) \/ (x.sort \in DOMAIN s /\ s[x.sort] = x.id)
    BY DEF Misplaced
  <2> QED
    BY <1>2, <1>3, <1>4, <2>1
<1>5. Left(s, es) = {}
  <2>1. \A x \in es : x.id \in Ids(es)
    BY DEF Ids
  <2> QED
    BY <1>2, <2>1 DEF Left
<1>6. (Len(s) + 1)..Cardinality(es) = {}
  BY <1>2, IdsCount
<1>7. \A i \in 1..Len(s) : s[i] \in Ids(es)
  BY <1>2
<1> QED
  BY <1>2, <1>3, <1>4, <1>5, <1>6, <1>7 DEF Placing, Whole, s

\* Who sorts the first of numbered entries leaves the rest their numbers.
LEMMA FirstAreWhole ==
  ASSUME NEW es, Keyed(es), Numbered(es), NEW s \in Seq(Nat), FirstOf(es, s)
  PROVE  Whole(s, es)
<1> DEFINE n == Len(s)
           first == {x \in es : x.sort <= n}
<1>1. n \in Nat /\ Cardinality(es) \in Nat /\ \A i \in 1..n : s[i] \in ToSet(s)
  BY IdsCount DEF ToSet
<1>2. ToSet(s) = {x.id : x \in first} /\ \A a \in ToSet(s) : \E i \in 1..n : s[i] = a
  <2>1. DOMAIN s = 1..n
    OBVIOUS
  <2> HIDE DEF n
  <2>2. \A a \in ToSet(s) : \E i \in 1..n : s[i] = a
    BY <2>1 DEF ToSet
  <2> QED
    BY <2>2 DEF FirstOf, n
<1>3. \A i \in 1..n : s[i] \in Ids(es)
  BY <1>1, <1>2 DEF Ids
<1>4. ASSUME NEW x \in es PROVE x \in Left(s, es) <=> x.sort > n
  <2>1. x.sort \in Nat
    BY DEF Keyed, Entry
  <2>2. x \in first => \E i \in 1..n : s[i] = x.id
    BY <1>2
  <2>3. ASSUME NEW i \in 1..n, s[i] = x.id PROVE x \in first
    <3>1. PICK y \in first : y.id = x.id
      BY <1>1, <1>2, <2>3
    <3> QED
      BY <3>1 DEF Keyed
  <2> QED
    BY <1>1, <2>1, <2>2, <2>3 DEF Left
<1>5. {x.sort : x \in es} = 1..Cardinality(es)
  BY DEF Numbered
<1>6. {x.sort : x \in Left(s, es)} = (n + 1)..Cardinality(es)
  <2>1. ASSUME NEW x \in Left(s, es) PROVE x.sort \in (n + 1)..Cardinality(es)
    <3>1. x \in es /\ x.sort > n
      BY <1>4 DEF Left
    <3>2. x.sort \in 1..Cardinality(es)
      BY <1>5, <3>1
    <3> QED
      BY <1>1, <3>1, <3>2
  <2>2. ASSUME NEW k \in (n + 1)..Cardinality(es) PROVE \E x \in Left(s, es) : x.sort = k
    <3>1. k \in 1..Cardinality(es) /\ k > n
      BY <1>1
    <3>2. PICK x \in es : x.sort = k
      BY <1>5, <3>1
    <3> QED
      BY <1>4, <3>1, <3>2
  <2> QED
    BY <2>1, <2>2
<1> QED
  BY <1>3, <1>6 DEF Whole

\* Who has none left to number has numbered them all.
LEMMA PlacingEnds ==
  ASSUME NEW es, Keyed(es), NEW order, Placing(order, {}, es), Whole(order, es)
  PROVE  Numbered(es)
<1> DEFINE n == Len(order)
           N == Cardinality(es)
<1>1. N \in Nat /\ n \in Nat /\ IsFiniteSet(Ids(es)) /\ Cardinality(Ids(es)) = N
  BY IdsCount DEF Placing
<1>2. n <= N
  <2> DEFINE f == [i \in 1..n |-> order[i]]
  <2>1. f \in Injection(1..n, Ids(es))
    BY DEF Injection, IsInjective, Placing, Whole
  <2> HIDE DEF f, n
  <2>2. Cardinality(1..n) = n
    BY <1>1, FS_Interval
  <2> QED
    BY <1>1, <2>1, <2>2, FS_Injection
<1>3. {x.sort : x \in Left(order, es)} = (n + 1)..N
  BY DEF Whole
<1>4. {x.sort : x \in es} = 1..N
  <2>1. ASSUME NEW x \in es PROVE x.sort \in 1..N
    <3>1. CASE x \in Left(order, es)
      <4>1. x.sort \in (n + 1)..N
        BY <1>3, <3>1
      <4> QED
        BY <1>1, <4>1
    <3>2. CASE x \notin Left(order, es)
      <4>1. PICK i \in 1..n : order[i] = x.id
        BY <3>2 DEF Left
      <4>2. x.sort = i
        BY <4>1 DEF Placing
      <4> QED
        BY <1>1, <1>2, <4>2
    <3> QED
      BY <3>1, <3>2
  <2>2. ASSUME NEW k \in 1..N PROVE \E x \in es : x.sort = k
    <3>1. CASE k <= n
      <4>1. k \in 1..n
        BY <1>1, <3>1
      <4>2. PICK x \in es : x.id = order[k]
        BY <4>1 DEF Whole, Ids
      <4> QED
        BY <4>1, <4>2 DEF Placing
    <3>2. CASE k > n
      <4>1. k \in (n + 1)..N
        BY <1>1, <3>2
      <4>2. PICK x \in Left(order, es) : x.sort = k
        BY <1>3, <4>1
      <4> QED
        BY <4>2 DEF Left
    <3> QED
      BY <1>1, <3>1, <3>2
  <2> QED
    BY <2>1, <2>2
<1>5. Cardinality(1..N) = N
  BY <1>1, FS_Interval
<1> QED
  BY <1>4, <1>5 DEF Numbered

\* An entry that comes after the last keeps the numbers without a gap.
LEMMA NumbersGrow ==
  ASSUME NEW es, Keyed(es), Numbered(es), NEW x, x \notin es,
         x.sort = Cardinality(es) + 1
  PROVE  Numbered(es \cup {x})
<1> DEFINE n == Cardinality(es)
           sorts == {y.sort : y \in es}
<1>1. n \in Nat /\ Cardinality(es \cup {x}) = n + 1
  BY IdsCount, FS_AddElement DEF Keyed
<1>2. sorts = 1..n
  BY DEF Numbered
<1>3. {y.sort : y \in es \cup {x}} = sorts \cup {n + 1}
  OBVIOUS
<1> HIDE DEF sorts
<1>4. sorts \cup {n + 1} = 1..(n + 1)
  BY <1>1, <1>2
<1>5. Cardinality(1..(n + 1)) = n + 1
  BY <1>1, FS_Interval
<1> QED
  BY <1>1, <1>3, <1>4, <1>5 DEF Numbered

\* The entry whose turn it is gets the number of its place, and no other changes.
LEMMA PlacingGoesOn ==
  ASSUME NEW es, Keyed(es), NEW order, NEW todo, Placing(order, todo, es),
         NEW i \in 1..Len(order),
         NEW ds, ds = {IF x.id = order[i] THEN [x EXCEPT !.sort = 1 + i - 1] ELSE x : x \in es}
  PROVE  Placing(order, todo \ {order[i]}, ds) /\ (Whole(order, es) => Whole(order, ds))
<1> DEFINE New(x) == IF x.id = order[i] THEN [x EXCEPT !.sort = 1 + i - 1] ELSE x
           h == [x \in es |-> New(x)]
<1>1. order \in Seq(Nat) /\ \A j, k \in 1..Len(order) : order[j] = order[k] => j = k
  BY DEF Placing
<1>2. Len(order) \in Nat /\ 1 + i - 1 = i /\ i \in Nat
  BY <1>1
<1>3. ds = {New(x) : x \in es}
  OBVIOUS
<1>4. \A x \in es : /\ New(x) \in Entry /\ New(x).id = x.id
                    /\ x.id = order[i] => New(x).sort = i
                    /\ x.id # order[i] => New(x) = x
  BY <1>2 DEF Keyed, Entry
<1> HIDE DEF New
<1>5. Ids(ds) = Ids(es)
  BY <1>3, <1>4 DEF Ids
<1>6. Keyed(ds)
  <2>1. h \in Surjection(es, ds)
    BY <1>3 DEF Surjection
  <2> HIDE DEF h
  <2>2. IsFiniteSet(ds)
    BY <2>1, FS_Surjection DEF Keyed
  <2>3. ds \subseteq Entry
    BY <1>3, <1>4
  <2>4. ASSUME NEW x \in ds, NEW y \in ds, x.id = y.id PROVE x = y
    <3>1. PICK a \in es, b \in es : x = New(a) /\ y = New(b)
      BY <1>3
    <3>2. a.id = b.id
      BY <1>4, <2>4, <3>1
    <3> QED
      BY <3>1, <3>2 DEF Keyed
  <2> QED
    BY <2>2, <2>3, <2>4 DEF Keyed
<1>7. Cardinality(ds) = Cardinality(es)
  BY <1>5, <1>6, IdsCount
<1>8. Left(order, ds) = Left(order, es)
  <2>1. ASSUME NEW x \in Left(order, ds) PROVE x \in Left(order, es)
    <3>1. PICK a \in es : x = New(a)
      BY <1>3 DEF Left
    <3>2. a.id # order[i] /\ x.id = a.id
      BY <1>4, <2>1, <3>1 DEF Left
    <3> QED
      BY <1>4, <2>1, <3>1, <3>2 DEF Left
  <2>2. ASSUME NEW x \in Left(order, es) PROVE x \in Left(order, ds)
    <3>1. x \in es /\ x.id # order[i]
      BY DEF Left
    <3>2. x \in ds
      BY <1>3, <1>4, <3>1
    <3> QED
      BY <3>2 DEF Left
  <2> QED
    BY <2>1, <2>2
<1>9. ASSUME NEW j \in 1..Len(order), NEW x \in ds, x.id = order[j]
      PROVE  x.id \in todo \ {order[i]} \/ x.sort = j
  <2>1. PICK a \in es : x = New(a)
    BY <1>3
  <2>2. CASE j = i
    BY <1>4, <1>9, <2>1, <2>2
  <2>3. CASE j # i
    <3>1. order[j] # order[i]
      BY <1>1, <2>3
    <3>2. x = a
      BY <1>4, <1>9, <2>1, <3>1
    <3> QED
      BY <1>9, <3>1, <3>2 DEF Placing
  <2> QED
    BY <2>2, <2>3
<1>10. Whole(order, es) => Whole(order, ds)
  BY <1>5, <1>7, <1>8 DEF Whole
<1> QED
  BY <1>1, <1>9, <1>10 DEF Placing

LEMMA SubmitNumbers ==
  ASSUME TInv, NumbersInv, NEW u \in Users, Submit(u)
  PROVE  NumbersInv'
<1>1. PICK r : Formed(r) /\ Fresh(r) /\ Begin(u, r) /\ (r.op = "media" \/ entries' = entries)
  BY SubmitBegins
<1> DEFINE alone == \A v \in Users \ {u} : req[v].pc \notin Running
           tidy == Numbered(entries) /\ (r.op = "sort" => FirstOf(entries, r.order))
<1>2. req' = [v \in Users |-> IF v = u THEN [r EXCEPT !.solo = alone, !.tidy = tidy]
                              ELSE [req[v] EXCEPT !.solo = FALSE]]
  BY <1>1 DEF Begin
<1> HIDE DEF alone, tidy
<1>3. \A v \in Users : DOMAIN req[v] = Fields
  BY DEF TInv, RequestsFormed, Formed
<1>4. /\ req'[u].op = r.op /\ req'[u].pc = r.pc
      /\ req'[u].order = r.order /\ req'[u].todo = r.todo
      /\ req'[u].number = r.number /\ req'[u].tidy = tidy
      /\ \A v \in Users \ {u} : req'[v].solo = FALSE
  BY <1>1, <1>2, <1>3 DEF Formed, Fields
<1>5. CASE r.op = "media"
  BY <1>1, <1>4, <1>5 DEF NumbersInv, Numbers, Ops, Fresh
<1>6. CASE r.op # "media"
  <2>1. entries' = entries /\ (req'[u].tidy => Numbered(entries)) /\ r.op \in Ops
    BY <1>1, <1>4, <1>6 DEF tidy, Fresh, Ops
  <2>2. ASSUME r.op = "sort"
        PROVE  /\ Placing(r.order, r.todo, entries) /\ r.pc # "done"
               /\ req'[u].tidy => Whole(r.order, entries)
    <3>1. Keyed(entries)
      BY DEF TInv, RowsOK, Keyed
    <3>2. /\ r.order \in Seq(Nat) /\ r.todo = ToSet(r.order) /\ r.pc # "done"
          /\ \A i, j \in 1..Len(r.order) : r.order[i] = r.order[j] => i = j
      BY <1>1, <2>2 DEF Fresh
    <3>3. \A i \in 1..Len(r.order) : r.order[i] \in r.todo
      BY <3>2 DEF ToSet
    <3>4. req'[u].tidy => Whole(r.order, entries)
      BY <1>4, <2>2, <3>1, <3>2, FirstAreWhole DEF tidy
    <3> QED
      BY <3>2, <3>3, <3>4 DEF Placing
  <2>3. Numbers(req'[u], entries)
    BY <1>1, <1>4, <1>6, <2>1, <2>2 DEF Fresh, Numbers, Ops
  <2> QED
    BY <1>4, <2>1, <2>3 DEF NumbersInv
<1> QED
  BY <1>5, <1>6

\* A step that neither looks nor touches the entries goes on with them as it was.
LEMMA SteadyNumbers ==
  ASSUME NEW r, NEW q, NEW es, Numbers(r, es), r.pc # "done",
         q.op = r.op, q.order = r.order, q.number = r.number, q.tidy = r.tidy,
         r.op \in {"sort", "renumber"} => q.todo = r.todo,
         q.pc \notin {"look", "done"}
  PROVE  Numbers(q, es)
BY DEF Numbers

LEMMA StepNumbers ==
  ASSUME TInv, Alone, NumbersInv, NEW u \in Users, Step(u)
  PROVE  NumbersInv'
<1>1. DOMAIN req = Users /\ DOMAIN req[u] = Fields
  BY DEF TInv, RequestsFormed, Formed
<1>2. /\ \A v \in Users \ {u} : req'[v] = req[v] /\ ~ req[v].solo
      /\ req'[u].solo = req[u].solo /\ req'[u].tidy = req[u].tidy
  BY StepRemembers
<1>3. Keyed(entries) /\ Keyed(entries')
  BY StepRows DEF TInv, RowsOK, Keyed
<1> SUFFICES ASSUME req[u].solo PROVE Numbers(req'[u], entries')
  BY <1>2 DEF NumbersInv
<1>4. Numbers(req[u], entries)
  BY DEF NumbersInv
<1> DEFINE Steady(q) == /\ q.op = req[u].op /\ q.order = req[u].order
                        /\ q.number = req[u].number /\ q.pc \notin {"look", "done"}
                        /\ req[u].op \in {"sort", "renumber"} => q.todo = req[u].todo
<1>0. req[u].pc # "done"
  BY DEF Step, AddEntry, AddItem, Look, SetClip, RemoveItem, RemoveEntry, Renumber, Number,
     NumberFrom, List, Sum, Save, Finish
<1>5. ASSUME entries' = entries, Steady(req'[u]) PROVE Numbers(req'[u], entries')
  BY <1>0, <1>2, <1>4, <1>5, SteadyNumbers
<1>6. CASE AddEntry(u)
  <2> DEFINE x == [id |-> lastId + 1, resource |-> Head(req[u].order), sort |-> req[u].number]
             order == Tail(req[u].order)
             n == req[u].number + 1
             e == lastId'
             todo == FilesOf(Head(req[u].order))
  <2>1. CASE req' = [req EXCEPT ![u].pc = "failed"] /\ entries' = entries
    BY <1>1, <1>5, <2>1 DEF Fields
  <2>2. CASE /\ req' = [req EXCEPT ![u].order = order, ![u].number = n, ![u].entry = e, ![u].todo = todo]
             /\ entries' = entries \cup {x}
    <3>0. x.id = lastId + 1 /\ x.sort = req[u].number
      OBVIOUS
    <3> HIDE DEF x, order, n, e, todo
    <3>1. /\ req'[u].op = req[u].op /\ req'[u].pc = req[u].pc /\ req'[u].order = order
      BY <1>1, <2>2 DEF Fields
    <3>2. /\ req[u].op \in {"add", "assign"} /\ req[u].pc = "work" /\ req[u].order # <<>>
      BY <1>6 DEF AddEntry
    <3>3. CASE req[u].op = "assign"
      BY <3>1, <3>2, <3>3 DEF Numbers, Ops
    <3>4. CASE req[u].op = "add"
      <4>1. req[u].number = Cardinality(entries) + 1 /\ order = <<>>
        <5>1. PICK r : req[u].number = Cardinality(entries) + 1 /\ req[u].order = <<r>>
          BY <1>4, <3>2, <3>4 DEF Numbers
        <5>2. Tail(<<r>>) = <<>>
          OBVIOUS
        <5> QED
          BY <5>1, <5>2 DEF order
      <4>2. x \notin entries
        BY <3>0 DEF TInv, RowsOK, IdsUsed, Entry
      <4>3. req[u].tidy => Numbered(entries')
        BY <1>3, <1>4, <2>2, <3>0, <3>4, <4>1, <4>2, NumbersGrow DEF Numbers
      <4> QED
        BY <1>2, <3>1, <3>2, <3>4, <4>1, <4>3 DEF Numbers, Ops
    <3> QED
      BY <3>2, <3>3, <3>4
  <2> QED
    BY <1>6, <2>1, <2>2 DEF AddEntry
<1>7. CASE AddItem(u)
  <2>1. PICK todo :
          \/ req' = [req EXCEPT ![u].todo = todo, ![u].again = 1, ![u].pc = "list"]
          \/ req' = [req EXCEPT ![u].pc = "failed"]
          \/ req' = [req EXCEPT ![u].todo = todo]
    BY <1>7 DEF AddItem
  <2>2. req[u].pc = "work" /\ entries' = entries /\ req[u].op \in {"add", "assign", "toggle"}
    BY <1>7 DEF AddItem
  <2> QED
    BY <1>1, <1>5, <2>1, <2>2 DEF Fields
<1>8. CASE Look(u)
  <2>1. entries' = entries /\ req[u].pc = "look"
    BY <1>8 DEF Look
  <2>2. req[u].op \in {"toggle", "clip"} /\ (req[u].tidy => Numbered(entries))
    BY <1>4, <2>1 DEF Numbers
  <2>3. /\ req'[u].pc \in {"work", "failed", "refused"}
        /\ req'[u].op \in {"toggle", "clip", "untoggle"}
    BY <1>1, <1>8, <2>2 DEF Look, Fields
  <2> QED
    BY <1>2, <2>1, <2>2, <2>3 DEF Numbers, Ops
<1>9. CASE SetClip(u) \/ RemoveItem(u)
  <2> DEFINE id == Min(req[u].todo)
             there == \E x \in items : x.id = id
  <2>1. /\ entries' = entries /\ req[u].op \in {"clip", "untoggle"}
        /\ req' = [req EXCEPT ![u].todo = @ \ {id}, ![u].again = IF there THEN 1 ELSE 0,
                             ![u].pc = IF there THEN "list" ELSE "work"]
    BY <1>9 DEF SetClip, RemoveItem, Changed
  <2> HIDE DEF id, there
  <2> QED
    BY <1>1, <1>5, <2>1 DEF Fields
<1>10. CASE RemoveEntry(u)
  <2> DEFINE e == Min(req[u].todo)
             gone == ItemsOf(e) = {}
             n == Cardinality(ItemsOf(e))
  <2>1. /\ req[u].op = "remove"
        /\ req' = [req EXCEPT ![u].todo = @ \ {e}, ![u].again = n,
                             ![u].pc = IF gone THEN "work" ELSE "list"]
    BY <1>10 DEF RemoveEntry
  <2> HIDE DEF e, gone, n
  <2>2. req'[u].op = "remove" /\ req'[u].pc \in {"work", "list"}
    BY <1>1, <2>1 DEF Fields
  <2> QED
    BY <2>2 DEF Numbers, Ops
<1>11. CASE Renumber(u)
  <2> DEFINE order == ById(entries)
             todo == Misplaced(entries, order)
  <2>1. /\ req[u].pc = "work" /\ entries' = entries
        /\ req' = [req EXCEPT ![u].op = "renumber", ![u].order = order, ![u].todo = todo]
    BY <1>11 DEF Renumber
  <2>2. Placing(order, todo, entries) /\ Whole(order, entries)
    BY <1>3, RenumberPlaces
  <2> HIDE DEF order, todo
  <2>3. /\ req'[u].op = "renumber" /\ req'[u].pc = "work"
        /\ req'[u].order = order /\ req'[u].todo = todo
    BY <1>1, <2>1 DEF Fields
  <2> QED
    BY <2>1, <2>2, <2>3 DEF Numbers, Ops
<1>12. CASE Number(u)
  <2> DEFINE id == Min(req[u].todo)
             todo == req[u].todo \ {id}
             Made(i) == {IF x.id = id THEN [x EXCEPT !.sort = 1 + i - 1] ELSE x : x \in entries}
  <2>1. /\ req[u].pc = "work" /\ req[u].op \in {"sort", "renumber"}
        /\ req' = [req EXCEPT ![u].todo = todo]
    BY <1>12 DEF Number, NumberFrom
  <2>2. PICK i \in 1..Len(req[u].order) : req[u].order[i] = id /\ entries' = Made(i)
    BY <1>12 DEF Number, NumberFrom
  <2>3. Placing(req[u].order, req[u].todo, entries)
    BY <1>4, <2>1 DEF Numbers
  <2>4. /\ Placing(req[u].order, todo, entries')
        /\ Whole(req[u].order, entries) => Whole(req[u].order, entries')
    <3> DEFINE order == req[u].order
    <3>1. /\ entries' = {IF x.id = order[i] THEN [x EXCEPT !.sort = 1 + i - 1] ELSE x : x \in entries}
          /\ todo = req[u].todo \ {order[i]} /\ i \in 1..Len(order)
          /\ Placing(order, req[u].todo, entries)
      BY <2>2, <2>3
    <3> HIDE DEF order, todo, id
    <3>2. /\ Placing(order, req[u].todo \ {order[i]}, entries')
          /\ Whole(order, entries) => Whole(order, entries')
      BY <1>3, <3>1, PlacingGoesOn
    <3> QED
      BY <3>1, <3>2 DEF order
  <2> HIDE DEF id, todo, Made
  <2>5. /\ req'[u].op = req[u].op /\ req'[u].pc = "work"
        /\ req'[u].order = req[u].order /\ req'[u].todo = todo
    BY <1>1, <2>1 DEF Fields
  <2> QED
    BY <1>2, <1>4, <2>1, <2>4, <2>5 DEF Numbers, Ops
<1>13. CASE List(u)
  BY <1>1, <1>5, <1>13 DEF List, Fields
<1>15. CASE Finish(u)
  <2>1. /\ req[u].pc = "work" /\ req[u].op # "remove" /\ req[u].todo = {} /\ entries' = entries
        /\ req' = [req EXCEPT ![u].pc = "done", ![u].order = <<>>]
    BY <1>15 DEF Finish
  <2>2. req'[u].op = req[u].op /\ req'[u].pc = "done" /\ req'[u].order = <<>>
    BY <1>1, <2>1 DEF Fields
  <2>3. req[u].op = "renumber" \/ (req[u].op = "sort" /\ req[u].tidy) => Numbered(entries)
    <3>1. SUFFICES ASSUME req[u].op = "renumber" \/ (req[u].op = "sort" /\ req[u].tidy)
                   PROVE  Numbered(entries)
      OBVIOUS
    <3>2. Placing(req[u].order, {}, entries) /\ Whole(req[u].order, entries)
      BY <1>4, <2>1, <3>1 DEF Numbers
    <3> QED
      BY <1>3, <3>2, PlacingEnds
  <2> QED
    BY <1>2, <1>4, <2>1, <2>2, <2>3 DEF Numbers, Ops
<1>14. CASE Sum(u) \/ Save(u)
  <2> DEFINE summed == [req[u] EXCEPT !.pc = "save", !.total = Total(req[u].seen), !.counted = TRUE]
  <2>1. Steady(summed) /\ Steady(Resume(req[u]))
    BY <1>1 DEF Resume, Fields
  <2>2. entries' = entries /\ (req' = [req EXCEPT ![u] = summed] \/ req' = [req EXCEPT ![u] = Resume(req[u])])
    BY <1>1, <1>14 DEF Sum, Save
  <2> HIDE DEF summed, Steady
  <2>3. req'[u] = summed \/ req'[u] = Resume(req[u])
    BY <1>1, <2>2
  <2>4. Steady(req'[u])
    BY <2>1, <2>3
  <2> QED
    BY <1>5, <2>2, <2>4
<1> QED
  BY <1>6, <1>7, <1>8, <1>9, <1>10, <1>11, <1>12, <1>13, <1>14, <1>15 DEF Step

\* A request that removed entries with no other at work leaves the others numbered from 1,
\* with no gap and none twice, whatever drags under a filter had made of the numbers, and one
\* that added a resource, toggled, or sorted the first so many of the entries keeps such
\* numbers, for any number of requests, resources and entries
\* (playlist_resources_controller.rb: sort_manager, sort; playlist_presenter.rb).
THEOREM NumbersAreKept == Spec => []NumbersKept
<1>1. Init => StaysInv /\ NumbersInv
  BY DEF Init, Idle, StaysInv, Alone, LeavesOne, NumbersInv
<1>2. TInv /\ StaysInv /\ NumbersInv /\ [Next]_vars => NumbersInv'
  <2> SUFFICES ASSUME TInv, StaysInv, NumbersInv, [Next]_vars PROVE NumbersInv'
    OBVIOUS
  <2>1. CASE UNCHANGED vars
    BY <2>1 DEF vars, NumbersInv
  <2> QED
    BY <2>1, SubmitNumbers, StepNumbers DEF Next, StaysInv
<1>3. TInv /\ NumbersInv => NumbersKept
  <2> SUFFICES ASSUME TInv, NumbersInv, NEW u \in Users, Undisturbed(u),
                      req[u].op \notin {"media", "assign"},
                      req[u].tidy \/ req[u].op = "renumber"
               PROVE  Numbered(entries)
    BY DEF NumbersKept
  <2>1. Numbers(req[u], entries) /\ req[u].pc = "done"
    BY DEF NumbersInv, Undisturbed
  <2> QED
    BY <2>1 DEF Numbers, Ops
<1> QED
  BY <1>1, <1>2, <1>3, StaysNext, Invariant, PTL DEF Spec
=============================================================================
