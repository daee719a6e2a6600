--------------------------- MODULE BulkSelection ---------------------------
(***************************************************************************)
(* Picking rows of a table for a bulk edit, in the windows of one person.  *)
(*                                                                         *)
(* What is picked is kept twice: in the window (ids_session) and in the    *)
(* session on the server, which all windows of the browser share.  Every   *)
(* request reads the whole session when it begins and writes the whole of  *)
(* it back when it ends (config/initializers/session_store.rb), and the    *)
(* server runs several at a time.  The bulk edit changes what the session  *)
(* names.  While a request is out, most clicks put an overlay on the       *)
(* window that takes all further clicks.  The search page keeps a list of  *)
(* resources of its own in the same session.                               *)
(***************************************************************************)
EXTENDS Integers, FiniteSets, Sequences, SequencesExt

CONSTANTS
  Windows,     \* the windows, or tabs, of one browser
  Ids,         \* the ids of the resources, and of the interviews
  Found,       \* the ids of the resources that the search page shows
  Pages,       \* the pages of a table: a sequence of sequences of ids
  None,
  MaxClicks,   \* clicks and other occasions of a request, and losses (bound)
  SearchClicks, \* the search page is used among the first so many of them (bound)
  MaxWire,     \* requests under way at a time (bound)
  MaxFaults,   \* requests or answers that are lost (bound)
  MaxHandlers  \* handlers counted on the "Select All" link (bound)

\* The kinds of pages with a table, and the lists of the session: each such page has
\* one, and so has the search page.
Kinds == {"resources", "interviews"}
Lists == Kinds \cup {"search"}

ASSUME BulkAssumption ==
  /\ Pages \in Seq(Seq(Ids)) /\ Len(Pages) > 0
  /\ \A i \in DOMAIN Pages : Len(Pages[i]) > 0 /\ IsInjective(Pages[i])
  /\ IsFiniteSet(Ids) /\ Found \subseteq Ids /\ None \notin Windows
  /\ MaxClicks \in Nat /\ SearchClicks \in Nat /\ MaxWire \in Nat /\ MaxFaults \in Nat
  /\ MaxHandlers \in Nat \ {0}

VARIABLES
  session,  \* the ids picked, in each list, as stored on the server
  tab,      \* what each window holds
  wire,     \* the requests under way
  op,       \* the latest bulk edit that was carried out
  clicks, faults,
  alone     \* history: the window that loaded a page last and since has had
            \* each of its clicks answered before the next; no other clicked

vars == <<session, tab, wire, op, clicks, faults, alone>>

What == {"load", "page", "add", "remove", "all", "take", "clear", "review", "act", "poll"}

Session == [Lists -> SUBSET Ids]

\* What a review dialog lists, and what it is about.
Listing == [kind : Kinds, ids : SUBSET Ids]
Blank == [kind |-> "resources", ids |-> {}]

\* A request: its number, the handler that sent it, its window (None once that has left
\* the page, and for those of the search page), what it asks, of which list and for
\* which ids or page, how far it has got, and the session as it has it.
Request == [no : 1..MaxClicks, handler : 1..MaxHandlers, w : Windows \cup {None},
            what : What, kind : Lists, ids : SUBSET Ids, table : DOMAIN Pages,
            stage : {"sent", "read", "done"}, copy : Session]

\* A window.  boxes: the ticked boxes of the rows it shows; stray: those clicked
\* while the rows had no handler, or left by "Clear selected", whose answer reloads the page;
\* links: "Clear selected" and "Select All" are shown.
Tab == [kind : Kinds \cup {"away"}, picked : Seq(Ids), table : DOMAIN Pages,
        boxes : SUBSET Ids, stray : SUBSET Ids, allbox : BOOLEAN, bound : BOOLEAN,
        handlers : 0..MaxHandlers, links : BOOLEAN, loader : BOOLEAN,
        modal : BOOLEAN, listed : Listing, polling : BOOLEAN, leaving : BOOLEAN]

Away == [kind |-> "away", picked |-> <<>>, table |-> 1, boxes |-> {}, stray |-> {},
         allbox |-> FALSE, bound |-> FALSE, handlers |-> 0, links |-> FALSE,
         loader |-> FALSE, modal |-> FALSE, listed |-> Blank, polling |-> FALSE,
         leaving |-> FALSE]

Empty == [k \in Lists |-> {}]

Init ==
  /\ session = Empty
  /\ tab = [w \in Windows |-> Away]
  /\ wire = {}
  /\ op = None
  /\ clicks = 0
  /\ faults = 0
  /\ alone = None

-----------------------------------------------------------------------------
(***************************************************************************)
(* Sending.  A window stays alone while it is the only one to click and    *)
(* clicks only when nothing is under way.                                  *)
(***************************************************************************)
Rows(w) == Pages[tab[w].table]
Usable(w) == tab[w].kind # "away" /\ ~tab[w].loader
InTable(w) == Usable(w) /\ ~tab[w].modal

Ask(w, what, ids, table, handler) ==
  [no |-> clicks + 1, handler |-> handler, w |-> w, what |-> what,
   kind |-> tab[w].kind, ids |-> ids, table |-> table, stage |-> "sent",
   copy |-> Empty]

\* Puts requests on the wire.
Send(w, rs) ==
  /\ clicks < MaxClicks
  /\ Cardinality(wire \cup rs) <= MaxWire
  /\ clicks' = clicks + 1
  /\ wire' = wire \cup rs
  /\ alone' = IF wire = {} /\ alone = w THEN w ELSE None
  /\ UNCHANGED <<session, op, faults>>

Send1(w, what, ids, table) == Send(w, {Ask(w, what, ids, table, 1)})

\* Opens, or reloads, a page while requests rs are under way: what the window had
\* asked for is answered to nobody.
OpenPage(w, kind, rs) ==
  /\ clicks < MaxClicks /\ Cardinality(rs) < MaxWire
  /\ clicks' = clicks + 1
  /\ LET request == [Ask(w, "load", {}, 1, 1) EXCEPT !.kind = kind]
         others == {r \in rs : r.w # w}
         orphans == {[r EXCEPT !.w = None] : r \in {r \in rs \ others : r.stage # "done"}}
     IN  wire' = others \cup orphans \cup {request}
  /\ tab' = [tab EXCEPT ![w] = Away]
  /\ alone' = IF rs = {} THEN w ELSE None
  /\ UNCHANGED <<session, op>>

\* A person opens a page by hand; a window that has carried out a bulk edit reloads
\* its page some seconds later.
Visit(w, kind) == ~tab[w].loader /\ OpenPage(w, kind, wire) /\ UNCHANGED faults
Reload(w) == tab[w].leaving /\ OpenPage(w, tab[w].kind, wire) /\ UNCHANGED faults

-----------------------------------------------------------------------------
(***************************************************************************)
(* Clicks in the table.                                                    *)
(***************************************************************************)

\* The members of s at the positions P, in their order.
At(s, P) ==
  LET nth(k) == CHOOSE i \in P : Cardinality({j \in P : j <= i}) = k
  IN  [k \in 1..Cardinality(P) |-> s[nth(k)]]

\* The list s once the first occurrence of each of ids is dropped.
Without(s, ids) ==
  At(s, {i \in DOMAIN s : s[i] \notin ids \/ \E j \in 1..(i - 1) : s[j] = s[i]})

\* Turns to another page of the table.
TurnPage(w, table) ==
  /\ InTable(w) /\ table # tab[w].table
  /\ Send1(w, "page", {}, table)
  /\ UNCHANGED tab

\* A fault to seed in Tick: the box is sent to the server and not remembered.
TickSendsOnly(w, id) ==
  /\ InTable(w) /\ tab[w].bound
  /\ id \in ToSet(Rows(w)) \ tab[w].boxes
  /\ Send1(w, "add", {id}, 1)
  /\ tab' = [tab EXCEPT ![w].boxes = @ \cup {id}, ![w].allbox = FALSE,
                        ![w].loader = TRUE]

\* Ticks one box: the id is appended whether or not it is there.
Tick(w, id) ==
  /\ InTable(w) /\ tab[w].bound
  /\ id \in ToSet(Rows(w)) \ tab[w].boxes
  /\ Send1(w, "add", {id}, 1)
  /\ tab' = [tab EXCEPT ![w].boxes = @ \cup {id}, ![w].allbox = FALSE,
                        ![w].picked = Append(@, id), ![w].loader = TRUE]

\* Unticks one box: the first occurrence of the id is dropped.
Untick(w, id) ==
  /\ InTable(w) /\ tab[w].bound
  /\ id \in tab[w].boxes
  /\ Send1(w, "remove", {id}, 1)
  /\ tab' = [tab EXCEPT ![w].boxes = @ \ {id}, ![w].allbox = FALSE,
                        ![w].picked = Without(@, {id}), ![w].loader = TRUE]

\* Clicks the box of a row that was drawn less than half a second ago.
ClickUnbound(w, id) ==
  /\ InTable(w) /\ ~tab[w].bound
  /\ id \in ToSet(Rows(w))
  /\ tab' = [tab EXCEPT
       ![w].boxes = IF id \in @ THEN @ \ {id} ELSE @ \cup {id},
       ![w].stray = @ \cup {id}]
  /\ UNCHANGED <<session, wire, op, clicks, faults, alone>>

\* Ticks, or unticks, all rows shown: an id is appended when it is not there, and
\* also when it is the first.
SelectPage(w) ==
  LET t == tab[w]
      rows == Rows(w)
      again == {i \in DOMAIN rows :
                  rows[i] \notin ToSet(t.picked) \/ rows[i] = Head(t.picked)}
  IN
  /\ InTable(w) /\ t.handlers > 0
  /\ IF ~t.allbox
     THEN /\ Send1(w, "add", ToSet(rows), 1)
          /\ tab' = [tab EXCEPT ![w].boxes = ToSet(rows), ![w].allbox = TRUE,
                                ![w].picked = @ \o At(rows, again),
                                ![w].loader = TRUE]
     ELSE /\ Send1(w, "remove", ToSet(rows), 1)
          /\ tab' = [tab EXCEPT ![w].boxes = {}, ![w].allbox = FALSE,
                                ![w].picked = Without(@, ToSet(rows)),
                                ![w].loader = TRUE]

\* "Select All (n records)": every handler bound to the link so far asks for all.
SelectAll(w) ==
  /\ InTable(w) /\ tab[w].kind = "resources" /\ tab[w].links
  /\ Send(w, {Ask(w, "all", {}, 1, h) : h \in 1..tab[w].handlers})
  /\ tab' = [tab EXCEPT ![w].boxes = {}, ![w].allbox = FALSE, ![w].loader = TRUE]

\* "Clear selected": forgets the ids at once and waits for no answer.  The request
\* says nothing of interviews: it always empties the list of resources.
ClearAll(w) ==
  /\ InTable(w) /\ tab[w].links
  /\ Send(w, {[Ask(w, "clear", ToSet(tab[w].picked), 1, 1) EXCEPT !.kind = "resources"]})
  /\ tab' = [tab EXCEPT ![w].picked = <<>>, ![w].links = FALSE,
                        ![w].stray = @ \cup tab[w].boxes]

\* A fault to seed in Rebind: a handler more at every draw of the rows.
RebindCountsOn(w) ==
  /\ tab[w].kind # "away" /\ ~tab[w].bound
  /\ tab' = [tab EXCEPT ![w].bound = TRUE, ![w].handlers = @ + 1]
  /\ UNCHANGED <<session, wire, op, clicks, faults, alone>>

\* Half a second after the rows were drawn: the handlers are bound (that of "Select
\* All" once more) and the boxes of resources that are picked are ticked.
Rebind(w) ==
  LET resources == tab[w].kind = "resources" IN
  /\ tab[w].kind # "away" /\ ~tab[w].bound
  /\ tab' = [tab EXCEPT
       ![w].bound = TRUE, ![w].allbox = FALSE,
       ![w].handlers = IF @ < MaxHandlers THEN @ + 1 ELSE @,
       ![w].boxes = IF resources
                    THEN @ \cup (ToSet(tab[w].picked) \cap ToSet(Rows(w))) ELSE @,
       ![w].links = IF resources THEN tab[w].picked # <<>> ELSE @]
  /\ UNCHANGED <<session, wire, op, clicks, faults, alone>>

-----------------------------------------------------------------------------
(***************************************************************************)
(* The bulk edit.                                                          *)
(***************************************************************************)

\* "Apply" of the first dialog: opens the review dialog and fetches its list.
Review(w) ==
  /\ InTable(w) /\ tab[w].picked # <<>>
  /\ Send1(w, "review", {}, 1)
  /\ tab' = [tab EXCEPT ![w].modal = TRUE, ![w].loader = TRUE]

CloseReview(w) ==
  /\ Usable(w) /\ tab[w].modal
  /\ tab' = [tab EXCEPT ![w].modal = FALSE]
  /\ UNCHANGED <<session, wire, op, clicks, faults, alone>>

\* "Apply" of the review dialog.  For interviews the form is a plain one, and its
\* answer another page; for resources a timer asks for the progress.
ApplyEdit(w) ==
  LET resources == tab[w].kind = "resources" IN
  /\ Usable(w) /\ tab[w].modal
  /\ Send1(w, "act", ToSet(tab[w].picked), 1)
  /\ tab' = [tab EXCEPT ![w].loader = resources, ![w].polling = @ \/ resources]

\* Asks how far the bulk edit is, every five seconds, once a poll is answered.
Poll(w) ==
  /\ tab[w].polling
  /\ \A r \in wire : r.w = w => r.what # "poll"
  /\ Send1(w, "poll", {}, 1)
  /\ UNCHANGED tab

\* The search page, open in some window, ticks or unticks one resource, has all of
\* its picks replaced (all or none selected, another search, a playlist that was
\* given them), or searches the same again.  It waits for no answer.
SearchPage(what, ids) ==
  /\ \/ what = "take"
     \/ what \in {"add", "remove"} /\ Cardinality(ids) = 1
     \/ what = "page" /\ ids = {}
  /\ clicks < MaxClicks /\ clicks < SearchClicks /\ Cardinality(wire) < MaxWire
  /\ clicks' = clicks + 1
  /\ wire' = wire \cup {[no |-> clicks + 1, handler |-> 1, w |-> None, what |-> what,
                         kind |-> "search", ids |-> ids, table |-> 1, stage |-> "sent",
                         copy |-> Empty]}
  /\ alone' = None
  /\ UNCHANGED <<session, tab, op, faults>>

-----------------------------------------------------------------------------
(***************************************************************************)
(* The server.                                                             *)
(***************************************************************************)

\* A request begins, and has the session as it is.
Read(r) ==
  /\ r.stage = "sent"
  /\ wire' = (wire \ {r}) \cup {[r EXCEPT !.stage = "read", !.copy = session]}
  /\ UNCHANGED <<session, tab, op, clicks, faults, alone>>

\* A fault to seed in After: only several boxes at a time are taken off the list.
AfterKeepsOne(r) ==
  LET list == r.copy[r.kind] IN
  [r.copy EXCEPT ![r.kind] =
     CASE r.what = "load" -> {}
       [] r.what = "add" -> list \cup r.ids
       [] r.what = "all" -> Ids
       [] r.what = "take" -> r.ids
       [] r.what = "remove" -> IF Cardinality(r.ids) > 1 THEN list \ r.ids ELSE list
       [] r.what = "clear" -> list \ r.ids
       [] r.what = "act" /\ r.kind = "resources" -> {}
       [] OTHER -> list]

\* The session as the request leaves it.
After(r) ==
  LET list == r.copy[r.kind] IN
  [r.copy EXCEPT ![r.kind] =
     CASE r.what = "load" -> {}
       [] r.what = "add" -> list \cup r.ids
       [] r.what = "all" -> Ids
       [] r.what = "take" -> r.ids
       [] r.what \in {"remove", "clear"} -> list \ r.ids
       [] r.what = "act" /\ r.kind = "resources" -> {}
       [] OTHER -> list]

\* Other lists in the session come before that of a kind in a review.
CrowdedOut(copy, kind) ==
  copy["search"] # {} \/ (kind = "resources" /\ copy["interviews"] # {})

\* A request ends.  A bulk edit changes what its copy of the session names; of a
\* window that is gone nothing is known any longer.
Commit(r) ==
  /\ r.stage = "read"
  /\ session' = After(r)
  /\ wire' = (wire \ {r}) \cup
             (IF r.w = None THEN {} ELSE {[r EXCEPT !.stage = "done", !.copy = After(r)]})
  /\ op' = IF r.what = "act" /\ r.w # None
           THEN [acted |-> [kind |-> r.kind, ids |-> r.copy[r.kind]],
                 picked |-> r.ids, listed |-> tab[r.w].listed, quiet |-> alone = r.w,
                 crowded |-> CrowdedOut(r.copy, r.kind)]
           ELSE op
  /\ UNCHANGED <<tab, clicks, faults, alone>>

\* A fault to seed in Reviewed: interviews are not looked for.
ReviewedResources(copy) ==
  [kind |-> "resources",
   ids |-> IF copy["search"] # {} THEN copy["search"] ELSE copy["resources"]]

\* What the review dialog is given, whichever page asks: the resources picked on the
\* search page if there are any, or else the interviews, or else the resources.
Reviewed(copy) ==
  CASE copy["search"] # {} -> [kind |-> "resources", ids |-> copy["search"]]
    [] copy["search"] = {} /\ copy["interviews"] # {} ->
         [kind |-> "interviews", ids |-> copy["interviews"]]
    [] OTHER -> [kind |-> "resources", ids |-> copy["resources"]]

-----------------------------------------------------------------------------
(***************************************************************************)
(* Answers.                                                                *)
(***************************************************************************)

\* The tab t once it has the answer to r; order: the ids it did not have yet.
Answered(t, r, order) ==
  LET list == r.copy[r.kind] IN
  CASE r.what = "load" ->
         [Away EXCEPT !.kind = r.kind, !.bound = r.kind = "resources",
                      !.handlers = IF r.kind = "resources" THEN 1 ELSE 0]
    [] r.what = "page" ->
         [t EXCEPT !.table = r.table, !.boxes = {}, !.stray = {}, !.bound = FALSE]
    [] r.what \in {"add", "remove"} -> [t EXCEPT !.loader = FALSE, !.links = list # {}]
    [] r.what = "all" ->
         [t EXCEPT !.loader = FALSE, !.links = TRUE, !.picked = @ \o order,
                   !.boxes = @ \cup (list \cap ToSet(Pages[t.table]))]
    [] r.what = "review" -> [t EXCEPT !.loader = FALSE, !.listed = Reviewed(r.copy)]
    [] r.what = "act" ->
         [t EXCEPT !.loader = FALSE, !.modal = FALSE, !.leaving = TRUE]
    [] OTHER -> t

\* A window takes an answer.  One that has cleared its list reloads its page there
\* and then.
Deliver(r) ==
  /\ r.stage = "done"
  /\ \/ /\ r.what # "clear"
        /\ \E order \in SetToSeqs(IF r.what = "all" THEN Ids \ ToSet(tab[r.w].picked) ELSE {}) :
             tab' = [tab EXCEPT ![r.w] = Answered(@, r, order)]
        /\ wire' = wire \ {r}
        /\ UNCHANGED <<session, op, clicks, alone>>
     \/ r.what = "clear" /\ OpenPage(r.w, tab[r.w].kind, wire \ {r})
  /\ UNCHANGED faults

\* A fault to seed in Failed: the overlay stays.
FailedKeepsLoader(t, r) ==
  CASE r.what = "load" -> Away
    [] r.what \in {"add", "remove", "all"} -> [t EXCEPT !.links = FALSE]
    [] r.what = "poll" -> [t EXCEPT !.polling = FALSE]
    [] r.what = "page" -> t
    [] OTHER -> [t EXCEPT !.loader = FALSE]

\* The tab t once r has failed: the handlers of answers run into the missing answer
\* and the overlay goes; the count and its links are gone.
Failed(t, r) ==
  CASE r.what = "load" -> Away
    [] r.what \in {"add", "remove", "all"} -> [t EXCEPT !.loader = FALSE, !.links = FALSE]
    [] r.what = "poll" -> [t EXCEPT !.polling = FALSE, !.loader = FALSE]
    [] r.what = "page" -> t
    [] OTHER -> [t EXCEPT !.loader = FALSE]

\* A request never reaches the server, or its answer never the window.  Clearing
\* reloads the page all the same.
Fail(r) ==
  /\ r.stage \in {"sent", "done"} /\ r.w # None
  /\ faults < MaxFaults /\ faults' = faults + 1
  /\ \/ /\ r.what # "clear"
        /\ clicks < MaxClicks /\ clicks' = clicks + 1
        /\ wire' = wire \ {r}
        /\ tab' = [tab EXCEPT ![r.w] = Failed(@, r)]
        /\ alone' = None
        /\ UNCHANGED <<session, op>>
     \/ r.what = "clear" /\ OpenPage(r.w, tab[r.w].kind, wire \ {r})

-----------------------------------------------------------------------------
Click(w) ==
  \/ \E kind \in Kinds : Visit(w, kind)
  \/ \E table \in DOMAIN Pages : TurnPage(w, table)
  \/ \E id \in Ids : Tick(w, id) \/ Untick(w, id) \/ ClickUnbound(w, id)
  \/ SelectPage(w) \/ SelectAll(w) \/ ClearAll(w)
  \/ Review(w) \/ CloseReview(w) \/ ApplyEdit(w)

Timer(w) == Reload(w) \/ Rebind(w) \/ Poll(w)

Serve(r) == Read(r) \/ Commit(r) \/ Deliver(r)

Next ==
  \/ \E w \in Windows : Click(w) \/ Timer(w)
  \/ \E what \in What, ids \in SUBSET Found : SearchPage(what, ids)
  \/ \E r \in wire : Serve(r) \/ Fail(r)

Spec == Init /\ [][Next]_vars

\* The server serves and the network delivers; nobody has to click.
Fairness ==
  \A no \in 1..MaxClicks : WF_vars(\E r \in wire : r.no = no /\ Serve(r))

FairSpec == Spec /\ Fairness

-----------------------------------------------------------------------------
\* The type invariant.
TypeOK ==
  /\ session \in Session
  /\ tab \in [Windows -> Tab]
  /\ wire \subseteq Request
  /\ op = None \/ op \in [acted : Listing, picked : SUBSET Ids, listed : Listing,
                          quiet : BOOLEAN, crowded : BOOLEAN]
  /\ clicks \in 0..MaxClicks
  /\ faults \in 0..MaxFaults
  /\ alone \in Windows \cup {None}

\* A bulk edit by a window that has been alone since it loaded its page, and whose
\* requests were each answered before the next click, changes nothing that the
\* window does not count as picked: ids appended twice and taken off once, pages
\* turned, lists cleared and boxes clicked too early notwithstanding.
ActsOnPicked ==
  op # None => (op.quiet => op.acted.ids \subseteq op.picked)

\* Such a bulk edit, if it changes anything, changes just what its review dialog
\* listed, unless another list crowds its own out of the dialog: resources picked on
\* the search page come before all others, and interviews before the resources of a
\* table (bulk_operation.rb: fetch_bulk_edit_resource_list).
ActsOnListed ==
  op # None =>
    (op.quiet /\ op.acted.ids # {} /\ ~op.crowded => op.listed = op.acted)

\* A ticked box is one the window counts as picked, in whatever order answers come,
\* fail or are overtaken, unless it was clicked before its handler was bound, or the
\* page is to be reloaded.
TickedArePicked ==
  \A w \in Windows : tab[w].boxes \subseteq ToSet(tab[w].picked) \cup tab[w].stray

\* The overlay goes away, whichever requests fail (aviary_app.js, classAction).
LoaderLifts == \A w \in Windows : tab[w].loader ~> ~tab[w].loader

\* The review dialog says that the bulk edit will "delete the resources listed
\* below" (resource_bulk_edit.js).
ListedIsActedOn ==
  op # None => (op.quiet /\ op.acted.ids # {} => op.listed = op.acted)
=============================================================================
