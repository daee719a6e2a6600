-------------------------- MODULE PlaylistListing --------------------------
(***************************************************************************)
(* The list of a playlist's entries in a window: it is fetched page by     *)
(* page as the person scrolls, is emptied and fetched anew while the       *)
(* person types a filter, and is put into another order by dragging        *)
(* (playlist.js).  A page is an OFFSET into the entries as they are when   *)
(* the request is served, and a drag is saved one row at a time            *)
(* (playlist_resources_controller.rb), while other windows change the      *)
(* playlist.  What those do to the numbers of the entries is the subject   *)
(* of Playlists; here it is one removal.                                   *)
(***************************************************************************)
EXTENDS Integers, FiniteSets, Sequences, SequencesExt

CONSTANTS
  Entries,    \* the ids of the entries of the playlist
  Texts,      \* what the filter may hold
  NoText,     \* the empty filter
  ShortTexts, \* the filters of one or two letters, which fetch nothing when typed
  Matches,    \* the entries whose name or description holds a text
  PerPage,    \* entries of a page
  None,
  MaxAsks,    \* pages asked for (bound)
  MaxDrags,   \* entries dragged (bound)
  MaxOthers,  \* removals in other windows (bound)
  MaxFaults   \* requests that fail (bound)

ASSUME ListingAssumption ==
  /\ Entries \subseteq Nat /\ IsFiniteSet(Entries)
  /\ NoText \in Texts /\ ShortTexts \subseteq Texts \ {NoText}
  /\ Matches \in [Texts -> SUBSET Entries] /\ Matches[NoText] = Entries
  /\ PerPage \in Nat \ {0}
  /\ MaxAsks \in Nat \ {0} /\ {MaxDrags, MaxOthers, MaxFaults} \subseteq Nat

VARIABLES
  place,    \* the number (sort_order) of each entry there is
  text,     \* the filter in its field
  shown,    \* the ids of the entries in the list
  page,     \* the page to ask for next
  ended,    \* playlist_ended: an empty page has come
  request,  \* the page asked for, if it has not come
  spinner,  \* the list shows that it is loading
  message,  \* "No Resource Found" is shown
  timers,   \* pending timers that look whether the list is empty
  writes,   \* the drags being saved
  base,     \* history: the filter for which the list was begun
  clean,    \* history: nothing has parted the list from the playlist since
  failed,   \* history: a request of this window failed
  used      \* pages asked for, drags, removals and faults so far

served == <<place, writes>>
list == <<text, shown, page, ended, request, spinner, message, timers>>
past == <<base, clean, failed>>
vars == <<served, list, past, used>>

Request == [text : Texts, page : 0..MaxAsks, ids : Seq(Entries) \cup {None}]

Init ==
  /\ place \in {[e \in Entries |-> Cardinality({f \in Entries : f <= e})]}
  /\ text = NoText /\ shown = <<>> /\ page = 0 /\ ended = FALSE
  /\ request = [text |-> NoText, page |-> 0, ids |-> None]
  /\ spinner = TRUE /\ message = FALSE /\ timers = 0
  /\ writes = {}
  /\ base = NoText /\ clean = TRUE /\ failed = FALSE
  /\ used = [asks |-> 1, drags |-> 0, others |-> 0, faults |-> 0]

-----------------------------------------------------------------------------
(***************************************************************************)
(* The playlist as the server has it.                                      *)
(***************************************************************************)

\* The orders in which a query for a filter may list the entries: by number, those
\* of one number in any order.
Listings(t) ==
  {s \in SetToSeqs(Matches[t] \cap DOMAIN place) :
     \A i, j \in DOMAIN s : i < j => place[s[i]] <= place[s[j]]}

\* The first n pages of s, and its page n.
Pages(s, n) == SubSeq(s, 1, Min({PerPage * n, Len(s)}))
PageOf(s, n) == SubSeq(s, PerPage * n + 1, Min({PerPage * (n + 1), Len(s)}))

\* The entries are numbered from 1 on with no number twice (Playlists, NumbersKept).
Numbered ==
  {place[e] : e \in DOMAIN place} = 1..Cardinality(DOMAIN place)

\* A page is served.  The first page begins a list.
ServePage ==
  /\ request # None /\ request.ids = None
  /\ \E s \in Listings(request.text) :
       request' = [request EXCEPT !.ids = PageOf(s, request.page)]
  /\ IF request.page = 0
     THEN base' = request.text /\ clean' = (writes = {} /\ Numbered)
     ELSE base' = base /\ clean' = (clean /\ request.text = base)
  /\ UNCHANGED <<served, text, shown, page, ended, spinner, message, timers, failed, used>>

\* One row of a drag is saved, unless the entry is gone.
SaveNumber(w) ==
  LET e == CHOOSE e \in DOMAIN w : \A f \in DOMAIN w : e <= f
      rest == [f \in DOMAIN w \ {e} |-> w[f]]
  IN  /\ place' = IF e \in DOMAIN place THEN [place EXCEPT ![e] = w[e]] ELSE place
      /\ writes' = (writes \ {w}) \cup (IF DOMAIN rest = {} THEN {} ELSE {rest})
      /\ UNCHANGED <<list, past, used>>

\* Another window removes an entry: those that stay are numbered by id.
RemoveElsewhere(e) ==
  /\ used.others < MaxOthers
  /\ e \in DOMAIN place
  /\ LET rest == DOMAIN place \ {e}
     IN  place' = [f \in rest |-> Cardinality({g \in rest : g <= f})]
  /\ clean' = FALSE
  /\ used' = [used EXCEPT !.others = @ + 1]
  /\ UNCHANGED <<writes, list, base, failed>>

-----------------------------------------------------------------------------
(***************************************************************************)
(* The window.                                                             *)
(***************************************************************************)

\* Asks for a page (list_playlist_items), which gives up the page asked for before;
\* once an empty page has come it asks for nothing any more.
Ask(t, n) ==
  IF ended
  THEN UNCHANGED <<request, spinner, message, used>>
  ELSE /\ used.asks < MaxAsks /\ used' = [used EXCEPT !.asks = @ + 1]
       /\ request' = [text |-> t, page |-> n, ids |-> None]
       /\ spinner' = TRUE
       /\ message' = (message /\ request = None)

\* A fault to seed in Type: the number of the next page stays.
TypeKeepsPage(t) ==
  /\ t # text /\ t \notin ShortTexts
  /\ text' = t /\ shown' = <<>>
  /\ Ask(t, page)
  /\ UNCHANGED <<served, page, ended, timers, past>>

\* Types in the filter.  A text of one or two letters fetches nothing now, but is the
\* filter of the pages that are scrolled to.
Type(t) ==
  /\ t # text /\ text' = t
  /\ IF t \in ShortTexts
     THEN UNCHANGED <<shown, page, request, spinner, message, used>>
     ELSE shown' = <<>> /\ page' = 0 /\ Ask(t, 0)
  /\ UNCHANGED <<served, ended, timers, past>>

\* Scrolls to the end of the list.
Scroll ==
  /\ shown # <<>> /\ ~ended
  /\ Ask(text, page)
  /\ UNCHANGED <<served, text, shown, page, ended, timers, past>>

\* A fault to seed in TakePage: an empty page is not the last.
TakePageForEver ==
  /\ request # None /\ request.ids # None
  /\ shown' = shown \o request.ids
  /\ page' = page + 1
  /\ spinner' = TRUE /\ message' = FALSE
  /\ timers' = timers + 1
  /\ request' = None
  /\ UNCHANGED <<served, text, ended, past, used>>

\* A fault to seed in TakePage: two handlers take it.
TakePageTwice ==
  /\ request # None /\ request.ids # None
  /\ ended' = (request.ids = <<>>)
  /\ shown' = shown \o request.ids \o request.ids
  /\ page' = page + 2
  /\ spinner' = FALSE /\ message' = FALSE
  /\ timers' = timers + 2
  /\ request' = None
  /\ UNCHANGED <<served, text, past, used>>

\* A page comes (list_playlist_items_action): it is appended, and a second later a
\* timer looks whether the list is empty.
TakePage ==
  /\ request # None /\ request.ids # None
  /\ ended' = (request.ids = <<>>)
  /\ shown' = shown \o request.ids
  /\ page' = page + 1
  /\ spinner' = FALSE /\ message' = FALSE
  /\ timers' = timers + 1
  /\ request' = None
  /\ UNCHANGED <<served, text, past, used>>

\* A fault to seed in LookEmpty: without looking.
LookNever ==
  /\ timers > 0 /\ timers' = timers - 1
  /\ message' = TRUE
  /\ UNCHANGED <<served, text, shown, page, ended, request, spinner, past, used>>

\* Says that there is no resource if the list is empty.
LookEmpty ==
  /\ timers > 0 /\ timers' = timers - 1
  /\ message' = (message \/ shown = <<>>)
  /\ UNCHANGED <<served, text, shown, page, ended, request, spinner, past, used>>

\* The request for a page fails: its handler raises and is caught, and the sign that
\* the list is loading stays.
FailPage ==
  /\ request # None
  /\ used.faults < MaxFaults /\ used' = [used EXCEPT !.faults = @ + 1]
  /\ request' = None /\ message' = FALSE /\ ended' = FALSE
  /\ failed' = TRUE
  /\ UNCHANGED <<served, text, shown, page, spinner, timers, base, clean>>

\* A fault to seed in Numbering: counts from the other end.
NumberingBackwards(s) ==
  [e \in ToSet(s) |-> Len(s) + 1 - Max({i \in DOMAIN s : s[i] = e})]

\* The numbers a list gives its entries: their places in it, the last one for an entry
\* that is there twice.
Numbering(s) == [e \in ToSet(s) |-> Max({i \in DOMAIN s : s[i] = e})]

\* Drags the entry at i to j; the numbers are sent to the server.  The list stays
\* clean if all entries before its end are numbered with it and no other drag is
\* being saved.
Drag(i, j) ==
  LET s == InsertAt(RemoveAt(shown, i), j, shown[i]) IN
  /\ used.drags < MaxDrags /\ used' = [used EXCEPT !.drags = @ + 1]
  /\ shown' = s
  /\ writes' = writes \cup {Numbering(s)}
  /\ clean' = (clean /\ base = NoText /\ writes = {})
  /\ UNCHANGED <<place, text, page, ended, request, spinner, message, timers, base, failed>>

\* A drag is given up half-way: the server dies, or the request is lost.
FailDrag(w) ==
  /\ used.faults < MaxFaults /\ used' = [used EXCEPT !.faults = @ + 1]
  /\ writes' = writes \ {w}
  /\ clean' = FALSE /\ failed' = TRUE
  /\ UNCHANGED <<place, list, base>>

-----------------------------------------------------------------------------
Person ==
  \/ \E t \in Texts : Type(t)
  \/ Scroll
  \/ \E i, j \in DOMAIN shown : i # j /\ Drag(i, j)

Next ==
  \/ Person
  \/ ServePage \/ TakePage \/ LookEmpty \/ FailPage
  \/ \E w \in writes : SaveNumber(w) \/ FailDrag(w)
  \/ \E e \in Entries : RemoveElsewhere(e)

Spec == Init /\ [][Next]_vars

\* The server serves and the timers of the window run; nobody has to type or scroll.
FairSpec == Spec /\ WF_vars(ServePage) /\ WF_vars(TakePage) /\ WF_vars(LookEmpty)

-----------------------------------------------------------------------------
\* The type invariant.
TypeOK ==
  /\ DOMAIN place \subseteq Entries /\ \A e \in DOMAIN place : place[e] \in Nat
  /\ text \in Texts /\ base \in Texts
  /\ shown \in Seq(Entries)
  /\ page \in 0..MaxAsks /\ timers \in 0..MaxAsks
  /\ request = None \/ request \in Request
  /\ {ended, spinner, message, clean, failed} \subseteq BOOLEAN
  /\ \A w \in writes : DOMAIN w \subseteq Entries /\ \A e \in DOMAIN w : w[e] \in Nat

\* The pages in a list join: as long as the list is clean, it holds each entry once,
\* and just the first ones of the playlist, whatever was typed, given up, dragged or
\* is half saved.
PagesJoin ==
  clean =>
    /\ IsInjective(shown)
    /\ \E s \in Listings(base) : ToSet(shown) = ToSet(Pages(s, page))

\* Once its drags are saved, a clean list shows the order that the playlist has, the
\* entries not loaded yet following those that are.
DragsStick ==
  clean /\ writes = {} =>
    \E s \in Listings(base) : shown = Pages(s, page)

\* "No Resource Found" is true of a list that a page has come for since it was last
\* emptied, though each look for an empty list comes a second late.
SaysNoneRightly ==
  message /\ request = None /\ page > 0 /\ clean => Matches[base] \cap DOMAIN place = {}

\* The sign that the list is loading goes away, once the person stops scrolling and
\* typing and unless a request fails.
LoadingEnds == spinner ~> (~spinner \/ failed)
=============================================================================
