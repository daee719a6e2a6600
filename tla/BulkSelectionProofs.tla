------------------------ MODULE BulkSelectionProofs ------------------------
(***************************************************************************)
(* Theorems about BulkSelection, for every number of windows, ids, pages,  *)
(* clicks, requests under way and losses.                                  *)
(***************************************************************************)
EXTENDS BulkSelection, RankLemmas, FiniteSetTheorems, TLAPS

-----------------------------------------------------------------------------
(***************************************************************************)
(* Lists of ids.                                                           *)
(***************************************************************************)

\* The members of a list at given positions are a list of just those members.
LEMMA AtPicks ==
  ASSUME NEW S, NEW s \in Seq(S), NEW P \in SUBSET DOMAIN s
  PROVE  At(s, P) \in Seq(S) /\ ToSet(At(s, P)) = {s[i] : i \in P}
<1> DEFINE c == Cardinality(P)
           upto(i) == {j \in P : j <= i}
           r == [i \in P |-> Cardinality(upto(i))]
           nth(k) == CHOOSE i \in P : Cardinality(upto(i)) = k
<1>1. IsFiniteSet(P) /\ P \in SUBSET Nat
  <2>1. DOMAIN s = 1..Len(s) /\ Len(s) \in Nat
    OBVIOUS
  <2>2. IsFiniteSet(1..Len(s))
    BY <2>1, FS_Interval
  <2> QED
    BY <2>1, <2>2, FS_Subset
<1>2. c \in Nat
  BY <1>1, FS_CardinalityType
<1>3. \A i \in P : Cardinality(upto(i)) \in 1..c
  <2> TAKE i \in P
  <2>1. Cardinality(upto(i)) \in Nat /\ Cardinality(upto(i)) <= c
    BY <1>1, Ranks
  <2>2. upto(i) # {} /\ IsFiniteSet(upto(i))
    BY <1>1, FS_Subset
  <2> HIDE DEF upto
  <2> QED
    BY <1>2, <2>1, <2>2, FS_EmptySet
<1>4. \A i, j \in P : Cardinality(upto(i)) = Cardinality(upto(j)) => i = j
  BY <1>1, Ranks
<1> HIDE DEF c, upto
<1>5. r \in Injection(P, 1..c)
  BY <1>3, <1>4 DEF Injection, IsInjective
<1>6. r \in Surjection(P, 1..c)
  <2>1. IsFiniteSet(1..c) /\ Cardinality(1..c) = c
    BY <1>2, FS_Interval
  <2> QED
    BY <1>1, <1>5, <2>1, FS_Injection DEF c
<1>7. \A k \in 1..c : \E i \in P : Cardinality(upto(i)) = k
  BY <1>6 DEF Surjection
<1>8. \A k \in 1..c : nth(k) \in P
  BY <1>7
<1>9. \A i \in P : nth(Cardinality(upto(i))) = i
  BY <1>4
<1> HIDE DEF nth
<1>10. At(s, P) = [k \in 1..c |-> s[nth(k)]]
  BY DEF At, nth, c, upto
<1>11. \A i \in P : s[i] \in S
  OBVIOUS
<1>12. At(s, P) \in Seq(S) /\ DOMAIN At(s, P) = 1..c
  BY <1>2, <1>8, <1>10, <1>11
<1>13. ASSUME NEW x \in ToSet(At(s, P)) PROVE x \in {s[i] : i \in P}
  BY <1>8, <1>10, <1>12 DEF ToSet
<1>14. ASSUME NEW i \in P PROVE s[i] \in ToSet(At(s, P))
  BY <1>3, <1>9, <1>10, <1>12 DEF ToSet
<1> QED
  BY <1>12, <1>13, <1>14

\* Dropping ids from a list keeps the other ones.
LEMMA WithoutKeeps ==
  ASSUME NEW s \in Seq(Ids), NEW ids
  PROVE  /\ Without(s, ids) \in Seq(Ids)
         /\ ToSet(s) \ ids \subseteq ToSet(Without(s, ids))
<1> DEFINE P == {i \in DOMAIN s : s[i] \notin ids \/ \E j \in 1..(i - 1) : s[j] = s[i]}
<1>1. Without(s, ids) = At(s, P)
  BY DEF Without
<1>2. P \in SUBSET DOMAIN s /\ \A i \in DOMAIN s : s[i] \notin ids => i \in P
  OBVIOUS
<1> HIDE DEF P
<1>3. At(s, P) \in Seq(Ids) /\ ToSet(At(s, P)) = {s[i] : i \in P}
  BY <1>2, AtPicks
<1> QED
  BY <1>1, <1>2, <1>3 DEF ToSet

\* Appending a list appends its members.
LEMMA Appended ==
  ASSUME NEW s \in Seq(Ids), NEW t \in Seq(Ids)
  PROVE  s \o t \in Seq(Ids) /\ ToSet(s \o t) = ToSet(s) \cup ToSet(t)
<1>1. s \o t \in Seq(Ids) /\ Len(s \o t) = Len(s) + Len(t)
  OBVIOUS
<1>2. /\ Len(s) \in Nat /\ Len(t) \in Nat
      /\ DOMAIN s = 1..Len(s) /\ DOMAIN t = 1..Len(t) /\ DOMAIN (s \o t) = 1..(Len(s) + Len(t))
  BY <1>1
<1>3. /\ \A i \in 1..Len(s) : (s \o t)[i] = s[i]
      /\ \A i \in 1..Len(t) : (s \o t)[Len(s) + i] = t[i]
  OBVIOUS
<1>4. \A i \in 1..(Len(s) + Len(t)) :
        i \in 1..Len(s) \/ \E j \in 1..Len(t) : i = Len(s) + j
  <2> TAKE i \in 1..(Len(s) + Len(t))
  <2>1. i \in 1..Len(s) \/ (i - Len(s) \in 1..Len(t) /\ i = Len(s) + (i - Len(s)))
    BY <1>2
  <2> QED
    BY <2>1
<1>5. ASSUME NEW x \in ToSet(s \o t) PROVE x \in ToSet(s) \cup ToSet(t)
  BY <1>2, <1>3, <1>4 DEF ToSet
<1>6. ASSUME NEW x \in ToSet(s) PROVE x \in ToSet(s \o t)
  <2>1. PICK i \in 1..Len(s) : x = s[i]
    BY <1>2 DEF ToSet
  <2>2. i \in 1..(Len(s) + Len(t))
    BY <1>2
  <2> QED
    BY <1>2, <1>3, <2>1, <2>2 DEF ToSet
<1>7. ASSUME NEW x \in ToSet(t) PROVE x \in ToSet(s \o t)
  <2>1. PICK i \in 1..Len(t) : x = t[i]
    BY <1>2 DEF ToSet
  <2>2. Len(s) + i \in 1..(Len(s) + Len(t))
    BY <1>2
  <2> QED
    BY <1>2, <1>3, <2>1, <2>2 DEF ToSet
<1> QED
  BY <1>1, <1>5, <1>6, <1>7

\* A list of a set of ids, in some order, has all of them.
LEMMA OrderHas ==
  ASSUME NEW S \in SUBSET Ids, NEW s \in SetToSeqs(S)
  PROVE  s \in Seq(Ids) /\ ToSet(s) = S
<1> DEFINE n == Cardinality(S)
<1>1. IsFiniteSet(S) /\ n \in Nat
  BY BulkAssumption, FS_Subset, FS_CardinalityType
<1>2. s \in [1..n -> S] /\ \A i, j \in 1..n : s[i] = s[j] => i = j
  BY DEF SetToSeqs
<1> HIDE DEF n
<1>3. s \in Seq(Ids) /\ DOMAIN s = 1..n
  BY <1>1, <1>2
<1>4. s \in Injection(1..n, S)
  BY <1>2 DEF Injection, IsInjective
<1>5. IsFiniteSet(1..n) /\ Cardinality(1..n) = n
  BY <1>1, FS_Interval
<1>6. s \in Surjection(1..n, S)
  BY <1>1, <1>4, <1>5, FS_Injection DEF n
<1> QED
  BY <1>2, <1>3, <1>6 DEF Surjection, ToSet

-----------------------------------------------------------------------------
(***************************************************************************)
(* Type correctness.  It takes knowing which windows a request has: a page *)
(* that is asked for is all its window asks for, and any other request is  *)
(* about the table that its window shows.                                  *)
(***************************************************************************)
WireKnown ==
  \A r \in wire : r.w # None =>
    /\ r.what = "load" => tab[r.w] = Away /\ \A q \in wire : q.w = r.w => q = r
    /\ r.what # "load" => tab[r.w].kind # "away"
    /\ r.what \notin {"load", "clear"} => r.kind = tab[r.w].kind

AwayIsIdle == \A w \in Windows : tab[w].polling \/ tab[w].leaving => tab[w].kind # "away"

TInv == TypeOK /\ WireKnown /\ AwayIsIdle

\* What the sending and the serving of requests and the windows add to the types.
TabsTyped == tab \in [Windows -> Tab] /\ wire \subseteq Request /\ WireKnown /\ AwayIsIdle

LEMMA TableRows ==
  ASSUME NEW i \in DOMAIN Pages
  PROVE  /\ Pages[i] \in Seq(Ids) /\ ToSet(Pages[i]) \subseteq Ids /\ 1 \in DOMAIN Pages
<1>1. Pages[i] \in Seq(Ids) /\ 1 \in DOMAIN Pages
  BY BulkAssumption
<1> QED
  BY <1>1 DEF ToSet

LEMMA AwayTyped == Away \in Tab /\ Empty \in Session /\ Blank \in Listing
<1>1. 1 \in DOMAIN Pages /\ <<>> \in Seq(Ids) /\ 0 \in 0..MaxHandlers
  BY BulkAssumption
<1> QED
  BY <1>1 DEF Away, Tab, Empty, Session, Blank, Listing, Kinds, Lists

LEMMA TInvInit == Init => TInv
BY AwayTyped, BulkAssumption DEF Init, TInv, TypeOK, WireKnown, AwayIsIdle, Away

\* A window that shows a table does something there, and may ask for something.
LEMMA WindowActs ==
  ASSUME TInv, NEW w \in Windows, NEW t \in Tab, NEW rs \in SUBSET Request,
         tab[w].kind # "away", t.kind = tab[w].kind,
         tab' = [tab EXCEPT ![w] = t],
         wire' \subseteq wire \cup rs,
         \A r \in rs : /\ r.w = w /\ r.what # "load"
                       /\ r.what # "clear" => r.kind = tab[w].kind
  PROVE  TabsTyped'
<1>1. tab \in [Windows -> Tab] /\ wire \subseteq Request
  BY DEF TInv, TypeOK
<1>2. tab' \in [Windows -> Tab] /\ wire' \subseteq Request
  BY <1>1
<1>3. /\ tab'[w] = t /\ \A x \in Windows \ {w} : tab'[x] = tab[x]
      /\ \A x \in Windows : tab'[x].kind = tab[x].kind
  BY <1>1
<1>4. AwayIsIdle'
  BY <1>3 DEF TInv, AwayIsIdle
<1>5. ASSUME NEW r \in wire', r.w # None
      PROVE  /\ r.what = "load" => tab'[r.w] = Away /\ \A q \in wire' : q.w = r.w => q = r
             /\ r.what # "load" => tab'[r.w].kind # "away"
             /\ r.what \notin {"load", "clear"} => r.kind = tab'[r.w].kind
  <2>1. CASE r \in rs
    BY <1>3, <2>1
  <2>2. CASE r \in wire
    <3>1. r.w \in Windows
      BY <1>1, <1>5, <2>2 DEF Request
    <3>2. /\ r.what = "load" => tab[r.w] = Away /\ \A q \in wire : q.w = r.w => q = r
          /\ r.what # "load" => tab[r.w].kind # "away"
          /\ r.what \notin {"load", "clear"} => r.kind = tab[r.w].kind
      BY <1>5, <2>2 DEF TInv, WireKnown
    <3>3. r.what = "load" => r.w # w
      BY <3>2 DEF Away
    <3> QED
      BY <1>3, <3>1, <3>2, <3>3
  <2> QED
    BY <2>1, <2>2
<1>6. WireKnown'
  BY <1>5 DEF WireKnown
<1> QED
  BY <1>2, <1>4, <1>6 DEF TabsTyped

\* A request that is served keeps its window, its number and what it asks.
LEMMA RequestMoves ==
  ASSUME TInv, NEW r \in wire, NEW q \in Request,
         q.w = r.w, q.what = r.what, q.kind = r.kind,
         wire' \subseteq (wire \ {r}) \cup {q}, UNCHANGED tab
  PROVE  TabsTyped'
<1>1. tab \in [Windows -> Tab] /\ wire \subseteq Request
  BY DEF TInv, TypeOK
<1>3. q.w = r.w /\ q.what = r.what /\ q.kind = r.kind
  OBVIOUS
<1>4. ASSUME NEW x \in wire', x.w # None
      PROVE  /\ x.what = "load" => tab'[x.w] = Away /\ \A y \in wire' : y.w = x.w => y = x
             /\ x.what # "load" => tab'[x.w].kind # "away"
             /\ x.what \notin {"load", "clear"} => x.kind = tab'[x.w].kind
  <2>1. PICK z \in wire : z.w = x.w /\ z.what = x.what /\ z.kind = x.kind /\ (z = r \/ z = x)
                          /\ (z = r => x = q \/ x = r) /\ (x = r => z = r) /\ (x = q => z = r \/ z = q)
    BY <1>3
  <2>2. /\ z.what = "load" => tab[z.w] = Away /\ \A y \in wire : y.w = z.w => y = z
        /\ z.what # "load" => tab[z.w].kind # "away"
        /\ z.what \notin {"load", "clear"} => z.kind = tab[z.w].kind
    BY <1>4, <2>1 DEF TInv, WireKnown
  <2>3. ASSUME x.what = "load", NEW y \in wire', y.w = x.w PROVE y = x
    <3>1. CASE x = q
      <4>1. r.what = "load" /\ r.w = x.w
        BY <1>3, <2>3, <3>1
      <4>2. \A v \in wire : v.w = r.w => v = r
        BY <1>4, <4>1 DEF TInv, WireKnown
      <4> QED
        BY <2>3, <3>1, <4>1, <4>2
    <3>2. CASE x # q
      <4>1. x \in wire /\ x # r
        BY <3>2
      <4>2. \A v \in wire : v.w = x.w => v = x
        BY <1>4, <2>3, <4>1 DEF TInv, WireKnown
      <4>3. r.w # x.w
        BY <4>1, <4>2
      <4> QED
        BY <1>3, <2>3, <4>2, <4>3
    <3> QED
      BY <3>1, <3>2
  <2> QED
    BY <2>1, <2>2, <2>3
<1>5. WireKnown'
  BY <1>4 DEF WireKnown
<1> QED
  BY <1>1, <1>3, <1>5 DEF TabsTyped, TInv, AwayIsIdle

\* Opening a page leaves one request of its window.
LEMMA PageOpens ==
  ASSUME TInv, NEW w \in Windows, NEW kind \in Kinds, NEW rs \in SUBSET wire,
         OpenPage(w, kind, rs)
  PROVE  /\ TabsTyped' /\ clicks' \in 0..MaxClicks /\ alone' \in {w, None}
         /\ tab'[w] = Away
         /\ rs = {} => \E q : wire' = {q} /\ q.w = w /\ q.what = "load" /\ q.stage = "sent"
<1>1. /\ tab \in [Windows -> Tab] /\ wire \subseteq Request /\ clicks \in 0..MaxClicks
      /\ w # None /\ MaxClicks \in Nat
  BY BulkAssumption DEF TInv, TypeOK
<1> DEFINE request == [Ask(w, "load", {}, 1, 1) EXCEPT !.kind = kind]
           others == {r \in rs : r.w # w}
           left == {r \in rs \ others : r.stage # "done"}
           orphans == {[r EXCEPT !.w = None] : r \in left}
<1>2. /\ clicks < MaxClicks /\ clicks' = clicks + 1
      /\ wire' = others \cup orphans \cup {request}
      /\ tab' = [tab EXCEPT ![w] = Away] /\ alone' \in {w, None}
  BY DEF OpenPage
<1>3. request = [no |-> clicks + 1, handler |-> 1, w |-> w, what |-> "load", kind |-> kind,
                 ids |-> {}, table |-> 1, stage |-> "sent", copy |-> Empty]
  BY DEF Ask
<1>4. request \in Request
  <2>1. 1 \in DOMAIN Pages /\ 1 \in 1..MaxHandlers /\ clicks + 1 \in 1..MaxClicks
    BY <1>1, <1>2, BulkAssumption
  <2> HIDE DEF request
  <2> QED
    BY <1>3, <2>1, AwayTyped DEF Request, What, Lists
<1>5. \A r \in orphans : r \in Request /\ r.w = None
  <2>1. \A r \in left : [r EXCEPT !.w = None] \in Request /\ [r EXCEPT !.w = None].w = None
    BY <1>1 DEF Request
  <2> HIDE DEF left
  <2> QED
    BY <2>1
<1>6. request.w = w /\ request.what = "load" /\ request.stage = "sent"
  BY <1>3
<1>7. rs = {} => orphans = {} /\ others = {}
  OBVIOUS
<1> HIDE DEF request, orphans
<1>8. tab' \in [Windows -> Tab] /\ wire' \subseteq Request
  BY <1>1, <1>2, <1>4, <1>5, AwayTyped
<1>9. tab'[w] = Away /\ \A x \in Windows \ {w} : tab'[x] = tab[x]
  BY <1>1, <1>2
<1>10. AwayIsIdle'
  BY <1>9 DEF TInv, AwayIsIdle, Away
<1>11. ASSUME NEW r \in wire', r.w # None
       PROVE  /\ r.what = "load" => tab'[r.w] = Away /\ \A q \in wire' : q.w = r.w => q = r
              /\ r.what # "load" => tab'[r.w].kind # "away"
              /\ r.what \notin {"load", "clear"} => r.kind = tab'[r.w].kind
  <2>1. CASE r = request
    <3>1. \A q \in wire' : q.w = w => q = r
      BY <1>1, <1>2, <1>5, <2>1
    <3> QED
      BY <1>6, <1>9, <2>1, <3>1
  <2>2. CASE r # request
    <3>1. r \in wire /\ r.w # w /\ r.w \in Windows
      BY <1>1, <1>2, <1>5, <1>11, <2>2 DEF Request
    <3>2. /\ r.what = "load" => tab[r.w] = Away /\ \A q \in wire : q.w = r.w => q = r
          /\ r.what # "load" => tab[r.w].kind # "away"
          /\ r.what \notin {"load", "clear"} => r.kind = tab[r.w].kind
      BY <1>11, <3>1 DEF TInv, WireKnown
    <3>3. \A q \in wire' : q.w = r.w => q \in wire
      BY <1>2, <1>5, <1>6, <1>11, <3>1
    <3> QED
      BY <1>9, <3>1, <3>2, <3>3
  <2> QED
    BY <2>1, <2>2
<1>12. WireKnown'
  BY <1>11 DEF WireKnown
<1>13. clicks' \in 0..MaxClicks
  BY <1>1, <1>2
<1> QED
  BY <1>2, <1>6, <1>7, <1>8, <1>9, <1>10, <1>12, <1>13 DEF TabsTyped
\* A window asks for nothing, or for something.
LEMMA Asked ==
  ASSUME TInv, clicks < MaxClicks, NEW w \in Windows, tab[w].kind # "away",
         NEW what \in What, NEW ids \in SUBSET Ids, NEW i \in DOMAIN Pages,
         NEW h \in 1..MaxHandlers
  PROVE  LET r == Ask(w, what, ids, i, h)
         IN  /\ r \in Request /\ r.w = w /\ r.what = what /\ r.kind = tab[w].kind
             /\ r.ids = ids /\ r.stage = "sent"
<1>1. tab[w].kind \in Kinds /\ clicks + 1 \in 1..MaxClicks /\ Empty \in Session
  <2>1. tab[w] \in Tab /\ clicks \in 0..MaxClicks /\ MaxClicks \in Nat
    BY BulkAssumption DEF TInv, TypeOK
  <2>2. tab[w].kind \in Kinds
    BY <2>1 DEF Tab
  <2>3. clicks + 1 \in 1..MaxClicks
    BY <2>1
  <2> QED
    BY <2>2, <2>3, AwayTyped
<1>2. Ask(w, what, ids, i, h) =
        [no |-> clicks + 1, handler |-> h, w |-> w, what |-> what, kind |-> tab[w].kind,
         ids |-> ids, table |-> i, stage |-> "sent", copy |-> Empty]
  BY DEF Ask
<1> QED
  BY <1>1, <1>2 DEF Request, Lists

\* What a click comes to: a window that shows a table changes, and may ask.
Acts(w, t, rs) ==
  /\ tab[w].kind # "away" /\ t \in Tab /\ t.kind = tab[w].kind
  /\ tab' = [tab EXCEPT ![w] = t]
  /\ rs \subseteq Request
  /\ \A r \in rs : /\ r.w = w /\ r.what # "load" /\ r.stage = "sent"
                   /\ r.what # "clear" => r.kind = tab[w].kind
                   /\ r.what = "clear" => r.kind = "resources"
                   /\ r.what # "take"

LEMMA AskingTyped ==
  ASSUME TInv, NEW w \in Windows, NEW t, NEW rs, Acts(w, t, rs), Send(w, rs)
  PROVE  TInv'
<1>1. TabsTyped'
  BY WindowActs DEF Acts, Send
<1>2. /\ UNCHANGED <<session, op, faults>> /\ clicks' = clicks + 1 /\ clicks < MaxClicks
      /\ alone' \in Windows \cup {None}
  BY DEF Send
<1>3. clicks' \in 0..MaxClicks
  BY <1>2, BulkAssumption DEF TInv, TypeOK
<1> QED
  BY <1>1, <1>2, <1>3 DEF TInv, TypeOK, TabsTyped

LEMMA MeantimeTyped ==
  ASSUME TInv, NEW w \in Windows, NEW t, Acts(w, t, {}),
         UNCHANGED <<session, wire, op, clicks, faults, alone>>
  PROVE  TInv'
<1> DEFINE rs == {}
<1>1. /\ tab[w].kind # "away" /\ t \in Tab /\ t.kind = tab[w].kind
      /\ tab' = [tab EXCEPT ![w] = t]
      /\ rs \in SUBSET Request /\ wire' \subseteq wire \cup rs
      /\ \A r \in rs : /\ r.w = w /\ r.what # "load"
                       /\ r.what # "clear" => r.kind = tab[w].kind
  BY DEF Acts
<1> HIDE DEF rs
<1>2. TabsTyped'
  BY <1>1, WindowActs
<1> QED
  BY <1>2 DEF TInv, TypeOK, TabsTyped

-----------------------------------------------------------------------------
(***************************************************************************)
(* The inductive invariant.  Of a window that has been alone since it      *)
(* loaded its page: one errand at a time is out (only "Select All" can be  *)
(* several requests), what the server has read is what it has, and the     *)
(* session holds no more than the window counts, or the errand makes good. *)
(* s, t and rs: the session, the window and the requests under way.        *)
(***************************************************************************)
OneErrand(w, rs) ==
  \A r, q \in rs : r.w = w /\ r.what = q.what /\ (r = q \/ r.what = "all")

Current(s, rs) == \A r \in rs : r.stage # "sent" /\ r.what # "all" => r.copy = s

\* The errand r makes the session s hold no more than t counts.
Settles(s, t, r) ==
  \/ r.what \in {"all", "clear"}
  \/ r.what = "remove" /\ r.stage # "done" /\ s[t.kind] \ r.ids \subseteq ToSet(t.picked)

Counted(s, t, rs) ==
  t.kind # "away" => \/ s[t.kind] \subseteq ToSet(t.picked)
                     \/ \E r \in rs : Settles(s, t, r)

\* What the window counts is what r asks for; a page is loaded with nothing picked.
Fits(s, t, r) ==
  /\ r.what = "add" => r.ids \subseteq ToSet(t.picked)
  /\ r.what = "act" => r.ids = ToSet(t.picked) /\ (r.stage # "done" => t.listed = Reviewed(s))
  /\ r.what = "load" /\ r.stage = "done" => s[r.kind] = {}

\* The review dialog shows what the session has, or is about to, or is done with.
DialogTrue(s, t, rs) ==
  t.modal =>
    /\ \A r \in rs : r.what \in {"review", "act", "poll"}
    /\ \/ t.listed = Reviewed(s)
       \/ \E r \in rs : r.what = "review" \/ (r.what = "act" /\ r.stage = "done")

Attends(w, s, t, rs) ==
  /\ OneErrand(w, rs) /\ Current(s, rs) /\ Counted(s, t, rs)
  /\ \A r \in rs : Fits(s, t, r)
  /\ DialogTrue(s, t, rs)

Attentive == alone # None => Attends(alone, session, tab[alone], wire)

Ticked(t) == t.boxes \subseteq ToSet(t.picked) \cup t.stray

\* No answer is kept for a window that has left its page, and what a window asks is
\* about a table.
Awaited ==
  \A r \in wire : /\ r.stage = "done" => r.w # None
                  /\ r.w # None => r.kind \in Kinds /\ r.what # "take"

BInv ==
  /\ TInv /\ Awaited
  /\ \A w \in Windows : Ticked(tab[w])
  /\ Attentive
  /\ ActsOnPicked
  /\ ActsOnListed

\* A click, or a timer, that asks for something.
LEMMA ClickAsks ==
  ASSUME BInv, NEW w \in Windows, NEW t, NEW rs, Acts(w, t, rs), Send(w, rs), Ticked(t),
         Attends(w, session, tab[w], {}) => Attends(w, session, t, rs)
  PROVE  BInv'
<1>1. TInv'
  BY AskingTyped DEF BInv
<1>2. tab \in [Windows -> Tab]
  BY DEF BInv, TInv, TypeOK
<1>3. tab'[w] = t /\ \A x \in Windows \ {w} : tab'[x] = tab[x]
  BY <1>2 DEF Acts
<1>4. \A x \in Windows : Ticked(tab'[x])
  BY <1>3 DEF BInv
<1>5. Attentive'
  <2>1. alone' = None \/ (alone' = w /\ wire = {} /\ alone = w /\ w # None)
    BY BulkAssumption DEF Send
  <2>2. ASSUME alone' = w, wire = {}, alone = w, w # None
        PROVE  Attends(w, session', tab'[w], wire')
    <3>1. Attends(w, session, tab[w], {})
      BY <2>2 DEF BInv, Attentive
    <3>2. session' = session /\ wire' = rs
      BY <2>2 DEF Send
    <3> QED
      BY <1>3, <3>1, <3>2
  <2> QED
    BY <2>1, <2>2 DEF Attentive
<1>6. ActsOnPicked' /\ ActsOnListed'
  <2>1. op' = op
    BY DEF Send
  <2> QED
    BY <2>1 DEF BInv, ActsOnPicked, ActsOnListed
<1>7. Awaited'
  <2>1. tab[w].kind \in Kinds
    BY <1>2 DEF Acts, Tab
  <2>2. \A r \in rs : r.kind \in Kinds /\ r.what # "take"
    BY <2>1 DEF Acts, Kinds
  <2> QED
    BY <2>2 DEF Send, Acts, BInv, Awaited
<1> QED
  BY <1>1, <1>4, <1>5, <1>6, <1>7 DEF BInv

\* A click, or a timer, that asks for nothing.
LEMMA ClickAsksNot ==
  ASSUME BInv, NEW w \in Windows, NEW t, Acts(w, t, {}), Ticked(t),
         UNCHANGED <<session, wire, op, clicks, faults, alone>>,
         Attends(w, session, tab[w], wire) => Attends(w, session, t, wire)
  PROVE  BInv'
<1>1. TInv'
  BY MeantimeTyped DEF BInv
<1>2. tab \in [Windows -> Tab] /\ alone \in Windows \cup {None}
  BY DEF BInv, TInv, TypeOK
<1>3. tab'[w] = t /\ \A x \in Windows \ {w} : tab'[x] = tab[x]
  BY <1>2 DEF Acts
<1>4. \A x \in Windows : Ticked(tab'[x])
  BY <1>3 DEF BInv
<1>5. Attentive'
  <2>1. ASSUME alone # None PROVE Attends(alone, session, tab'[alone], wire)
    <3>1. Attends(alone, session, tab[alone], wire) /\ alone \in Windows
      BY <1>2, <2>1 DEF BInv, Attentive
    <3>2. CASE alone = w
      BY <1>3, <3>1, <3>2
    <3>3. CASE alone # w
      BY <1>3, <3>1, <3>3
    <3> QED
      BY <3>2, <3>3
  <2> QED
    BY <2>1 DEF Attentive
<1>6. ActsOnPicked' /\ ActsOnListed' /\ Awaited'
  BY DEF BInv, ActsOnPicked, ActsOnListed, Awaited
<1> QED
  BY <1>1, <1>4, <1>5, <1>6 DEF BInv

\* A window whose requests have all been answered counts what the session has.
LEMMA IdleCounts ==
  ASSUME NEW w, NEW t, NEW s, t.kind # "away", Attends(w, s, t, {})
  PROVE  s[t.kind] \subseteq ToSet(t.picked) /\ (t.modal => t.listed = Reviewed(s))
BY DEF Attends, Counted, DialogTrue

\* One request is an errand.
LEMMA ErrandAttends ==
  ASSUME NEW w, NEW t, NEW s, NEW r, r.w = w, r.stage = "sent", Counted(s, t, {r}),
         r.what = "add" => r.ids \subseteq ToSet(t.picked),
         r.what = "act" => r.ids = ToSet(t.picked) /\ t.listed = Reviewed(s),
         DialogTrue(s, t, {r})
  PROVE  Attends(w, s, t, {r})
<1>1. OneErrand(w, {r}) /\ Current(s, {r})
  BY DEF OneErrand, Current
<1>2. Fits(s, t, r)
  BY DEF Fits
<1> QED
  BY <1>1, <1>2 DEF Attends

-----------------------------------------------------------------------------
(***************************************************************************)
(* The steps of a window.                                                  *)
(***************************************************************************)
LEMMA WindowFields ==
  ASSUME BInv, NEW w \in Windows
  PROVE  /\ tab[w] \in Tab /\ tab[w].picked \in Seq(Ids) /\ tab[w].boxes \subseteq Ids
         /\ tab[w].kind \in Kinds \cup {"away"} /\ tab[w].table \in DOMAIN Pages
         /\ tab[w].handlers \in 0..MaxHandlers
         /\ Rows(w) \in Seq(Ids) /\ ToSet(Rows(w)) \subseteq Ids
         /\ ToSet(tab[w].picked) \subseteq Ids /\ Ticked(tab[w])
         /\ 1 \in DOMAIN Pages /\ 1 \in 1..MaxHandlers
<1>1. tab[w] \in Tab /\ Ticked(tab[w])
  BY DEF BInv, TInv, TypeOK
<1>2. /\ tab[w].picked \in Seq(Ids) /\ tab[w].boxes \subseteq Ids
      /\ tab[w].kind \in Kinds \cup {"away"} /\ tab[w].table \in DOMAIN Pages
      /\ tab[w].handlers \in 0..MaxHandlers
  BY <1>1 DEF Tab
<1>3. Rows(w) \in Seq(Ids) /\ ToSet(Rows(w)) \subseteq Ids /\ 1 \in DOMAIN Pages
  BY <1>2, TableRows DEF Rows
<1>4. ToSet(tab[w].picked) \subseteq Ids
  BY <1>2 DEF ToSet
<1>5. 1 \in 1..MaxHandlers
  BY BulkAssumption
<1> QED
  BY <1>1, <1>2, <1>3, <1>4, <1>5

\* A click in the table that leads to the tab t and to one request.
LEMMA TableClick ==
  ASSUME BInv, NEW w \in Windows, InTable(w), NEW t \in Tab, t.kind = tab[w].kind,
         ~t.modal, tab' = [tab EXCEPT ![w] = t], Ticked(t),
         NEW what \in What \ {"load", "all", "act", "clear", "take"}, NEW ids \in SUBSET Ids,
         NEW i \in DOMAIN Pages, Send1(w, what, ids, i),
         session[t.kind] \subseteq ToSet(tab[w].picked) =>
           \/ session[t.kind] \subseteq ToSet(t.picked)
           \/ what = "remove" /\ session[t.kind] \ ids \subseteq ToSet(t.picked),
         what = "add" => ids \subseteq ToSet(t.picked)
  PROVE  BInv'
<1> DEFINE r == Ask(w, what, ids, i, 1)
<1>1. tab[w].kind # "away" /\ Send(w, {r}) /\ clicks < MaxClicks
  BY DEF InTable, Usable, Send1, Send
<1>2. /\ r \in Request /\ r.w = w /\ r.what = what /\ r.kind = tab[w].kind
      /\ r.ids = ids /\ r.stage = "sent"
  <2>1. 1 \in 1..MaxHandlers
    BY WindowFields
  <2> QED
    BY <1>1, <2>1, Asked DEF BInv
<1> HIDE DEF r
<1>3. Acts(w, t, {r})
  BY <1>1, <1>2 DEF Acts
<1>4. ASSUME Attends(w, session, tab[w], {}) PROVE Attends(w, session, t, {r})
  <2>1. session[t.kind] \subseteq ToSet(tab[w].picked)
    BY <1>1, <1>4, IdleCounts
  <2>2. Counted(session, t, {r}) /\ DialogTrue(session, t, {r})
    BY <1>2, <2>1 DEF Counted, Settles, DialogTrue
  <2> QED
    BY <1>2, <2>2, ErrandAttends
<1> QED
  BY <1>1, <1>3, <1>4, ClickAsks

LEMMA TurnPageKeeps ==
  ASSUME BInv, NEW w \in Windows, NEW table \in DOMAIN Pages, TurnPage(w, table)
  PROVE  BInv'
<1> DEFINE t == tab[w]
<1>1. t \in Tab /\ Ticked(t) /\ ~t.modal
  BY WindowFields DEF TurnPage, InTable
<1>2. tab' = [tab EXCEPT ![w] = t]
  BY DEF TurnPage, BInv, TInv, TypeOK
<1>3. InTable(w) /\ Send1(w, "page", {}, table) /\ "page" \in What \ {"load", "all", "act", "clear", "take"}
  BY DEF TurnPage, What
<1> QED
  BY <1>1, <1>2, <1>3, TableClick

LEMMA TickKeeps ==
  ASSUME BInv, NEW w \in Windows, NEW id \in Ids, Tick(w, id)
  PROVE  BInv'
<1> DEFINE o == tab[w]
           t == [o EXCEPT !.boxes = o.boxes \cup {id}, !.allbox = FALSE,
                          !.picked = Append(o.picked, id), !.loader = TRUE]
<1>1. o \in Tab /\ o.picked \in Seq(Ids) /\ Ticked(o) /\ ~o.modal /\ 1 \in DOMAIN Pages
  BY WindowFields DEF Tick, InTable
<1>2. tab' = [tab EXCEPT ![w] = t]
  BY DEF Tick
<1>3. Append(o.picked, id) \in Seq(Ids) /\ ToSet(Append(o.picked, id)) = ToSet(o.picked) \cup {id}
  <2>1. Append(o.picked, id) = o.picked \o <<id>> /\ <<id>> \in Seq(Ids)
    BY <1>1
  <2>2. ToSet(<<id>>) = {id}
    BY DEF ToSet
  <2> QED
    BY <1>1, <2>1, <2>2, Appended
<1>4. /\ t \in Tab /\ t.kind = o.kind /\ ~t.modal /\ t.picked = Append(o.picked, id)
      /\ t.boxes = o.boxes \cup {id} /\ t.stray = o.stray
  BY <1>1, <1>3 DEF Tab
<1>5. InTable(w) /\ Send1(w, "add", {id}, 1) /\ "add" \in What \ {"load", "all", "act", "clear", "take"}
  BY DEF Tick, What
<1> HIDE DEF t
<1>6. Ticked(t)
  BY <1>1, <1>3, <1>4 DEF Ticked
<1> QED
  BY <1>1, <1>2, <1>3, <1>4, <1>5, <1>6, TableClick

LEMMA UntickKeeps ==
  ASSUME BInv, NEW w \in Windows, NEW id \in Ids, Untick(w, id)
  PROVE  BInv'
<1> DEFINE o == tab[w]
           t == [o EXCEPT !.boxes = o.boxes \ {id}, !.allbox = FALSE,
                          !.picked = Without(o.picked, {id}), !.loader = TRUE]
<1>1. o \in Tab /\ o.picked \in Seq(Ids) /\ Ticked(o) /\ ~o.modal /\ 1 \in DOMAIN Pages
  BY WindowFields DEF Untick, InTable
<1>2. tab' = [tab EXCEPT ![w] = t]
  BY DEF Untick
<1>3. /\ Without(o.picked, {id}) \in Seq(Ids)
      /\ ToSet(o.picked) \ {id} \subseteq ToSet(Without(o.picked, {id}))
  BY <1>1, WithoutKeeps
<1>4. /\ t \in Tab /\ t.kind = o.kind /\ ~t.modal /\ t.picked = Without(o.picked, {id})
      /\ t.boxes = o.boxes \ {id} /\ t.stray = o.stray
  BY <1>1, <1>3 DEF Tab
<1>5. InTable(w) /\ Send1(w, "remove", {id}, 1) /\ "remove" \in What \ {"load", "all", "act", "clear", "take"}
  BY DEF Untick, What
<1> HIDE DEF t
<1>6. Ticked(t)
  BY <1>1, <1>3, <1>4 DEF Ticked
<1>7. session[t.kind] \subseteq ToSet(o.picked) => session[t.kind] \ {id} \subseteq ToSet(t.picked)
  BY <1>3, <1>4
<1> QED
  BY <1>1, <1>2, <1>4, <1>5, <1>6, <1>7, TableClick

LEMMA SelectPageKeeps ==
  ASSUME BInv, NEW w \in Windows, SelectPage(w)
  PROVE  BInv'
<1> DEFINE o == tab[w]
           rows == Rows(w)
           again == {i \in DOMAIN rows :
                       rows[i] \notin ToSet(o.picked) \/ rows[i] = Head(o.picked)}
<1>1. /\ o \in Tab /\ o.picked \in Seq(Ids) /\ Ticked(o) /\ ~o.modal /\ 1 \in DOMAIN Pages
      /\ rows \in Seq(Ids) /\ ToSet(rows) \subseteq Ids /\ InTable(w)
  BY WindowFields DEF SelectPage, InTable
<1>2. {"add", "remove"} \subseteq What \ {"load", "all", "act", "clear", "take"}
  BY DEF What
<1>3. CASE ~o.allbox
  <2> DEFINE t == [o EXCEPT !.boxes = ToSet(rows), !.allbox = TRUE,
                            !.picked = o.picked \o At(rows, again), !.loader = TRUE]
  <2>1. tab' = [tab EXCEPT ![w] = t] /\ Send1(w, "add", ToSet(rows), 1)
    BY <1>3 DEF SelectPage
  <2>2. again \in SUBSET DOMAIN rows
    OBVIOUS
  <2>3. \A i \in DOMAIN rows : rows[i] \in ToSet(o.picked) \/ i \in again
    OBVIOUS
  <2> HIDE DEF again
  <2>4. At(rows, again) \in Seq(Ids) /\ ToSet(At(rows, again)) = {rows[i] : i \in again}
    BY <1>1, <2>2, AtPicks
  <2>5. /\ o.picked \o At(rows, again) \in Seq(Ids)
        /\ ToSet(o.picked \o At(rows, again)) = ToSet(o.picked) \cup ToSet(At(rows, again))
    BY <1>1, <2>4, Appended
  <2>6. ToSet(rows) \subseteq ToSet(o.picked) \cup ToSet(At(rows, again))
    BY <2>3, <2>4 DEF ToSet
  <2> HIDE DEF rows
  <2>7. /\ t \in Tab /\ t.kind = o.kind /\ ~t.modal
        /\ t.picked = o.picked \o At(rows, again) /\ t.boxes = ToSet(rows)
    BY <1>1, <2>5 DEF Tab
  <2> HIDE DEF t
  <2>8. Ticked(t)
    BY <2>5, <2>6, <2>7 DEF Ticked
  <2>9. ToSet(o.picked) \subseteq ToSet(t.picked) /\ ToSet(rows) \subseteq ToSet(t.picked)
    BY <2>5, <2>6, <2>7
  <2> QED
    BY <1>1, <1>2, <2>1, <2>7, <2>8, <2>9, TableClick
<1>4. CASE o.allbox
  <2> DEFINE t == [o EXCEPT !.boxes = {}, !.allbox = FALSE,
                            !.picked = Without(o.picked, ToSet(rows)), !.loader = TRUE]
  <2>1. tab' = [tab EXCEPT ![w] = t] /\ Send1(w, "remove", ToSet(rows), 1)
    BY <1>4 DEF SelectPage
  <2> HIDE DEF rows
  <2>2. /\ Without(o.picked, ToSet(rows)) \in Seq(Ids)
        /\ ToSet(o.picked) \ ToSet(rows) \subseteq ToSet(Without(o.picked, ToSet(rows)))
    BY <1>1, WithoutKeeps
  <2>3. /\ t \in Tab /\ t.kind = o.kind /\ ~t.modal
        /\ t.picked = Without(o.picked, ToSet(rows)) /\ t.boxes = {}
    BY <1>1, <2>2 DEF Tab
  <2> HIDE DEF t
  <2>4. Ticked(t)
    BY <2>3 DEF Ticked
  <2>5. session[t.kind] \subseteq ToSet(o.picked) =>
          session[t.kind] \ ToSet(rows) \subseteq ToSet(t.picked)
    BY <2>2, <2>3
  <2> QED
    BY <1>1, <1>2, <2>1, <2>3, <2>4, <2>5, TableClick
<1> QED
  BY <1>3, <1>4

LEMMA SelectAllKeeps ==
  ASSUME BInv, NEW w \in Windows, SelectAll(w)
  PROVE  BInv'
<1> DEFINE o == tab[w]
           t == [o EXCEPT !.boxes = {}, !.allbox = FALSE, !.loader = TRUE]
           rs == {Ask(w, "all", {}, 1, h) : h \in 1..o.handlers}
<1>1. /\ o \in Tab /\ ~o.modal /\ o.kind # "away" /\ 1 \in DOMAIN Pages
      /\ o.handlers \in 0..MaxHandlers
  BY WindowFields DEF SelectAll, InTable, Usable
<1>2. tab' = [tab EXCEPT ![w] = t] /\ Send(w, rs) /\ clicks < MaxClicks
  BY DEF SelectAll, Send
<1>3. /\ t \in Tab /\ t.kind = o.kind /\ ~t.modal /\ t.picked = o.picked /\ t.boxes = {}
  BY <1>1 DEF Tab
<1>4. \A r \in rs : /\ r \in Request /\ r.w = w /\ r.what = "all" /\ r.kind = o.kind
                    /\ r.stage = "sent"
  <2> TAKE r \in rs
  <2>1. PICK h \in 1..o.handlers : r = Ask(w, "all", {}, 1, h)
    OBVIOUS
  <2>2. h \in 1..MaxHandlers /\ "all" \in What /\ {} \in SUBSET Ids
    BY <1>1, BulkAssumption DEF What
  <2> QED
    BY <1>1, <1>2, <2>1, <2>2, Asked DEF BInv
<1> HIDE DEF rs, t
<1>5. Acts(w, t, rs) /\ Ticked(t)
  BY <1>1, <1>2, <1>3, <1>4 DEF Acts, Ticked
<1>6. ASSUME Attends(w, session, o, {}) PROVE Attends(w, session, t, rs)
  <2>1. session[o.kind] \subseteq ToSet(o.picked)
    BY <1>1, <1>6, IdleCounts
  <2>2. OneErrand(w, rs) /\ Current(session, rs)
    BY <1>4 DEF OneErrand, Current
  <2>3. Counted(session, t, rs) /\ \A r \in rs : Fits(session, t, r)
    BY <1>3, <1>4, <2>1 DEF Counted, Fits
  <2>4. DialogTrue(session, t, rs)
    BY <1>3 DEF DialogTrue
  <2> QED
    BY <2>2, <2>3, <2>4 DEF Attends
<1> QED
  BY <1>2, <1>5, <1>6, ClickAsks

LEMMA ClearAllKeeps ==
  ASSUME BInv, NEW w \in Windows, ClearAll(w)
  PROVE  BInv'
<1> DEFINE o == tab[w]
           t == [o EXCEPT !.picked = <<>>, !.links = FALSE, !.stray = o.stray \cup o.boxes]
           a == Ask(w, "clear", ToSet(o.picked), 1, 1)
           r == [a EXCEPT !.kind = "resources"]
<1>1. /\ o \in Tab /\ ~o.modal /\ o.kind # "away" /\ 1 \in DOMAIN Pages /\ 1 \in 1..MaxHandlers
      /\ ToSet(o.picked) \in SUBSET Ids
  BY WindowFields DEF ClearAll, InTable, Usable
<1>2. tab' = [tab EXCEPT ![w] = t] /\ Send(w, {r}) /\ clicks < MaxClicks
  BY DEF ClearAll, Send
<1>3. /\ t \in Tab /\ t.kind = o.kind /\ ~t.modal /\ t.boxes = o.boxes
      /\ t.stray = o.stray \cup o.boxes
  <2>1. <<>> \in Seq(Ids)
    OBVIOUS
  <2> QED
    BY <1>1, <2>1 DEF Tab
<1>4. a \in Request /\ a.w = w /\ a.what = "clear" /\ a.stage = "sent"
  <2>1. "clear" \in What
    BY DEF What
  <2> QED
    BY <1>1, <1>2, <2>1, Asked DEF BInv
<1> HIDE DEF a, t
<1>5. r \in Request /\ r.w = w /\ r.what = "clear" /\ r.stage = "sent"
  BY <1>4 DEF Request, Kinds, Lists
<1>10. r.kind = "resources"
  BY <1>4 DEF Request
<1> HIDE DEF r
<1>6. Acts(w, t, {r}) /\ Ticked(t)
  BY <1>1, <1>2, <1>3, <1>5, <1>10 DEF Acts, Ticked
<1>7. Attends(w, session, t, {r})
  <2>1. Counted(session, t, {r}) /\ DialogTrue(session, t, {r})
    BY <1>3, <1>5 DEF Counted, Settles, DialogTrue
  <2> QED
    BY <1>5, <2>1, ErrandAttends
<1> QED
  BY <1>2, <1>6, <1>7, ClickAsks

\* A tab that counts and shows in its dialog what it did is attended to as it was.
LEMMA SameCount ==
  ASSUME NEW w, NEW s, NEW rs, NEW o, NEW t, t.kind = o.kind, t.picked = o.picked,
         t.modal => o.modal, t.listed = o.listed, Attends(w, s, o, rs)
  PROVE  Attends(w, s, t, rs)
<1>1. Counted(s, t, rs)
  BY DEF Attends, Counted, Settles
<1>2. \A r \in rs : Fits(s, t, r)
  BY DEF Attends, Fits
<1>3. DialogTrue(s, t, rs)
  BY DEF Attends, DialogTrue
<1> QED
  BY <1>1, <1>2, <1>3 DEF Attends

LEMMA ClickUnboundKeeps ==
  ASSUME BInv, NEW w \in Windows, NEW id \in Ids, ClickUnbound(w, id)
  PROVE  BInv'
<1> DEFINE o == tab[w]
           boxes == IF id \in o.boxes THEN o.boxes \ {id} ELSE o.boxes \cup {id}
           t == [o EXCEPT !.boxes = boxes, !.stray = o.stray \cup {id}]
<1>1. o \in Tab /\ Ticked(o) /\ o.kind # "away"
  BY WindowFields DEF ClickUnbound, InTable, Usable
<1>2. tab' = [tab EXCEPT ![w] = t]
  BY DEF ClickUnbound
<1>3. boxes \subseteq o.boxes \cup {id}
  OBVIOUS
<1>4. UNCHANGED <<session, wire, op, clicks, faults, alone>>
  BY DEF ClickUnbound
<1> HIDE DEF boxes
<1>5. /\ t \in Tab /\ t.kind = o.kind /\ t.picked = o.picked /\ t.modal = o.modal
      /\ t.listed = o.listed /\ t.boxes = boxes /\ t.stray = o.stray \cup {id}
  BY <1>1, <1>3 DEF Tab
<1> HIDE DEF t
<1>6. Ticked(t)
  BY <1>1, <1>3, <1>5 DEF Ticked
<1>7. Acts(w, t, {})
  BY <1>1, <1>2, <1>5 DEF Acts
<1>8. Attends(w, session, o, wire) => Attends(w, session, t, wire)
  BY <1>5, SameCount
<1> QED
  BY <1>4, <1>6, <1>7, <1>8, ClickAsksNot

LEMMA RebindKeeps ==
  ASSUME BInv, NEW w \in Windows, Rebind(w)
  PROVE  BInv'
<1> DEFINE o == tab[w]
           resources == o.kind = "resources"
           n == IF o.handlers < MaxHandlers THEN o.handlers + 1 ELSE o.handlers
           boxes == IF resources THEN o.boxes \cup (ToSet(o.picked) \cap ToSet(Rows(w)))
                    ELSE o.boxes
           links == IF resources THEN o.picked # <<>> ELSE o.links
           t == [o EXCEPT !.bound = TRUE, !.allbox = FALSE, !.handlers = n,
                          !.boxes = boxes, !.links = links]
<1>1. /\ o \in Tab /\ Ticked(o) /\ o.kind # "away" /\ o.boxes \subseteq Ids
      /\ ToSet(o.picked) \subseteq Ids /\ o.handlers \in 0..MaxHandlers /\ MaxHandlers \in Nat
  BY WindowFields, BulkAssumption DEF Rebind
<1>2. tab' = [tab EXCEPT ![w] = t]
  BY DEF Rebind
<1>3. /\ boxes \subseteq Ids /\ boxes \subseteq o.boxes \cup ToSet(o.picked)
  BY <1>1
<1>4. n \in 0..MaxHandlers
  BY <1>1
<1>5. links \in BOOLEAN
  BY <1>1 DEF Tab
<1>6. UNCHANGED <<session, wire, op, clicks, faults, alone>>
  BY DEF Rebind
<1> HIDE DEF boxes, n, links
<1>7. /\ t \in Tab /\ t.kind = o.kind /\ t.picked = o.picked /\ t.modal = o.modal
      /\ t.listed = o.listed /\ t.boxes = boxes /\ t.stray = o.stray
  BY <1>1, <1>3, <1>4, <1>5 DEF Tab
<1> HIDE DEF t
<1>8. Ticked(t)
  BY <1>1, <1>3, <1>7 DEF Ticked
<1>9. Acts(w, t, {})
  BY <1>1, <1>2, <1>7 DEF Acts
<1>10. Attends(w, session, o, wire) => Attends(w, session, t, wire)
  BY <1>7, SameCount
<1> QED
  BY <1>6, <1>8, <1>9, <1>10, ClickAsksNot

LEMMA CloseReviewKeeps ==
  ASSUME BInv, NEW w \in Windows, CloseReview(w)
  PROVE  BInv'
<1> DEFINE o == tab[w]
           t == [o EXCEPT !.modal = FALSE]
<1>1. o \in Tab /\ Ticked(o) /\ o.kind # "away"
  BY WindowFields DEF CloseReview, Usable
<1>2. /\ tab' = [tab EXCEPT ![w] = t]
      /\ UNCHANGED <<session, wire, op, clicks, faults, alone>>
  BY DEF CloseReview
<1>3. /\ t \in Tab /\ t.kind = o.kind /\ t.picked = o.picked /\ ~t.modal
      /\ t.listed = o.listed /\ t.boxes = o.boxes /\ t.stray = o.stray
  BY <1>1 DEF Tab
<1> HIDE DEF t
<1>4. Ticked(t) /\ Acts(w, t, {})
  BY <1>1, <1>2, <1>3 DEF Ticked, Acts
<1>5. Attends(w, session, o, wire) => Attends(w, session, t, wire)
  BY <1>3, SameCount
<1> QED
  BY <1>2, <1>4, <1>5, ClickAsksNot

LEMMA ReviewKeeps ==
  ASSUME BInv, NEW w \in Windows, Review(w)
  PROVE  BInv'
<1> DEFINE o == tab[w]
           t == [o EXCEPT !.modal = TRUE, !.loader = TRUE]
           r == Ask(w, "review", {}, 1, 1)
<1>1. o \in Tab /\ Ticked(o) /\ o.kind # "away" /\ 1 \in DOMAIN Pages /\ 1 \in 1..MaxHandlers
  BY WindowFields DEF Review, InTable, Usable
<1>2. tab' = [tab EXCEPT ![w] = t] /\ Send(w, {r}) /\ clicks < MaxClicks
  BY DEF Review, Send1, Send
<1>3. /\ t \in Tab /\ t.kind = o.kind /\ t.picked = o.picked
      /\ t.boxes = o.boxes /\ t.stray = o.stray
  BY <1>1 DEF Tab
<1>4. r \in Request /\ r.w = w /\ r.what = "review" /\ r.kind = o.kind /\ r.stage = "sent"
  <2>1. "review" \in What /\ {} \in SUBSET Ids
    BY DEF What
  <2> QED
    BY <1>1, <1>2, <2>1, Asked DEF BInv
<1> HIDE DEF r, t
<1>5. Ticked(t) /\ Acts(w, t, {r})
  BY <1>1, <1>2, <1>3, <1>4 DEF Ticked, Acts
<1>6. ASSUME Attends(w, session, o, {}) PROVE Attends(w, session, t, {r})
  <2>1. session[o.kind] \subseteq ToSet(o.picked)
    BY <1>1, <1>6, IdleCounts
  <2>2. Counted(session, t, {r}) /\ DialogTrue(session, t, {r})
    BY <1>3, <1>4, <2>1 DEF Counted, DialogTrue
  <2> QED
    BY <1>4, <2>2, ErrandAttends
<1> QED
  BY <1>2, <1>5, <1>6, ClickAsks

LEMMA ApplyEditKeeps ==
  ASSUME BInv, NEW w \in Windows, ApplyEdit(w)
  PROVE  BInv'
<1> DEFINE o == tab[w]
           resources == o.kind = "resources"
           polling == o.polling \/ resources
           t == [o EXCEPT !.loader = resources, !.polling = polling]
           r == Ask(w, "act", ToSet(o.picked), 1, 1)
<1>1. /\ o \in Tab /\ Ticked(o) /\ o.kind # "away" /\ o.modal /\ 1 \in DOMAIN Pages
      /\ 1 \in 1..MaxHandlers /\ ToSet(o.picked) \in SUBSET Ids
  BY WindowFields DEF ApplyEdit, Usable
<1>2. tab' = [tab EXCEPT ![w] = t] /\ Send(w, {r}) /\ clicks < MaxClicks
  BY DEF ApplyEdit, Send1, Send
<1>3. resources \in BOOLEAN /\ polling \in BOOLEAN
  BY <1>1 DEF Tab
<1>4. /\ r \in Request /\ r.w = w /\ r.what = "act" /\ r.kind = o.kind /\ r.stage = "sent"
      /\ r.ids = ToSet(o.picked)
  <2>1. "act" \in What
    BY DEF What
  <2> QED
    BY <1>1, <1>2, <2>1, Asked DEF BInv
<1> HIDE DEF r, resources, polling
<1>5. /\ t \in Tab /\ t.kind = o.kind /\ t.picked = o.picked /\ t.modal = o.modal
      /\ t.listed = o.listed /\ t.boxes = o.boxes /\ t.stray = o.stray
  BY <1>1, <1>3 DEF Tab
<1> HIDE DEF t
<1>6. Ticked(t) /\ Acts(w, t, {r})
  BY <1>1, <1>2, <1>4, <1>5 DEF Ticked, Acts
<1>7. ASSUME Attends(w, session, o, {}) PROVE Attends(w, session, t, {r})
  <2>1. session[o.kind] \subseteq ToSet(o.picked) /\ o.listed = Reviewed(session)
    BY <1>1, <1>7, IdleCounts
  <2>2. Counted(session, t, {r}) /\ DialogTrue(session, t, {r})
    BY <1>4, <1>5, <2>1 DEF Counted, DialogTrue
  <2> QED
    BY <1>4, <1>5, <2>1, <2>2, ErrandAttends
<1> QED
  BY <1>2, <1>6, <1>7, ClickAsks

LEMMA PollKeeps ==
  ASSUME BInv, NEW w \in Windows, Poll(w)
  PROVE  BInv'
<1> DEFINE o == tab[w]
           r == Ask(w, "poll", {}, 1, 1)
<1>1. o \in Tab /\ Ticked(o) /\ 1 \in DOMAIN Pages /\ 1 \in 1..MaxHandlers
  BY WindowFields
<1>2. o.kind # "away"
  BY DEF Poll, BInv, TInv, AwayIsIdle
<1>3. tab' = [tab EXCEPT ![w] = o] /\ Send(w, {r}) /\ clicks < MaxClicks
  BY DEF Poll, Send1, Send, BInv, TInv, TypeOK
<1>4. r \in Request /\ r.w = w /\ r.what = "poll" /\ r.kind = o.kind /\ r.stage = "sent"
  <2>1. "poll" \in What /\ {} \in SUBSET Ids
    BY DEF What
  <2> QED
    BY <1>1, <1>2, <1>3, <2>1, Asked DEF BInv
<1> HIDE DEF r, o
<1>5. Acts(w, o, {r})
  BY <1>1, <1>2, <1>3, <1>4 DEF Acts, o
<1>6. ASSUME Attends(w, session, o, {}) PROVE Attends(w, session, o, {r})
  <2>1. Counted(session, o, {r}) /\ DialogTrue(session, o, {r})
    BY <1>4, <1>2, <1>6, IdleCounts DEF Counted, DialogTrue
  <2> QED
    BY <1>4, <2>1, ErrandAttends
<1> QED
  BY <1>1, <1>3, <1>5, <1>6, ClickAsks DEF o

-----------------------------------------------------------------------------
(***************************************************************************)
(* Pages that open, requests that are served and answers that arrive.      *)
(***************************************************************************)
LEMMA PageKeeps ==
  ASSUME BInv, NEW w \in Windows, NEW kind \in Kinds, NEW rs \in SUBSET wire,
         OpenPage(w, kind, rs), faults' \in 0..MaxFaults
  PROVE  BInv'
<1>1. UNCHANGED <<session, op>> /\ tab' = [tab EXCEPT ![w] = Away] /\ w # None
  BY BulkAssumption DEF OpenPage
<1>2. /\ TabsTyped' /\ clicks' \in 0..MaxClicks /\ alone' \in {w, None} /\ tab'[w] = Away
      /\ rs = {} => \E q : wire' = {q} /\ q.w = w /\ q.what = "load" /\ q.stage = "sent"
  BY PageOpens DEF BInv
<1>3. TInv'
  BY <1>1, <1>2 DEF BInv, TInv, TypeOK, TabsTyped
<1>4. \A x \in Windows : Ticked(tab'[x])
  BY <1>1, <1>2 DEF BInv, Ticked, Away, TInv, TypeOK
<1>5. Attentive'
  <2>1. ASSUME alone' # None PROVE Attends(w, session', tab'[w], wire')
    <3>1. rs = {}
      BY <1>2, <2>1 DEF OpenPage
    <3>2. PICK q : wire' = {q} /\ q.w = w /\ q.what = "load" /\ q.stage = "sent"
      BY <1>2, <3>1
    <3>3. Counted(session', Away, {q}) /\ DialogTrue(session', Away, {q})
      BY DEF Counted, DialogTrue, Away
    <3> QED
      BY <1>2, <3>2, <3>3, ErrandAttends
  <2> QED
    BY <1>2, <2>1 DEF Attentive
<1>6. ActsOnPicked' /\ ActsOnListed'
  BY <1>1 DEF BInv, ActsOnPicked, ActsOnListed
<1>7. Awaited'
  <2> DEFINE request == [Ask(w, "load", {}, 1, 1) EXCEPT !.kind = kind]
             others == {r \in rs : r.w # w}
             left == {r \in rs \ others : r.stage # "done"}
             orphans == {[r EXCEPT !.w = None] : r \in left}
  <2>1. wire' = others \cup orphans \cup {request}
    BY DEF OpenPage
  <2>2. request.w = w /\ request.kind = kind /\ request.what = "load"
    BY DEF Ask
  <2>3. \A r \in left : r.stage # "done" /\ [r EXCEPT !.w = None].stage = r.stage
    BY DEF BInv, TInv, TypeOK, Request
  <2>4. \A r \in others : /\ r.stage = "done" => r.w # None
                          /\ r.w # None => r.kind \in Kinds /\ r.what # "take"
    BY DEF BInv, Awaited
  <2>5. \A r \in left : [r EXCEPT !.w = None].w = None
    BY DEF BInv, TInv, TypeOK, Request
  <2> HIDE DEF request, left, others
  <2> QED
    BY <1>1, <2>1, <2>2, <2>3, <2>4, <2>5 DEF Awaited
<1> QED
  BY <1>3, <1>4, <1>5, <1>6, <1>7 DEF BInv

LEMMA ErrandIs ==
  ASSUME NEW w, NEW rs, OneErrand(w, rs), NEW r \in rs
  PROVE  /\ r.w = w /\ \A x \in rs : x.what = r.what /\ x.w = w
         /\ r.what # "all" => rs = {r}
BY DEF OneErrand

\* Requests for all rows are one errand, whatever the session has.
LEMMA AllAttends ==
  ASSUME NEW w, NEW s, NEW t, NEW rs, ~t.modal, NEW r \in rs,
         \A x \in rs : x.what = "all" /\ x.w = w
  PROVE  Attends(w, s, t, rs)
BY DEF Attends, OneErrand, Current, Counted, Settles, Fits, DialogTrue

\* A window that waits for all rows shows no dialog.
LEMMA AllPlain ==
  ASSUME NEW w, NEW s, NEW t, NEW rs, NEW r \in rs, Attends(w, s, t, rs),
         r.what \notin {"review", "act", "poll"}, t.modal \in BOOLEAN
  PROVE  ~t.modal
BY DEF Attends, DialogTrue

LEMMA ReadKeeps ==
  ASSUME BInv, NEW r \in wire, Read(r)
  PROVE  BInv'
<1> DEFINE q == [r EXCEPT !.stage = "read", !.copy = session]
<1>1. /\ r.stage = "sent" /\ wire' = (wire \ {r}) \cup {q}
      /\ UNCHANGED <<session, tab, op, clicks, faults, alone>>
  BY DEF Read
<1>2. /\ TabsTyped' /\ q.w = r.w /\ q.what = r.what /\ q.kind = r.kind /\ q.ids = r.ids
      /\ q.stage = "read" /\ q.copy = session
  <2>1. session \in Session /\ TInv
    BY DEF BInv, TInv, TypeOK
  <2>2. r \in Request
    BY DEF BInv, TInv, TypeOK
  <2>3. /\ q \in Request /\ q.w = r.w /\ q.what = r.what /\ q.kind = r.kind /\ q.ids = r.ids
        /\ q.stage = "read" /\ q.copy = session
    BY <2>1, <2>2 DEF Request
  <2> HIDE DEF q
  <2>4. TabsTyped'
    BY <1>1, <2>1, <2>3, RequestMoves
  <2> QED
    BY <2>3, <2>4
<1> HIDE DEF q
<1>3. TInv'
  BY <1>1, <1>2 DEF BInv, TInv, TypeOK, TabsTyped
<1>4. Awaited'
  BY <1>1, <1>2 DEF BInv, Awaited
<1>5. ASSUME alone # None PROVE Attends(alone, session, tab[alone], wire')
  <2> DEFINE t == tab[alone]
  <2>1. Attends(alone, session, t, wire) /\ OneErrand(alone, wire)
    BY <1>5 DEF BInv, Attentive, Attends
  <2>2. /\ r.w = alone /\ \A x \in wire : x.what = r.what /\ x.w = alone
        /\ r.what # "all" => wire = {r}
    BY <2>1, ErrandIs
  <2>3. t.modal \in BOOLEAN
    BY <1>5 DEF BInv, TInv, TypeOK, Tab
  <2> HIDE DEF t
  <2>4. CASE r.what = "all"
    <3>1. ~t.modal
      BY <2>1, <2>3, <2>4, AllPlain
    <3> QED
      BY <1>1, <1>2, <2>2, <2>4, <3>1, AllAttends DEF t
  <2>5. CASE r.what # "all"
    <3>1. wire = {r} /\ wire' = {q}
      BY <1>1, <2>2, <2>5
    <3>2. OneErrand(alone, {q}) /\ Current(session, {q})
      BY <1>2, <2>2 DEF OneErrand, Current
    <3>3. Counted(session, t, {q})
      BY <1>1, <1>2, <2>1, <3>1 DEF Attends, Counted, Settles
    <3>4. Fits(session, t, q)
      BY <1>1, <1>2, <2>1, <3>1 DEF Attends, Fits
    <3>5. DialogTrue(session, t, {q})
      BY <1>1, <1>2, <2>1, <3>1 DEF Attends, DialogTrue
    <3> QED
      BY <3>1, <3>2, <3>3, <3>4, <3>5 DEF Attends, t
  <2> QED
    BY <2>4, <2>5
<1> QED
  BY <1>1, <1>3, <1>4, <1>5 DEF BInv, Attentive, ActsOnPicked, ActsOnListed

\* What a request leaves in the session.
LEMMA AfterIs ==
  ASSUME NEW r \in Request
  PROVE  /\ After(r) \in Session /\ r.kind \in Lists /\ r.copy \in Session
         /\ r.what = "load" => After(r)[r.kind] = {}
         /\ r.what = "add" => After(r)[r.kind] = r.copy[r.kind] \cup r.ids
         /\ r.what = "remove" => After(r)[r.kind] = r.copy[r.kind] \ r.ids
         /\ r.what = "act" => After(r)[r.kind] \subseteq r.copy[r.kind]
         /\ r.what \in {"page", "review", "poll"} => After(r) = r.copy
<1> DEFINE list == r.copy[r.kind]
           new == CASE r.what = "load" -> {}
                    [] r.what = "add" -> list \cup r.ids
                    [] r.what = "all" -> Ids
                    [] r.what = "take" -> r.ids
                    [] r.what \in {"remove", "clear"} -> list \ r.ids
                    [] r.what = "act" /\ r.kind = "resources" -> {}
                    [] OTHER -> list
<1>1. r.kind \in Lists /\ r.copy \in Session /\ r.ids \subseteq Ids
  BY DEF Request
<1>2. list \subseteq Ids
  BY <1>1 DEF Session
<1>3. /\ r.what = "load" => new = {}
      /\ r.what = "add" => new = list \cup r.ids
      /\ r.what = "remove" => new = list \ r.ids
      /\ r.what = "act" => new \subseteq list
      /\ r.what \in {"page", "review", "poll"} => new = list
      /\ new \subseteq Ids
  BY <1>1, <1>2
<1>4. After(r) = [r.copy EXCEPT ![r.kind] = new]
  BY DEF After
<1> HIDE DEF new
<1>5. After(r) \in Session /\ After(r)[r.kind] = new
  BY <1>1, <1>3, <1>4 DEF Session
<1>6. new = list => After(r) = r.copy
  BY <1>1, <1>4 DEF Session
<1> QED
  BY <1>1, <1>3, <1>5, <1>6

LEMMA CommitKeeps ==
  ASSUME BInv, NEW r \in wire, Commit(r)
  PROVE  BInv'
<1> DEFINE q == [r EXCEPT !.stage = "done", !.copy = After(r)]
           edit == [acted |-> [kind |-> r.kind, ids |-> r.copy[r.kind]],
                    picked |-> r.ids, listed |-> tab[r.w].listed, quiet |-> alone = r.w,
                    crowded |-> CrowdedOut(r.copy, r.kind)]
<1>1. /\ r.stage = "read" /\ session' = After(r)
      /\ wire' = (wire \ {r}) \cup (IF r.w = None THEN {} ELSE {q})
      /\ op' = IF r.what = "act" /\ r.w # None THEN edit ELSE op
      /\ UNCHANGED <<tab, clicks, faults, alone>>
  BY DEF Commit
<1>2. r \in Request /\ tab \in [Windows -> Tab]
  BY DEF BInv, TInv, TypeOK
<1>3. After(r) \in Session /\ r.copy \in Session
  BY <1>2, AfterIs
<1>4. /\ q \in Request /\ q.w = r.w /\ q.what = r.what /\ q.kind = r.kind /\ q.ids = r.ids
      /\ q.stage = "done" /\ q.copy = After(r)
  BY <1>2, <1>3 DEF Request
<1> HIDE DEF q
<1>5. TabsTyped'
  BY <1>1, <1>4, RequestMoves DEF BInv
<1>6. ASSUME r.what = "act", r.w # None
      PROVE  edit \in [acted : Listing, picked : SUBSET Ids, listed : Listing,
                       quiet : BOOLEAN, crowded : BOOLEAN]
  <2>1. r.w \in Windows /\ r.ids \subseteq Ids
    BY <1>2, <1>6 DEF Request
  <2>2. tab[r.w].listed \in Listing
    BY <1>2, <2>1 DEF Tab
  <2>3. r.kind \in Kinds /\ r.copy[r.kind] \subseteq Ids
    BY <1>3, <1>6 DEF Session, Lists, BInv, Awaited
  <2>4. [kind |-> r.kind, ids |-> r.copy[r.kind]] \in Listing
    BY <2>3 DEF Listing
  <2>5. (alone = r.w) \in BOOLEAN /\ CrowdedOut(r.copy, r.kind) \in BOOLEAN
    BY DEF CrowdedOut
  <2> QED
    BY <2>1, <2>2, <2>3, <2>4, <2>5
<1>7. /\ edit.acted.kind = r.kind /\ edit.acted.ids = r.copy[r.kind] /\ edit.picked = r.ids
      /\ edit.listed = tab[r.w].listed /\ (edit.quiet <=> alone = r.w)
      /\ (edit.crowded <=> CrowdedOut(r.copy, r.kind))
      /\ edit.acted = [kind |-> r.kind, ids |-> r.copy[r.kind]]
  OBVIOUS
<1> HIDE DEF edit
<1>8. TInv'
  BY <1>1, <1>3, <1>5, <1>6 DEF BInv, TInv, TypeOK, TabsTyped
<1>9. Awaited'
  BY <1>1, <1>4 DEF BInv, Awaited
<1>10. ASSUME alone # None
       PROVE  /\ Attends(alone, session, tab[alone], wire)
              /\ r.w = alone /\ \A x \in wire : x.what = r.what /\ x.w = alone
              /\ r.what # "all" => /\ wire = {r} /\ wire' = {q} /\ r.copy = session
                                   /\ session' = After(r)
  <2>1. Attends(alone, session, tab[alone], wire)
    BY <1>10 DEF BInv, Attentive
  <2>2. /\ r.w = alone /\ \A x \in wire : x.what = r.what /\ x.w = alone
        /\ r.what # "all" => wire = {r}
    BY <2>1, ErrandIs DEF Attends
  <2>3. r.what # "all" => r.copy = session
    BY <1>1, <2>1 DEF Attends, Current
  <2> QED
    BY <1>1, <1>10, <2>1, <2>2, <2>3
<1>11. ASSUME alone # None PROVE Attends(alone, session', tab[alone], wire')
  <2> DEFINE t == tab[alone]
  <2>1. /\ Attends(alone, session, t, wire)
        /\ r.w = alone /\ \A x \in wire : x.what = r.what /\ x.w = alone
        /\ r.what # "all" => /\ wire = {r} /\ wire' = {q} /\ r.copy = session
                             /\ session' = After(r)
    BY <1>10, <1>11
  <2>2. /\ t \in Tab
        /\ r.what = "load" => t = Away
        /\ r.what # "load" => t.kind # "away"
        /\ r.what \notin {"load", "clear"} => r.kind = t.kind
    BY <1>2, <1>11, <2>1 DEF BInv, TInv, WireKnown, Request
  <2>3. t.modal \in BOOLEAN
    BY <2>2 DEF Tab
  <2> HIDE DEF t
  <2>4. CASE r.what = "all"
    <3>1. ~t.modal
      BY <2>1, <2>3, <2>4, AllPlain
    <3>2. q \in wire' /\ \A x \in wire' : x.what = "all" /\ x.w = alone
      BY <1>1, <1>4, <1>11, <2>1, <2>4
    <3> QED
      BY <3>1, <3>2, AllAttends DEF t
  <2>5. CASE r.what # "all"
    <3>1. wire = {r} /\ wire' = {q} /\ r.copy = session /\ session' = After(r)
      BY <2>1, <2>5
    <3>2. OneErrand(alone, {q}) /\ Current(session', {q})
      BY <1>4, <2>1, <3>1 DEF OneErrand, Current
    <3>3. Counted(session', t, {q})
      <4>1. CASE r.what \in {"load", "clear"}
        BY <1>4, <2>2, <4>1 DEF Counted, Settles, Away
      <4>2. CASE r.what = "remove"
        <5>1. \/ session[t.kind] \subseteq ToSet(t.picked)
              \/ session[t.kind] \ r.ids \subseteq ToSet(t.picked)
          BY <2>1, <2>2, <3>1, <4>2 DEF Attends, Counted, Settles
        <5>2. session'[t.kind] = session[t.kind] \ r.ids
          BY <1>2, <2>2, <3>1, <4>2, AfterIs
        <5> QED
          BY <5>1, <5>2 DEF Counted
      <4>3. CASE r.what \notin {"load", "clear", "remove"}
        <5>1. session[t.kind] \subseteq ToSet(t.picked)
          BY <2>1, <2>2, <2>5, <3>1, <4>3 DEF Attends, Counted, Settles
        <5>2. r.what = "add" => r.ids \subseteq ToSet(t.picked)
          BY <2>1 DEF Attends, Fits
        <5>3. r.what \in {"add", "act", "page", "review", "poll"}
          <6>1. r.what # "take"
            BY <1>11, <2>1 DEF BInv, Awaited, TInv, TypeOK
          <6> QED
            BY <1>2, <2>5, <4>3, <6>1 DEF Request, What
        <5>4. session'[t.kind] \subseteq ToSet(t.picked)
          BY <1>2, <2>2, <3>1, <4>3, <5>1, <5>2, <5>3, AfterIs
        <5> QED
          BY <5>4 DEF Counted
      <4> QED
        BY <4>1, <4>2, <4>3
    <3>4. Fits(session', t, q)
      <4>1. r.what = "load" => session'[q.kind] = {}
        BY <1>2, <1>4, <3>1, AfterIs
      <4>2. /\ r.what = "add" => r.ids \subseteq ToSet(t.picked)
            /\ r.what = "act" => r.ids = ToSet(t.picked)
        BY <2>1 DEF Attends, Fits
      <4> QED
        BY <1>4, <4>1, <4>2 DEF Fits
    <3>5. DialogTrue(session', t, {q})
      <4>1. t.modal => r.what \in {"review", "act", "poll"}
        BY <2>1 DEF Attends, DialogTrue
      <4>2. r.what \in {"review", "act"} => DialogTrue(session', t, {q})
        BY <1>4 DEF DialogTrue
      <4>3. ASSUME r.what = "poll" PROVE DialogTrue(session', t, {q})
        <5>1. session' = session
          BY <1>2, <3>1, <4>3, AfterIs
        <5>2. t.modal => t.listed = Reviewed(session)
          BY <2>1, <3>1, <4>3 DEF Attends, DialogTrue
        <5> QED
          BY <1>4, <4>3, <5>1, <5>2 DEF DialogTrue
      <4> QED
        BY <4>1, <4>2, <4>3 DEF DialogTrue
    <3> QED
      BY <3>1, <3>2, <3>3, <3>4, <3>5 DEF Attends, t
  <2> QED
    BY <2>4, <2>5
<1>12. ActsOnPicked' /\ ActsOnListed'
  <2>1. CASE r.what = "act" /\ r.w # None /\ alone = r.w
    <3>1. /\ Attends(alone, session, tab[alone], wire) /\ wire = {r} /\ r.copy = session
      BY <1>10, <2>1
    <3>2. r.kind = tab[alone].kind /\ tab[alone].kind # "away"
      BY <2>1 DEF BInv, TInv, WireKnown
    <3>3. r.ids = ToSet(tab[alone].picked) /\ tab[alone].listed = Reviewed(session)
      BY <1>1, <2>1, <3>1 DEF Attends, Fits
    <3>4. session[r.kind] \subseteq r.ids
      BY <2>1, <3>1, <3>2, <3>3 DEF Attends, Counted, Settles
    <3>5. op' = edit
      BY <1>1, <2>1
    <3>6. ActsOnPicked'
      BY <1>7, <3>1, <3>4, <3>5 DEF ActsOnPicked
    <3>7. ActsOnListed'
      <4>1. ASSUME session[r.kind] # {}, ~CrowdedOut(session, r.kind)
            PROVE  Reviewed(session) = [kind |-> r.kind, ids |-> session[r.kind]]
        <5>1. r.kind \in Kinds
          BY <2>1 DEF BInv, Awaited
        <5> QED
          BY <4>1, <5>1 DEF Reviewed, CrowdedOut, Kinds
      <4> QED
        BY <1>7, <2>1, <3>1, <3>3, <3>5, <4>1 DEF ActsOnListed
    <3> QED
      BY <3>6, <3>7
  <2>2. CASE r.what = "act" /\ r.w # None /\ alone # r.w
    BY <1>1, <1>7, <2>2 DEF ActsOnPicked, ActsOnListed
  <2>3. CASE ~(r.what = "act" /\ r.w # None)
    <3>1. op' = op
      BY <1>1, <2>3
    <3> QED
      BY <3>1 DEF BInv, ActsOnPicked, ActsOnListed
  <2> QED
    BY <2>1, <2>2, <2>3
<1> QED
  BY <1>1, <1>8, <1>9, <1>11, <1>12 DEF BInv, Attentive

\* A window that has, or goes without, the answer to r.
LEMMA AnswerTyped ==
  ASSUME TInv, NEW r \in wire, r.w # None, NEW t \in Tab,
         tab' = [tab EXCEPT ![r.w] = t], wire' = wire \ {r},
         r.what # "load" => t.kind = tab[r.w].kind,
         t.polling \/ t.leaving => t.kind # "away"
  PROVE  TabsTyped' /\ r.w \in Windows
<1>1. tab \in [Windows -> Tab] /\ wire \subseteq Request /\ r.w \in Windows
  BY DEF TInv, TypeOK, Request
<1>2. /\ tab' \in [Windows -> Tab] /\ wire' \subseteq Request
      /\ tab'[r.w] = t /\ \A x \in Windows \ {r.w} : tab'[x] = tab[x]
  BY <1>1
<1>3. AwayIsIdle'
  BY <1>1, <1>2 DEF TInv, AwayIsIdle
<1>4. ASSUME NEW x \in wire', x.w # None
      PROVE  /\ x.what = "load" => tab'[x.w] = Away /\ \A y \in wire' : y.w = x.w => y = x
             /\ x.what # "load" => tab'[x.w].kind # "away"
             /\ x.what \notin {"load", "clear"} => x.kind = tab'[x.w].kind
  <2>1. x \in wire /\ x # r /\ x.w \in Windows
    BY <1>1, <1>4 DEF Request
  <2>2. /\ x.what = "load" => tab[x.w] = Away /\ \A y \in wire : y.w = x.w => y = x
        /\ x.what # "load" => tab[x.w].kind # "away"
        /\ x.what \notin {"load", "clear"} => x.kind = tab[x.w].kind
    BY <1>4, <2>1 DEF TInv, WireKnown
  <2>3. CASE x.w # r.w
    BY <1>2, <2>1, <2>2, <2>3
  <2>4. CASE x.w = r.w
    <3>1. r.what # "load" /\ x.what # "load"
      BY <1>4, <2>1, <2>4 DEF TInv, WireKnown
    <3> QED
      BY <1>2, <2>2, <2>4, <3>1
  <2> QED
    BY <2>3, <2>4
<1>5. WireKnown'
  BY <1>4 DEF WireKnown
<1> QED
  BY <1>1, <1>2, <1>3, <1>5 DEF TabsTyped

\* The tab that has the answer to r.
LEMMA AnsweredIs ==
  ASSUME BInv, NEW r \in wire, r.w # None, r.what # "clear",
         NEW order \in Seq(Ids), NEW t, t = Answered(tab[r.w], r, order),
         r.what = "all" => ToSet(order) = Ids \ ToSet(tab[r.w].picked)
  PROVE  LET o == tab[r.w]
         IN  /\ t \in Tab /\ Ticked(t)
             /\ r.what = "load" => t.kind = r.kind /\ ~t.modal /\ ~t.polling /\ ~t.leaving
             /\ r.what # "load" => t.kind = o.kind /\ ToSet(o.picked) \subseteq ToSet(t.picked)
             /\ r.what = "all" => Ids \subseteq ToSet(t.picked)
             /\ r.what = "review" => t.listed = Reviewed(r.copy)
             /\ r.what # "review" /\ t.modal => o.modal /\ t.listed = o.listed /\ r.what # "act"
<1> DEFINE o == tab[r.w]
           list == r.copy[r.kind]
<1>1. r \in Request /\ r.w \in Windows
  BY DEF BInv, TInv, TypeOK, Request
<1>2. /\ o \in Tab /\ o.picked \in Seq(Ids) /\ o.boxes \subseteq Ids /\ Ticked(o)
      /\ o.table \in DOMAIN Pages /\ ToSet(o.picked) \subseteq Ids
  BY <1>1, WindowFields
<1>3. r.kind \in Kinds /\ r.copy \in Session /\ list \subseteq Ids /\ r.table \in DOMAIN Pages
  BY <1>1 DEF Request, Session, Lists, BInv, Awaited
<1> HIDE DEF o
<1>4. CASE r.what = "load"
  <2> DEFINE resources == r.kind = "resources"
             n == IF resources THEN 1 ELSE 0
  <2>1. t = [Away EXCEPT !.kind = r.kind, !.bound = resources, !.handlers = n]
    BY <1>4 DEF Answered
  <2>2. resources \in BOOLEAN /\ n \in 0..MaxHandlers
    BY BulkAssumption
  <2> HIDE DEF resources, n
  <2>3. /\ t \in Tab /\ t.kind = r.kind /\ ~t.modal /\ ~t.polling /\ ~t.leaving
        /\ t.boxes = {}
    <3>1. Away \in Tab
      BY AwayTyped
    <3>2. ~Away.modal /\ ~Away.polling /\ ~Away.leaving /\ Away.boxes = {}
      BY DEF Away
    <3>3. r.kind \in Kinds \cup {"away"}
      BY <1>3
    <3>4. t \in Tab
      BY <2>1, <2>2, <3>1, <3>3 DEF Tab
    <3>5. t.kind = r.kind
      BY <2>1, <3>1 DEF Tab
    <3>6. /\ t.modal = Away.modal /\ t.polling = Away.polling
          /\ t.leaving = Away.leaving /\ t.boxes = Away.boxes
      BY <2>1, <3>1 DEF Tab
    <3> QED
      BY <3>2, <3>4, <3>5, <3>6
  <2> QED
    BY <1>4, <2>3 DEF Ticked
<1>5. CASE r.what = "page"
  <2>1. t = [o EXCEPT !.table = r.table, !.boxes = {}, !.stray = {}, !.bound = FALSE]
    BY <1>5 DEF Answered, o
  <2>2. /\ t \in Tab /\ t.kind = o.kind /\ t.picked = o.picked /\ t.boxes = {}
        /\ t.modal = o.modal /\ t.listed = o.listed
    BY <1>2, <1>3, <2>1 DEF Tab
  <2> QED
    BY <1>5, <2>2 DEF Ticked, o
<1>6. CASE r.what \in {"add", "remove"}
  <2> DEFINE links == list # {}
  <2>1. t = [o EXCEPT !.loader = FALSE, !.links = links]
    BY <1>6 DEF Answered, o
  <2>2. links \in BOOLEAN
    OBVIOUS
  <2> HIDE DEF links
  <2>3. /\ t \in Tab /\ t.kind = o.kind /\ t.picked = o.picked /\ t.boxes = o.boxes
        /\ t.stray = o.stray /\ t.modal = o.modal /\ t.listed = o.listed
    BY <1>2, <2>1, <2>2 DEF Tab
  <2> QED
    BY <1>2, <1>6, <2>3 DEF Ticked, o
<1>7. CASE r.what = "all"
  <2> DEFINE picked == o.picked \o order
             boxes == o.boxes \cup (list \cap ToSet(Pages[o.table]))
  <2>1. t = [o EXCEPT !.loader = FALSE, !.links = TRUE, !.picked = picked, !.boxes = boxes]
    BY <1>7 DEF Answered, o
  <2>2. picked \in Seq(Ids) /\ ToSet(picked) = ToSet(o.picked) \cup ToSet(order)
    BY <1>2, Appended
  <2>3. Ids \subseteq ToSet(picked)
    BY <1>7, <2>2 DEF o
  <2>4. boxes \subseteq Ids
    BY <1>2, <1>3
  <2> HIDE DEF picked, boxes
  <2>5. /\ t \in Tab /\ t.kind = o.kind /\ t.picked = picked /\ t.boxes = boxes
        /\ t.modal = o.modal /\ t.listed = o.listed
    BY <1>2, <2>1, <2>2, <2>4 DEF Tab
  <2> QED
    BY <1>7, <2>2, <2>3, <2>4, <2>5 DEF Ticked, o
<1>8. CASE r.what = "review"
  <2>1. t = [o EXCEPT !.loader = FALSE, !.listed = Reviewed(r.copy)]
    BY <1>8 DEF Answered, o
  <2>2. Reviewed(r.copy) \in Listing
    BY <1>3 DEF Reviewed, Session, Listing, Kinds, Lists
  <2>3. /\ t \in Tab /\ t.kind = o.kind /\ t.picked = o.picked /\ t.boxes = o.boxes
        /\ t.stray = o.stray /\ t.listed = Reviewed(r.copy)
    BY <1>2, <2>1, <2>2 DEF Tab
  <2> QED
    BY <1>2, <1>8, <2>3 DEF Ticked, o
<1>9. CASE r.what = "act"
  <2>1. t = [o EXCEPT !.loader = FALSE, !.modal = FALSE, !.leaving = TRUE]
    BY <1>9 DEF Answered, o
  <2>2. /\ t \in Tab /\ t.kind = o.kind /\ t.picked = o.picked /\ t.boxes = o.boxes
        /\ t.stray = o.stray /\ ~t.modal
    BY <1>2, <2>1 DEF Tab
  <2> QED
    BY <1>2, <1>9, <2>2 DEF Ticked, o
<1>10. CASE r.what = "poll"
  <2>1. t = o
    BY <1>10 DEF Answered, o
  <2> QED
    BY <1>2, <1>10, <2>1 DEF o
<1> QED
  BY <1>1, <1>4, <1>5, <1>6, <1>7, <1>8, <1>9, <1>10 DEF Request, What, BInv, Awaited

LEMMA DeliverKeeps ==
  ASSUME BInv, NEW r \in wire, Deliver(r)
  PROVE  BInv'
<1>1. /\ r \in Request /\ r.w # None /\ r.w \in Windows /\ tab \in [Windows -> Tab]
      /\ r.stage = "done" /\ faults' = faults /\ faults \in 0..MaxFaults
  BY DEF Deliver, BInv, Awaited, TInv, TypeOK, Request
<1>2. /\ r.what = "load" => tab[r.w] = Away
      /\ r.what # "load" => tab[r.w].kind # "away"
      /\ r.what \notin {"load", "clear"} => r.kind = tab[r.w].kind
  BY <1>1 DEF BInv, TInv, WireKnown
<1>3. CASE r.what = "clear"
  <2>1. OpenPage(r.w, tab[r.w].kind, wire \ {r})
    BY <1>3 DEF Deliver
  <2>2. tab[r.w].kind \in Kinds
    BY <1>1, <1>2, <1>3, WindowFields
  <2> QED
    BY <1>1, <2>1, <2>2, PageKeeps
<1>4. CASE r.what # "clear"
  <2> DEFINE o == tab[r.w]
             missing == IF r.what = "all" THEN Ids \ ToSet(o.picked) ELSE {}
  <2>1. PICK order \in SetToSeqs(missing) : tab' = [tab EXCEPT ![r.w] = Answered(o, r, order)]
    BY <1>4 DEF Deliver
  <2>2. wire' = wire \ {r} /\ UNCHANGED <<session, op, clicks, faults, alone>>
    BY <1>4 DEF Deliver
  <2>3. order \in Seq(Ids) /\ ToSet(order) = missing
    <3>1. missing \in SUBSET Ids
      OBVIOUS
    <3> HIDE DEF missing
    <3> QED
      BY <3>1, OrderHas
  <2> DEFINE t == Answered(o, r, order)
  <2>4. /\ t \in Tab /\ Ticked(t)
        /\ r.what = "load" => t.kind = r.kind /\ ~t.modal /\ ~t.polling /\ ~t.leaving
        /\ r.what # "load" => t.kind = o.kind /\ ToSet(o.picked) \subseteq ToSet(t.picked)
        /\ r.what = "all" => Ids \subseteq ToSet(t.picked)
        /\ r.what = "review" => t.listed = Reviewed(r.copy)
        /\ r.what # "review" /\ t.modal => o.modal /\ t.listed = o.listed /\ r.what # "act"
    BY <1>1, <1>4, <2>3, AnsweredIs
  <2>5. tab' = [tab EXCEPT ![r.w] = t]
    BY <2>1
  <2> HIDE DEF t, missing
  <2>6. tab'[r.w] = t /\ \A x \in Windows \ {r.w} : tab'[x] = tab[x]
    BY <1>1, <2>5
  <2>7. TInv'
    <3>1. TabsTyped'
      BY <1>1, <1>2, <2>2, <2>4, <2>5, AnswerTyped DEF BInv
    <3> QED
      BY <2>2, <3>1 DEF BInv, TInv, TypeOK, TabsTyped
  <2>8. \A x \in Windows : Ticked(tab'[x])
    BY <2>4, <2>6 DEF BInv
  <2>9. ASSUME alone # None PROVE Attends(alone, session, tab'[alone], wire')
    <3>1. Attends(alone, session, tab[alone], wire)
      BY <2>9 DEF BInv, Attentive
    <3>2. /\ r.w = alone /\ \A x \in wire : x.what = r.what /\ x.w = alone
          /\ r.what # "all" => wire = {r}
      BY <3>1, ErrandIs DEF Attends
    <3>3. o.modal \in BOOLEAN
      BY <1>1 DEF Tab
    <3>4. session \in Session
      BY DEF BInv, TInv, TypeOK
    <3>5. CASE r.what = "all"
      <4>1. ~o.modal
        BY <3>1, <3>2, <3>3, <3>5, AllPlain
      <4>2. ~t.modal
        BY <2>4, <3>5, <4>1
      <4>3. t.kind \in Kinds
        BY <1>2, <2>4, <3>5 DEF Tab
      <4>4. session[t.kind] \subseteq ToSet(t.picked)
        BY <2>4, <3>4, <3>5, <4>3 DEF Session, Lists
      <4>5. Counted(session, t, wire') /\ DialogTrue(session, t, wire')
        BY <4>2, <4>4 DEF Counted, DialogTrue
      <4>6. \A x \in wire' : x.w = alone /\ x.what = "all"
        BY <2>2, <3>2, <3>5
      <4>7. OneErrand(alone, wire') /\ Current(session, wire') /\ \A x \in wire' : Fits(session, t, x)
        BY <4>6 DEF OneErrand, Current, Fits
      <4> QED
        BY <2>6, <3>2, <4>5, <4>7 DEF Attends
    <3>6. CASE r.what # "all"
      <4>1. wire = {r} /\ wire' = {}
        BY <2>2, <3>2, <3>6
      <4>2. session[t.kind] \subseteq ToSet(t.picked)
        <5>1. CASE r.what = "load"
          <6>1. session[r.kind] = {}
            BY <1>1, <3>1, <5>1 DEF Attends, Fits
          <6> QED
            BY <2>4, <5>1, <6>1
        <5>2. CASE r.what # "load"
          <6>1. session[o.kind] \subseteq ToSet(o.picked)
            BY <1>1, <1>2, <1>4, <3>1, <3>2, <3>6, <4>1, <5>2 DEF Attends, Counted, Settles
          <6> QED
            BY <2>4, <5>2, <6>1
        <5> QED
          BY <5>1, <5>2
      <4>3. t.modal => t.listed = Reviewed(session)
        <5>1. CASE r.what = "review"
          <6>1. r.copy = session
            BY <1>1, <3>1, <5>1 DEF Attends, Current
          <6> QED
            BY <2>4, <5>1, <6>1
        <5>2. CASE r.what # "review"
          <6>1. t.modal => o.modal /\ t.listed = o.listed /\ r.what # "act"
            BY <2>4, <5>2
          <6>2. o.modal /\ r.what # "act" => o.listed = Reviewed(session)
            BY <3>1, <3>2, <4>1, <5>2 DEF Attends, DialogTrue
          <6> QED
            BY <6>1, <6>2
        <5> QED
          BY <5>1, <5>2
      <4>4. Counted(session, t, {}) /\ DialogTrue(session, t, {})
        BY <4>2, <4>3 DEF Counted, DialogTrue
      <4>5. OneErrand(alone, {}) /\ Current(session, {})
        BY DEF OneErrand, Current
      <4> QED
        BY <2>6, <3>2, <4>1, <4>4, <4>5 DEF Attends
    <3> QED
      BY <3>5, <3>6
  <2>10. Awaited'
    BY <2>2 DEF BInv, Awaited
  <2> QED
    BY <2>2, <2>7, <2>8, <2>9, <2>10 DEF BInv, Attentive, ActsOnPicked, ActsOnListed
<1> QED
  BY <1>3, <1>4

LEMMA FailKeeps ==
  ASSUME BInv, NEW r \in wire, Fail(r)
  PROVE  BInv'
<1>1. /\ r \in Request /\ r.w # None /\ r.w \in Windows /\ tab \in [Windows -> Tab]
      /\ faults' = faults + 1 /\ faults' \in 0..MaxFaults
  BY BulkAssumption DEF Fail, BInv, TInv, TypeOK, Request
<1>2. r.what # "load" => tab[r.w].kind # "away"
  BY <1>1 DEF BInv, TInv, WireKnown
<1>3. CASE r.what = "clear"
  <2>1. OpenPage(r.w, tab[r.w].kind, wire \ {r})
    BY <1>3 DEF Fail
  <2>2. tab[r.w].kind \in Kinds
    BY <1>1, <1>2, <1>3, WindowFields
  <2> QED
    BY <1>1, <2>1, <2>2, PageKeeps
<1>4. CASE r.what # "clear"
  <2> DEFINE o == tab[r.w]
             t == Failed(o, r)
  <2>1. /\ tab' = [tab EXCEPT ![r.w] = t] /\ wire' = wire \ {r} /\ alone' = None
        /\ UNCHANGED <<session, op>> /\ clicks' \in 0..MaxClicks
    BY <1>4, BulkAssumption DEF Fail, BInv, TInv, TypeOK
  <2>2. o \in Tab /\ Ticked(o)
    BY <1>1, WindowFields
  <2> HIDE DEF o
  <2>3. /\ t \in Tab /\ Ticked(t)
        /\ r.what # "load" => t.kind = o.kind
        /\ r.what = "load" => ~t.polling /\ ~t.leaving
    <3>1. CASE r.what = "load"
      BY <3>1, AwayTyped DEF Failed, Ticked, Away
    <3>2. CASE r.what \in {"add", "remove", "all"}
      BY <2>2, <3>2 DEF Failed, Ticked, Tab
    <3>3. CASE r.what = "poll"
      BY <2>2, <3>3 DEF Failed, Ticked, Tab
    <3>4. CASE r.what = "page"
      BY <2>2, <3>4 DEF Failed, Ticked, Tab
    <3>5. CASE r.what \notin {"load", "add", "remove", "all", "poll", "page"}
      BY <2>2, <3>5 DEF Failed, Ticked, Tab
    <3> QED
      BY <3>1, <3>2, <3>3, <3>4, <3>5
  <2> HIDE DEF t
  <2>4. TInv'
    <3>1. TabsTyped'
      BY <1>1, <1>2, <2>1, <2>3, AnswerTyped DEF BInv, o
    <3> QED
      BY <1>1, <2>1, <3>1 DEF BInv, TInv, TypeOK, TabsTyped
  <2>5. \A x \in Windows : Ticked(tab'[x])
    BY <1>1, <2>1, <2>3 DEF BInv
  <2> QED
    BY <2>1, <2>4, <2>5 DEF BInv, Attentive, ActsOnPicked, ActsOnListed, Awaited
<1> QED
  BY <1>3, <1>4

\* The search page asks beside all windows: nobody is alone with it.
LEMMA SearchPageKeeps ==
  ASSUME BInv, NEW what \in What, NEW ids \in SUBSET Found, SearchPage(what, ids)
  PROVE  BInv'
<1> DEFINE r == [no |-> clicks + 1, handler |-> 1, w |-> None, what |-> what,
                 kind |-> "search", ids |-> ids, table |-> 1, stage |-> "sent",
                 copy |-> Empty]
<1>1. /\ clicks < MaxClicks /\ clicks' = clicks + 1 /\ wire' = wire \cup {r}
      /\ alone' = None /\ UNCHANGED <<session, tab, op, faults>>
  BY DEF SearchPage
<1>2. clicks' \in 0..MaxClicks /\ clicks + 1 \in 1..MaxClicks
  BY <1>1, BulkAssumption DEF BInv, TInv, TypeOK
<1>3. r \in Request
  <2>1. /\ 1 \in 1..MaxHandlers /\ 1 \in DOMAIN Pages /\ ids \subseteq Ids
        /\ "search" \in Lists /\ Empty \in Session
    BY BulkAssumption, AwayTyped DEF Lists
  <2> QED
    BY <1>2, <2>1 DEF Request
<1>4. r.w = None /\ r.stage = "sent"
  OBVIOUS
<1> HIDE DEF r
<1>5. WireKnown' /\ AwayIsIdle' /\ Awaited'
  BY <1>1, <1>4 DEF BInv, TInv, TypeOK, WireKnown, AwayIsIdle, Awaited, Request
<1>6. TInv'
  BY <1>1, <1>2, <1>3, <1>5 DEF BInv, TInv, TypeOK
<1> QED
  BY <1>1, <1>5, <1>6 DEF BInv, Attentive, ActsOnPicked, ActsOnListed

-----------------------------------------------------------------------------
(***************************************************************************)
(* The theorems.                                                           *)
(***************************************************************************)
LEMMA BInvInit == Init => BInv
BY TInvInit DEF Init, BInv, Awaited, Ticked, Away, Attentive, ActsOnPicked, ActsOnListed

LEMMA BInvStep == BInv /\ [Next]_vars => BInv'
<1> SUFFICES ASSUME BInv, [Next]_vars PROVE BInv'
  OBVIOUS
<1>1. ASSUME NEW w \in Windows, Click(w) PROVE BInv'
  <2>1. ASSUME NEW kind \in Kinds, Visit(w, kind) PROVE BInv'
    <3>1. OpenPage(w, kind, wire) /\ faults' \in 0..MaxFaults
      BY <2>1 DEF Visit, BInv, TInv, TypeOK
    <3> QED
      BY <3>1, PageKeeps
  <2>2. ASSUME NEW table \in DOMAIN Pages, TurnPage(w, table) PROVE BInv'
    BY <2>2, TurnPageKeeps
  <2>3. ASSUME NEW id \in Ids, Tick(w, id) \/ Untick(w, id) \/ ClickUnbound(w, id) PROVE BInv'
    BY <2>3, TickKeeps, UntickKeeps, ClickUnboundKeeps
  <2>4. ASSUME SelectPage(w) \/ SelectAll(w) \/ ClearAll(w) PROVE BInv'
    BY <2>4, SelectPageKeeps, SelectAllKeeps, ClearAllKeeps
  <2>5. ASSUME Review(w) \/ CloseReview(w) \/ ApplyEdit(w) PROVE BInv'
    BY <2>5, ReviewKeeps, CloseReviewKeeps, ApplyEditKeeps
  <2> QED
    BY <1>1, <2>1, <2>2, <2>3, <2>4, <2>5 DEF Click
<1>2. ASSUME NEW w \in Windows, Timer(w) PROVE BInv'
  <2>1. ASSUME Reload(w) PROVE BInv'
    <3>1. OpenPage(w, tab[w].kind, wire) /\ faults' \in 0..MaxFaults
      BY <2>1 DEF Reload, BInv, TInv, TypeOK
    <3>2. tab[w].kind # "away"
      BY <2>1 DEF Reload, BInv, TInv, AwayIsIdle
    <3>3. tab[w].kind \in Kinds
      BY <3>2, WindowFields
    <3> QED
      BY <3>1, <3>3, PageKeeps
  <2> QED
    BY <1>2, <2>1, RebindKeeps, PollKeeps DEF Timer
<1>3. ASSUME NEW r \in wire, Serve(r) \/ Fail(r) PROVE BInv'
  BY <1>3, ReadKeeps, CommitKeeps, DeliverKeeps, FailKeeps DEF Serve
<1>4. ASSUME UNCHANGED vars PROVE BInv'
  BY <1>4 DEF vars, BInv, TInv, TypeOK, WireKnown, AwayIsIdle, Awaited, Attentive,
              ActsOnPicked, ActsOnListed
<1>5. ASSUME NEW what \in What, NEW ids \in SUBSET Found, SearchPage(what, ids) PROVE BInv'
  BY <1>5, SearchPageKeeps
<1> QED
  BY <1>1, <1>2, <1>3, <1>4, <1>5 DEF Next

LEMMA BInvHolds == Spec => []BInv
BY BInvInit, BInvStep, PTL DEF Spec

\* The types hold: no request is answered to a window that has left its page, and
\* a page that loads is all that its window waits for.
THEOREM SelectionTyped == Spec => []TypeOK
<1>1. BInv => TypeOK
  BY DEF BInv, TInv
<1> QED
  BY <1>1, BInvHolds, PTL

\* A bulk edit changes nothing that its window does not count as picked, if that
\* window has been alone and patient since it loaded its page
\* (resource_bulk_edit.js, session_store.rb).
THEOREM EditsWhatIsPicked == Spec => []ActsOnPicked
<1>1. BInv => ActsOnPicked
  BY DEF BInv
<1> QED
  BY <1>1, BInvHolds, PTL

\* Such a bulk edit changes what its review dialog listed, unless what was picked on
\* the search page, or interviews, crowd its list out of the dialog
\* (bulk_operation.rb: fetch_bulk_edit_resource_list).
THEOREM EditsWhatIsListed == Spec => []ActsOnListed
<1>1. BInv => ActsOnListed
  BY DEF BInv
<1> QED
  BY <1>1, BInvHolds, PTL

\* A ticked box counts as picked, whichever windows click and whatever becomes of
\* their requests.
THEOREM BoxesArePicked == Spec => []TickedArePicked
<1>1. BInv => TickedArePicked
  BY DEF BInv, Ticked, TickedArePicked
<1> QED
  BY <1>1, BInvHolds, PTL

=============================================================================
