-------------------------- MODULE MCIndexSegments --------------------------
(***************************************************************************)
(* An instance of IndexSegments for TLC: an hour of four seconds, so that  *)
(* some start times have hours and most have none.                         *)
(***************************************************************************)
EXTENDS IndexSegments, TLC

CONSTANTS e1, e2

MCTimes == {0, 1, 3, 5}

\* An interview with a translation that one person works on, and the index of a media
\* file that two people edit.
MCInterview ==
  [translated |-> TRUE, editors |-> {e1}, duration |-> None, lengths |-> {0, 6},
   playTimes |-> {None, 3}, endTimes |-> {None}, titles |-> BOOLEAN]

MCMedia ==
  [translated |-> FALSE, editors |-> {e1, e2}, duration |-> 6, lengths |-> {6, 7},
   playTimes |-> {None}, endTimes |-> {None, 3}, titles |-> {TRUE}]

MCKinds == {MCInterview, MCMedia}

\* An index of a media file that one person edits, with blank titles.
MCAlone == {[MCMedia EXCEPT !.editors = {e1}, !.titles = BOOLEAN]}
=============================================================================
