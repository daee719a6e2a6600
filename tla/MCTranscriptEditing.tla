------------------------ MODULE MCTranscriptEditing ------------------------
(***************************************************************************)
(* Instances of TranscriptEditing for TLC: documents of one to three       *)
(* paragraphs, so that an edit adds, drops and keeps paragraphs.           *)
(***************************************************************************)
EXTENDS TranscriptEditing

CONSTANTS t1, t2, s1, s2, v1

MCText == {"a", "b", "c"}

MCParagraphs ==
  [d \in Documents |->
     CASE d = t1 -> <<"a", "b">>
       [] d = t2 -> <<"c">>
       [] d = s1 -> <<"a">>
       [] d = s2 -> <<"c", "b", "a">>
       [] d = v1 -> <<"b", "c">>]
=============================================================================
