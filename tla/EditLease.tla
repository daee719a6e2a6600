------------------------------ MODULE EditLease ------------------------------
(***************************************************************************)
(* What the editing lock of a transcript promises, apart from how it is    *)
(* kept: a lease.  People take it by opening the editor.  Who may end it   *)
(* has a claim: a person whose window is open, a saved edit that found the *)
(* lock taken, the nightly task that found it a day old.  Nobody else      *)
(* releases it, and what is deleted stays deleted.                         *)
(***************************************************************************)
CONSTANTS
  Transcripts,  \* what is locked
  People,       \* who takes locks, by opening an editor
  Agents        \* who is entitled to release what others took: saves, the task

VARIABLES
  lock,    \* of each transcript: "free", "held" or "gone"
  claims   \* who may release each

vars == <<lock, claims>>

Init ==
  /\ lock = [t \in Transcripts |-> "free"]
  /\ claims = [t \in Transcripts |-> {}]

\* A person opens the editor, whoever else has it open.
Take(p, t) ==
  /\ lock[t] # "gone"
  /\ lock' = [lock EXCEPT ![t] = "held"]
  /\ claims' = [claims EXCEPT ![t] = @ \cup {p}]

\* An agent comes upon locks that are held.
Claim(a, ts) ==
  /\ \A t \in ts : lock[t] = "held"
  /\ claims' = [t \in Transcripts |-> IF t \in ts THEN claims[t] \cup {a} ELSE claims[t]]
  /\ UNCHANGED lock

\* One with a claim releases the lock, and keeps or loses the claim.
Release(h, t) ==
  /\ h \in claims[t] /\ lock[t] = "held"
  /\ lock' = [lock EXCEPT ![t] = "free"]
  /\ claims' \in {claims, [claims EXCEPT ![t] = @ \ {h}]}

\* One with claims gives them up: a window closed, a save or a task that failed.
GiveUp(h) ==
  /\ \E ts \in SUBSET Transcripts :
       claims' = [t \in Transcripts |-> IF t \in ts THEN claims[t] \ {h} ELSE claims[t]]
  /\ UNCHANGED lock

\* Transcripts are deleted, locked or not.
Delete(ts) ==
  /\ lock' = [t \in Transcripts |-> IF t \in ts THEN "gone" ELSE lock[t]]
  /\ UNCHANGED claims

Next ==
  \/ \E p \in People, t \in Transcripts : Take(p, t)
  \/ \E a \in Agents, ts \in SUBSET Transcripts : Claim(a, ts)
  \/ \E h \in People \cup Agents, t \in Transcripts : Release(h, t)
  \/ \E h \in People \cup Agents : GiveUp(h)
  \/ \E ts \in SUBSET Transcripts : Delete(ts)

Spec == Init /\ [][Next]_vars
=============================================================================
