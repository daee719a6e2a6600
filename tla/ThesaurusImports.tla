-------------------------- MODULE ThesaurusImports --------------------------
(***************************************************************************)
(* Lists of terms imported into one thesaurus.  A request writes the list  *)
(* into a file named after the second and queues a worker, which a second  *)
(* later reads the file, deletes the terms there are unless it is to       *)
(* append, adds those that are missing and counts                          *)
(* (thesaurus_terms_writer_worker.rb).  Sidekiq runs several workers at a  *)
(* time and runs those again that a restart interrupts; an error ends a    *)
(* worker for good.                                                        *)
(***************************************************************************)
EXTENDS Integers, FiniteSets

CONSTANTS
  Imports,      \* the imports, each uploaded once
  Terms,        \* what a term may be
  Bad,          \* the content of a file that is not CSV
  Contents,     \* the files that are uploaded
  None,
  MaxSeconds,   \* seconds that pass (bound)
  MaxRestarts,  \* restarts of Sidekiq (bound)
  MaxFaults     \* errors of the database or of Solr (bound)

\* What a well-formed file holds.
Lists == {[terms |-> ts] : ts \in SUBSET Terms}

ASSUME ImportsAssumption ==
  /\ IsFiniteSet(Imports) /\ IsFiniteSet(Terms)
  /\ None \notin Imports /\ Bad \notin Lists /\ None \notin Lists /\ None # Bad
  /\ Contents \subseteq Lists \cup {Bad}
  /\ MaxSeconds \in Nat /\ MaxRestarts \in Nat /\ MaxFaults \in Nat

VARIABLES
  rows,      \* the rows of the thesaurus's terms
  number,    \* number_of_terms of the thesaurus
  active,    \* the thesaurus is there and active
  clock,     \* Time.now.to_i
  files,     \* the file of each second
  job,       \* the worker of each import
  restarts, faults,
  begun,     \* history: the terms there were when the last worker began
  apart,     \* history: the worker that has run with no other beside it
  latest,    \* history: what such a worker completed, none begun since
  sure,      \* history: appending workers that looked up while nothing was deleted
  kept       \* history: terms they added or found since an overwriting one began

stored == <<rows, number>>
bounds == <<restarts, faults>>
past == <<begun, apart, latest, sure, kept>>
vars == <<stored, active, clock, files, job, bounds, past>>

\* A row: the import that created it, in which run of Sidekiq, and its term.
Row == [by : Imports, run : 0..MaxRestarts, term : Terms]
Stages == {"none", "queued", "load", "destroy", "look", "commit", "count", "save",
           "delete", "mail", "done", "dropped"}
Running == {"load", "destroy", "look", "commit", "count", "save", "delete", "mail"}

\* A worker.  append: append_mode; terms: what it read; doomed: the rows it has loaded
\* to destroy; seen: the terms its transaction sees; found: it sees the thesaurus too;
\* held: number_of_terms when it found the thesaurus; counted: what it counted.
Job == [stage : Stages, second : 0..MaxSeconds, append : BOOLEAN, terms : SUBSET Terms,
        doomed : SUBSET Row, seen : SUBSET Terms, found : BOOLEAN, held : Nat,
        counted : Nat]

\* A worker that has nothing in hand.
Worker(stage, second, append) ==
  [stage |-> stage, second |-> second, append |-> append, terms |-> {}, doomed |-> {},
   seen |-> {}, found |-> FALSE, held |-> 0, counted |-> 0]

Completed == [append : BOOLEAN, terms : SUBSET Terms]

TermsOf(rs) == {r.term : r \in rs}

Init ==
  /\ rows = {} /\ number = 0 /\ active = TRUE
  /\ clock = 0 /\ files = [s \in 0..MaxSeconds |-> None]
  /\ job = [i \in Imports |-> Worker("none", 0, FALSE)]
  /\ restarts = 0 /\ faults = 0
  /\ begun = {} /\ apart = {} /\ latest = None /\ sure = {} /\ kept = {}

-----------------------------------------------------------------------------
(***************************************************************************)
(* Requests and time.                                                      *)
(***************************************************************************)

\* Uploads a list: the file of this second is written, over one that is there.
Upload(i, content, append) ==
  /\ job[i].stage = "none" /\ active /\ clock < MaxSeconds
  /\ files' = [files EXCEPT ![clock] = content]
  /\ job' = [job EXCEPT ![i] = Worker("queued", clock, append)]
  /\ UNCHANGED <<stored, active, clock, bounds, past>>

\* The thesaurus is deleted, or made inactive, which hides it for good; its terms stay.
Deactivate ==
  /\ active /\ active' = FALSE
  /\ UNCHANGED <<stored, clock, files, job, bounds, past>>

Tick ==
  /\ clock < MaxSeconds /\ clock' = clock + 1
  /\ UNCHANGED <<stored, active, files, job, bounds, past>>

-----------------------------------------------------------------------------
(***************************************************************************)
(* The worker.                                                             *)
(***************************************************************************)
Move(i, stage) == job' = [job EXCEPT ![i].stage = stage]
End(i) == job' = [job EXCEPT ![i] = Worker("dropped", @.second, @.append)]

\* A fault to seed in Start: overwrites whatever it is told.
StartOverwrites(i) ==
  LET content == files[job[i].second] IN
  /\ job[i].stage = "queued" /\ job[i].second < clock
  /\ active /\ content \notin {None, Bad}
  /\ job' = [job EXCEPT ![i].stage = "load", ![i].terms = content.terms, ![i].held = number]
  /\ begun' = TermsOf(rows)
  /\ apart' = {} /\ latest' = None
  /\ UNCHANGED <<sure, kept, stored, active, clock, files, bounds>>

\* A fault to seed in Start: an empty row is a term.
StartKeepsNil(i) ==
  LET content == files[job[i].second] IN
  /\ job[i].stage = "queued" /\ job[i].second < clock
  /\ active /\ content \notin {None, Bad}
  /\ job' = [job EXCEPT ![i].stage = IF job[i].append THEN "look" ELSE "load",
                        ![i].terms = content.terms \cup {None}, ![i].held = number]
  /\ UNCHANGED <<past, stored, active, clock, files, bounds>>

\* A fault to seed in Start: waits for its file.
StartWaits(i) ==
  LET content == files[job[i].second] IN
  /\ job[i].stage = "queued" /\ job[i].second < clock
  /\ active /\ content \notin {None, Bad}
  /\ job' = [job EXCEPT ![i].stage = "look", ![i].terms = content.terms, ![i].held = number]
  /\ UNCHANGED <<past, stored, active, clock, files, bounds>>

\* Begins, a second after the upload: finds the thesaurus and reads the file.  If
\* either is missing, or the file is malformed, it is over with nothing changed.
Start(i) ==
  LET content == files[job[i].second]
      begins == active /\ content \notin {None, Bad}
      others == {j \in Imports \ {i} : job[j].stage \in Running}
  IN
  /\ job[i].stage = "queued" /\ job[i].second < clock
  /\ IF begins
     THEN /\ job' = [job EXCEPT
               ![i].stage = IF job[i].append THEN "look" ELSE "load",
               ![i].terms = content.terms, ![i].held = number]
          /\ begun' = TermsOf(rows)
          /\ apart' = IF others = {} THEN {i} ELSE {}
          /\ latest' = None
          /\ IF job[i].append THEN UNCHANGED <<sure, kept>> ELSE sure' = {} /\ kept' = {}
     ELSE End(i) /\ UNCHANGED past
  /\ UNCHANGED <<stored, active, clock, files, bounds>>

\* A fault to seed in Load: only the rows that this import created.
LoadOwn(i) ==
  LET own == {r \in rows : r.by = i} IN
  /\ job[i].stage = "load"
  /\ job' = [job EXCEPT ![i].doomed = own,
                        ![i].stage = IF own = {} THEN "look" ELSE "destroy"]
  /\ UNCHANGED <<stored, active, clock, files, bounds, past>>

\* Loads the rows it is going to destroy.
Load(i) ==
  /\ job[i].stage = "load"
  /\ job' = [job EXCEPT ![i].doomed = rows,
                        ![i].stage = IF rows = {} THEN "look" ELSE "destroy"]
  /\ UNCHANGED <<stored, active, clock, files, bounds, past>>

\* Destroys one of them, each in a transaction of its own.
Destroy(i) ==
  /\ job[i].stage = "destroy"
  /\ \E r \in job[i].doomed :
       /\ rows' = rows \ {r}
       /\ job' = [job EXCEPT
            ![i].doomed = @ \ {r},
            ![i].stage = IF job[i].doomed = {r} THEN "look" ELSE "destroy"]
  /\ UNCHANGED <<number, active, clock, files, bounds, past>>

\* Opens its transaction, if there are terms to write: all its look-ups see the rows
\* there are now, and those of its own.
Look(i) ==
  LET deleting == {j \in Imports : job[j].stage \in {"load", "destroy"}} IN
  /\ job[i].stage = "look"
  /\ IF job[i].terms = {}
     THEN Move(i, "count") /\ UNCHANGED sure
     ELSE /\ job' = [job EXCEPT ![i].stage = "commit", ![i].seen = TermsOf(rows),
                                ![i].found = active]
          /\ sure' = IF deleting = {} THEN sure \cup {i} ELSE sure
  /\ UNCHANGED <<stored, active, clock, files, bounds, begun, apart, latest, kept>>

\* The terms the transaction adds: none, without an error, if it does not see the
\* thesaurus they belong to.
Missing(i) == IF job[i].found THEN job[i].terms \ job[i].seen ELSE {}

\* The transaction commits.
Commit(i) ==
  /\ job[i].stage = "commit"
  /\ rows' = rows \cup {[by |-> i, run |-> restarts, term |-> t] : t \in Missing(i)}
  /\ job' = [job EXCEPT ![i].stage = "count", ![i].seen = {}, ![i].found = FALSE]
  /\ kept' = IF i \in sure /\ job[i].append /\ job[i].found
             THEN kept \cup job[i].terms ELSE kept
  /\ sure' = sure \ {i}
  /\ UNCHANGED <<number, active, clock, files, bounds, begun, apart, latest>>

Count(i) ==
  /\ job[i].stage = "count"
  /\ job' = [job EXCEPT ![i].stage = "save", ![i].counted = Cardinality(rows)]
  /\ UNCHANGED <<stored, active, clock, files, bounds, past>>

\* A fault to seed in Save: compares with no terms instead of with what it found.
SaveIfAny(i) ==
  /\ job[i].stage = "save"
  /\ number' = IF job[i].counted # 0 THEN job[i].counted ELSE number
  /\ Move(i, "delete")
  /\ UNCHANGED <<rows, active, clock, files, bounds, past>>

\* Saves the number if it differs from the one found when the worker began.
Save(i) ==
  /\ job[i].stage = "save"
  /\ number' = IF job[i].counted # job[i].held THEN job[i].counted ELSE number
  /\ job' = [job EXCEPT ![i].stage = "delete", ![i].held = 0, ![i].counted = 0]
  /\ UNCHANGED <<rows, active, clock, files, bounds, past>>

\* A fault to seed in DeleteFile: leaves the file.
DeleteFileLater(i) ==
  /\ job[i].stage = "delete" /\ Move(i, "mail")
  /\ UNCHANGED <<stored, active, clock, files, bounds, past>>

\* Deletes the file; if a worker that shares it has done so, it is over.
DeleteFile(i) ==
  LET there == files[job[i].second] # None IN
  /\ job[i].stage = "delete"
  /\ files' = [files EXCEPT ![job[i].second] = None]
  /\ job' = [job EXCEPT ![i] = Worker(IF there THEN "mail" ELSE "dropped", @.second, @.append)]
  /\ latest' = IF there /\ i \in apart
               THEN [append |-> job[i].append, terms |-> job[i].terms] ELSE None
  /\ UNCHANGED <<stored, active, clock, bounds, begun, apart, sure, kept>>

\* Tells the person.
Mail(i) ==
  /\ job[i].stage = "mail" /\ Move(i, "done")
  /\ UNCHANGED <<stored, active, clock, files, bounds, past>>

\* The database or Solr raises; the transaction is rolled back, what was destroyed stays
\* destroyed, and the rescue ends the worker.
Raise(i) ==
  /\ job[i].stage \in Running /\ faults < MaxFaults
  /\ faults' = faults + 1
  /\ End(i)
  /\ sure' = sure \ {i}
  /\ UNCHANGED <<stored, active, clock, files, restarts, begun, apart, latest, kept>>

\* Sidekiq is restarted: what was running is queued again.
Restart ==
  /\ restarts < MaxRestarts /\ restarts' = restarts + 1
  /\ \E i \in Imports : job[i].stage \in Running
  /\ job' = [i \in Imports |->
       IF job[i].stage \in Running
       THEN Worker("queued", job[i].second, job[i].append) ELSE job[i]]
  /\ sure' = {}
  /\ UNCHANGED <<stored, active, clock, files, faults, begun, apart, latest, kept>>

Work(i) ==
  \/ Start(i) \/ Load(i) \/ Destroy(i) \/ Look(i) \/ Commit(i)
  \/ Count(i) \/ Save(i) \/ DeleteFile(i) \/ Mail(i)

Next ==
  \/ \E i \in Imports, append \in BOOLEAN, content \in Contents :
       Upload(i, content, append)
  \/ Deactivate \/ Tick \/ Restart
  \/ \E i \in Imports : Work(i) \/ Raise(i)

Spec == Init /\ [][Next]_vars

\* Time passes and Sidekiq works.
FairSpec == Spec /\ WF_vars(Tick) /\ \A i \in Imports : WF_vars(Work(i))

-----------------------------------------------------------------------------
\* The type invariant.
TypeOK ==
  /\ rows \subseteq Row /\ number \in Nat /\ active \in BOOLEAN
  /\ clock \in 0..MaxSeconds
  /\ files \in [0..MaxSeconds -> Lists \cup {Bad, None}]
  /\ job \in [Imports -> Job]
  /\ restarts \in 0..MaxRestarts /\ faults \in 0..MaxFaults
  /\ begun \subseteq Terms /\ apart \subseteq Imports /\ latest \in Completed \cup {None}
  /\ sure \subseteq Imports /\ kept \subseteq Terms

\* An import that no other ran beside leaves just the terms it says: those of its list,
\* each once, when it overwrites, and those that were there as well when it appends;
\* also if a restart interrupted it, or others raced or failed before.  Its list is the one
\* its worker read: of two uploads in one second the later list is in the file of both,
\* and the earlier one is lost.
ImportExact ==
  latest # None /\ active =>
    IF latest.append
    THEN TermsOf(rows) = begun \cup latest.terms
    ELSE TermsOf(rows) = latest.terms /\ Cardinality(rows) = Cardinality(latest.terms)

\* Such an import leaves the right number of terms, whatever was left by imports that
\* counted beside each other.
CountRight == latest # None => number = Cardinality(rows)

\* Appending imports lose nothing, however many run at a time: the terms that one of
\* them added, or found there, stay until an import that overwrites begins.
AppendsKept == kept \subseteq TermsOf(rows)

\* A file that is left belongs to an import that is queued or running, or has failed.
FilesOwned ==
  \A s \in 0..MaxSeconds : files[s] # None =>
    \E i \in Imports : job[i].second = s /\ job[i].stage \notin {"none", "mail", "done"}

\* Every import ends, if only by an error, and though it may be interrupted.
ImportsEnd ==
  \A i \in Imports : job[i].stage = "queued" ~> job[i].stage \in {"done", "dropped"}
=============================================================================
