---------------------- MODULE ThesaurusImportsProofs ----------------------
(***************************************************************************)
(* What holds of imports into a thesaurus for any number of imports, terms *)
(* and restarts: types, that racing appends lose nothing, and whose files  *)
(* are left.                                                               *)
(***************************************************************************)
EXTENDS ThesaurusImports, FiniteSetTheorems, TLAPS

\* While an overwriting import may still destroy rows, no term counts as kept and no
\* look-up as safe: its start has forgotten both, and look-ups beside it are not added.
DestroyerForgets ==
  (\E i \in Imports : job[i].stage \in {"load", "destroy"}) => kept = {} /\ sure = {}

\* What a safe look-up has seen is still there until its transaction commits.
SureSeesTrue ==
  \A i \in sure : job[i].stage = "commit" /\ job[i].seen \subseteq TermsOf(rows)

TInv == TypeOK /\ IsFiniteSet(rows)

KInv == TInv /\ DestroyerForgets /\ SureSeesTrue /\ AppendsKept

-----------------------------------------------------------------------------
(***************************************************************************)
(* Types.                                                                  *)
(***************************************************************************)

LEMMA WorkerType ==
  ASSUME NEW stage \in Stages, NEW second \in 0..MaxSeconds, NEW append \in BOOLEAN
  PROVE  Worker(stage, second, append) \in Job
BY DEF Worker, Job, Stages

LEMMA JobStep ==
  ASSUME TypeOK, NEW i \in Imports, NEW r \in Job, job' = [job EXCEPT ![i] = r]
  PROVE  job' \in [Imports -> Job]
BY DEF TypeOK

\* The rows an import adds are finitely many.
LEMMA NewRowsFinite ==
  ASSUME NEW M \in SUBSET Terms, NEW i, NEW n
  PROVE  IsFiniteSet({[by |-> i, run |-> n, term |-> t] : t \in M})
<1> DEFINE T == {[by |-> i, run |-> n, term |-> t] : t \in M}
           f == [t \in M |-> [by |-> i, run |-> n, term |-> t]]
<1>1. IsFiniteSet(M)
  BY ImportsAssumption, FS_Subset
<1>2. f \in Surjection(M, T)
  BY DEF Surjection
<1> HIDE DEF f, T
<1>3. IsFiniteSet(T)
  BY <1>1, <1>2, FS_Surjection
<1> QED
  BY <1>3 DEF T

LEMMA TInvInit == Init => TInv
<1> SUFFICES ASSUME Init PROVE TInv
  OBVIOUS
<1>1. \A i \in Imports : job[i] = Worker("none", 0, FALSE)
  BY DEF Init
<1>2. Worker("none", 0, FALSE) \in Job
  <2>1. "none" \in Stages /\ 0 \in 0..MaxSeconds /\ FALSE \in BOOLEAN
    BY ImportsAssumption DEF Stages
  <2> QED
    BY <2>1, WorkerType
<1>3. job \in [Imports -> Job]
  BY <1>1, <1>2 DEF Init
<1>4. IsFiniteSet(rows)
  BY FS_EmptySet DEF Init
<1>5. /\ rows \subseteq Row /\ number \in Nat /\ active \in BOOLEAN /\ clock \in 0..MaxSeconds
      /\ files \in [0..MaxSeconds -> Lists \cup {Bad, None}]
      /\ restarts \in 0..MaxRestarts /\ faults \in 0..MaxFaults
  BY ImportsAssumption DEF Init
<1>6. /\ begun \subseteq Terms /\ apart \subseteq Imports /\ latest \in Completed \cup {None}
      /\ sure \subseteq Imports /\ kept \subseteq Terms
  BY DEF Init
<1> QED
  BY <1>3, <1>4, <1>5, <1>6 DEF TInv, TypeOK

\* What a file that is not malformed holds.
LEMMA ContentTerms ==
  ASSUME TypeOK, NEW s \in 0..MaxSeconds, files[s] \notin {None, Bad}
  PROVE  files[s].terms \subseteq Terms
BY DEF TypeOK, Lists

LEMMA TInvNext == TInv /\ [Next]_vars => TInv'
<1> SUFFICES ASSUME TInv, [Next]_vars PROVE TInv'
  OBVIOUS
<1> USE DEF TInv
<1>0. \A i \in Imports : job[i] \in Job
  BY DEF TypeOK
<1>1. ASSUME NEW i \in Imports, NEW append \in BOOLEAN, NEW content \in Contents,
             Upload(i, content, append)
      PROVE  TInv'
  <2>1. Worker("queued", clock, append) \in Job
    BY WorkerType DEF Stages, TypeOK
  <2>2. job' \in [Imports -> Job]
    BY <1>1, <2>1 DEF Upload, TypeOK
  <2>3. files' \in [0..MaxSeconds -> Lists \cup {Bad, None}]
    BY <1>1, ImportsAssumption DEF Upload, TypeOK
  <2> QED
    BY <1>1, <2>2, <2>3 DEF Upload, TypeOK, past, bounds, stored
<1>2. CASE Deactivate
  BY <1>2 DEF Deactivate, TypeOK, past, bounds, stored
<1>3. CASE Tick
  BY <1>3, ImportsAssumption DEF Tick, TypeOK, past, bounds, stored
<1>4. CASE Restart
  <2>1. \A i \in Imports : Worker("queued", job[i].second, job[i].append) \in Job
    BY <1>0, WorkerType DEF Job, Stages
  <2>2. job' \in [Imports -> Job]
    BY <1>4, <1>0, <2>1 DEF Restart
  <2> QED
    BY <1>4, <2>2, ImportsAssumption DEF Restart, TypeOK, stored
<1>5. ASSUME NEW i \in Imports, Start(i) PROVE TInv'
  <2> DEFINE content == files[job[i].second]
  <2>1. job[i].second \in 0..MaxSeconds /\ job[i].append \in BOOLEAN
    BY <1>0 DEF Job
  <2>2. CASE active /\ content \notin {None, Bad}
    <3>1. content.terms \subseteq Terms
      BY <2>1, <2>2, ContentTerms
    <3>2. [job[i] EXCEPT !.stage = IF job[i].append THEN "look" ELSE "load",
                         !.terms = content.terms, !.held = number] \in Job
      BY <1>0, <3>1 DEF Job, Stages, TypeOK
    <3>3. job' = [job EXCEPT ![i] = [job[i] EXCEPT
                    !.stage = IF job[i].append THEN "look" ELSE "load",
                    !.terms = content.terms, !.held = number]]
      BY <1>5, <2>2 DEF Start, TypeOK
    <3>4. job' \in [Imports -> Job]
      BY <3>2, <3>3 DEF TypeOK
    <3>5. TermsOf(rows) \subseteq Terms
      BY DEF TermsOf, TypeOK, Row
    <3> QED
      BY <1>5, <2>2, <3>4, <3>5 DEF Start, TypeOK, stored, bounds
  <2>3. CASE ~(active /\ content \notin {None, Bad})
    <3>1. Worker("dropped", job[i].second, job[i].append) \in Job
      BY <2>1, WorkerType DEF Stages
    <3>2. job' \in [Imports -> Job]
      BY <1>5, <2>3, <3>1 DEF Start, End, TypeOK
    <3> QED
      BY <1>5, <2>3, <3>2 DEF Start, TypeOK, stored, bounds, past
  <2> QED
    BY <2>2, <2>3
<1>6. ASSUME NEW i \in Imports, Load(i) PROVE TInv'
  <2>1. job' \in [Imports -> Job]
    <3> DEFINE r == [job[i] EXCEPT !.doomed = rows, !.stage = IF rows = {} THEN "look" ELSE "destroy"]
    <3>1. r \in Job
      BY <1>0 DEF Job, Stages, TypeOK
    <3>2. job' = [job EXCEPT ![i] = r]
      BY <1>6, <1>0 DEF Load, TypeOK
    <3> HIDE DEF r
    <3> QED
      BY <3>1, <3>2, JobStep
  <2> QED
    BY <1>6, <2>1 DEF Load, TypeOK, stored, bounds, past
<1>7. ASSUME NEW i \in Imports, Destroy(i) PROVE TInv'
  <2>1. PICK r0 \in job[i].doomed :
          /\ rows' = rows \ {r0}
          /\ job' = [job EXCEPT ![i].doomed = @ \ {r0},
                       ![i].stage = IF job[i].doomed = {r0} THEN "look" ELSE "destroy"]
    BY <1>7 DEF Destroy
  <2>2. job' \in [Imports -> Job]
    <3> DEFINE r == [job[i] EXCEPT !.doomed = @ \ {r0},
                                 !.stage = IF job[i].doomed = {r0} THEN "look" ELSE "destroy"]
    <3>1. r \in Job
      BY <1>0 DEF Job, Stages
    <3>2. job' = [job EXCEPT ![i] = r]
      BY <2>1, <1>0 DEF Job, TypeOK
    <3> HIDE DEF r
    <3> QED
      BY <3>1, <3>2, JobStep
  <2>3. IsFiniteSet(rows') /\ rows' \subseteq Row
    BY <2>1, FS_RemoveElement DEF TypeOK
  <2> QED
    BY <1>7, <2>2, <2>3 DEF Destroy, TypeOK, bounds, past
<1>8. ASSUME NEW i \in Imports, Look(i) PROVE TInv'
  <2>1. TermsOf(rows) \subseteq Terms
    BY DEF TermsOf, TypeOK, Row
  <2> DEFINE r == IF job[i].terms = {} THEN [job[i] EXCEPT !.stage = "count"]
                  ELSE [job[i] EXCEPT !.stage = "commit", !.seen = TermsOf(rows), !.found = active]
  <2>2. job' \in [Imports -> Job]
    <3>1. r \in Job
      BY <1>0, <2>1 DEF Job, Stages, TypeOK
    <3>2. job' = [job EXCEPT ![i] = r]
      BY <1>8, <1>0 DEF Look, Move, TypeOK
    <3> HIDE DEF r
    <3> QED
      BY <3>1, <3>2, JobStep
  <2> QED
    BY <1>8, <2>2 DEF Look, TypeOK, stored, bounds
<1>9. ASSUME NEW i \in Imports, Commit(i) PROVE TInv'
  <2>1. Missing(i) \in SUBSET Terms
    BY <1>0 DEF Missing, Job
  <2>2. job' \in [Imports -> Job]
    <3> DEFINE r == [job[i] EXCEPT !.stage = "count", !.seen = {}, !.found = FALSE]
    <3>1. r \in Job
      BY <1>0 DEF Job, Stages
    <3>2. job' = [job EXCEPT ![i] = r]
      BY <1>9, <1>0 DEF Commit, TypeOK
    <3> HIDE DEF r
    <3> QED
      BY <3>1, <3>2, JobStep
  <2>3. IsFiniteSet(rows')
    <3> DEFINE new == {[by |-> i, run |-> restarts, term |-> t] : t \in Missing(i)}
    <3>1. IsFiniteSet(new)
      BY <2>1, NewRowsFinite
    <3>2. rows' = rows \cup new
      BY <1>9 DEF Commit
    <3> HIDE DEF new
    <3> QED
      BY <3>1, <3>2, FS_Union
  <2>4. rows' \subseteq Row
    BY <1>9, <2>1 DEF Commit, TypeOK, Row
  <2>5. job[i].terms \subseteq Terms
    BY <1>0 DEF Job
  <2> QED
    BY <1>9, <2>2, <2>3, <2>4, <2>5 DEF Commit, TypeOK, bounds
<1>10. ASSUME NEW i \in Imports, Count(i) PROVE TInv'
  <2>1. Cardinality(rows) \in Nat
    BY FS_CardinalityType
  <2>2. job' \in [Imports -> Job]
    <3> DEFINE r == [job[i] EXCEPT !.stage = "save", !.counted = Cardinality(rows)]
    <3>1. r \in Job
      BY <1>0, <2>1 DEF Job, Stages
    <3>2. job' = [job EXCEPT ![i] = r]
      BY <1>10, <1>0 DEF Count, TypeOK
    <3> HIDE DEF r
    <3> QED
      BY <3>1, <3>2, JobStep
  <2> QED
    BY <1>10, <2>2 DEF Count, TypeOK, stored, bounds, past
<1>11. ASSUME NEW i \in Imports, Save(i) PROVE TInv'
  <2>1. job[i].counted \in Nat
    BY <1>0 DEF Job
  <2>2. job' \in [Imports -> Job]
    <3> DEFINE r == [job[i] EXCEPT !.stage = "delete", !.held = 0, !.counted = 0]
    <3>1. r \in Job
      BY <1>0 DEF Job, Stages
    <3>2. job' = [job EXCEPT ![i] = r]
      BY <1>11, <1>0 DEF Save, TypeOK
    <3> HIDE DEF r
    <3> QED
      BY <3>1, <3>2, JobStep
  <2> QED
    BY <1>11, <2>1, <2>2 DEF Save, TypeOK, bounds, past
<1>12. ASSUME NEW i \in Imports, DeleteFile(i) PROVE TInv'
  <2>1. job[i].second \in 0..MaxSeconds /\ job[i].append \in BOOLEAN /\ job[i].terms \subseteq Terms
    BY <1>0 DEF Job
  <2>2. /\ Worker("mail", job[i].second, job[i].append) \in Job
        /\ Worker("dropped", job[i].second, job[i].append) \in Job
    BY <2>1, WorkerType DEF Stages
  <2>3. job' \in [Imports -> Job]
    BY <1>12, <2>2 DEF DeleteFile, TypeOK
  <2>4. latest' \in Completed \cup {None}
    BY <1>12, <2>1 DEF DeleteFile, Completed
  <2> QED
    BY <1>12, <2>3, <2>4 DEF DeleteFile, TypeOK, stored, bounds
<1>13. ASSUME NEW i \in Imports, Mail(i) PROVE TInv'
  <2>1. job' \in [Imports -> Job]
    <3> DEFINE r == [job[i] EXCEPT !.stage = "done"]
    <3>1. r \in Job
      BY <1>0 DEF Job, Stages
    <3>2. job' = [job EXCEPT ![i] = r]
      BY <1>13, <1>0 DEF Mail, Move, TypeOK
    <3> HIDE DEF r
    <3> QED
      BY <3>1, <3>2, JobStep
  <2> QED
    BY <1>13, <2>1 DEF Mail, TypeOK, stored, bounds, past
<1>14. ASSUME NEW i \in Imports, Raise(i) PROVE TInv'
  <2>1. Worker("dropped", job[i].second, job[i].append) \in Job
    BY <1>0, WorkerType DEF Job, Stages
  <2>2. job' \in [Imports -> Job]
    BY <1>14, <2>1 DEF Raise, End, TypeOK
  <2> QED
    BY <1>14, <2>2, ImportsAssumption DEF Raise, TypeOK, stored
<1>15. CASE UNCHANGED vars
  BY <1>15 DEF vars, TypeOK, stored, bounds, past
<1> QED
  BY <1>1, <1>2, <1>3, <1>4, <1>5, <1>6, <1>7, <1>8, <1>9, <1>10, <1>11, <1>12, <1>13,
     <1>14, <1>15 DEF Next, Work

\* Types of all variables, for any number of imports, terms, restarts and errors.
THEOREM ImportTypes == Spec => []TypeOK
<1>1. TInv => TypeOK
  BY DEF TInv
<1> QED
  BY <1>1, TInvInit, TInvNext, PTL DEF Spec

-----------------------------------------------------------------------------
(***************************************************************************)
(* Where a step takes a worker.                                            *)
(***************************************************************************)

\* A worker begins to look or to load, or is over at once.
LEMMA AfterStart ==
  ASSUME TypeOK, NEW i \in Imports, Start(i)
  PROVE  /\ job'[i].second = job[i].second
         /\ \/ job'[i].stage = "load" /\ sure' = {} /\ kept' = {}
            \/ job'[i].stage \in {"look", "dropped"} /\ sure' = sure /\ kept' = kept
<1> DEFINE content == files[job[i].second]
           r == [job[i] EXCEPT !.stage = IF job[i].append THEN "look" ELSE "load",
                               !.terms = content.terms, !.held = number]
<1>0. job[i] \in Job /\ job \in [Imports -> Job]
  BY DEF TypeOK
<1>1. CASE active /\ content \notin {None, Bad}
  <2>1. job' = [job EXCEPT ![i] = r]
    BY <1>0, <1>1 DEF Start
  <2>2. r.second = job[i].second /\ r.stage = IF job[i].append THEN "look" ELSE "load"
    BY <1>0 DEF Job
  <2>3. IF job[i].append THEN sure' = sure /\ kept' = kept ELSE sure' = {} /\ kept' = {}
    BY <1>1 DEF Start
  <2>4. job'[i] = r
    BY <1>0, <2>1
  <2> HIDE DEF r
  <2>5. CASE job[i].append
    BY <2>2, <2>3, <2>4, <2>5
  <2>6. CASE ~job[i].append
    BY <2>2, <2>3, <2>4, <2>6
  <2> QED
    BY <2>5, <2>6
<1>2. CASE ~(active /\ content \notin {None, Bad})
  BY <1>0, <1>2 DEF Start, End, Worker, past
<1> QED
  BY <1>1, <1>2

LEMMA AfterLook ==
  ASSUME TypeOK, NEW i \in Imports, Look(i)
  PROVE  /\ job'[i].second = job[i].second
         /\ job'[i].stage \in {"count", "commit"}
<1> DEFINE r == [job[i] EXCEPT !.stage = "commit", !.seen = TermsOf(rows), !.found = active]
<1>0. job[i] \in Job /\ job \in [Imports -> Job]
  BY DEF TypeOK
<1>1. CASE job[i].terms = {}
  BY <1>0, <1>1 DEF Look, Move, Job
<1>2. CASE job[i].terms # {}
  <2>1. job'[i] = r
    BY <1>0, <1>2 DEF Look
  <2>2. r.second = job[i].second /\ r.stage = "commit"
    BY <1>0 DEF Job
  <2> QED
    BY <2>1, <2>2
<1> QED
  BY <1>1, <1>2

\* The rest of a worker's way.
LEMMA AfterRest ==
  ASSUME TypeOK, NEW i \in Imports,
         \/ Load(i) \/ Destroy(i) \/ Commit(i) \/ Count(i) \/ Save(i) \/ DeleteFile(i)
         \/ Mail(i) \/ Raise(i)
  PROVE  /\ job'[i].second = job[i].second
         /\ Load(i) \/ Destroy(i) => job'[i].stage \in {"look", "destroy"}
         /\ Commit(i) => job'[i].stage = "count"
         /\ Count(i) => job'[i].stage = "save"
         /\ Save(i) => job'[i].stage = "delete"
         /\ DeleteFile(i) => job'[i].stage \in {"mail", "dropped"}
         /\ Mail(i) => job[i].stage = "mail" /\ job'[i].stage = "done"
         /\ Raise(i) => job'[i].stage = "dropped"
<1> DEFINE Moved(r, stages) == job'[i] = r /\ r.second = job[i].second /\ r.stage \in stages
<1>0. job[i] \in Job /\ job \in [Imports -> Job]
  BY DEF TypeOK
<1>1. ASSUME Load(i) PROVE job[i].stage = "load" /\ \E r : Moved(r, {"look", "destroy"})
  <2>1. Moved([job[i] EXCEPT !.doomed = rows, !.stage = IF rows = {} THEN "look" ELSE "destroy"],
              {"look", "destroy"})
    BY <1>0, <1>1 DEF Load, Job
  <2> QED
    BY <1>1, <2>1 DEF Load
<1>2. ASSUME Destroy(i) PROVE job[i].stage = "destroy" /\ \E r : Moved(r, {"look", "destroy"})
  <2>1. PICK x \in job[i].doomed :
          job' = [job EXCEPT ![i].doomed = @ \ {x},
                    ![i].stage = IF job[i].doomed = {x} THEN "look" ELSE "destroy"]
    BY <1>2 DEF Destroy
  <2>2. Moved([job[i] EXCEPT !.doomed = @ \ {x},
                             !.stage = IF job[i].doomed = {x} THEN "look" ELSE "destroy"],
              {"look", "destroy"})
    BY <1>0, <2>1 DEF Job
  <2> QED
    BY <1>2, <2>2 DEF Destroy
<1>3. ASSUME Commit(i) PROVE job[i].stage = "commit" /\ \E r : Moved(r, {"count"})
  <2>1. Moved([job[i] EXCEPT !.stage = "count", !.seen = {}, !.found = FALSE], {"count"})
    BY <1>0, <1>3 DEF Commit, Job
  <2> QED
    BY <1>3, <2>1 DEF Commit
<1>4. ASSUME Count(i) PROVE job[i].stage = "count" /\ \E r : Moved(r, {"save"})
  <2>1. Moved([job[i] EXCEPT !.stage = "save", !.counted = Cardinality(rows)], {"save"})
    BY <1>0, <1>4 DEF Count, Job
  <2> QED
    BY <1>4, <2>1 DEF Count
<1>5. ASSUME Save(i) PROVE job[i].stage = "save" /\ \E r : Moved(r, {"delete"})
  <2>1. Moved([job[i] EXCEPT !.stage = "delete", !.held = 0, !.counted = 0], {"delete"})
    BY <1>0, <1>5 DEF Save, Job
  <2> QED
    BY <1>5, <2>1 DEF Save
<1>6. ASSUME DeleteFile(i) PROVE job[i].stage = "delete" /\ \E r : Moved(r, {"mail", "dropped"})
  BY <1>0, <1>6 DEF DeleteFile, Worker
<1>7. ASSUME Mail(i) PROVE job[i].stage = "mail" /\ \E r : Moved(r, {"done"})
  BY <1>0, <1>7 DEF Mail, Move, Job
<1>8. ASSUME Raise(i) PROVE job[i].stage \in Running /\ \E r : Moved(r, {"dropped"})
  BY <1>0, <1>8 DEF Raise, End, Worker
<1> QED
  BY <1>1, <1>2, <1>3, <1>4, <1>5, <1>6, <1>7, <1>8

-----------------------------------------------------------------------------
(***************************************************************************)
(* Appending imports.                                                      *)
(***************************************************************************)

LEMMA KInvInit == Init => KInv
BY TInvInit DEF KInv, Init, DestroyerForgets, SureSeesTrue, AppendsKept, Worker

\* Rows that only grow keep the terms seen and kept.
LEMMA TermsGrow ==
  ASSUME rows \subseteq rows'
  PROVE  TermsOf(rows) \subseteq TermsOf(rows')
BY DEF TermsOf

\* A step that destroys nothing, trusts no look-up anew, lets none that is trusted move
\* and starts no destruction.
LEMMA KeepsQuietly ==
  ASSUME KInv, TInv', rows \subseteq rows', kept' = kept, sure' \subseteq sure,
         \A i \in sure' : job'[i].stage = job[i].stage /\ job'[i].seen = job[i].seen,
         \A i \in Imports : job'[i].stage \in {"load", "destroy"} =>
                             job[i].stage \in {"load", "destroy"}
  PROVE  KInv'
BY TermsGrow DEF KInv, DestroyerForgets, SureSeesTrue, AppendsKept

LEMMA KInvNext == KInv /\ [Next]_vars => KInv'
<1> SUFFICES ASSUME KInv, [Next]_vars PROVE KInv'
  OBVIOUS
<1>0. TInv' /\ TInv /\ TypeOK
  BY TInvNext DEF KInv, TInv
<1>1. /\ DestroyerForgets /\ SureSeesTrue /\ AppendsKept
      /\ sure \subseteq Imports /\ job \in [Imports -> Job]
  BY <1>0 DEF KInv, TypeOK
<1>2. ASSUME NEW i \in Imports, NEW append \in BOOLEAN, NEW content \in Contents,
             Upload(i, content, append)
      PROVE  KInv'
  <2>1. i \notin sure
    BY <1>1, <1>2 DEF Upload, SureSeesTrue
  <2>2. job'[i].stage = "queued" /\ \A j \in Imports \ {i} : job'[j] = job[j]
    BY <1>1, <1>2 DEF Upload, Worker
  <2> QED
    BY <1>0, <1>1, <1>2, <2>1, <2>2, KeepsQuietly DEF Upload, stored, past
<1>3. CASE Deactivate
  BY <1>0, <1>3, KeepsQuietly DEF Deactivate, stored, past
<1>4. CASE Tick
  BY <1>0, <1>4, KeepsQuietly DEF Tick, stored, past
<1>5. CASE Restart
  <2>1. \A i \in Imports : job'[i].stage \notin {"load", "destroy"}
    BY <1>1, <1>5 DEF Restart, Worker, Running
  <2> QED
    BY <1>0, <1>5, <2>1, KeepsQuietly DEF Restart, stored
<1>6. ASSUME NEW i \in Imports, Start(i) PROVE KInv'
  <2>1. i \notin sure /\ job[i].stage = "queued"
    BY <1>1, <1>6 DEF Start, SureSeesTrue
  <2>2. \A j \in Imports \ {i} : job'[j] = job[j]
    BY <1>1, <1>6 DEF Start, End
  <2>3. rows' = rows
    BY <1>6 DEF Start, stored
  <2>4. CASE job'[i].stage = "load"
    <3>1. sure' = {} /\ kept' = {}
      BY <1>0, <1>6, <2>4, AfterStart
    <3> QED
      BY <1>0, <3>1 DEF KInv, DestroyerForgets, SureSeesTrue, AppendsKept
  <2>5. CASE job'[i].stage # "load"
    <3>1. sure' = sure /\ kept' = kept /\ job'[i].stage # "destroy"
      BY <1>0, <1>6, <2>5, AfterStart
    <3> QED
      BY <1>0, <1>1, <2>1, <2>2, <2>3, <2>5, <3>1, KeepsQuietly
  <2> QED
    BY <2>4, <2>5
<1>7. ASSUME NEW i \in Imports, Load(i) PROVE KInv'
  <2>1. i \notin sure /\ job[i].stage = "load" /\ \A j \in Imports \ {i} : job'[j] = job[j]
    BY <1>1, <1>7 DEF Load, SureSeesTrue
  <2> QED
    BY <1>0, <1>1, <1>7, <2>1, KeepsQuietly DEF Load, stored, past
<1>8. ASSUME NEW i \in Imports, Destroy(i) PROVE KInv'
  <2>1. kept = {} /\ sure = {}
    BY <1>1, <1>8 DEF Destroy, DestroyerForgets
  <2>2. kept' = {} /\ sure' = {}
    BY <1>8, <2>1 DEF Destroy, past
  <2> QED
    BY <1>0, <2>2 DEF KInv, DestroyerForgets, SureSeesTrue, AppendsKept
<1>9. ASSUME NEW i \in Imports, Look(i) PROVE KInv'
  <2>1. i \notin sure /\ \A j \in Imports \ {i} : job'[j] = job[j]
    BY <1>1, <1>9 DEF Look, Move, SureSeesTrue
  <2>2. rows' = rows /\ kept' = kept
    BY <1>9 DEF Look, stored
  <2>3. job'[i].stage \in {"count", "commit"}
    BY <1>0, <1>9, AfterLook
  <2>4. CASE sure' = sure
    BY <1>0, <1>1, <2>1, <2>2, <2>3, <2>4, KeepsQuietly
  <2>5. CASE sure' # sure
    <3>1. /\ job'[i].stage = "commit" /\ job'[i].seen = TermsOf(rows)
          /\ sure' = sure \cup {i}
          /\ \A j \in Imports : job[j].stage \notin {"load", "destroy"}
      BY <1>1, <1>9, <2>5 DEF Look, Job
    <3>2. DestroyerForgets'
      BY <2>1, <2>3, <3>1 DEF DestroyerForgets
    <3>3. SureSeesTrue'
      BY <1>1, <2>1, <2>2, <3>1 DEF SureSeesTrue
    <3> QED
      BY <1>0, <1>1, <2>2, <3>2, <3>3 DEF KInv, AppendsKept
  <2> QED
    BY <2>4, <2>5
<1>10. ASSUME NEW i \in Imports, Commit(i) PROVE KInv'
  <2> DEFINE new == {[by |-> i, run |-> restarts, term |-> t] : t \in Missing(i)}
  <2>1. rows' = rows \cup new /\ sure' = sure \ {i}
    BY <1>10 DEF Commit
  <2>2. /\ \A j \in Imports \ {i} : job'[j] = job[j]
        /\ job'[i].stage = "count"
    BY <1>1, <1>10 DEF Commit
  <2>3. TermsOf(rows) \subseteq TermsOf(rows')
    BY <2>1, TermsGrow
  <2>4. Missing(i) \subseteq TermsOf(rows')
    <3>1. \A t \in Missing(i) : [by |-> i, run |-> restarts, term |-> t] \in rows'
      BY <2>1
    <3>2. \A t \in Missing(i) : [by |-> i, run |-> restarts, term |-> t].term = t
      OBVIOUS
    <3> QED
      BY <3>1, <3>2 DEF TermsOf
  <2>5. CASE kept' = kept
    BY <1>0, <1>1, <2>1, <2>2, <2>5, KeepsQuietly
  <2>6. CASE kept' # kept
    <3>1. i \in sure /\ job[i].found /\ kept' = kept \cup job[i].terms
      BY <1>10, <2>6 DEF Commit
    <3>2. job[i].terms \subseteq TermsOf(rows')
      BY <1>1, <2>3, <2>4, <3>1 DEF SureSeesTrue, Missing
    <3>3. DestroyerForgets'
      BY <1>1, <2>2, <3>1 DEF DestroyerForgets
    <3>4. SureSeesTrue'
      BY <1>1, <2>1, <2>2, <2>3 DEF SureSeesTrue
    <3> QED
      BY <1>0, <1>1, <2>3, <3>1, <3>2, <3>3, <3>4 DEF KInv, AppendsKept
  <2> QED
    BY <2>5, <2>6
<1>11. ASSUME NEW i \in Imports, Count(i) \/ Save(i) \/ DeleteFile(i) \/ Mail(i) PROVE KInv'
  <2>1. /\ i \notin sure
        /\ rows' = rows /\ kept' = kept /\ sure' = sure
    BY <1>1, <1>11 DEF Count, Save, DeleteFile, Mail, SureSeesTrue, stored, past
  <2>2. \A j \in Imports \ {i} : job'[j] = job[j]
    BY <1>1, <1>11 DEF Count, Save, DeleteFile, Mail, Move
  <2>3. job'[i].stage \notin {"load", "destroy"}
    BY <1>0, <1>11, AfterRest
  <2> QED
    BY <1>0, <1>1, <2>1, <2>2, <2>3, KeepsQuietly
<1>12. ASSUME NEW i \in Imports, Raise(i) PROVE KInv'
  <2>1. /\ rows' = rows /\ kept' = kept /\ sure' = sure \ {i}
        /\ job'[i].stage = "dropped" /\ \A j \in Imports \ {i} : job'[j] = job[j]
    BY <1>1, <1>12 DEF Raise, End, Worker, stored
  <2> QED
    BY <1>0, <1>1, <2>1, KeepsQuietly
<1>13. CASE UNCHANGED vars
  BY <1>0, <1>13, KeepsQuietly DEF vars, stored, past
<1> QED
  BY <1>2, <1>3, <1>4, <1>5, <1>6, <1>7, <1>8, <1>9, <1>10, <1>11, <1>12, <1>13
     DEF Next, Work

\* Appending imports lose nothing, however many run at a time, are interrupted or fail:
\* what one of them added, or found there, stays until an overwriting import begins.
THEOREM AppendsLoseNothing == Spec => []AppendsKept
<1>1. KInv => AppendsKept
  BY DEF KInv
<1> QED
  BY <1>1, KInvInit, KInvNext, PTL DEF Spec

-----------------------------------------------------------------------------
(***************************************************************************)
(* Files.                                                                  *)
(***************************************************************************)
Owns(i, s) == job[i].second = s /\ job[i].stage \notin {"none", "mail", "done"}

FInv == TInv /\ FilesOwned

LEMMA FInvInit == Init => FInv
BY TInvInit DEF FInv, FilesOwned, Init

\* A step that writes no file and ends no import's hold on one.
LEMMA FilesStay ==
  ASSUME FInv, TInv', files' = files,
         \A i \in Imports, s \in 0..MaxSeconds : Owns(i, s) => Owns(i, s)'
  PROVE  FInv'
BY DEF FInv, FilesOwned, Owns

LEMMA FInvNext == FInv /\ [Next]_vars => FInv'
<1> SUFFICES ASSUME FInv, [Next]_vars PROVE FInv'
  OBVIOUS
<1>0. TInv' /\ TInv /\ TypeOK
  BY TInvNext DEF FInv, TInv
<1>1. /\ FilesOwned /\ job \in [Imports -> Job] /\ clock \in 0..MaxSeconds
      /\ files \in [0..MaxSeconds -> Lists \cup {Bad, None}]
  BY <1>0 DEF FInv, TypeOK
<1>2. ASSUME NEW i \in Imports, NEW append \in BOOLEAN, NEW content \in Contents,
             Upload(i, content, append)
      PROVE  FInv'
  <2>1. /\ job'[i].second = clock /\ job'[i].stage = "queued" /\ job[i].stage = "none"
        /\ \A j \in Imports \ {i} : job'[j] = job[j]
        /\ \A s \in 0..MaxSeconds : s # clock => files'[s] = files[s]
    BY <1>1, <1>2 DEF Upload, Worker
  <2> QED
    BY <1>0, <1>1, <2>1 DEF FInv, FilesOwned
<1>3. ASSUME NEW i \in Imports, DeleteFile(i) PROVE FInv'
  <2>1. /\ files'[job[i].second] = None
        /\ \A s \in 0..MaxSeconds : s # job[i].second => files'[s] = files[s]
        /\ \A j \in Imports \ {i} : job'[j] = job[j]
    BY <1>1, <1>3 DEF DeleteFile, Job
  <2> QED
    BY <1>0, <1>1, <2>1 DEF FInv, FilesOwned
<1>4. CASE Restart
  BY <1>0, <1>1, <1>4, FilesStay DEF Restart, Owns, Worker, Running
<1>5. CASE Deactivate \/ Tick \/ UNCHANGED vars
  BY <1>0, <1>5, FilesStay DEF Deactivate, Tick, vars, Owns
<1>6. ASSUME NEW i \in Imports,
             \/ Start(i) \/ Load(i) \/ Destroy(i) \/ Look(i) \/ Commit(i)
             \/ Count(i) \/ Save(i) \/ Mail(i) \/ Raise(i)
      PROVE  FInv'
  <2>1. files' = files
    BY <1>6 DEF Start, Load, Destroy, Look, Commit, Count, Save, Mail, Raise
  <2>2. \A j \in Imports \ {i} : job'[j] = job[j]
    BY <1>1, <1>6 DEF Start, Load, Destroy, Look, Commit, Count, Save, Mail, Raise, End, Move
  <2>3. job'[i].second = job[i].second
    BY <1>0, <1>6, AfterStart, AfterLook, AfterRest
  <2>4. job'[i].stage \in {"none", "mail", "done"} => job[i].stage = "mail"
    BY <1>0, <1>6, AfterStart, AfterLook, AfterRest
  <2> QED
    BY <1>0, <2>1, <2>2, <2>3, <2>4, FilesStay DEF Owns
<1> QED
  BY <1>2, <1>3, <1>4, <1>5, <1>6 DEF Next, Work

\* Whatever imports share a second, a file that is left belongs to an import that is
\* queued, running or failed: none outlives the imports that were carried out.
THEOREM FilesBelong == Spec => []FilesOwned
<1>1. FInv => FilesOwned
  BY DEF FInv
<1> QED
  BY <1>1, FInvInit, FInvNext, PTL DEF Spec
-----------------------------------------------------------------------------
(***************************************************************************)
(* An import that no other ran beside.                                     *)
(***************************************************************************)

\* Nothing runs beside a worker that is apart.
Alone == \A i \in apart : \A j \in Imports \ {i} : job[j].stage \notin Running

\* Since one was carried out so, nothing writes.
Quiet == latest # None => \A j \in Imports : job[j].stage \notin Running \ {"mail"}

\* What a list leaves.
Exact(append, terms) ==
  IF append THEN TermsOf(rows) = begun \cup terms
  ELSE TermsOf(rows) = terms /\ Cardinality(rows) = Cardinality(terms)

\* What a worker that is apart has before it adds its terms.
Cleared(i) == IF job[i].append THEN TermsOf(rows) = begun ELSE rows = {}

\* How far it has come.
Progressed(i) ==
  /\ job[i].stage \in {"load", "destroy", "look", "commit", "count", "save"} => job[i].held = number
  /\ job[i].stage \in {"load", "destroy"} => ~job[i].append
  /\ job[i].stage = "destroy" => job[i].doomed = rows
  /\ job[i].stage = "look" => Cleared(i)
  /\ job[i].stage = "commit" => Cleared(i) /\ job[i].seen = TermsOf(rows) /\ (active => job[i].found)
  /\ job[i].stage \in {"count", "save", "delete"} /\ active => Exact(job[i].append, job[i].terms)
  /\ job[i].stage = "save" => job[i].counted = Cardinality(rows)
  /\ job[i].stage = "delete" => number = Cardinality(rows)

EInv ==
  TInv /\ Alone /\ Quiet /\ (\A i \in apart : Progressed(i)) /\ ImportExact /\ CountRight

LEMMA EInvInit == Init => EInv
BY TInvInit DEF EInv, Init, Alone, Quiet, ImportExact, CountRight

\* A step that writes nothing, and by which a worker at most ends or is queued.
LEMMA EInvFrame ==
  ASSUME EInv, TInv', rows' = rows, number' = number, begun' = begun, apart' = apart,
         latest' = latest, active' => active,
         \A j \in Imports : job'[j] = job[j] \/ job'[j].stage \notin Running
  PROVE  EInv'
<1>1. apart \subseteq Imports
  BY DEF EInv, TInv, TypeOK
<1>2. Alone' /\ Quiet'
  BY <1>1 DEF EInv, Alone, Quiet
<1>3. ASSUME NEW i \in apart' PROVE Progressed(i)'
  <2>1. i \in Imports /\ Progressed(i)
    BY <1>1, <1>3 DEF EInv
  <2>2. CASE job'[i] = job[i]
    BY <2>1, <2>2 DEF Progressed, Cleared, Exact, TermsOf
  <2>3. CASE job'[i].stage \notin Running
    BY <2>3 DEF Progressed, Running
  <2> QED
    BY <2>1, <2>2, <2>3
<1>4. ImportExact' /\ CountRight'
  BY DEF EInv, ImportExact, CountRight, TermsOf
<1> QED
  BY <1>2, <1>3, <1>4 DEF EInv

\* A worker that writes has forgotten what was carried out, and only it can be apart.
LEMMA Writing ==
  ASSUME EInv, NEW i \in Imports, job[i].stage \in Running \ {"mail"}
  PROVE  latest = None /\ apart \subseteq {i}
<1>1. apart \subseteq Imports
  BY DEF EInv, TInv, TypeOK
<1> QED
  BY <1>1 DEF EInv, Alone, Quiet

\* A step of a worker that writes.
LEMMA EInvStep ==
  ASSUME EInv, TInv', NEW i \in Imports, job[i].stage \in Running \ {"mail"},
         apart' = apart, latest' = latest, \A j \in Imports \ {i} : job'[j] = job[j],
         i \in apart => Progressed(i)'
  PROVE  EInv'
<1>1. latest' = None /\ apart' \subseteq {i}
  BY Writing
<1>2. Alone'
  BY <1>1 DEF EInv, Alone
<1>3. Quiet' /\ ImportExact' /\ CountRight'
  BY <1>1 DEF Quiet, ImportExact, CountRight
<1>4. \A j \in apart' : Progressed(j)'
  BY <1>1
<1> QED
  BY <1>2, <1>3, <1>4 DEF EInv

\* The rows an import adds, once the others are gone, are as many as its terms.
LEMMA NewRowsCount ==
  ASSUME NEW M \in SUBSET Terms, NEW i, NEW n
  PROVE  Cardinality({[by |-> i, run |-> n, term |-> t] : t \in M}) = Cardinality(M)
<1> DEFINE T == {[by |-> i, run |-> n, term |-> t] : t \in M}
           f == [t \in M |-> [by |-> i, run |-> n, term |-> t]]
<1>1. IsFiniteSet(M)
  BY ImportsAssumption, FS_Subset
<1>2. f \in Surjection(M, T)
  BY DEF Surjection
<1>3. f \in Injection(M, T)
  <2>1. \A t \in M : f[t].term = t
    OBVIOUS
  <2>2. f \in [M -> T]
    OBVIOUS
  <2>3. \A a, b \in M : f[a] = f[b] => a = b
    BY <2>1
  <2> HIDE DEF f, T
  <2> QED
    BY <2>2, <2>3 DEF Injection, IsInjective
<1> HIDE DEF f, T
<1>4. Cardinality(T) = Cardinality(M)
  BY <1>1, <1>2, <1>3, FS_Surjection
<1> QED
  BY <1>4 DEF T

\* What a transaction that sees the thesaurus leaves.
LEMMA CommitExact ==
  ASSUME EInv, NEW i \in apart, i \in Imports, Commit(i), active
  PROVE  Exact(job[i].append, job[i].terms)'
<1> DEFINE new == {[by |-> i, run |-> restarts, term |-> t] : t \in Missing(i)}
<1>0. /\ job[i] \in Job /\ job[i].stage = "commit"
      /\ Cleared(i) /\ job[i].seen = TermsOf(rows) /\ job[i].found
  BY DEF EInv, TInv, TypeOK, Commit, Progressed
<1>1. rows' = rows \cup new /\ begun' = begun
  BY DEF Commit
<1>2. TermsOf(new) = Missing(i)
  <2>1. \A t \in Missing(i) : [by |-> i, run |-> restarts, term |-> t].term = t
    OBVIOUS
  <2>2. \A t \in Missing(i) : \E r \in new : r.term = t
    BY <2>1
  <2>3. \A r \in new : r.term \in Missing(i)
    BY <2>1
  <2> HIDE DEF new
  <2> QED
    BY <2>2, <2>3 DEF TermsOf
<1>3. TermsOf(rows)' = TermsOf(rows) \cup Missing(i)
  BY <1>1, <1>2 DEF TermsOf
<1>4. Missing(i) = job[i].terms \ TermsOf(rows)
  BY <1>0 DEF Missing
<1> HIDE DEF new
<1>5. TermsOf(rows)' = TermsOf(rows) \cup job[i].terms
  BY <1>3, <1>4
<1>6. job'[i].append = job[i].append /\ job'[i].terms = job[i].terms
  <2> DEFINE r == [job[i] EXCEPT !.stage = "count", !.seen = {}, !.found = FALSE]
  <2>1. job'[i] = r
    BY DEF Commit, EInv, TInv, TypeOK
  <2>2. r.append = job[i].append /\ r.terms = job[i].terms
    BY <1>0 DEF Job
  <2> QED
    BY <2>1, <2>2
<1>7. CASE job[i].append
  BY <1>0, <1>1, <1>5, <1>6, <1>7 DEF Exact, Cleared
<1>8. CASE ~job[i].append
  <2>1. rows = {}
    BY <1>0, <1>8 DEF Cleared
  <2>2. TermsOf(rows) = {}
    BY <2>1 DEF TermsOf
  <2>3. Missing(i) = job[i].terms /\ job[i].terms \in SUBSET Terms
    BY <1>0, <1>4, <2>2 DEF Job
  <2>4. rows' = new
    BY <1>1, <2>1
  <2>5. Cardinality(rows') = Cardinality(job[i].terms)
    BY <2>3, <2>4, NewRowsCount DEF new
  <2> QED
    BY <1>5, <1>6, <1>8, <2>2, <2>5 DEF Exact
<1> QED
  BY <1>7, <1>8

\* How far each step takes a worker that is apart.
LEMMA StartProgresses ==
  ASSUME EInv, NEW i \in Imports, Start(i), job'[i].stage \in Running
  PROVE  Progressed(i)'
<1> DEFINE content == files[job[i].second]
           r == [job[i] EXCEPT !.stage = IF job[i].append THEN "look" ELSE "load",
                               !.terms = content.terms, !.held = number]
<1>0. job[i] \in Job /\ job \in [Imports -> Job]
  BY DEF EInv, TInv, TypeOK
<1>1. active /\ content \notin {None, Bad}
  BY <1>0 DEF Start, End, Worker, Running
<1>2. job'[i] = r /\ begun' = TermsOf(rows) /\ rows' = rows /\ number' = number
  BY <1>0, <1>1 DEF Start, stored
<1>3. /\ r.stage = IF job[i].append THEN "look" ELSE "load"
      /\ r.append = job[i].append /\ r.held = number
  BY <1>0 DEF Job
<1>4. TermsOf(rows)' = TermsOf(rows)
  BY <1>2 DEF TermsOf
<1> HIDE DEF r
<1>5. CASE job[i].append
  BY <1>2, <1>3, <1>4, <1>5 DEF Progressed, Cleared
<1>6. CASE ~job[i].append
  BY <1>2, <1>3, <1>6 DEF Progressed
<1> QED
  BY <1>5, <1>6

LEMMA LoadProgresses ==
  ASSUME EInv, NEW i \in apart, i \in Imports, Load(i)
  PROVE  Progressed(i)'
<1> DEFINE r == [job[i] EXCEPT !.doomed = rows, !.stage = IF rows = {} THEN "look" ELSE "destroy"]
<1>0. job[i] \in Job /\ job \in [Imports -> Job] /\ job[i].stage = "load" /\ Progressed(i)
  BY DEF EInv, TInv, TypeOK, Load
<1>1. job'[i] = r /\ rows' = rows /\ number' = number
  BY <1>0 DEF Load, stored
<1>2. /\ r.stage = IF rows = {} THEN "look" ELSE "destroy"
      /\ r.append = job[i].append /\ r.held = job[i].held /\ r.doomed = rows
  BY <1>0 DEF Job
<1>3. job[i].held = number /\ ~job[i].append
  BY <1>0 DEF Progressed
<1> HIDE DEF r
<1> QED
  BY <1>1, <1>2, <1>3 DEF Progressed, Cleared

LEMMA DestroyProgresses ==
  ASSUME EInv, NEW i \in apart, i \in Imports, Destroy(i)
  PROVE  Progressed(i)'
<1>0. job[i] \in Job /\ job \in [Imports -> Job] /\ job[i].stage = "destroy" /\ Progressed(i)
  BY DEF EInv, TInv, TypeOK, Destroy
<1>1. PICK x \in job[i].doomed :
        /\ rows' = rows \ {x}
        /\ job' = [job EXCEPT ![i].doomed = @ \ {x},
                     ![i].stage = IF job[i].doomed = {x} THEN "look" ELSE "destroy"]
  BY DEF Destroy
<1> DEFINE r == [job[i] EXCEPT !.doomed = @ \ {x},
                               !.stage = IF job[i].doomed = {x} THEN "look" ELSE "destroy"]
<1>2. job'[i] = r /\ number' = number
  BY <1>0, <1>1 DEF Destroy
<1>3. /\ r.stage = IF job[i].doomed = {x} THEN "look" ELSE "destroy"
      /\ r.append = job[i].append /\ r.held = job[i].held /\ r.doomed = job[i].doomed \ {x}
  BY <1>0 DEF Job
<1>4. job[i].held = number /\ ~job[i].append /\ job[i].doomed = rows
  BY <1>0 DEF Progressed
<1> HIDE DEF r
<1>5. ~job'[i].append /\ job'[i].held = number'
  BY <1>2, <1>3, <1>4
<1>6. CASE job[i].doomed = {x}
  <2>1. rows' = {} /\ job'[i].stage = "look"
    BY <1>1, <1>2, <1>3, <1>4, <1>6
  <2> QED
    BY <1>5, <2>1 DEF Progressed, Cleared
<1>7. CASE job[i].doomed # {x}
  <2>1. job'[i].doomed = rows' /\ job'[i].stage = "destroy"
    BY <1>1, <1>2, <1>3, <1>4, <1>7
  <2> QED
    BY <1>5, <2>1 DEF Progressed
<1> QED
  BY <1>6, <1>7

LEMMA LookProgresses ==
  ASSUME EInv, NEW i \in apart, i \in Imports, Look(i)
  PROVE  Progressed(i)'
<1> DEFINE r == [job[i] EXCEPT !.stage = "commit", !.seen = TermsOf(rows), !.found = active]
           q == [job[i] EXCEPT !.stage = "count"]
<1>0. /\ job[i] \in Job /\ job \in [Imports -> Job] /\ job[i].stage = "look"
      /\ job[i].held = number /\ Cleared(i)
  BY DEF EInv, TInv, TypeOK, Look, Progressed
<1>1. rows' = rows /\ number' = number /\ begun' = begun /\ active' = active
  BY DEF Look, stored
<1>2. TermsOf(rows)' = TermsOf(rows)
  BY <1>1 DEF TermsOf
<1>3. CASE job[i].terms # {}
  <2>1. job'[i] = r
    BY <1>0, <1>3 DEF Look
  <2>2. /\ r.stage = "commit" /\ r.append = job[i].append /\ r.held = job[i].held
        /\ r.seen = TermsOf(rows) /\ (active => r.found)
    BY <1>0 DEF Job
  <2> HIDE DEF r
  <2> QED
    BY <1>0, <1>1, <1>2, <2>1, <2>2 DEF Progressed, Cleared
<1>4. CASE job[i].terms = {}
  <2>1. job'[i] = q
    BY <1>0, <1>4 DEF Look, Move
  <2>2. /\ q.stage = "count" /\ q.append = job[i].append /\ q.held = job[i].held
        /\ q.terms = {}
    BY <1>0, <1>4 DEF Job
  <2>3. Exact(job[i].append, {})
    <3>1. CASE job[i].append
      BY <1>0, <3>1 DEF Cleared, Exact
    <3>2. CASE ~job[i].append
      <4>1. rows = {}
        BY <1>0, <3>2 DEF Cleared
      <4> QED
        BY <3>2, <4>1 DEF Exact, TermsOf
    <3> QED
      BY <3>1, <3>2
  <2> HIDE DEF q
  <2> QED
    BY <1>0, <1>1, <1>2, <2>1, <2>2, <2>3 DEF Progressed, Exact
<1> QED
  BY <1>3, <1>4

LEMMA CommitProgresses ==
  ASSUME EInv, NEW i \in apart, i \in Imports, Commit(i)
  PROVE  Progressed(i)'
<1> DEFINE r == [job[i] EXCEPT !.stage = "count", !.seen = {}, !.found = FALSE]
<1>0. /\ job[i] \in Job /\ job \in [Imports -> Job] /\ job[i].stage = "commit"
      /\ job[i].held = number
  BY DEF EInv, TInv, TypeOK, Commit, Progressed
<1>1. job'[i] = r /\ number' = number /\ active' = active
  BY <1>0 DEF Commit
<1>2. r.stage = "count" /\ r.append = job[i].append /\ r.held = job[i].held /\ r.terms = job[i].terms
  BY <1>0 DEF Job
<1>3. active => Exact(job[i].append, job[i].terms)'
  BY CommitExact
<1> HIDE DEF r
<1> QED
  BY <1>0, <1>1, <1>2, <1>3 DEF Progressed, Exact

LEMMA CountProgresses ==
  ASSUME EInv, NEW i \in apart, i \in Imports, Count(i)
  PROVE  Progressed(i)'
<1> DEFINE r == [job[i] EXCEPT !.stage = "save", !.counted = Cardinality(rows)]
<1>0. /\ job[i] \in Job /\ job \in [Imports -> Job] /\ job[i].held = number
      /\ (active => Exact(job[i].append, job[i].terms))
  BY DEF EInv, TInv, TypeOK, Count, Progressed
<1>1. job'[i] = r /\ rows' = rows /\ number' = number /\ active' = active /\ begun' = begun
  BY <1>0 DEF Count, stored, past
<1>2. /\ r.stage = "save" /\ r.append = job[i].append /\ r.held = job[i].held
      /\ r.terms = job[i].terms /\ r.counted = Cardinality(rows)
  BY <1>0 DEF Job
<1> HIDE DEF r
<1> QED
  BY <1>0, <1>1, <1>2 DEF Progressed, Exact, TermsOf

LEMMA SaveProgresses ==
  ASSUME EInv, NEW i \in apart, i \in Imports, Save(i)
  PROVE  Progressed(i)'
<1> DEFINE r == [job[i] EXCEPT !.stage = "delete", !.held = 0, !.counted = 0]
<1>0. /\ job[i] \in Job /\ job \in [Imports -> Job] /\ job[i].held = number
      /\ job[i].counted = Cardinality(rows)
      /\ (active => Exact(job[i].append, job[i].terms))
  BY DEF EInv, TInv, TypeOK, Save, Progressed
<1>1. job'[i] = r /\ rows' = rows /\ active' = active /\ begun' = begun
  BY <1>0 DEF Save, past
<1>2. number' = Cardinality(rows)
  BY <1>0 DEF Save
<1>3. r.stage = "delete" /\ r.append = job[i].append /\ r.terms = job[i].terms
  BY <1>0 DEF Job
<1> HIDE DEF r
<1> QED
  BY <1>0, <1>1, <1>2, <1>3 DEF Progressed, Exact, TermsOf

LEMMA EInvNext == EInv /\ [Next]_vars => EInv'
<1> SUFFICES ASSUME EInv, [Next]_vars PROVE EInv'
  OBVIOUS
<1>0. TInv' /\ TInv /\ TypeOK
  BY TInvNext DEF EInv, TInv
<1>1. job \in [Imports -> Job] /\ apart \subseteq Imports
  BY <1>0 DEF TypeOK
<1>2. ASSUME NEW i \in Imports, NEW append \in BOOLEAN, NEW content \in Contents,
             Upload(i, content, append)
      PROVE  EInv'
  <2>1. \A j \in Imports : job'[j] = job[j] \/ job'[j].stage = "queued"
    BY <1>1, <1>2 DEF Upload, Worker
  <2> QED
    BY <1>0, <1>2, <2>1, EInvFrame DEF Upload, stored, past, Running
<1>3. CASE Deactivate
  BY <1>0, <1>3, EInvFrame DEF Deactivate, stored, past
<1>4. CASE Tick \/ UNCHANGED vars
  BY <1>0, <1>4, EInvFrame DEF Tick, vars, stored, past
<1>5. CASE Restart
  <2>1. \A j \in Imports : job'[j] = job[j] \/ job'[j].stage \notin Running
    BY <1>1, <1>5 DEF Restart, Worker, Running
  <2> QED
    BY <1>0, <1>5, <2>1, EInvFrame DEF Restart, stored
<1>6. ASSUME NEW i \in Imports, Start(i) PROVE EInv'
  <2>1. \A j \in Imports \ {i} : job'[j] = job[j]
    BY <1>1, <1>6 DEF Start, End
  <2>2. CASE ~(active /\ files[job[i].second] \notin {None, Bad})
    <3>1. job'[i].stage = "dropped"
      BY <1>1, <1>6, <2>2 DEF Start, End, Worker
    <3> QED
      BY <1>0, <1>6, <2>1, <2>2, <3>1, EInvFrame DEF Start, stored, past, Running
  <2>3. CASE active /\ files[job[i].second] \notin {None, Bad}
    <3>1. /\ latest' = None
          /\ apart' = IF \A j \in Imports \ {i} : job[j].stage \notin Running THEN {i} ELSE {}
      BY <1>6, <2>3 DEF Start
    <3>2. Alone'
      BY <2>1, <3>1 DEF Alone
    <3>3. Quiet' /\ ImportExact' /\ CountRight'
      BY <3>1 DEF Quiet, ImportExact, CountRight
    <3>4. job'[i].stage \in Running
      <4> DEFINE r == [job[i] EXCEPT !.stage = IF job[i].append THEN "look" ELSE "load",
                         !.terms = files[job[i].second].terms, !.held = number]
      <4>1. job'[i] = r
        BY <1>1, <1>6, <2>3 DEF Start
      <4>2. r.stage = IF job[i].append THEN "look" ELSE "load"
        BY <1>1 DEF Job
      <4> HIDE DEF r
      <4> QED
        BY <4>1, <4>2 DEF Running
    <3>5. \A j \in apart' : Progressed(j)'
      BY <1>6, <3>1, <3>4, StartProgresses
    <3> QED
      BY <1>0, <3>2, <3>3, <3>5 DEF EInv
  <2> QED
    BY <2>2, <2>3
<1>7. ASSUME NEW i \in Imports,
             Load(i) \/ Destroy(i) \/ Look(i) \/ Commit(i) \/ Count(i) \/ Save(i)
      PROVE  EInv'
  <2>1. \A j \in Imports \ {i} : job'[j] = job[j]
    BY <1>1, <1>7 DEF Load, Destroy, Look, Commit, Count, Save, Move
  <2>2. job[i].stage \in Running \ {"mail"} /\ apart' = apart /\ latest' = latest
    BY <1>7 DEF Load, Destroy, Look, Commit, Count, Save, Running, past
  <2>3. i \in apart => Progressed(i)'
    BY <1>7, LoadProgresses, DestroyProgresses, LookProgresses, CommitProgresses,
       CountProgresses, SaveProgresses
  <2> QED
    BY <1>0, <2>1, <2>2, <2>3, EInvStep
<1>8. ASSUME NEW i \in Imports, DeleteFile(i) PROVE EInv'
  <2>1. \A j \in Imports \ {i} : job'[j] = job[j]
    BY <1>1, <1>8 DEF DeleteFile
  <2>2. job[i].stage = "delete" /\ job'[i].stage \in {"mail", "dropped"}
    BY <1>0, <1>8, AfterRest DEF DeleteFile
  <2>3. rows' = rows /\ number' = number /\ begun' = begun /\ apart' = apart /\ active' = active
    BY <1>8 DEF DeleteFile, stored
  <2>4. apart \subseteq {i}
    BY <2>2, Writing DEF Running
  <2>5. Alone'
    BY <2>1, <2>3, <2>4 DEF EInv, Alone
  <2>6. \A j \in apart' : Progressed(j)'
    BY <2>2, <2>3, <2>4 DEF Progressed
  <2>7. CASE latest' = None
    BY <1>0, <2>5, <2>6, <2>7 DEF EInv, Quiet, ImportExact, CountRight
  <2>8. CASE latest' # None
    <3>1. i \in apart /\ latest' = [append |-> job[i].append, terms |-> job[i].terms]
      BY <1>8, <2>8 DEF DeleteFile
    <3>2. Progressed(i)
      BY <3>1 DEF EInv
    <3>3. ImportExact' /\ CountRight'
      BY <2>2, <2>3, <3>1, <3>2 DEF Progressed, ImportExact, CountRight, Exact, TermsOf
    <3>4. Quiet'
      BY <2>1, <2>2, <3>1 DEF EInv, Alone, Quiet, Running
    <3> QED
      BY <1>0, <2>5, <2>6, <3>3, <3>4 DEF EInv
  <2> QED
    BY <2>7, <2>8
<1>9. ASSUME NEW i \in Imports, Mail(i) PROVE EInv'
  <2>1. job'[i].stage = "done" /\ \A j \in Imports \ {i} : job'[j] = job[j]
    BY <1>0, <1>1, <1>9, AfterRest DEF Mail, Move
  <2> QED
    BY <1>0, <1>9, <2>1, EInvFrame DEF Mail, stored, past, Running
<1>10. ASSUME NEW i \in Imports, Raise(i) PROVE EInv'
  <2>1. job'[i].stage = "dropped" /\ \A j \in Imports \ {i} : job'[j] = job[j]
    BY <1>1, <1>10 DEF Raise, End, Worker
  <2> QED
    BY <1>0, <1>10, <2>1, EInvFrame DEF Raise, stored, Running
<1> QED
  BY <1>2, <1>3, <1>4, <1>5, <1>6, <1>7, <1>8, <1>9, <1>10 DEF Next, Work

\* An import that no other ran beside leaves just the terms it says, whatever raced,
\* failed or was interrupted before it.
THEOREM ImportsAreExact == Spec => []ImportExact
<1>1. EInv => ImportExact
  BY DEF EInv
<1> QED
  BY <1>1, EInvInit, EInvNext, PTL DEF Spec

\* Such an import leaves the right number of terms.
THEOREM CountsAreRight == Spec => []CountRight
<1>1. EInv => CountRight
  BY DEF EInv
<1> QED
  BY <1>1, EInvInit, EInvNext, PTL DEF Spec
=============================================================================
