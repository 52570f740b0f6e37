------------------------- MODULE BackgroundJobs_proofs -------------------------
(* Proofs about BackgroundJobs, for every set of rows, edits, refresh and shift handles.

   RefreshOwed and the refinement of AtomicEdits each need what the sessions know of the
   rows.  IInv has five parts beside TypeOK: what a handle holds at each place of its work
   (JobsOK), that the questions are those of the failed jobs (QuestionsOpen), what the
   session with the write lock has written (OneWriter), that what the dialog and the
   dashboard know is not ahead of the rows (NothingAhead), and which refreshes are under
   way and why none is owed (RefreshFlags).                                          *)
EXTENDS BackgroundJobs, FiniteSetTheorems, TLAPS

(* A row read earlier is behind the row as it is now, or the same. *)
Behind(old, now) == /\ old.version <= now.version
                    /\ old.version = now.version => old.content = now.content

Read(table, now) == \A r \in Rows : Behind(table[r], now[r])

(* What handle j may hold when the committed rows are table. *)
JobShape(j, h) ==
    /\ h \in JobRows
    /\ h.at \in {"free", "queued"} => h.loaded = None
    /\ h.at \in {"loaded", "recalculating"} => h.loaded # None
    /\ h.at = "written" => h.todo = {}
    /\ h.at \in {"returned", "asking"} => h.outcome # None
    /\ j \in Refreshes =>
          /\ h.at \notin {"recalculating", "written"} /\ h.todo = {}
          /\ h.at = "returned" /\ h.outcome = "success" => h.loaded # None
    /\ j \in Shifts =>
          /\ h.at # "free" => h.row \in Leaves
          /\ h.at = "loaded" => h.todo \subseteq {h.row}

JobOK(j, h, table) == JobShape(j, h) /\ (h.loaded # None => Read(h.loaded, table))

JobsOK(jobs, table) == /\ jobs \in [Jobs -> JobRows]
                       /\ \A j \in Jobs : JobOK(j, jobs[j], table)

(* The dialog was opened on a row and knows which. *)
DialogOK == ui.at # "idle" => /\ ui.row \in Rows /\ ui.opened \in RowStates
                              /\ ui.edit \in Edits
                              /\ Behind(ui.opened, rows[ui.row])

QuestionsOpen(asked, jobs) ==
    /\ asked \in Seq(Jobs)
    /\ \A i \in 1..Len(asked) : jobs[asked[i]].at = "asking"
    /\ \A i, k \in 1..Len(asked) : i # k => asked[i] # asked[k]

(* The rows a shift has written in the transaction it is in. *)
Written(h) == IF h.at = "loaded" THEN {h.row} \ h.todo
              ELSE IF h.at = "recalculating" THEN Rows \ h.todo ELSE {}

(* The rows a transaction makes of table when it writes edit e to those of about. *)
Edited(table, e, about) ==
    [r \in Rows |-> IF r \in about
                    THEN [version |-> table[r].version + 1, content |-> table[r].content \cup {e}]
                    ELSE table[r]]

OneWriter ==
    /\ writer \notin Refreshes
    /\ writer = UI <=> ui.at = "flushed"
    /\ writer = UI => dirty = Edited(rows, ui.edit, {ui.row})
    /\ \A j \in Shifts : /\ writer = j <=> Written(job[j]) # {}
                         /\ writer = j => dirty = Edited(rows, j, Written(job[j]))

NothingAhead == /\ IsFiniteSet(EditsMade)
                /\ AtLeast(Versions(rows), announced)

Under(jobs) == {j \in Refreshes : jobs[j].at # "free"}

(* While no retry ran beside another refresh. *)
Single ==
    /\ Under(job) = {} \/ \E f \in Refreshes : Under(job) = {f}
    /\ Under(job) = {} <=> ~inflight
    /\ inflight \/ UpToDate \/ last # "success"
    /\ \A f \in Refreshes : /\ job[f].at = "asking" => last = "failure"
                            /\ job[f].loaded # None =>
                                  pending \/ AtLeast(Versions(job[f].loaded), announced)

RefreshFlags == /\ pending => inflight
                /\ inflight \/ FreeSlots(Refreshes, job) # {}
                /\ doubled = 0 => Single

IInv == /\ TypeOK
        /\ JobsOK(job, rows)
        /\ DialogOK
        /\ QuestionsOpen(questions, job)
        /\ OneWriter
        /\ NothingAhead
        /\ RefreshFlags

-----------------------------------------------------------------------------
(* Rows and handles *)

(* What is behind a table stays behind when the table advances. *)
LEMMA ReadLater ==
    ASSUME NEW f \in Tables, NEW t \in Tables, NEW u \in Tables, Read(f, t), Read(t, u)
    PROVE  Read(f, u)
<1> SUFFICES ASSUME NEW r \in Rows
             PROVE  Behind(f[r], u[r])
  BY DEF Read
<1>1. Behind(f[r], t[r]) /\ Behind(t[r], u[r])
  BY DEF Read
<1>2. f[r].version \in Nat /\ t[r].version \in Nat /\ u[r].version \in Nat
  BY DEF Tables, RowStates
<1> QED BY <1>1, <1>2 DEF Behind

(* A transaction's rows are rows, and the committed ones are behind them. *)
LEMMA EditedRows ==
    ASSUME NEW t \in Tables, NEW e \in Edits \cup Shifts, NEW about
    PROVE  Edited(t, e, about) \in Tables /\ Read(t, Edited(t, e, about))
<1>1. \A r \in Rows : t[r].version \in Nat /\ t[r].content \subseteq Edits \cup Shifts
  BY DEF Tables, RowStates
<1>2. \A r \in Rows : Edited(t, e, about)[r] \in RowStates
  BY <1>1 DEF Edited, Tables, RowStates
<1>3. Edited(t, e, about) \in Tables
  BY <1>2 DEF Edited, Tables
<1>4. ASSUME NEW r \in Rows
      PROVE  Behind(t[r], Edited(t, e, about)[r])
  <2>1. CASE r \in about
    BY <1>1, <2>1 DEF Edited, Behind
  <2>2. CASE r \notin about
    BY <1>1, <2>2 DEF Edited, Behind
  <2> QED BY <2>1, <2>2
<1> QED BY <1>3, <1>4 DEF Read

(* Handles stay well formed when the rows advance. *)
LEMMA JobsLater ==
    ASSUME NEW t \in Tables, NEW u \in Tables, NEW jobs, JobsOK(jobs, t), Read(t, u)
    PROVE  JobsOK(jobs, u)
<1> SUFFICES ASSUME NEW j \in Jobs, jobs[j].loaded # None
             PROVE  Read(jobs[j].loaded, u)
  BY DEF JobsOK, JobOK
<1>1. jobs[j].loaded \in Tables /\ Read(jobs[j].loaded, t)
  BY DEF JobsOK, JobOK, JobRows
<1> QED BY <1>1, ReadLater

(* Handles stay well formed when one of them becomes what it may be. *)
LEMMA JobSet ==
    ASSUME NEW t, NEW jobs, JobsOK(jobs, t), NEW j \in Jobs, NEW h, JobOK(j, h, t)
    PROVE  JobsOK([jobs EXCEPT ![j] = h], t)
<1>1. h \in JobRows
  BY DEF JobOK, JobShape
<1> QED BY <1>1 DEF JobsOK

(* An ended handle, and one just started, are well formed. *)
LEMMA FreshJobs ==
    ASSUME NEW j \in Jobs, NEW t, NEW dialog \in BOOLEAN
    PROVE  /\ JobOK(j, NoJob, t)
           /\ j \in Refreshes => JobOK(j, Queued(dialog), t)
           /\ \A r \in Leaves : JobOK(j, [Queued(TRUE) EXCEPT !.row = r], t)
<1>1. NoJob \in JobRows /\ Queued(dialog) \in JobRows
  BY DEF NoJob, Queued, JobRows, Outcomes
<1>2. \A r \in Leaves : [Queued(TRUE) EXCEPT !.row = r] \in JobRows
  BY JobAssumption DEF NoJob, Queued, JobRows, Outcomes
<1>3. JobOK(j, NoJob, t)
  BY <1>1 DEF JobOK, JobShape, NoJob
<1>4. ASSUME j \in Refreshes
      PROVE  JobOK(j, Queued(dialog), t)
  BY <1>1, <1>4, JobAssumption DEF JobOK, JobShape, NoJob, Queued
<1>5. ASSUME NEW r \in Leaves
      PROVE  JobOK(j, [Queued(TRUE) EXCEPT !.row = r], t)
  BY <1>2 DEF JobOK, JobShape, NoJob, Queued
<1> QED BY <1>3, <1>4, <1>5

(* A slot that is taken was free. *)
LEMMA SlotFree ==
    ASSUME NEW slots, NEW jobs, FreeSlots(slots, jobs) # {}
    PROVE  Slot(slots, jobs) \in slots /\ jobs[Slot(slots, jobs)].at = "free"
BY DEF Slot, FreeSlots

(* A question stays open while its handle keeps waiting for the answer. *)
LEMMA QuestionsStay ==
    ASSUME NEW asked, NEW jobs, NEW next, QuestionsOpen(asked, jobs),
           \A g \in Jobs : jobs[g].at = "asking" => next[g].at = "asking"
    PROVE  QuestionsOpen(asked, next)
<1>1. asked \in Seq(Jobs)
  BY DEF QuestionsOpen
<1>2. \A i \in 1..Len(asked) : asked[i] \in Jobs
  BY <1>1
<1> QED BY <1>1, <1>2 DEF QuestionsOpen

-----------------------------------------------------------------------------
(* The write lock, and the view of the dashboard *)

(* The types but those of the handles and the questions. *)
Types ==
    /\ rows \in Tables /\ dirty \in Tables
    /\ writer \in Jobs \cup {None, UI}
    /\ ui \in [at : {"idle", "dialog", "saving", "flushed", "committed"},
               edit : Edits \cup {None}, row : Rows \cup {None},
               opened : RowStates \cup {None}]
    /\ inflight \in BOOLEAN /\ pending \in BOOLEAN /\ levelable \in BOOLEAN
    /\ shown \in [Rows -> Nat] /\ announced \in [Rows -> Nat]
    /\ last \in Outcomes \ {None}
    /\ started \in 0..MaxActs /\ doubled \in 0..MaxActs

(* TypeOK is Types and what JobsOK and QuestionsOpen say of the rest. *)
LEMMA TypesSuffice ==
    ASSUME Types, JobsOK(job, rows), QuestionsOpen(questions, job)
    PROVE  TypeOK
BY DEF Types, JobsOK, QuestionsOpen, TypeOK

(* While no row is written and no shift begins or ends a transaction, the writer's rows
   are explained as before. *)
LEMMA WriterKept ==
    ASSUME OneWriter, UNCHANGED dbVars,
           ui' = ui \/ (ui.at # "flushed" /\ ui'.at # "flushed"),
           \A g \in Shifts : Written(job'[g]) = Written(job[g])
    PROVE  OneWriter'
<1>1. rows' = rows /\ writer' = writer /\ dirty' = dirty
  BY DEF dbVars
<1>2. writer' = UI <=> ui'.at = "flushed"
  BY <1>1 DEF OneWriter
<1>3. ASSUME writer' = UI
      PROVE  dirty' = Edited(rows', ui'.edit, {ui'.row})
  BY <1>1, <1>2, <1>3 DEF OneWriter
<1>4. ASSUME NEW j \in Shifts
      PROVE  /\ writer' = j <=> Written(job'[j]) # {}
             /\ writer' = j => dirty' = Edited(rows', j, Written(job'[j]))
  <2>1. Written(job'[j]) = Written(job[j])
    OBVIOUS
  <2> QED BY <1>1, <2>1 DEF OneWriter
<1>5. writer' \notin Refreshes
  BY <1>1 DEF OneWriter
<1> QED BY <1>2, <1>3, <1>4, <1>5 DEF OneWriter

(* A step that ends no refresh, starts none and reads at most what is announced. *)
LEMMA FlagsKept ==
    ASSUME RefreshFlags, UNCHANGED <<viewVars, announced>>,
           \A f \in Refreshes :
              /\ job'[f].at = "free" <=> job[f].at = "free"
              /\ job'[f].at = "asking" => job[f].at = "asking"
              /\ job'[f].loaded # None =>
                    \/ job'[f].loaded = job[f].loaded
                    \/ AtLeast(Versions(job'[f].loaded), announced)
    PROVE  RefreshFlags'
<1>1. /\ inflight' = inflight /\ pending' = pending /\ shown' = shown /\ last' = last
      /\ doubled' = doubled /\ announced' = announced
  BY DEF viewVars
<1>2. Under(job') = Under(job) /\ FreeSlots(Refreshes, job') = FreeSlots(Refreshes, job)
  BY DEF Under, FreeSlots
<1>3. ASSUME doubled = 0
      PROVE  Single'
  <2>1. Single
    BY <1>3 DEF RefreshFlags
  <2>2. UpToDate' <=> UpToDate
    BY <1>1 DEF UpToDate
  <2>3. ASSUME NEW f \in Refreshes, job'[f].loaded # None
        PROVE  pending' \/ AtLeast(Versions(job'[f].loaded), announced')
    BY <1>1, <2>1, <2>3 DEF Single
  <2>4. \A f \in Refreshes : job'[f].at = "asking" => last' = "failure"
    BY <1>1, <2>1 DEF Single
  <2> QED BY <1>1, <1>2, <2>1, <2>2, <2>3, <2>4 DEF Single
<1> QED BY <1>1, <1>2, <1>3 DEF RefreshFlags

(* A request marks the refresh under way as out of date, or starts one. *)
LEMMA FlagsRequested ==
    ASSUME RefreshFlags, JobsOK(job, rows), inflight \in BOOLEAN, doubled \in Nat,
           NEW jobs, \A f \in Refreshes : jobs[f] = job[f], JobsOK(jobs, rows),
           NEW dialog \in BOOLEAN, RequestRefresh(jobs, dialog),
           UNCHANGED <<shown, last, doubled>>
    PROVE  /\ RefreshFlags'
           /\ \/ job' = jobs
              \/ \E f \in Refreshes : /\ jobs[f].at = "free"
                                      /\ job' = [jobs EXCEPT ![f] = Queued(dialog)]
<1>1. CASE inflight
  <2>1. job' = jobs /\ pending' = TRUE /\ inflight' = inflight
    BY <1>1 DEF RequestRefresh
  <2>2. \A f \in Refreshes : job'[f] = job[f]
    BY <2>1
  <2>3. Under(job') = Under(job)
    BY <2>2 DEF Under
  <2>4. ASSUME doubled' = 0
        PROVE  Single'
    <3>1. Single
      BY <2>4 DEF RefreshFlags
    <3> QED BY <1>1, <2>1, <2>2, <2>3, <3>1 DEF Single
  <2> QED BY <1>1, <2>1, <2>4 DEF RefreshFlags
<1>2. CASE ~inflight
  <2> DEFINE f == Slot(Refreshes, jobs)
  <2>1. job' = [jobs EXCEPT ![f] = Queued(dialog)] /\ inflight' = TRUE /\ pending' = pending
    BY <1>2 DEF RequestRefresh
  <2>2. FreeSlots(Refreshes, jobs) # {}
    BY <1>2 DEF RefreshFlags, FreeSlots
  <2>3. f \in Refreshes /\ jobs[f].at = "free"
    BY <2>2, SlotFree
  <2> HIDE DEF f
  <2>4. job'[f] = Queued(dialog) /\ \A g \in Refreshes \ {f} : job'[g] = job[g]
    BY <2>1, <2>3 DEF JobsOK, Jobs
  <2>5. ASSUME doubled' = 0
        PROVE  Single'
    <3>1. Single
      BY <2>5 DEF RefreshFlags
    <3>2. Under(job) = {}
      BY <1>2, <3>1 DEF Single
    <3>3. Queued(dialog).at = "queued" /\ Queued(dialog).loaded = None
      BY DEF Queued, NoJob
    <3>4. Under(job') = {f}
      BY <2>3, <2>4, <3>2, <3>3 DEF Under
    <3>5. ASSUME NEW g \in Refreshes
          PROVE  /\ job'[g].at = "asking" => last' = "failure"
                 /\ job'[g].loaded # None =>
                       pending' \/ AtLeast(Versions(job'[g].loaded), announced')
      <4>1. CASE g = f
        BY <2>4, <3>3, <4>1
      <4>2. CASE g # f
        <5>1. job'[g] = job[g] /\ job[g].at = "free"
          BY <2>4, <3>2, <4>2 DEF Under
        <5>2. job[g].loaded = None
          BY <5>1 DEF JobsOK, JobOK, JobShape, Jobs
        <5> QED BY <5>1, <5>2
      <4> QED BY <4>1, <4>2
    <3> QED BY <2>1, <2>3, <3>4, <3>5 DEF Single
  <2>6. ~pending
    BY <1>2 DEF RefreshFlags
  <2> QED BY <2>1, <2>3, <2>5, <2>6 DEF RefreshFlags
<1> QED BY <1>1, <1>2

(* A refresh that ends starts the one that is pending, or leaves a dashboard that is up
   to date or was told of the failure. *)
LEMMA FlagsDone ==
    ASSUME RefreshFlags, JobsOK(job, rows), inflight \in BOOLEAN, pending \in BOOLEAN,
           doubled \in Nat, NEW j \in Refreshes, job[j].at # "free",
           RefreshDone([job EXCEPT ![j] = NoJob], j), UNCHANGED <<announced, doubled>>,
           doubled = 0 /\ ~pending => UpToDate' \/ last' # "success"
    PROVE  /\ RefreshFlags'
           /\ LET ended == [job EXCEPT ![j] = NoJob]
              IN  \/ job' = ended
                  \/ \E f \in Refreshes : /\ ended[f].at = "free"
                                          /\ job' = [ended EXCEPT ![f] = Queued(job[j].dialog)]
<1> DEFINE ended == [job EXCEPT ![j] = NoJob]
<1>1. /\ pending' = FALSE /\ inflight' = pending
      /\ job' = IF pending
                THEN [ended EXCEPT ![Slot(Refreshes, ended)] = Queued(job[j].dialog)]
                ELSE ended
  BY DEF RefreshDone
<1>2. ended[j] = NoJob /\ \A g \in Refreshes \ {j} : ended[g] = job[g]
  BY DEF JobsOK, Jobs
<1>3. DOMAIN ended = Jobs /\ j \in Jobs
  BY DEF JobsOK, Jobs
<1> HIDE DEF ended
<1>4. NoJob.at = "free" /\ NoJob.loaded = None
  BY DEF NoJob
<1>5. FreeSlots(Refreshes, ended) # {}
  BY <1>2, <1>4 DEF FreeSlots
<1>6. PICK f : f = Slot(Refreshes, ended)
  OBVIOUS
<1>7. f \in Refreshes /\ ended[f].at = "free"
  BY <1>5, <1>6, SlotFree
<1>8. doubled = 0 => \A g \in Refreshes \ {j} : ended[g].at = "free" /\ ended[g].loaded = None
  <2> SUFFICES ASSUME doubled = 0, NEW g \in Refreshes \ {j}
               PROVE  job[g].at = "free" /\ job[g].loaded = None
    BY <1>2
  <2>1. Single
    BY DEF RefreshFlags
  <2>2. job[g].at = "free"
    BY <2>1 DEF Single, Under
  <2> QED BY <2>2 DEF JobsOK, JobOK, JobShape, Jobs
<1>9. CASE pending
  <2>1. job' = [ended EXCEPT ![f] = Queued(job[j].dialog)]
    BY <1>1, <1>6, <1>9
  <2>2. job'[f] = Queued(job[j].dialog) /\ \A g \in Refreshes \ {f} : job'[g] = ended[g]
    BY <1>3, <1>7, <2>1 DEF Jobs
  <2>3. Queued(job[j].dialog).at = "queued" /\ Queued(job[j].dialog).loaded = None
    BY DEF Queued, NoJob
  <2>4. ASSUME doubled' = 0
        PROVE  Single'
    <3>1. \A g \in Refreshes \ {f} : job'[g].at = "free" /\ job'[g].loaded = None
      BY <1>2, <1>4, <1>8, <2>2, <2>4
    <3>2. Under(job') = {f}
      BY <1>7, <2>2, <2>3, <3>1 DEF Under
    <3>3. \A g \in Refreshes : job'[g].at # "asking" /\ job'[g].loaded = None
      BY <2>2, <2>3, <3>1
    <3> QED BY <1>1, <1>7, <1>9, <3>2, <3>3 DEF Single
  <2> QED BY <1>1, <1>7, <1>9, <2>1, <2>4 DEF RefreshFlags, ended
<1>10. CASE ~pending
  <2>1. job' = ended
    BY <1>1, <1>10
  <2>2. ASSUME doubled' = 0
        PROVE  Single'
    <3>1. \A g \in Refreshes : job'[g].at = "free" /\ job'[g].loaded = None
      BY <1>2, <1>4, <1>8, <2>1, <2>2
    <3>2. Under(job') = {}
      BY <3>1 DEF Under
    <3>3. UpToDate' \/ last' # "success"
      BY <1>10, <2>2
    <3> QED BY <1>1, <1>10, <3>1, <3>2, <3>3 DEF Single
  <2> QED BY <1>1, <1>5, <1>10, <2>1, <2>2 DEF RefreshFlags, ended
<1> QED BY <1>9, <1>10

-----------------------------------------------------------------------------
(* What the steps have in common *)

(* The parts of IInv that are left when the rows stay. *)
LEMMA RowsStay ==
    ASSUME IInv, UNCHANGED dbVars, Types', DialogOK', OneWriter', RefreshFlags',
           JobsOK(job', rows), QuestionsOpen(questions', job'),
           announced' = announced \/ announced' = Versions(rows)
    PROVE  IInv'
<1>1. rows' = rows
  BY DEF dbVars
<1>2. NothingAhead'
  <2>1. EditsMade' = EditsMade
    BY <1>1 DEF EditsMade
  <2>2. rows \in Tables
    BY DEF IInv, TypeOK
  <2>3. \A r \in Rows : Versions(rows)[r] \in Nat
    BY <2>2 DEF Versions, Tables, RowStates
  <2>4. AtLeast(Versions(rows), announced')
    BY <2>3 DEF IInv, NothingAhead, AtLeast
  <2> QED BY <1>1, <2>1, <2>4 DEF IInv, NothingAhead
<1>3. JobsOK(job', rows') /\ QuestionsOpen(questions', job')
  BY <1>1
<1>4. TypeOK'
  BY <1>3 DEF TypeOK, Types, JobsOK, QuestionsOpen
<1> QED BY <1>2, <1>3, <1>4 DEF IInv

(* The types hold of what a step leaves alone. *)
LEMMA TypesHold == ASSUME IInv PROVE Types
BY DEF IInv, TypeOK, Types

(* One handle moves on: its transaction and its part in the view stay as they are. *)
LEMMA OneJob ==
    ASSUME IInv, NEW j \in Jobs, NEW h, job' = [job EXCEPT ![j] = h], JobOK(j, h, rows),
           UNCHANGED <<questions, dbVars, ui, viewVars, announced>>,
           levelable' \in BOOLEAN, started' \in 0..MaxActs,
           j \in Shifts => Written(h) = Written(job[j]),
           job[j].at = "asking" <=> h.at = "asking",
           j \in Refreshes =>
              /\ h.at = "free" <=> job[j].at = "free"
              /\ h.loaded # None => h.loaded = job[j].loaded \/ h.loaded = rows
    PROVE  IInv'
<1>1. JobsOK(job', rows)
  BY JobSet DEF IInv
<1>2. job'[j] = h /\ \A g \in Jobs \ {j} : job'[g] = job[g]
  BY DEF IInv, JobsOK
<1>3. QuestionsOpen(questions', job')
  <2>1. \A g \in Jobs : job[g].at = "asking" => job'[g].at = "asking"
    BY <1>2
  <2>2. QuestionsOpen(questions, job)
    BY DEF IInv
  <2>3. QuestionsOpen(questions, job')
    BY <2>1, <2>2, QuestionsStay DEF QuestionsOpen
  <2> QED BY <2>3
<1>4. OneWriter'
  <2>1. \A g \in Shifts : Written(job'[g]) = Written(job[g])
    BY <1>2 DEF Jobs
  <2>2. OneWriter /\ UNCHANGED dbVars /\ ui' = ui
    BY DEF IInv
  <2> QED BY <2>1, <2>2, WriterKept
<1>5. RefreshFlags'
  <2>1. AtLeast(Versions(rows), announced)
    BY DEF IInv, NothingAhead
  <2>2. \A f \in Refreshes :
              /\ job'[f].at = "free" <=> job[f].at = "free"
              /\ job'[f].at = "asking" => job[f].at = "asking"
              /\ job'[f].loaded # None =>
                    \/ job'[f].loaded = job[f].loaded
                    \/ AtLeast(Versions(job'[f].loaded), announced)
    BY <1>2, <2>1 DEF Jobs
  <2> QED BY <2>2, FlagsKept DEF IInv
<1>6. Types' /\ DialogOK'
  BY TypesHold DEF IInv, Types, DialogOK, dbVars, viewVars
<1> QED BY <1>1, <1>3, <1>4, <1>5, <1>6, RowsStay

(* Only the dialog changes, and not into or out of a transaction. *)
LEMMA DialogOnly ==
    ASSUME IInv, UNCHANGED <<questions, dbVars, job, viewVars, levelable, announced, started>>,
           ui.at # "flushed", ui'.at # "flushed", DialogOK',
           ui' \in [at : {"idle", "dialog", "saving", "flushed", "committed"},
                    edit : Edits \cup {None}, row : Rows \cup {None},
                    opened : RowStates \cup {None}]
    PROVE  IInv'
<1>1. OneWriter'
  BY WriterKept DEF IInv
<1>2. RefreshFlags'
  BY FlagsKept DEF IInv
<1>3. Types'
  BY TypesHold DEF Types, dbVars, viewVars
<1>4. JobsOK(job', rows) /\ QuestionsOpen(questions', job')
  BY DEF IInv
<1> QED BY <1>1, <1>2, <1>3, <1>4, RowsStay

(* Refreshes, as they start and end on the UI thread.  jobs: the handles before the view
   looks for a free one; next: as the step leaves them. *)
LEMMA SlotTaken ==
    ASSUME NEW jobs, JobsOK(jobs, rows), NEW dialog \in BOOLEAN, NEW next,
           \/ next = jobs
           \/ \E f \in Refreshes : /\ jobs[f].at = "free"
                                   /\ next = [jobs EXCEPT ![f] = Queued(dialog)]
    PROVE  /\ JobsOK(next, rows)
           /\ \A g \in Shifts : next[g] = jobs[g]
           /\ \A g \in Jobs : jobs[g].at = "asking" => next[g].at = "asking"
<1>1. CASE next = jobs
  BY <1>1
<1>2. ASSUME NEW f \in Refreshes, jobs[f].at = "free",
             next = [jobs EXCEPT ![f] = Queued(dialog)]
      PROVE  /\ JobsOK(next, rows)
             /\ \A g \in Shifts : next[g] = jobs[g]
             /\ \A g \in Jobs : jobs[g].at = "asking" => next[g].at = "asking"
  <2>1. JobOK(f, Queued(dialog), rows)
    BY FreshJobs DEF Jobs
  <2>2. JobsOK(next, rows)
    BY <1>2, <2>1, JobSet DEF Jobs
  <2>3. \A g \in Jobs \ {f} : next[g] = jobs[g]
    BY <1>2 DEF JobsOK
  <2>4. \A g \in Shifts : next[g] = jobs[g]
    BY <2>3, JobAssumption DEF Jobs
  <2> QED BY <1>2, <2>2, <2>3, <2>4
<1> QED BY <1>1, <1>2

(* A step that requests a refresh, with the announcement that asks for it or without;
   jobs: the handles before the view looks for a free one. *)
LEMMA RequestMade ==
    ASSUME IInv, NEW jobs, JobsOK(jobs, rows), NEW dialog \in BOOLEAN,
           RequestRefresh(jobs, dialog),
           \A f \in Refreshes : jobs[f] = job[f],
           \A g \in Shifts : Written(jobs[g]) = Written(job[g]),
           \A g \in Jobs : job[g].at = "asking" => jobs[g].at = "asking",
           UNCHANGED <<questions, dbVars, shown, last, doubled, started>>,
           levelable' \in BOOLEAN,
           ui' = ui \/ (ui' = Idle /\ ui.at # "flushed"),
           announced' = announced \/ announced' = Versions(rows)
    PROVE  IInv'
<1>1. UNCHANGED <<shown, last, doubled>>
  OBVIOUS
<1>2. /\ RefreshFlags /\ JobsOK(job, rows) /\ inflight \in BOOLEAN /\ doubled \in Nat
  BY DEF IInv, TypeOK
<1>3. /\ RefreshFlags'
      /\ \/ job' = jobs
         \/ \E f \in Refreshes : /\ jobs[f].at = "free"
                                 /\ job' = [jobs EXCEPT ![f] = Queued(dialog)]
  BY <1>1, <1>2, FlagsRequested
<1>4. /\ JobsOK(job', rows)
      /\ \A g \in Shifts : job'[g] = jobs[g]
      /\ \A g \in Jobs : jobs[g].at = "asking" => job'[g].at = "asking"
  <2>1. PICK next : next = job'
    OBVIOUS
  <2>2. \/ next = jobs
        \/ \E f \in Refreshes : /\ jobs[f].at = "free"
                                /\ next = [jobs EXCEPT ![f] = Queued(dialog)]
    BY <1>3, <2>1
  <2>3. /\ JobsOK(next, rows)
        /\ \A g \in Shifts : next[g] = jobs[g]
        /\ \A g \in Jobs : jobs[g].at = "asking" => next[g].at = "asking"
    BY <2>2, SlotTaken
  <2> QED BY <2>1, <2>3
<1>5. QuestionsOpen(questions', job')
  <2>1. QuestionsOpen(questions, job)
    BY DEF IInv
  <2>2. \A g \in Jobs : job[g].at = "asking" => job'[g].at = "asking"
    BY <1>4
  <2> QED BY <2>1, <2>2, QuestionsStay
<1>6. OneWriter'
  <2>1. \A g \in Shifts : Written(job'[g]) = Written(job[g])
    BY <1>4
  <2>2. OneWriter /\ UNCHANGED dbVars
    BY DEF IInv
  <2>3. ui' = ui \/ (ui.at # "flushed" /\ ui'.at # "flushed")
    BY DEF Idle
  <2> QED BY <2>1, <2>2, <2>3, WriterKept
<1>7. rows \in Tables
  BY DEF IInv, TypeOK
<1>8. Types'
  <2>1. Versions(rows) \in [Rows -> Nat]
    BY <1>7 DEF Versions, Tables, RowStates
  <2>2. /\ announced' \in [Rows -> Nat]
        /\ inflight' \in BOOLEAN /\ pending' \in BOOLEAN
    BY <1>2, <2>1 DEF IInv, TypeOK, RequestRefresh
  <2>3. ui' \in [at : {"idle", "dialog", "saving", "flushed", "committed"},
                 edit : Edits \cup {None}, row : Rows \cup {None},
                 opened : RowStates \cup {None}]
    BY DEF IInv, TypeOK, Idle
  <2> QED BY <2>2, <2>3, TypesHold DEF Types, dbVars
<1>9. DialogOK'
  BY DEF IInv, DialogOK, dbVars, Idle
<1> QED BY <1>3, <1>4, <1>5, <1>6, <1>8, <1>9, RowsStay

(* A handle that ends, and what the view makes of it. *)
LEMMA JobEnded ==
    ASSUME IInv, NEW j \in Jobs, Written(job[j]) = {}
    PROVE  LET ended == [job EXCEPT ![j] = NoJob]
           IN  /\ JobsOK(ended, rows)
               /\ \A g \in Shifts : Written(ended[g]) = Written(job[g])
               /\ \A g \in Jobs \ {j} : ended[g] = job[g]
<1> DEFINE ended == [job EXCEPT ![j] = NoJob]
<1>1. JobOK(j, NoJob, rows)
  BY FreshJobs
<1>2. JobsOK(ended, rows)
  BY <1>1, JobSet DEF IInv
<1>3. ended[j] = NoJob /\ \A g \in Jobs \ {j} : ended[g] = job[g]
  BY DEF IInv, JobsOK
<1>4. Written(NoJob) = {}
  BY DEF Written, NoJob
<1> QED BY <1>2, <1>3, <1>4 DEF Jobs

-----------------------------------------------------------------------------
(* The user *)

(* The dashboard's button starts a refresh. *)
LEMMA RefreshPressed == ASSUME IInv, PressRefresh PROVE IInv'
<1>1. PICK dialog \in BOOLEAN : RequestRefresh(job, dialog)
  BY DEF PressRefresh
<1>2. JobsOK(job, rows)
  BY DEF IInv
<1>3. UNCHANGED <<questions, dbVars, ui, shown, last, doubled, started, announced, levelable>>
  BY DEF PressRefresh
<1>4. levelable' \in BOOLEAN
  BY <1>3 DEF IInv, TypeOK
<1> QED BY <1>1, <1>2, <1>3, <1>4, RequestMade

(* A shift is queued on a free handle. *)
LEMMA ShiftStarted == ASSUME IInv, NEW r \in Leaves, StartShift(r) PROVE IInv'
<1> DEFINE j == Slot(Shifts, job)
           h == [Queued(TRUE) EXCEPT !.row = r]
<1>1. j \in Shifts /\ job[j].at = "free"
  BY SlotFree DEF StartShift
<1>2. job' = [job EXCEPT ![j] = h]
  BY DEF StartShift
<1>3. j \in Jobs /\ JobOK(j, h, rows)
  BY <1>1, FreshJobs DEF Jobs
<1>4. h.at = "queued" /\ Written(h) = {}
  BY DEF Written, Queued, NoJob
<1>5. Written(job[j]) = {}
  BY <1>1 DEF Written
<1>6. started' \in 0..MaxActs
  <2>1. started \in Nat /\ doubled \in Nat /\ MaxActs \in Nat
    BY JobAssumption DEF IInv, TypeOK
  <2>2. Cardinality(EditsMade) \in Nat
    BY FS_CardinalityType DEF IInv, NothingAhead
  <2> QED BY <2>1, <2>2 DEF StartShift, MayAct
<1>7. /\ UNCHANGED <<questions, dbVars, ui, viewVars, announced>>
      /\ levelable' \in BOOLEAN
  BY DEF StartShift
<1>8. j \notin Refreshes
  BY <1>1, JobAssumption
<1> HIDE DEF j, h
<1> QED BY <1>1, <1>2, <1>3, <1>4, <1>5, <1>6, <1>7, <1>8, OneJob

(* Cancelling only sets the token. *)
LEMMA CancelRequested == ASSUME IInv, NEW j \in Jobs, RequestCancel(j) PROVE IInv'
<1> DEFINE h == [job[j] EXCEPT !.cancelled = TRUE]
<1>1. job' = [job EXCEPT ![j] = h]
  BY DEF RequestCancel
<1>2. JobOK(j, job[j], rows) /\ job[j] \in JobRows
  BY DEF IInv, JobsOK
<1>3. /\ h \in JobRows /\ h.at = job[j].at /\ h.row = job[j].row /\ h.loaded = job[j].loaded
      /\ h.todo = job[j].todo /\ h.outcome = job[j].outcome
  BY <1>2 DEF JobRows
<1> HIDE DEF h
<1>4. JobOK(j, h, rows)
  BY <1>2, <1>3 DEF JobOK, JobShape
<1>5. Written(h) = Written(job[j])
  BY <1>3 DEF Written
<1>6. /\ UNCHANGED <<questions, dbVars, ui, viewVars, announced>>
      /\ levelable' \in BOOLEAN /\ started' \in 0..MaxActs
  BY DEF RequestCancel, IInv, TypeOK
<1> QED BY <1>1, <1>3, <1>4, <1>5, <1>6, OneJob

(* The dialog opens on a row as it is. *)
LEMMA DialogOpened == ASSUME IInv, NEW r \in Rows, OpenDialog(r) PROVE IInv'
<1> DEFINE e == CHOOSE e \in Edits \ EditsMade : TRUE
<1>1. e \in Edits
  BY DEF OpenDialog
<1>2. ui' = [at |-> "dialog", edit |-> e, row |-> r, opened |-> rows[r]]
  BY DEF OpenDialog
<1> HIDE DEF e
<1>3. rows[r] \in RowStates /\ rows' = rows
  BY DEF IInv, TypeOK, Tables, OpenDialog, dbVars
<1>4. DialogOK'
  BY <1>1, <1>2, <1>3 DEF DialogOK, Behind, RowStates
<1>5. ui.at # "flushed" /\ ui'.at # "flushed"
  BY <1>2 DEF OpenDialog, WindowFree
<1>6. ui' \in [at : {"idle", "dialog", "saving", "flushed", "committed"},
               edit : Edits \cup {None}, row : Rows \cup {None},
               opened : RowStates \cup {None}]
  BY <1>1, <1>2, <1>3
<1>7. UNCHANGED <<questions, dbVars, job, viewVars, levelable, announced, started>>
  BY DEF OpenDialog
<1> QED BY <1>4, <1>5, <1>6, <1>7, DialogOnly

(* The dialog is left: closed, refused, locked out, or saved without being told of. *)
LEMMA DialogLeft ==
    ASSUME IInv, ui' = Idle, ui.at # "flushed",
           UNCHANGED <<questions, dbVars, job, viewVars, levelable, announced, started>>
    PROVE  IInv'
<1>1. ui'.at = "idle" /\ ui'.edit = None /\ ui'.row = None /\ ui'.opened = None
  BY DEF Idle
<1>2. DialogOK'
  BY <1>1 DEF DialogOK
<1>3. ui' \in [at : {"idle", "dialog", "saving", "flushed", "committed"},
               edit : Edits \cup {None}, row : Rows \cup {None},
               opened : RowStates \cup {None}]
  BY DEF Idle
<1> QED BY <1>1, <1>2, <1>3, DialogOnly

(* A save begins on a row that is as it was, or does not begin. *)
LEMMA SaveBegun == ASSUME IInv, SaveDialog PROVE IInv'
<1>1. /\ ui.at = "dialog"
      /\ UNCHANGED <<questions, dbVars, job, viewVars, levelable, announced, started>>
  BY DEF SaveDialog
<1>2. CASE ~UnchangedSinceOpened
  BY <1>1, <1>2, DialogLeft DEF SaveDialog
<1>3. CASE UnchangedSinceOpened
  <2>1. ui' = [ui EXCEPT !.at = "saving", !.opened.version = rows[ui.row].version]
    BY <1>3 DEF SaveDialog
  <2>2. /\ ui.row \in Rows /\ ui.opened \in RowStates /\ ui.edit \in Edits
        /\ Behind(ui.opened, rows[ui.row])
    BY <1>1 DEF IInv, DialogOK
  <2>3. rows[ui.row].version = ui.opened.version
    BY <1>3 DEF UnchangedSinceOpened
  <2>4. ui \in [at : {"idle", "dialog", "saving", "flushed", "committed"},
                edit : Edits \cup {None}, row : Rows \cup {None},
                opened : RowStates \cup {None}]
    BY DEF IInv, TypeOK
  <2>5. /\ ui'.at = "saving" /\ ui'.edit = ui.edit /\ ui'.row = ui.row
        /\ ui'.opened = ui.opened
    <3>1. [ui.opened EXCEPT !.version = rows[ui.row].version] = ui.opened
      BY <2>2, <2>3 DEF RowStates
    <3> QED BY <2>1, <2>4, <3>1
  <2>6. ui' \in [at : {"idle", "dialog", "saving", "flushed", "committed"},
                 edit : Edits \cup {None}, row : Rows \cup {None},
                 opened : RowStates \cup {None}]
    BY <2>1, <2>2, <2>3, <2>4 DEF RowStates
  <2>7. DialogOK'
    BY <1>1, <2>2, <2>5 DEF DialogOK, dbVars
  <2> QED BY <1>1, <2>5, <2>6, <2>7, DialogOnly
<1> QED BY <1>2, <1>3

-----------------------------------------------------------------------------
(* Transactions *)

(* A session that does not hold the lock has written nothing. *)
LEMMA NothingWritten ==
    ASSUME IInv, NEW j \in Jobs, writer # j
    PROVE  Written(job[j]) = {} \/ j \in Refreshes
BY DEF IInv, OneWriter, Jobs

(* The row that a session updates is the one it has read, when the version is. *)
LEMMA SameRow ==
    ASSUME NEW old, NEW now, Behind(old, now), old.version = now.version
    PROVE  old.content = now.content
BY DEF Behind

(* The first flush of the save takes the lock with the edited row. *)
LEMMA SaveFlushed == ASSUME IInv, FlushSave PROVE IInv'
<1>1. ui.at = "saving" /\ MayWrite(UI)
  BY DEF FlushSave
<1>2. writer = None
  BY <1>1 DEF MayWrite, IInv, OneWriter
<1>3. UI # None /\ UI \notin Jobs
  BY JobAssumption
<1>4. Seen(UI, ui.row) = rows[ui.row]
  BY <1>2, <1>3 DEF Seen
<1>5. CASE ~VersionMatches(UI, ui.row, ui.opened.version)
  <2>1. /\ UNCHANGED <<questions, dbVars, job, viewVars, levelable, announced, started>>
        /\ ui' = Idle
    BY <1>2, <1>3, <1>5 DEF FlushSave, Rollback, dbVars
  <2> QED BY <1>1, <2>1, DialogLeft
<1>6. CASE VersionMatches(UI, ui.row, ui.opened.version)
  <2>1. /\ UpdateWithVersionCheck(UI, ui.row, ui.opened.version,
                                  ui.opened.content \cup {ui.edit})
        /\ ui' = [ui EXCEPT !.at = "flushed"]
        /\ UNCHANGED <<questions, job, viewVars, levelable, announced, started>>
    BY <1>6 DEF FlushSave
  <2>2. /\ ui.row \in Rows /\ ui.opened \in RowStates /\ ui.edit \in Edits
        /\ Behind(ui.opened, rows[ui.row])
    BY <1>1 DEF IInv, DialogOK
  <2>3. rows[ui.row].version = ui.opened.version
    BY <1>4, <1>6 DEF VersionMatches
  <2>4. rows[ui.row].content = ui.opened.content
    BY <2>2, <2>3, SameRow
  <2>5. rows \in Tables
    BY DEF IInv, TypeOK
  <2>6. /\ writer' = UI /\ rows' = rows
        /\ dirty' = [rows EXCEPT ![ui.row] = [version |-> rows[ui.row].version + 1,
                                             content |-> rows[ui.row].content \cup {ui.edit}]]
    BY <1>2, <1>3, <2>1, <2>3, <2>4 DEF UpdateWithVersionCheck
  <2>7. dirty' = Edited(rows, ui.edit, {ui.row})
    BY <2>2, <2>5, <2>6 DEF Edited, Tables
  <2>8. ui'.at = "flushed" /\ ui'.edit = ui.edit /\ ui'.row = ui.row /\ ui'.opened = ui.opened
    BY <2>1 DEF IInv, TypeOK
  <2>9. OneWriter'
    <3>1. ASSUME NEW g \in Shifts
          PROVE  writer' # g /\ Written(job'[g]) = {}
      <4>1. writer # g /\ writer' # g
        BY <1>2, <1>3, <2>6, JobAssumption DEF Jobs
      <4>2. job' = job
        BY <2>1
      <4> QED BY <4>1, <4>2 DEF IInv, OneWriter
    <3>2. writer' \notin Refreshes
      BY <1>3, <2>6 DEF Jobs
    <3> QED BY <2>6, <2>7, <2>8, <3>1, <3>2 DEF OneWriter
  <2>10. RefreshFlags'
    BY <2>1, FlagsKept DEF IInv
  <2>11. DialogOK'
    BY <2>2, <2>6, <2>8 DEF DialogOK
  <2>12. dirty' \in Tables
    BY <2>2, <2>5, <2>7, EditedRows
  <2>13. Types'
    BY <2>1, <2>6, <2>12, TypesHold DEF Types, viewVars
  <2>14. JobsOK(job', rows') /\ QuestionsOpen(questions', job')
    BY <2>1, <2>6 DEF IInv
  <2>15. NothingAhead'
    BY <2>1, <2>6 DEF IInv, NothingAhead, EditsMade
  <2>16. TypeOK'
    BY <2>13, <2>14 DEF Types, TypeOK, JobsOK, QuestionsOpen
  <2> QED BY <2>9, <2>10, <2>11, <2>14, <2>15, <2>16 DEF IInv
<1> QED BY <1>5, <1>6

(* The rows, the dialog and the announcements after a commit. *)
LEMMA RowsAdvance ==
    ASSUME IInv, Commit, NEW e \in Edits \cup Shifts, NEW about, dirty = Edited(rows, e, about),
           UNCHANGED announced
    PROVE  /\ rows' \in Tables /\ dirty' \in Tables /\ writer' = None
           /\ Read(rows, rows')
           /\ \A h \in RowStates, r \in Rows : Behind(h, rows[r]) => Behind(h, rows'[r])
           /\ NothingAhead'
<1>1. rows \in Tables
  BY DEF IInv, TypeOK
<1>2. /\ rows' = Edited(rows, e, about) /\ dirty' = dirty /\ writer' = None
  BY DEF Commit
<1>3. rows' \in Tables /\ dirty' \in Tables /\ Read(rows, rows')
  BY <1>1, <1>2, EditedRows
<1>4. ASSUME NEW h \in RowStates, NEW r \in Rows, Behind(h, rows[r])
      PROVE  Behind(h, rows'[r])
  <2>1. Behind(rows[r], rows'[r])
    BY <1>3 DEF Read
  <2>2. h.version \in Nat /\ rows[r].version \in Nat /\ rows'[r].version \in Nat
    BY <1>1, <1>3 DEF Tables, RowStates
  <2> QED BY <1>4, <2>1, <2>2 DEF Behind
<1>5. IsFiniteSet(EditsMade')
  <2>1. \A r \in Rows : rows'[r].content \subseteq rows[r].content \cup {e}
    <3> SUFFICES ASSUME NEW r \in Rows
                 PROVE  rows'[r].content \subseteq rows[r].content \cup {e}
      OBVIOUS
    <3>1. CASE r \in about
      BY <1>2, <3>1 DEF Edited
    <3>2. CASE r \notin about
      BY <1>2, <3>2 DEF Edited
    <3> QED BY <3>1, <3>2
  <2>2. EditsMade' \subseteq EditsMade \cup {e}
    <3> SUFFICES ASSUME NEW x \in EditsMade'
                 PROVE  x \in EditsMade \cup {e}
      OBVIOUS
    <3>1. x \in Edits /\ \E r \in Rows : x \in rows'[r].content
      BY DEF EditsMade
    <3>2. PICK r \in Rows : x \in rows'[r].content
      BY <3>1
    <3>3. x \in rows[r].content \cup {e}
      BY <2>1, <3>2
    <3>4. ASSUME x \in rows[r].content
          PROVE  x \in EditsMade
      BY <3>1, <3>4 DEF EditsMade
    <3> QED BY <3>3, <3>4
  <2>3. IsFiniteSet(EditsMade \cup {e})
    BY FS_AddElement DEF IInv, NothingAhead
  <2> QED BY <2>2, <2>3, FS_Subset
<1>6. AtLeast(Versions(rows'), announced')
  <2> SUFFICES ASSUME NEW r \in Rows
               PROVE  rows'[r].version >= announced[r]
    BY DEF AtLeast, Versions
  <2>1. rows[r].version >= announced[r]
    BY DEF IInv, NothingAhead, AtLeast, Versions
  <2>2. Behind(rows[r], rows'[r])
    BY <1>3 DEF Read
  <2>3. rows[r].version \in Nat /\ rows'[r].version \in Nat /\ announced[r] \in Nat
    BY <1>1, <1>3 DEF Tables, RowStates, IInv, TypeOK
  <2> QED BY <2>1, <2>2, <2>3 DEF Behind
<1> QED BY <1>2, <1>3, <1>4, <1>5, <1>6 DEF NothingAhead

(* The commit of the save. *)
LEMMA SaveCommitted == ASSUME IInv, CommitSave PROVE IInv'
<1>1. /\ ui.at = "flushed" /\ Commit /\ ui' = [ui EXCEPT !.at = "committed"]
      /\ UNCHANGED <<questions, job, viewVars, levelable, announced, started>>
  BY DEF CommitSave
<1>2. writer = UI /\ dirty = Edited(rows, ui.edit, {ui.row})
  BY <1>1 DEF IInv, OneWriter
<1>3. /\ ui.row \in Rows /\ ui.opened \in RowStates /\ ui.edit \in Edits
      /\ Behind(ui.opened, rows[ui.row])
  BY <1>1 DEF IInv, DialogOK
<1>4. /\ rows' \in Tables /\ dirty' \in Tables /\ writer' = None
      /\ Read(rows, rows')
      /\ \A h \in RowStates, r \in Rows : Behind(h, rows[r]) => Behind(h, rows'[r])
      /\ NothingAhead'
  BY <1>1, <1>2, <1>3, RowsAdvance
<1>5. ui'.at = "committed" /\ ui'.edit = ui.edit /\ ui'.row = ui.row /\ ui'.opened = ui.opened
  BY <1>1 DEF IInv, TypeOK
<1>6. DialogOK'
  BY <1>3, <1>4, <1>5 DEF DialogOK
<1>7. JobsOK(job', rows')
  <2>1. rows \in Tables /\ JobsOK(job, rows)
    BY DEF IInv, TypeOK
  <2>2. JobsOK(job, rows')
    BY <1>4, <2>1, JobsLater
  <2> QED BY <1>1, <2>2
<1>8. QuestionsOpen(questions', job')
  BY <1>1 DEF IInv
<1>9. OneWriter'
  <2>1. ASSUME NEW g \in Shifts
        PROVE  writer' # g /\ Written(job'[g]) = {}
    <3>1. writer # g /\ writer' # g
      BY <1>2, <1>4, JobAssumption DEF Jobs
    <3>2. job' = job
      BY <1>1
    <3> QED BY <3>1, <3>2 DEF IInv, OneWriter
  <2> QED BY <1>4, <1>5, <2>1, JobAssumption DEF OneWriter, Jobs
<1>10. RefreshFlags'
  BY <1>1, FlagsKept DEF IInv
<1>11. Types'
  BY <1>1, <1>4, TypesHold DEF Types, viewVars
<1>12. TypeOK'
  BY <1>7, <1>8, <1>11, TypesSuffice DEF Types, TypeOK, JobsOK, QuestionsOpen
<1> QED BY <1>4, <1>6, <1>7, <1>8, <1>9, <1>10, <1>12 DEF IInv

(* The save is announced, which asks for a refresh. *)
LEMMA SaveAnnounced == ASSUME IInv, AnnounceSave PROVE IInv'
<1>1. PICK dialog \in BOOLEAN : RequestRefresh(job, dialog)
  BY DEF AnnounceSave
<1>2. JobsOK(job, rows)
  BY DEF IInv
<1>3. /\ UNCHANGED <<questions, dbVars, shown, last, doubled, started, levelable>>
      /\ ui' = Idle /\ ui.at # "flushed" /\ announced' = Versions(rows)
  BY DEF AnnounceSave
<1>4. levelable' \in BOOLEAN
  BY <1>3 DEF IInv, TypeOK
<1> QED BY <1>1, <1>2, <1>3, <1>4, RequestMade

-----------------------------------------------------------------------------
(* The worker threads *)

(* A job that returns holds at most what it had loaded, and no transaction. *)
LEMMA JobReturned ==
    ASSUME IInv, NEW j \in Jobs, NEW outcome \in {"success", "failure", "cancelled"},
           Return(j, outcome), job[j].at # "free",
           j \in Refreshes /\ outcome = "success" => job[j].loaded # None
    PROVE  \E h : /\ job' = [job EXCEPT ![j] = h] /\ JobOK(j, h, rows)
                  /\ h.at = "returned" /\ Written(h) = {}
                  /\ h.loaded # None => h.loaded = job[j].loaded
<1> DEFINE keep == j \in Refreshes /\ outcome = "success"
           kept == IF keep THEN job[j].loaded ELSE None
           h == [job[j] EXCEPT !.at = "returned", !.outcome = outcome, !.loaded = kept,
                               !.todo = {}]
<1>1. JobOK(j, job[j], rows) /\ job[j] \in JobRows
  BY DEF IInv, JobsOK
<1>2. job' = [job EXCEPT ![j] = h]
  BY <1>1 DEF Return, IInv, JobsOK, JobRows
<1>3. /\ h.at = "returned" /\ h.outcome = outcome /\ h.loaded = kept /\ h.todo = {}
      /\ h.row = job[j].row /\ h \in JobRows
  BY <1>1 DEF JobRows, Outcomes
<1> HIDE DEF h
<1>4. outcome # None
  BY NoneAssumption
<1>5. JobOK(j, h, rows)
  BY <1>1, <1>3, <1>4 DEF JobOK, JobShape
<1>6. Written(h) = {}
  BY <1>3 DEF Written
<1> QED BY <1>2, <1>3, <1>5, <1>6

(* A job begins: it reads the rows, or finds its token cancelled. *)
LEMMA WorkBegun == ASSUME IInv, NEW j \in Jobs, BeginWork(j) PROVE IInv'
<1>1. /\ job[j].at = "queued"
      /\ UNCHANGED <<questions, dbVars, ui, viewVars, levelable, announced, started>>
  BY DEF BeginWork
<1>2. levelable' \in BOOLEAN /\ started' \in 0..MaxActs
  BY <1>1 DEF IInv, TypeOK
<1>3. Written(job[j]) = {}
  BY <1>1 DEF Written
<1>4. CASE job[j].cancelled
  <2>1. Return(j, "cancelled")
    BY <1>4 DEF BeginWork
  <2>2. PICK h : /\ job' = [job EXCEPT ![j] = h] /\ JobOK(j, h, rows)
                 /\ h.at = "returned" /\ Written(h) = {}
                 /\ h.loaded # None => h.loaded = job[j].loaded
    BY <1>1, <2>1, JobReturned
  <2> QED BY <1>1, <1>2, <1>3, <2>2, OneJob
<1>5. CASE ~job[j].cancelled
  <2> DEFINE todo == IF j \in Shifts THEN {job[j].row} ELSE {}
             h == [job[j] EXCEPT !.at = "loaded", !.loaded = rows, !.todo = todo]
  <2>1. JobOK(j, job[j], rows) /\ job[j] \in JobRows /\ rows \in Tables
    BY DEF IInv, JobsOK, TypeOK
  <2>2. j \in Shifts => job[j].row \in Rows
    BY <1>1, <2>1, JobAssumption DEF JobOK, JobShape
  <2>3. job' = [job EXCEPT ![j] = h]
    BY <1>5, <2>1 DEF BeginWork, IInv, JobsOK, JobRows
  <2>4. /\ h.at = "loaded" /\ h.loaded = rows /\ h.row = job[j].row /\ h.todo = todo
        /\ h.outcome = job[j].outcome /\ h \in JobRows
    BY <2>1, <2>2 DEF JobRows
  <2> HIDE DEF h
  <2>5. Read(rows, rows)
    BY <2>1 DEF Read, Behind, Tables, RowStates
  <2>6. JobOK(j, h, rows)
    BY <1>1, <2>1, <2>4, <2>5, JobAssumption, NoneAssumption DEF JobOK, JobShape
  <2>7. j \in Shifts => Written(h) = {}
    BY <2>4 DEF Written
  <2> QED BY <1>1, <1>2, <1>3, <2>3, <2>4, <2>6, <2>7, OneJob
<1> QED BY <1>4, <1>5

(* The work of a job is over. *)
LEMMA WorkEnded == ASSUME IInv, NEW j \in Jobs, EndWork(j) PROVE IInv'
<1>1. /\ job[j].at = IF j \in Shifts THEN "written" ELSE "loaded"
      /\ UNCHANGED <<questions, dbVars, ui, viewVars, levelable, announced, started>>
  BY DEF EndWork
<1>2. PICK outcome \in {"success", "failure", "cancelled"} : Return(j, outcome)
  BY DEF EndWork
<1>3. JobOK(j, job[j], rows)
  BY DEF IInv, JobsOK
<1>4. j \in Refreshes => job[j].loaded # None
  BY <1>1, <1>3, JobAssumption DEF JobOK, JobShape
<1>5. job[j].at # "free" /\ job[j].at # "asking"
  BY <1>1
<1>6. PICK h : /\ job' = [job EXCEPT ![j] = h] /\ JobOK(j, h, rows)
               /\ h.at = "returned" /\ Written(h) = {}
               /\ h.loaded # None => h.loaded = job[j].loaded
  BY <1>2, <1>4, <1>5, JobReturned
<1>7. levelable' \in BOOLEAN /\ started' \in 0..MaxActs
  BY <1>1 DEF IInv, TypeOK
<1>8. j \in Shifts => Written(job[j]) = {}
  BY <1>1 DEF Written
<1> QED BY <1>1, <1>5, <1>6, <1>7, <1>8, OneJob

(* One handle moves on while its session writes, commits or rolls back. *)
LEMMA SessionStep ==
    ASSUME IInv, NEW j \in Jobs, NEW h, job' = [job EXCEPT ![j] = h],
           UNCHANGED <<questions, ui, viewVars, levelable, announced, started>>,
           JobOK(j, h, rows'), rows' \in Tables, dirty' \in Tables,
           writer' \in {None, j}, writer # UI, Read(rows, rows'), NothingAhead', DialogOK',
           OneWriter',
           job[j].at # "asking", h.at # "free", job[j].at # "free", h.at # "asking",
           h.loaded = None \/ j \notin Refreshes
    PROVE  IInv'
<1>1. JobsOK(job, rows')
  <2>1. rows \in Tables /\ JobsOK(job, rows)
    BY DEF IInv, TypeOK
  <2> QED BY <2>1, JobsLater
<1>2. JobsOK(job', rows')
  BY <1>1, JobSet
<1>3. job'[j] = h /\ \A g \in Jobs \ {j} : job'[g] = job[g]
  BY DEF IInv, JobsOK
<1>4. QuestionsOpen(questions', job')
  <2>1. \A g \in Jobs : job[g].at = "asking" => job'[g].at = "asking"
    BY <1>3
  <2>2. QuestionsOpen(questions, job)
    BY DEF IInv
  <2> QED BY <2>1, <2>2, QuestionsStay DEF QuestionsOpen
<1>5. RefreshFlags'
  <2>1. \A f \in Refreshes :
              /\ job'[f].at = "free" <=> job[f].at = "free"
              /\ job'[f].at = "asking" => job[f].at = "asking"
              /\ job'[f].loaded # None =>
                    \/ job'[f].loaded = job[f].loaded
                    \/ AtLeast(Versions(job'[f].loaded), announced)
    BY <1>3 DEF Jobs
  <2> QED BY <2>1, FlagsKept DEF IInv
<1>6. Types'
  BY TypesHold DEF Types, viewVars
<1>7. TypeOK'
  BY <1>2, <1>4, <1>6 DEF Types, TypeOK, JobsOK, QuestionsOpen
<1> QED BY <1>2, <1>4, <1>5, <1>7 DEF IInv

(* The end of a job's transaction leaves nobody with something written. *)
LEMMA LockReleased ==
    ASSUME IInv, NEW j \in Jobs, NEW h, job' = [job EXCEPT ![j] = h], writer = j,
           writer' = None, Written(h) = {}, ui' = ui
    PROVE  OneWriter'
<1>1. job'[j] = h /\ \A g \in Jobs \ {j} : job'[g] = job[g]
  BY DEF IInv, JobsOK
<1>2. ASSUME NEW g \in Shifts
      PROVE  writer' # g /\ Written(job'[g]) = {}
  <2>1. CASE g = j
    BY <1>1, <2>1, JobAssumption DEF Jobs
  <2>2. CASE g # j
    BY <1>1, <2>2, JobAssumption DEF Jobs, IInv, OneWriter
  <2> QED BY <2>1, <2>2
<1>3. writer' # UI /\ ui'.at # "flushed" /\ writer' \notin Refreshes
  BY JobAssumption DEF IInv, OneWriter, Jobs
<1> QED BY <1>2, <1>3 DEF OneWriter

(* A job that raises gives up its transaction. *)
LEMMA WorkGivenUp ==
    ASSUME IInv, NEW j \in Jobs, Rollback(j), Return(j, "failure"),
           job[j].at # "free", job[j].at # "asking",
           UNCHANGED <<questions, ui, viewVars, levelable, announced, started>>
    PROVE  IInv'
<1>1. PICK h : /\ job' = [job EXCEPT ![j] = h] /\ JobOK(j, h, rows)
               /\ h.at = "returned" /\ Written(h) = {}
               /\ h.loaded # None => h.loaded = job[j].loaded
  BY JobReturned
<1>2. CASE writer = j
  <2>1. writer' = None /\ rows' = rows /\ dirty' = rows
    BY <1>2 DEF Rollback
  <2>2. rows \in Tables /\ Read(rows, rows)
    BY DEF IInv, TypeOK, Read, Behind, Tables, RowStates
  <2>3. OneWriter'
    BY <1>1, <1>2, <2>1, LockReleased
  <2>4. writer # UI /\ j \notin Refreshes
    BY <1>2, JobAssumption DEF IInv, OneWriter, Jobs
  <2>5. NothingAhead' /\ DialogOK'
    BY <2>1 DEF IInv, NothingAhead, DialogOK, EditsMade
  <2>6. JobOK(j, h, rows')
    BY <1>1, <2>1
  <2> QED BY <1>1, <2>1, <2>2, <2>3, <2>4, <2>5, <2>6, SessionStep
<1>3. CASE writer # j
  <2>1. UNCHANGED dbVars
    BY <1>3 DEF Rollback, dbVars
  <2>2. j \in Shifts => Written(h) = Written(job[j])
    BY <1>1, <1>3, NothingWritten, JobAssumption
  <2>3. levelable' \in BOOLEAN /\ started' \in 0..MaxActs
    BY DEF IInv, TypeOK
  <2> QED BY <1>1, <2>1, <2>2, <2>3, OneJob
<1> QED BY <1>2, <1>3

(* Any exception of the work. *)
LEMMA WorkFailed == ASSUME IInv, NEW j \in Jobs, FailWork(j) PROVE IInv'
BY WorkGivenUp DEF FailWork, Working

(* A write adds the row to those of the transaction. *)
LEMMA RowWritten == ASSUME IInv, NEW j \in Jobs, WriteRow(j) PROVE IInv'
<1> DEFINE r == CHOOSE r \in job[j].todo : TRUE
           read == job[j].loaded[r]
<1>1. /\ Working(j) /\ job[j].todo # {} /\ MayWrite(j)
      /\ UNCHANGED <<questions, ui, viewVars, levelable, announced, started>>
  BY DEF WriteRow
<1>2. JobOK(j, job[j], rows) /\ job[j] \in JobRows /\ rows \in Tables
  BY DEF IInv, JobsOK, TypeOK
<1>3. j \in Shifts /\ j \notin Refreshes /\ job[j].at \in {"loaded", "recalculating"}
  BY <1>1, <1>2, JobAssumption DEF Working, JobOK, JobShape, Jobs
<1>4. CASE ~VersionMatches(j, r, read.version)
  BY <1>1, <1>3, <1>4, WorkGivenUp DEF WriteRow
<1>5. CASE VersionMatches(j, r, read.version)
  <2>1. /\ UpdateWithVersionCheck(j, r, read.version, read.content \cup {j})
        /\ job' = [job EXCEPT ![j].todo = @ \ {r}]
    BY <1>5 DEF WriteRow
  <2>2. r \in job[j].todo /\ r \in Rows
    BY <1>1, <1>2 DEF JobRows
  <2> HIDE DEF r
  <2>3. job[j].loaded # None /\ Behind(read, rows[r])
    BY <1>2, <1>3, <2>2 DEF JobOK, JobShape, Read
  <2> DEFINE before == IF writer = j THEN dirty ELSE rows
             done == Written(job[j])
             h == [job[j] EXCEPT !.todo = @ \ {r}]
  <2>4. before = Edited(rows, j, done)
    <3>1. CASE writer = j
      BY <1>3, <3>1 DEF IInv, OneWriter
    <3>2. CASE writer # j
      <4>1. done = {}
        BY <1>3, <3>2, NothingWritten
      <4>2. Edited(rows, j, {}) = rows
        BY <1>2 DEF Edited, Tables
      <4> QED BY <3>2, <4>1, <4>2
    <3> QED BY <3>1, <3>2
  <2>5. r \notin done
    BY <2>2 DEF Written
  <2>6. Seen(j, r) = rows[r]
    BY <2>2, <2>4, <2>5 DEF Seen, Edited
  <2>7. rows[r].version = read.version
    BY <1>5, <2>6 DEF VersionMatches
  <2>8. rows[r].content = read.content
    BY <2>3, <2>7, SameRow
  <2>9. /\ writer' = j /\ rows' = rows
        /\ dirty' = [before EXCEPT ![r] = [version |-> rows[r].version + 1,
                                           content |-> rows[r].content \cup {j}]]
    BY <2>1, <2>7, <2>8 DEF UpdateWithVersionCheck
  <2> HIDE DEF before
  <2>10. dirty' = Edited(rows, j, done \cup {r})
    <3> HIDE DEF done
    <3> QED BY <2>4, <2>5, <2>9 DEF Edited
  <2>11. job' = [job EXCEPT ![j] = h]
    BY <1>2, <2>1 DEF IInv, JobsOK
  <2>12. /\ h \in JobRows /\ h.at = job[j].at /\ h.row = job[j].row
         /\ h.loaded = job[j].loaded /\ h.todo = job[j].todo \ {r}
         /\ h.outcome = job[j].outcome
    BY <1>2 DEF JobRows
  <2> HIDE DEF h
  <2>13. Written(h) = done \cup {r}
    <3>1. CASE job[j].at = "loaded"
      <4>1. job[j].todo = {job[j].row} /\ r = job[j].row
        BY <1>2, <1>3, <2>2, <3>1 DEF JobOK, JobShape
      <4> QED BY <2>12, <3>1, <4>1 DEF Written
    <3>2. CASE job[j].at = "recalculating"
      BY <2>2, <2>12, <3>2 DEF Written
    <3> QED BY <1>3, <3>1, <3>2
  <2> HIDE DEF done
  <2>14. JobOK(j, h, rows')
    BY <1>2, <1>3, <2>9, <2>12 DEF JobOK, JobShape
  <2>15. writer \in {None, j}
    BY <1>1 DEF MayWrite
  <2>16. OneWriter'
    <3>1. job'[j] = h /\ \A g \in Jobs \ {j} : job'[g] = job[g]
      BY <2>11 DEF IInv, JobsOK
    <3>2. ASSUME NEW g \in Shifts
          PROVE  /\ writer' = g <=> Written(job'[g]) # {}
                 /\ writer' = g => dirty' = Edited(rows', g, Written(job'[g]))
      <4>1. CASE g = j
        BY <2>9, <2>10, <2>13, <3>1, <4>1
      <4>2. CASE g # j
        <5>1. writer # g
          BY <2>15, <4>2, JobAssumption DEF Jobs
        <5>2. Written(job[g]) = {}
          BY <5>1 DEF IInv, OneWriter
        <5> QED BY <2>9, <3>1, <4>2, <5>2 DEF Jobs
      <4> QED BY <4>1, <4>2
    <3>3. writer' # UI /\ ui'.at # "flushed" /\ writer' \notin Refreshes
      BY <1>1, <1>3, <2>9, <2>15, JobAssumption DEF IInv, OneWriter, Jobs
    <3> QED BY <3>2, <3>3 DEF OneWriter
  <2>17. rows' \in Tables /\ dirty' \in Tables /\ Read(rows, rows')
    <3>1. dirty' \in Tables
      BY <1>2, <1>3, <2>10, EditedRows
    <3>2. Read(rows, rows)
      BY <1>2 DEF Read, Behind, Tables, RowStates
    <3> QED BY <1>2, <2>9, <3>1, <3>2
  <2>18. NothingAhead' /\ DialogOK'
    BY <1>1, <2>9 DEF IInv, NothingAhead, DialogOK, EditsMade
  <2>19. writer' \in {None, j} /\ writer # UI
    BY <2>9, <2>15, JobAssumption
  <2>20. job[j].at # "asking" /\ job[j].at # "free" /\ h.at # "free" /\ h.at # "asking"
    BY <1>3, <2>12
  <2> QED BY <1>1, <1>3, <2>11, <2>14, <2>16, <2>17, <2>18, <2>19, <2>20, SessionStep
<1> QED BY <1>4, <1>5

(* The two commits of a shift: of the shifted row, and of the recalculated ones. *)
LEMMA JobCommitted ==
    ASSUME IInv, NEW j \in Shifts, job[j].at \in {"loaded", "recalculating"}, job[j].todo = {},
           Commit, NEW h, job' = [job EXCEPT ![j] = h], Written(h) = {}, JobShape(j, h),
           h.loaded = None \/ h.loaded = dirty, h.at # "free", h.at # "asking",
           UNCHANGED <<questions, ui, viewVars, levelable, announced, started>>
    PROVE  IInv'
<1>1. JobOK(j, job[j], rows) /\ job[j].row \in Rows
  BY JobAssumption DEF IInv, JobsOK, JobOK, JobShape, Jobs
<1>2. Written(job[j]) # {}
  BY <1>1 DEF Written
<1>3. writer = j /\ dirty = Edited(rows, j, Written(job[j]))
  BY <1>2 DEF IInv, OneWriter
<1>4. PICK about : about = Written(job[j])
  OBVIOUS
<1>5. dirty = Edited(rows, j, about)
  BY <1>3, <1>4
<1>6. /\ rows' \in Tables /\ dirty' \in Tables /\ writer' = None
      /\ Read(rows, rows')
      /\ \A o \in RowStates, r \in Rows : Behind(o, rows[r]) => Behind(o, rows'[r])
      /\ NothingAhead'
  BY <1>5, RowsAdvance
<1>7. DialogOK'
  BY <1>6 DEF IInv, DialogOK
<1>8. OneWriter'
  BY <1>3, <1>6, LockReleased DEF Jobs
<1>9. JobOK(j, h, rows')
  <2>1. rows' = dirty
    BY DEF Commit
  <2>2. Read(rows', rows')
    BY <1>6 DEF Read, Behind, Tables, RowStates
  <2> QED BY <2>1, <2>2 DEF JobOK
<1>10. writer # UI /\ j \notin Refreshes
  BY <1>3, JobAssumption DEF Jobs
<1> QED BY <1>6, <1>7, <1>8, <1>9, <1>10, SessionStep DEF Jobs

(* The shift is committed, and the recalculation loads what it has to write. *)
LEMMA ShiftCommitted == ASSUME IInv, NEW j \in Jobs, CommitShift(j) PROVE IInv'
<1> DEFINE h == [job[j] EXCEPT !.at = "recalculating", !.loaded = dirty, !.todo = Rows]
<1>1. /\ j \in Shifts /\ job[j].at = "loaded" /\ job[j].todo = {} /\ Commit
      /\ UNCHANGED <<questions, ui, viewVars, levelable, announced, started>>
  BY DEF CommitShift
<1>2. JobShape(j, job[j]) /\ job[j] \in JobRows /\ dirty \in Tables
  BY DEF IInv, JobsOK, JobOK, TypeOK
<1>3. job' = [job EXCEPT ![j] = h]
  BY <1>2 DEF CommitShift, IInv, JobsOK, JobRows
<1>4. /\ h \in JobRows /\ h.at = "recalculating" /\ h.loaded = dirty /\ h.todo = Rows
      /\ h.row = job[j].row
  BY <1>2 DEF JobRows
<1> HIDE DEF h
<1>5. Written(h) = {}
  BY <1>4 DEF Written
<1>6. JobShape(j, h)
  BY <1>1, <1>2, <1>4, JobAssumption, NoneAssumption DEF JobShape
<1> QED BY <1>1, <1>3, <1>4, <1>5, <1>6, JobCommitted

(* The recalculated rows are committed. *)
LEMMA RecalculationCommitted == ASSUME IInv, NEW j \in Jobs, CommitRecalculation(j) PROVE IInv'
<1> DEFINE h == [job[j] EXCEPT !.at = "written", !.loaded = None]
<1>1. /\ job[j].at = "recalculating" /\ job[j].todo = {} /\ Commit
      /\ UNCHANGED <<questions, ui, viewVars, levelable, announced, started>>
  BY DEF CommitRecalculation
<1>2. JobShape(j, job[j]) /\ job[j] \in JobRows
  BY DEF IInv, JobsOK, JobOK, TypeOK
<1>3. j \in Shifts
  BY <1>1, <1>2 DEF JobShape, Jobs
<1>4. job' = [job EXCEPT ![j] = h]
  BY <1>2 DEF CommitRecalculation, IInv, JobsOK, JobRows
<1>5. /\ h \in JobRows /\ h.at = "written" /\ h.loaded = None /\ h.todo = {}
      /\ h.row = job[j].row
  BY <1>1, <1>2 DEF JobRows
<1> HIDE DEF h
<1>6. Written(h) = {}
  BY <1>5 DEF Written
<1>7. JobShape(j, h)
  BY <1>1, <1>2, <1>3, <1>5, JobAssumption DEF JobShape
<1> QED BY <1>1, <1>3, <1>4, <1>5, <1>6, <1>7, JobCommitted

-----------------------------------------------------------------------------
(* The UI thread handles signals and answers *)

(* The answered question is gone, and the others are those of other handles. *)
LEMMA QuestionAnswered ==
    ASSUME NEW asked, NEW jobs, QuestionsOpen(asked, jobs), asked # <<>>, NEW next,
           \A g \in Jobs \ {Head(asked)} : jobs[g].at = "asking" => next[g].at = "asking"
    PROVE  QuestionsOpen(Tail(asked), next)
<1>1. asked \in Seq(Jobs) /\ Len(asked) \in Nat /\ Len(asked) > 0
  BY DEF QuestionsOpen
<1>2. Head(asked) = asked[1]
  BY <1>1
<1>3. /\ Tail(asked) \in Seq(Jobs) /\ Len(Tail(asked)) = Len(asked) - 1
      /\ \A i \in 1..Len(Tail(asked)) : Tail(asked)[i] = asked[i + 1]
  BY <1>1
<1>4. \A i \in 1..Len(Tail(asked)) : i + 1 \in 1..Len(asked) /\ i + 1 # 1
  BY <1>1, <1>3
<1>5. ASSUME NEW i \in 1..Len(Tail(asked))
      PROVE  next[Tail(asked)[i]].at = "asking"
  <2>1. Tail(asked)[i] = asked[i + 1] /\ i + 1 \in 1..Len(asked) /\ i + 1 # 1
    BY <1>3, <1>4
  <2>2. asked[i + 1] \in Jobs /\ asked[i + 1] # asked[1] /\ jobs[asked[i + 1]].at = "asking"
    BY <1>1, <2>1 DEF QuestionsOpen
  <2> QED BY <1>2, <2>1, <2>2
<1>6. ASSUME NEW i \in 1..Len(Tail(asked)), NEW k \in 1..Len(Tail(asked)), i # k
      PROVE  Tail(asked)[i] # Tail(asked)[k]
  <2>1. /\ Tail(asked)[i] = asked[i + 1] /\ i + 1 \in 1..Len(asked)
        /\ Tail(asked)[k] = asked[k + 1] /\ k + 1 \in 1..Len(asked)
    BY <1>3, <1>4
  <2>2. i + 1 # k + 1
    BY <1>6
  <2> QED BY <2>1, <2>2 DEF QuestionsOpen
<1> QED BY <1>3, <1>5, <1>6 DEF QuestionsOpen

(* The handle of the front question waits for its answer. *)
LEMMA AnsweredJob ==
    ASSUME IInv, NEW j \in Jobs, Answered(j)
    PROVE  /\ job[j].at = "asking" /\ questions # <<>> /\ j = Head(questions)
           /\ questions' = Tail(questions)
<1>1. questions # <<>> /\ j = Head(questions) /\ questions' = Tail(questions)
  BY DEF Answered, Asking
<1>2. questions \in Seq(Jobs) /\ Len(questions) > 0 /\ 1 \in 1..Len(questions)
  BY <1>1 DEF IInv, QuestionsOpen
<1>3. Head(questions) = questions[1]
  BY <1>2
<1> QED BY <1>1, <1>2, <1>3 DEF IInv, QuestionsOpen

(* A refresh ends. *)
LEMMA RefreshEnded ==
    ASSUME IInv, NEW j \in Refreshes, job[j].at \in {"returned", "asking"},
           RefreshDone([job EXCEPT ![j] = NoJob], j),
           UNCHANGED <<dbVars, ui, announced, started, doubled>>,
           shown' \in [Rows -> Nat], last' \in Outcomes \ {None}, levelable' \in BOOLEAN,
           doubled = 0 /\ ~pending => UpToDate' \/ last' # "success",
           \/ questions' = questions /\ job[j].at = "returned"
           \/ questions' = Tail(questions) /\ questions # <<>> /\ j = Head(questions)
    PROVE  IInv'
<1> DEFINE ended == [job EXCEPT ![j] = NoJob]
<1>1. UNCHANGED <<announced, doubled>>
  OBVIOUS
<1>2. /\ RefreshFlags /\ JobsOK(job, rows) /\ inflight \in BOOLEAN /\ pending \in BOOLEAN
      /\ doubled \in Nat /\ job[j].dialog \in BOOLEAN /\ j \in Jobs /\ job[j].at # "free"
  BY DEF IInv, TypeOK, Jobs, JobRows
<1>3. /\ RefreshFlags'
      /\ \/ job' = ended
         \/ \E f \in Refreshes : /\ ended[f].at = "free"
                                 /\ job' = [ended EXCEPT ![f] = Queued(job[j].dialog)]
  BY <1>1, <1>2, FlagsDone
<1>4. Written(job[j]) = {}
  BY DEF Written
<1>5. /\ JobsOK(ended, rows)
      /\ \A g \in Shifts : Written(ended[g]) = Written(job[g])
      /\ \A g \in Jobs \ {j} : ended[g] = job[g]
  BY <1>2, <1>4, JobEnded
<1> HIDE DEF ended
<1>6. /\ JobsOK(job', rows)
      /\ \A g \in Shifts : job'[g] = ended[g]
      /\ \A g \in Jobs : ended[g].at = "asking" => job'[g].at = "asking"
  <2>1. PICK next : next = job'
    OBVIOUS
  <2>2. PICK dialog \in BOOLEAN : dialog = job[j].dialog
    BY <1>2
  <2>3. \/ next = ended
        \/ \E f \in Refreshes : /\ ended[f].at = "free"
                                /\ next = [ended EXCEPT ![f] = Queued(dialog)]
    BY <1>3, <2>1, <2>2
  <2>4. /\ JobsOK(next, rows)
        /\ \A g \in Shifts : next[g] = ended[g]
        /\ \A g \in Jobs : ended[g].at = "asking" => next[g].at = "asking"
    BY <1>5, <2>3, SlotTaken
  <2> QED BY <2>1, <2>4
<1>7. \A g \in Jobs \ {j} : job[g].at = "asking" => job'[g].at = "asking"
  BY <1>5, <1>6
<1>8. QuestionsOpen(questions', job')
  <2>1. QuestionsOpen(questions, job)
    BY DEF IInv
  <2>2. CASE questions' = questions /\ job[j].at = "returned"
    <3>1. \A g \in Jobs : job[g].at = "asking" => job'[g].at = "asking"
      BY <1>7, <2>2
    <3>2. PICK next : next = job'
      OBVIOUS
    <3>3. \A g \in Jobs : job[g].at = "asking" => next[g].at = "asking"
      BY <3>1, <3>2
    <3>4. QuestionsOpen(questions, next)
      BY <2>1, <3>3, QuestionsStay
    <3> QED BY <2>2, <3>2, <3>4
  <2>3. CASE questions' = Tail(questions) /\ questions # <<>> /\ j = Head(questions)
    <3>1. \A g \in Jobs \ {Head(questions)} : job[g].at = "asking" => job'[g].at = "asking"
      BY <1>7, <2>3
    <3>2. QuestionsOpen(Tail(questions), job')
      BY <2>1, <2>3, <3>1, QuestionAnswered
    <3> QED BY <2>3, <3>2
  <2> QED BY <2>2, <2>3
<1>9. OneWriter'
  <2>1. \A g \in Shifts : Written(job'[g]) = Written(job[g])
    BY <1>5, <1>6
  <2>2. OneWriter /\ UNCHANGED dbVars /\ ui' = ui
    BY DEF IInv
  <2> QED BY <2>1, <2>2, WriterKept
<1>10. inflight' \in BOOLEAN /\ pending' \in BOOLEAN
  BY <1>2 DEF RefreshDone
<1>11. Types'
  BY <1>10, TypesHold DEF Types, dbVars
<1>12. DialogOK'
  BY DEF IInv, DialogOK, dbVars
<1> QED BY <1>3, <1>6, <1>8, <1>9, <1>11, <1>12, RowsStay

(* A shift ends. *)
LEMMA ShiftEnded ==
    ASSUME IInv, NEW j \in Shifts, job[j].at \in {"returned", "asking"},
           job' = [job EXCEPT ![j] = NoJob], levelable' = TRUE,
           UNCHANGED <<dbVars, ui, viewVars, announced, started>>,
           \/ questions' = questions /\ job[j].at = "returned"
           \/ questions' = Tail(questions) /\ questions # <<>> /\ j = Head(questions)
    PROVE  IInv'
<1> DEFINE ended == [job EXCEPT ![j] = NoJob]
<1>1. j \in Jobs /\ j \notin Refreshes /\ Written(job[j]) = {}
  BY JobAssumption DEF Jobs, Written
<1>2. /\ JobsOK(ended, rows)
      /\ \A g \in Shifts : Written(ended[g]) = Written(job[g])
      /\ \A g \in Jobs \ {j} : ended[g] = job[g]
  BY <1>1, JobEnded
<1>3. job' = ended
  OBVIOUS
<1> HIDE DEF ended
<1>4. QuestionsOpen(questions', job')
  <2>1. QuestionsOpen(questions, job)
    BY DEF IInv
  <2>2. CASE questions' = questions /\ job[j].at = "returned"
    <3>1. \A g \in Jobs : job[g].at = "asking" => ended[g].at = "asking"
      BY <1>2, <2>2
    <3>2. QuestionsOpen(questions, ended)
      BY <2>1, <3>1, QuestionsStay
    <3> QED BY <1>3, <2>2, <3>2
  <2>3. CASE questions' = Tail(questions) /\ questions # <<>> /\ j = Head(questions)
    <3>1. \A g \in Jobs \ {Head(questions)} : job[g].at = "asking" => ended[g].at = "asking"
      BY <1>2, <2>3
    <3>2. QuestionsOpen(Tail(questions), ended)
      BY <2>1, <2>3, <3>1, QuestionAnswered
    <3> QED BY <1>3, <2>3, <3>2
  <2> QED BY <2>2, <2>3
<1>5. OneWriter'
  <2>1. \A g \in Shifts : Written(job'[g]) = Written(job[g])
    BY <1>2, <1>3
  <2>2. OneWriter /\ UNCHANGED dbVars /\ ui' = ui
    BY DEF IInv
  <2> QED BY <2>1, <2>2, WriterKept
<1>6. RefreshFlags'
  <2>1. \A f \in Refreshes : job'[f] = job[f]
    BY <1>1, <1>2, <1>3 DEF Jobs
  <2> QED BY <2>1, FlagsKept DEF IInv
<1>7. Types' /\ DialogOK'
  BY TypesHold DEF Types, IInv, DialogOK, dbVars, viewVars
<1>8. JobsOK(job', rows)
  BY <1>2, <1>3
<1> QED BY <1>4, <1>5, <1>6, <1>7, <1>8, RowsStay

(* A refresh with a result is shown: it carries all that was announced, or another is
   pending. *)
LEMMA RefreshShown == ASSUME IInv, NEW j \in Jobs, ShowRefresh(j) PROVE IInv'
<1>1. /\ j \in Refreshes /\ job[j].at = "returned" /\ job[j].outcome = "success"
      /\ shown' = Versions(job[j].loaded) /\ last' = "success" /\ levelable' = TRUE
      /\ RefreshDone([job EXCEPT ![j] = NoJob], j)
      /\ UNCHANGED <<questions, dbVars, ui, announced, started, doubled>>
  BY DEF ShowRefresh, Delivered
<1>2. job[j].loaded # None /\ job[j].loaded \in Tables
  BY <1>1 DEF IInv, JobsOK, JobOK, JobShape, JobRows
<1>3. shown' \in [Rows -> Nat]
  BY <1>1, <1>2 DEF Versions, Tables, RowStates
<1>4. ASSUME doubled = 0, ~pending
      PROVE  UpToDate'
  <2>1. AtLeast(Versions(job[j].loaded), announced)
    BY <1>1, <1>2, <1>4 DEF IInv, RefreshFlags, Single
  <2> QED BY <1>1, <2>1 DEF UpToDate
<1>5. last' \in Outcomes \ {None}
  BY <1>1, NoneAssumption DEF Outcomes
<1> QED BY <1>1, <1>3, <1>4, <1>5, RefreshEnded

(* The shift announces what it committed. *)
LEMMA ShiftAnnounced == ASSUME IInv, NEW j \in Jobs, AnnounceShift(j) PROVE IInv'
<1> DEFINE ended == [job EXCEPT ![j] = NoJob]
<1>1. /\ j \in Shifts /\ j \notin Refreshes /\ job[j].at = "returned"
      /\ UNCHANGED <<questions, dbVars, ui, shown, last, started, doubled>>
      /\ levelable' \in BOOLEAN /\ announced' = Versions(rows)
  BY JobAssumption DEF AnnounceShift, Delivered
<1>2. PICK dialog \in BOOLEAN : RequestRefresh(ended, dialog)
  BY DEF AnnounceShift
<1>3. Written(job[j]) = {}
  BY <1>1 DEF Written
<1>4. /\ JobsOK(ended, rows)
      /\ \A g \in Shifts : Written(ended[g]) = Written(job[g])
      /\ \A g \in Jobs \ {j} : ended[g] = job[g]
  BY <1>3, JobEnded
<1> HIDE DEF ended
<1>5. \A f \in Refreshes : ended[f] = job[f]
  BY <1>1, <1>4 DEF Jobs
<1>6. \A g \in Jobs : job[g].at = "asking" => ended[g].at = "asking"
  BY <1>1, <1>4
<1> QED BY <1>1, <1>2, <1>4, <1>5, <1>6, RequestMade

(* A cancelled job ends. *)
LEMMA CancelHandled == ASSUME IInv, NEW j \in Jobs, HandleCancelled(j) PROVE IInv'
<1>1. /\ job[j].at = "returned" /\ Finish(j)
      /\ UNCHANGED <<questions, dbVars, ui, shown, announced, started, doubled>>
      /\ last' = IF j \in Refreshes THEN "cancelled" ELSE last
  BY DEF HandleCancelled, Delivered
<1>2. CASE j \in Refreshes
  <2>1. RefreshDone([job EXCEPT ![j] = NoJob], j) /\ levelable' = levelable
    BY <1>1, <1>2 DEF Finish
  <2>2. last' \in Outcomes \ {None} /\ last' # "success"
    BY <1>1, <1>2, NoneAssumption DEF Outcomes
  <2>3. shown' \in [Rows -> Nat] /\ levelable' \in BOOLEAN
    BY <1>1, <2>1 DEF IInv, TypeOK
  <2> QED BY <1>1, <1>2, <2>1, <2>2, <2>3, RefreshEnded
<1>3. CASE j \notin Refreshes
  <2>1. /\ job' = [job EXCEPT ![j] = NoJob] /\ levelable' = TRUE
        /\ UNCHANGED <<inflight, pending>>
    BY <1>1, <1>3 DEF Finish
  <2>2. UNCHANGED viewVars
    BY <1>1, <1>3, <2>1 DEF viewVars
  <2> QED BY <1>1, <1>3, <2>1, <2>2, ShiftEnded DEF Jobs
<1> QED BY <1>2, <1>3

(* A failure is reported, and clears the dashboard when it was the refresh. *)
LEMMA FailureReported == ASSUME IInv, NEW j \in Jobs, ReportFailure(j) PROVE IInv'
<1>1. /\ job[j].at = "returned" /\ Finish(j)
      /\ UNCHANGED <<questions, dbVars, ui, announced, started, doubled>>
      /\ IF j \in Refreshes THEN shown' = NoVersions /\ last' = "failure"
                            ELSE UNCHANGED <<shown, last>>
  BY DEF ReportFailure, Delivered
<1>2. CASE j \in Refreshes
  <2>1. RefreshDone([job EXCEPT ![j] = NoJob], j) /\ levelable' = levelable
    BY <1>1, <1>2 DEF Finish
  <2>2. last' \in Outcomes \ {None} /\ last' # "success"
    BY <1>1, <1>2, NoneAssumption DEF Outcomes
  <2>3. shown' \in [Rows -> Nat] /\ levelable' \in BOOLEAN
    BY <1>1, <1>2, <2>1 DEF IInv, TypeOK, NoVersions
  <2> QED BY <1>1, <1>2, <2>1, <2>2, <2>3, RefreshEnded
<1>3. CASE j \notin Refreshes
  <2>1. /\ job' = [job EXCEPT ![j] = NoJob] /\ levelable' = TRUE
        /\ UNCHANGED <<inflight, pending>>
    BY <1>1, <1>3 DEF Finish
  <2>2. UNCHANGED viewVars
    BY <1>1, <1>3, <2>1 DEF viewVars
  <2> QED BY <1>1, <1>3, <2>1, <2>2, ShiftEnded DEF Jobs
<1> QED BY <1>2, <1>3

(* A question that is not answered with a retry ends the job: its failure was delivered. *)
LEMMA FailureClosed == ASSUME IInv, NEW j \in Jobs, AnswerClose(j) PROVE IInv'
<1>1. /\ job[j].at = "asking" /\ questions # <<>> /\ j = Head(questions)
      /\ questions' = Tail(questions)
  BY AnsweredJob DEF AnswerClose
<1>2. /\ Finish(j) /\ UNCHANGED <<dbVars, ui, shown, last, announced, started, doubled>>
  BY DEF AnswerClose
<1>3. CASE j \in Refreshes
  <2>1. RefreshDone([job EXCEPT ![j] = NoJob], j) /\ levelable' = levelable
    BY <1>2, <1>3 DEF Finish
  <2>2. doubled = 0 => last' # "success"
    BY <1>1, <1>2, <1>3 DEF IInv, RefreshFlags, Single
  <2>3. /\ shown' \in [Rows -> Nat] /\ levelable' \in BOOLEAN
        /\ last' \in Outcomes \ {None}
    BY <1>2, <2>1 DEF IInv, TypeOK
  <2> QED BY <1>1, <1>2, <1>3, <2>1, <2>2, <2>3, RefreshEnded
<1>4. CASE j \notin Refreshes
  <2>1. /\ job' = [job EXCEPT ![j] = NoJob] /\ levelable' = TRUE
        /\ UNCHANGED <<inflight, pending>>
    BY <1>2, <1>4 DEF Finish
  <2>2. UNCHANGED viewVars
    BY <1>2, <2>1 DEF viewVars
  <2> QED BY <1>1, <1>2, <1>4, <2>1, <2>2, ShiftEnded DEF Jobs
<1> QED BY <1>3, <1>4

(* The user is asked about a failure. *)
LEMMA RetryAsked == ASSUME IInv, NEW j \in Jobs, AskRetry(j) PROVE IInv'
<1> DEFINE h == [job[j] EXCEPT !.at = "asking", !.cancelled = FALSE]
<1>1. /\ EventLoop /\ job[j].at = "returned"
      /\ questions' = <<j>> \o questions
      /\ last' = IF j \in Refreshes THEN "failure" ELSE last
      /\ UNCHANGED <<dbVars, ui, inflight, pending, shown, doubled, levelable,
                     announced, started>>
  BY DEF AskRetry, Delivered
<1>2. JobOK(j, job[j], rows) /\ job[j] \in JobRows
  BY DEF IInv, JobsOK
<1>3. job' = [job EXCEPT ![j] = h]
  BY <1>2 DEF AskRetry, IInv, JobsOK, JobRows
<1>4. /\ h \in JobRows /\ h.at = "asking" /\ h.row = job[j].row /\ h.loaded = job[j].loaded
      /\ h.todo = job[j].todo /\ h.outcome = job[j].outcome
  BY <1>2 DEF JobRows
<1> HIDE DEF h
<1>5. JobOK(j, h, rows)
  BY <1>1, <1>2, <1>4 DEF JobOK, JobShape
<1>6. JobsOK(job', rows)
  BY <1>3, <1>5, JobSet DEF IInv
<1>7. job'[j] = h /\ \A g \in Jobs \ {j} : job'[g] = job[g]
  BY <1>3 DEF IInv, JobsOK
<1>8. QuestionsOpen(questions', job')
  <2>1. QuestionsOpen(questions, job) /\ questions \in Seq(Jobs) /\ Len(questions) \in Nat
    BY DEF IInv, QuestionsOpen
  <2>2. /\ questions' \in Seq(Jobs) /\ Len(questions') = Len(questions) + 1
        /\ questions'[1] = j
        /\ \A i \in 2..Len(questions') :
              i - 1 \in 1..Len(questions) /\ questions'[i] = questions[i - 1]
    BY <1>1, <2>1
  <2>3. \A i \in 1..Len(questions) : questions[i] \in Jobs \ {j}
    BY <1>1, <2>1 DEF QuestionsOpen
  <2>4. ASSUME NEW i \in 1..Len(questions')
        PROVE  job'[questions'[i]].at = "asking"
    <3>1. CASE i = 1
      BY <1>4, <1>7, <2>2, <3>1
    <3>2. CASE i # 1
      <4>1. i \in 2..Len(questions')
        BY <2>1, <2>2, <3>2
      <4>2. i - 1 \in 1..Len(questions) /\ questions'[i] = questions[i - 1]
        BY <2>2, <4>1
      <4> QED BY <1>7, <2>1, <2>3, <4>2 DEF QuestionsOpen
    <3> QED BY <3>1, <3>2
  <2>5. ASSUME NEW i \in 1..Len(questions'), NEW k \in 1..Len(questions'), i < k
        PROVE  questions'[i] # questions'[k]
    <3>1. k \in 2..Len(questions')
      BY <2>1, <2>2, <2>5
    <3>2. k - 1 \in 1..Len(questions) /\ questions'[k] = questions[k - 1]
      BY <2>2, <3>1
    <3>3. CASE i = 1
      BY <2>2, <2>3, <3>2, <3>3
    <3>4. CASE i # 1
      <4>1. i \in 2..Len(questions') /\ i - 1 # k - 1
        BY <2>1, <2>2, <2>5, <3>4
      <4>2. i - 1 \in 1..Len(questions) /\ questions'[i] = questions[i - 1]
        BY <2>2, <4>1
      <4> QED BY <2>1, <3>2, <4>1, <4>2 DEF QuestionsOpen
    <3> QED BY <3>3, <3>4
  <2>6. \A i, k \in 1..Len(questions') : i # k => questions'[i] # questions'[k]
    <3> SUFFICES ASSUME NEW i \in 1..Len(questions'), NEW k \in 1..Len(questions'), i # k
                 PROVE  questions'[i] # questions'[k]
      OBVIOUS
    <3>1. i < k \/ k < i
      BY <2>1, <2>2
    <3> QED BY <2>5, <3>1
  <2> QED BY <2>2, <2>4, <2>6 DEF QuestionsOpen
<1>9. OneWriter'
  <2>1. Written(h) = Written(job[j])
    BY <1>1, <1>4 DEF Written
  <2>2. \A g \in Shifts : Written(job'[g]) = Written(job[g])
    BY <1>7, <2>1 DEF Jobs
  <2>3. OneWriter /\ UNCHANGED dbVars /\ ui' = ui
    BY <1>1 DEF IInv
  <2> QED BY <2>2, <2>3, WriterKept
<1>10. RefreshFlags'
  <2>1. \A f \in Refreshes : /\ job'[f].at = "free" <=> job[f].at = "free"
                             /\ job'[f].loaded = job[f].loaded
    BY <1>1, <1>4, <1>7 DEF Jobs
  <2>2. Under(job') = Under(job) /\ FreeSlots(Refreshes, job') = FreeSlots(Refreshes, job)
    BY <2>1 DEF Under, FreeSlots
  <2>3. ASSUME doubled = 0
        PROVE  Single'
    <3>1. Single
      BY <2>3 DEF IInv, RefreshFlags
    <3>2. inflight' \/ UpToDate' \/ last' # "success"
      BY <1>1, <3>1 DEF Single, UpToDate
    <3>3. \A f \in Refreshes : job'[f].at = "asking" => last' = "failure"
      BY <1>1, <1>7, <3>1 DEF Single, Jobs
    <3>4. \A f \in Refreshes : job'[f].loaded # None =>
             pending' \/ AtLeast(Versions(job'[f].loaded), announced')
      BY <1>1, <2>1, <3>1 DEF Single
    <3> QED BY <1>1, <2>2, <3>1, <3>2, <3>3, <3>4 DEF Single
  <2> QED BY <1>1, <2>2, <2>3 DEF IInv, RefreshFlags
<1>11. Types'
  <2>1. last' \in Outcomes \ {None}
    BY <1>1, NoneAssumption DEF IInv, TypeOK, Outcomes
  <2> QED BY <1>1, <2>1, TypesHold DEF Types, dbVars
<1>12. DialogOK' /\ announced' = announced /\ UNCHANGED dbVars
  BY <1>1 DEF IInv, DialogOK, dbVars
<1> QED BY <1>6, <1>8, <1>9, <1>10, <1>11, <1>12, RowsStay

(* A failed shift starts again. *)
LEMMA ShiftRetried == ASSUME IInv, NEW j \in Jobs, RetryShift(j) PROVE IInv'
<1> DEFINE h == [Queued(TRUE) EXCEPT !.row = job[j].row]
<1>1. /\ job[j].at = "asking" /\ questions # <<>> /\ j = Head(questions)
      /\ questions' = Tail(questions)
  BY AnsweredJob DEF RetryShift
<1>2. /\ j \in Shifts /\ MayAct /\ job' = [job EXCEPT ![j] = h]
      /\ levelable' = FALSE /\ started' = started + 1
      /\ UNCHANGED <<dbVars, ui, viewVars, announced>>
  BY DEF RetryShift
<1>3. JobShape(j, job[j])
  BY DEF IInv, JobsOK, JobOK
<1>4. job[j].row \in Leaves
  BY <1>1, <1>2, <1>3 DEF JobShape
<1>5. JobOK(j, h, rows)
  BY <1>4, FreshJobs
<1>6. Written(h) = {} /\ Written(job[j]) = {}
  BY <1>1 DEF Written, Queued, NoJob
<1> HIDE DEF h
<1>7. JobsOK(job', rows)
  BY <1>2, <1>5, JobSet DEF IInv
<1>8. job'[j] = h /\ \A g \in Jobs \ {j} : job'[g] = job[g]
  BY <1>2 DEF IInv, JobsOK
<1>9. QuestionsOpen(questions', job')
  <2>1. PICK next : next = job'
    OBVIOUS
  <2>2. \A g \in Jobs \ {Head(questions)} : job[g].at = "asking" => next[g].at = "asking"
    BY <1>1, <1>8, <2>1
  <2>3. QuestionsOpen(questions, job)
    BY DEF IInv
  <2>4. QuestionsOpen(Tail(questions), next)
    BY <1>1, <2>2, <2>3, QuestionAnswered
  <2> QED BY <1>1, <2>1, <2>4
<1>10. OneWriter'
  <2>1. \A g \in Shifts : Written(job'[g]) = Written(job[g])
    BY <1>6, <1>8 DEF Jobs
  <2>2. OneWriter /\ UNCHANGED dbVars /\ ui' = ui
    BY <1>2 DEF IInv
  <2> QED BY <2>1, <2>2, WriterKept
<1>11. RefreshFlags'
  <2>1. \A f \in Refreshes : job'[f] = job[f]
    BY <1>2, <1>8, JobAssumption DEF Jobs
  <2> QED BY <1>2, <2>1, FlagsKept DEF IInv
<1>12. started' \in 0..MaxActs
  <2>1. started \in Nat /\ doubled \in Nat /\ MaxActs \in Nat
    BY JobAssumption DEF IInv, TypeOK
  <2>2. Cardinality(EditsMade) \in Nat
    BY FS_CardinalityType DEF IInv, NothingAhead
  <2> QED BY <1>2, <2>1, <2>2 DEF MayAct
<1>13. Types' /\ DialogOK'
  BY <1>2, <1>12, TypesHold DEF Types, IInv, DialogOK, dbVars, viewVars
<1> QED BY <1>2, <1>7, <1>9, <1>10, <1>11, <1>13, RowsStay

(* A failed refresh starts again, beside the one that was pending. *)
LEMMA RefreshRetried == ASSUME IInv, NEW j \in Jobs, RetryRefresh(j) PROVE IInv'
<1> DEFINE again == [job EXCEPT ![j] = Queued(job[j].dialog)]
<1>1. /\ job[j].at = "asking" /\ questions # <<>> /\ j = Head(questions)
      /\ questions' = Tail(questions)
  BY AnsweredJob DEF RetryRefresh
<1>2. /\ j \in Refreshes /\ inflight' = TRUE /\ pending' = FALSE
      /\ doubled' = IF pending THEN doubled + 1 ELSE doubled
      /\ UNCHANGED <<dbVars, ui, levelable, shown, last, announced, started>>
      /\ pending => MayAct /\ FreeSlots(Refreshes, job) # {}
      /\ job' = IF pending
                THEN [again EXCEPT ![Slot(Refreshes, again)] = Queued(job[j].dialog)]
                ELSE again
  BY DEF RetryRefresh
<1>3. PICK dialog \in BOOLEAN : dialog = job[j].dialog
  BY DEF IInv, JobsOK, JobRows
<1>4. JobsOK(again, rows)
  <2>1. JobOK(j, Queued(dialog), rows)
    BY <1>2, FreshJobs
  <2> QED BY <1>3, <2>1, JobSet DEF IInv
<1>5. again[j] = Queued(dialog) /\ \A g \in Jobs \ {j} : again[g] = job[g]
  BY <1>3 DEF IInv, JobsOK
<1> HIDE DEF again
<1>6. Queued(dialog).at = "queued" /\ Queued(dialog).loaded = None
  BY DEF Queued, NoJob
<1>7. pending => \E f \in Refreshes : /\ again[f].at = "free"
                                      /\ job' = [again EXCEPT ![f] = Queued(dialog)]
  <2> SUFFICES ASSUME pending
               PROVE  \E f \in Refreshes : /\ again[f].at = "free"
                                           /\ job' = [again EXCEPT ![f] = Queued(dialog)]
    OBVIOUS
  <2>1. PICK g \in Refreshes : job[g].at = "free"
    BY <1>2 DEF FreeSlots
  <2>2. g # j /\ again[g] = job[g]
    BY <1>1, <1>5, <2>1 DEF Jobs
  <2>3. FreeSlots(Refreshes, again) # {}
    BY <2>1, <2>2 DEF FreeSlots
  <2>4. PICK f : f = Slot(Refreshes, again)
    OBVIOUS
  <2>5. f \in Refreshes /\ again[f].at = "free"
    BY <2>3, <2>4, SlotFree
  <2> QED BY <1>2, <1>3, <2>4, <2>5
<1>8. PICK next : next = job'
  OBVIOUS
<1>9. /\ JobsOK(next, rows)
      /\ \A g \in Shifts : next[g] = again[g]
      /\ \A g \in Jobs : again[g].at = "asking" => next[g].at = "asking"
  <2>1. \/ next = again
        \/ \E f \in Refreshes : /\ again[f].at = "free"
                                /\ next = [again EXCEPT ![f] = Queued(dialog)]
    BY <1>2, <1>7, <1>8
  <2> QED BY <1>4, <2>1, SlotTaken
<1>10. JobsOK(job', rows)
  BY <1>8, <1>9
<1>11. QuestionsOpen(questions', job')
  <2>1. \A g \in Jobs \ {Head(questions)} : job[g].at = "asking" => next[g].at = "asking"
    BY <1>1, <1>5, <1>9
  <2>2. QuestionsOpen(questions, job)
    BY DEF IInv
  <2>3. QuestionsOpen(Tail(questions), next)
    BY <1>1, <2>1, <2>2, QuestionAnswered
  <2> QED BY <1>1, <1>8, <2>3
<1>12. OneWriter'
  <2>1. \A g \in Shifts : Written(job'[g]) = Written(job[g])
    BY <1>2, <1>5, <1>8, <1>9, JobAssumption DEF Jobs
  <2>2. OneWriter /\ UNCHANGED dbVars /\ ui' = ui
    BY <1>2 DEF IInv
  <2> QED BY <2>1, <2>2, WriterKept
<1>13. RefreshFlags'
  <2>1. ASSUME doubled' = 0
        PROVE  Single'
    <3>1. doubled \in Nat
      BY DEF IInv, TypeOK
    <3>2. ~pending /\ doubled = 0
      BY <1>2, <2>1, <3>1
    <3>3. Single
      BY <3>2 DEF IInv, RefreshFlags
    <3>4. job' = again
      BY <1>2, <3>2
    <3>5. \A g \in Refreshes \ {j} : job[g].at = "free"
      BY <1>1, <1>2, <3>3 DEF Single, Under
    <3>6. \A g \in Refreshes \ {j} : job[g].loaded = None
      BY <3>5 DEF IInv, JobsOK, JobOK, JobShape, Jobs
    <3>7. job'[j] = Queued(dialog) /\ \A g \in Refreshes \ {j} : job'[g] = job[g]
      BY <1>5, <3>4 DEF Jobs
    <3>8. Under(job') = {j}
      BY <1>2, <1>6, <3>5, <3>7 DEF Under
    <3>9. \A g \in Refreshes : job'[g].at # "asking" /\ job'[g].loaded = None
      BY <1>6, <3>5, <3>6, <3>7
    <3> QED BY <1>2, <3>8, <3>9 DEF Single
  <2> QED BY <1>2, <2>1 DEF RefreshFlags
<1>14. doubled' \in 0..MaxActs
  <2>1. started \in Nat /\ doubled \in 0..MaxActs /\ MaxActs \in Nat
    BY JobAssumption DEF IInv, TypeOK
  <2>2. Cardinality(EditsMade) \in Nat
    BY FS_CardinalityType DEF IInv, NothingAhead
  <2> QED BY <1>2, <2>1, <2>2 DEF MayAct
<1>15. Types'
  BY <1>2, <1>14, TypesHold DEF Types, dbVars
<1>16. DialogOK' /\ announced' = announced /\ UNCHANGED dbVars
  BY <1>2 DEF IInv, DialogOK, dbVars
<1> QED BY <1>10, <1>11, <1>12, <1>13, <1>15, <1>16, RowsStay

-----------------------------------------------------------------------------
(* The theorems *)

(* Everything starts idle, with the dashboard up to date. *)
LEMMA Start == Init => IInv
<1> SUFFICES ASSUME Init
             PROVE  IInv
  OBVIOUS
<1>1. /\ rows = [r \in Rows |-> FirstRow] /\ writer = None /\ dirty = rows
      /\ ui = Idle /\ job = [j \in Jobs |-> NoJob] /\ questions = <<>>
      /\ inflight = FALSE /\ pending = FALSE /\ levelable = TRUE
      /\ shown = Versions(rows) /\ last = "success" /\ announced = NoVersions
      /\ started = 0 /\ doubled = 0
  BY DEF Init, InitRows, InitJobs
<1>2. rows \in Tables /\ \A r \in Rows : rows[r].content = {} /\ rows[r].version = 1
  BY <1>1 DEF Tables, RowStates, FirstRow
<1>3. Types
  <2>1. ui \in [at : {"idle", "dialog", "saving", "flushed", "committed"},
               edit : Edits \cup {None}, row : Rows \cup {None},
               opened : RowStates \cup {None}]
    BY <1>1 DEF Idle
  <2>2. shown \in [Rows -> Nat] /\ announced \in [Rows -> Nat]
    BY <1>1, <1>2 DEF Versions, NoVersions
  <2>3. last \in Outcomes \ {None}
    BY <1>1, NoneAssumption DEF Outcomes
  <2>4. started \in 0..MaxActs /\ doubled \in 0..MaxActs
    BY <1>1, JobAssumption
  <2>5. /\ writer \in Jobs \cup {None, UI}
        /\ inflight \in BOOLEAN /\ pending \in BOOLEAN /\ levelable \in BOOLEAN
        /\ rows \in Tables /\ dirty \in Tables
    BY <1>1, <1>2
  <2> QED BY <2>1, <2>2, <2>3, <2>4, <2>5 DEF Types
<1>4. JobsOK(job, rows)
  <2>1. \A j \in Jobs : JobOK(j, NoJob, rows)
    BY FreshJobs
  <2> QED BY <1>1, <2>1 DEF JobsOK, JobOK, JobShape
<1>5. QuestionsOpen(questions, job)
  BY <1>1 DEF QuestionsOpen
<1>6. DialogOK
  BY <1>1 DEF DialogOK, Idle
<1>7. OneWriter
  <2>1. \A j \in Shifts : Written(job[j]) = {}
    BY <1>1 DEF Written, NoJob, Jobs
  <2> QED BY <1>1, <2>1, JobAssumption DEF OneWriter, Idle, Jobs
<1>8. NothingAhead
  <2>1. EditsMade = {}
    BY <1>2 DEF EditsMade
  <2>2. AtLeast(Versions(rows), announced)
    BY <1>1, <1>2 DEF AtLeast, Versions, NoVersions
  <2> QED BY <2>1, <2>2, FS_EmptySet DEF NothingAhead
<1>9. RefreshFlags
  <2>1. \A f \in Refreshes : job[f].at = "free" /\ job[f].loaded = None
    BY <1>1 DEF NoJob, Jobs
  <2>2. Under(job) = {} /\ FreeSlots(Refreshes, job) # {}
    BY <2>1, JobAssumption DEF Under, FreeSlots
  <2>3. UpToDate
    BY <1>1, <1>2 DEF UpToDate, AtLeast, Versions, NoVersions
  <2> QED BY <1>1, <2>1, <2>2, <2>3 DEF RefreshFlags, Single
<1> QED BY <1>3, <1>4, <1>5, <1>6, <1>7, <1>8, <1>9, TypesSuffice DEF IInv

(* Every step keeps IInv. *)
LEMMA Inductive == IInv /\ [Next]_vars => IInv'
<1> SUFFICES ASSUME IInv, [Next]_vars
             PROVE  IInv'
  OBVIOUS
<1>1. CASE UNCHANGED vars
  <2>1. UNCHANGED <<questions, dbVars, job, viewVars, levelable, announced, started, ui>>
    BY <1>1 DEF vars
  <2>2. OneWriter'
    BY <2>1, WriterKept DEF IInv
  <2>3. RefreshFlags'
    BY <2>1, FlagsKept DEF IInv
  <2>4. Types' /\ DialogOK'
    BY <2>1, TypesHold DEF Types, IInv, DialogOK, dbVars, viewVars
  <2>5. JobsOK(job', rows) /\ QuestionsOpen(questions', job')
    BY <2>1 DEF IInv
  <2> QED BY <2>1, <2>2, <2>3, <2>4, <2>5, RowsStay
<1>2. CASE UserStep
  <2>1. CASE PressRefresh
    BY <2>1, RefreshPressed
  <2>2. ASSUME NEW r \in Leaves, StartShift(r)
        PROVE  IInv'
    BY <2>2, ShiftStarted
  <2>3. ASSUME NEW r \in Rows, OpenDialog(r)
        PROVE  IInv'
    BY <2>3, DialogOpened
  <2>4. ASSUME NEW j \in Jobs, RequestCancel(j) \/ AnswerClose(j)
        PROVE  IInv'
    BY <2>4, CancelRequested, FailureClosed
  <2>5. ASSUME NEW j \in Jobs, RetryRefresh(j) \/ RetryShift(j)
        PROVE  IInv'
    BY <2>5, RefreshRetried, ShiftRetried
  <2>6. CASE CloseDialog
    BY <2>6, DialogLeft DEF CloseDialog
  <2>7. CASE SaveDialog
    BY <2>7, SaveBegun
  <2> QED BY <1>2, <2>1, <2>2, <2>3, <2>4, <2>5, <2>6, <2>7 DEF UserStep
<1>3. CASE SaveStep
  <2>1. SaveLockedOut \/ AuditLockedOut => IInv'
    BY DialogLeft DEF SaveLockedOut, AuditLockedOut
  <2> QED BY <1>3, <2>1, SaveFlushed, SaveCommitted, SaveAnnounced DEF SaveStep
<1>4. ASSUME NEW j \in Jobs, WorkStep(j) \/ FailWork(j)
      PROVE  IInv'
  BY <1>4, WorkBegun, RowWritten, ShiftCommitted, RecalculationCommitted, WorkEnded,
     WorkFailed DEF WorkStep
<1>5. ASSUME NEW j \in Jobs, HandleSignal(j)
      PROVE  IInv'
  BY <1>5, RefreshShown, ShiftAnnounced, CancelHandled, RetryAsked, FailureReported
     DEF HandleSignal
<1> QED BY <1>1, <1>2, <1>3, <1>4, <1>5 DEF Next

(* JobsInvariant: IInv holds in every reachable state. *)
THEOREM JobsInvariant == Spec => []IInv
<1>1. Init => IInv
  BY Start
<1>2. IInv /\ [Next]_vars => IInv'
  BY Inductive
<1> QED BY <1>1, <1>2, PTL DEF Spec

(* What IInv says of the dashboard. *)
LEMMA NoneOwed == IInv => RefreshOwed
<1> SUFFICES ASSUME IInv, doubled = 0
             PROVE  /\ Cardinality(UnderWay) = IF inflight THEN 1 ELSE 0
                    /\ pending => inflight
                    /\ \/ UpToDate
                       \/ last # "success"
                       \/ pending
                       \/ \E j \in UnderWay : \/ WillShow(j)
                                              \/ job[j].outcome \in {"failure", "cancelled"}
                                              \/ job[j].cancelled
  BY DEF IInv, RefreshOwed
<1>1. Single /\ (pending => inflight)
  BY DEF IInv, RefreshFlags
<1>2. UnderWay = Under(job)
  BY DEF UnderWay, Under
<1>3. CASE ~inflight
  <2>1. UnderWay = {}
    BY <1>1, <1>2, <1>3 DEF Single
  <2>2. UpToDate \/ last # "success"
    BY <1>1, <1>3 DEF Single
  <2> QED BY <1>1, <1>3, <2>1, <2>2, FS_EmptySet
<1>4. CASE inflight
  <2>1. PICK f \in Refreshes : Under(job) = {f}
    BY <1>1, <1>4 DEF Single
  <2>2. Cardinality(UnderWay) = 1
    BY <1>2, <2>1, FS_Singleton
  <2>3. job[f].at # "free" /\ f \in UnderWay /\ f \in Jobs
    BY <1>2, <2>1 DEF Under, Jobs
  <2>4. JobShape(f, job[f])
    BY <2>3 DEF IInv, JobsOK, JobOK
  <2>5. job[f].loaded # None => pending \/ WillShow(f)
    BY <1>1 DEF Single, WillShow
  <2>6. job[f].at = "asking" => last # "success"
    BY <1>1 DEF Single
  <2>7. \/ WillShow(f) \/ pending \/ last # "success"
        \/ job[f].outcome \in {"failure", "cancelled"}
    <3>1. job[f].at \in {"queued", "loaded", "returned", "asking"}
      BY <2>1, <2>3, <2>4 DEF JobShape, JobRows
    <3>2. job[f].at = "queued" => WillShow(f)
      BY DEF WillShow
    <3>3. job[f].at = "loaded" => job[f].loaded # None
      BY <2>4 DEF JobShape
    <3>4. job[f].at = "returned" =>
             job[f].loaded # None \/ job[f].outcome \in {"failure", "cancelled"}
      BY <2>1, <2>4 DEF JobShape, JobRows, Outcomes
    <3> QED BY <2>5, <2>6, <3>1, <3>2, <3>3, <3>4
  <2> QED BY <1>1, <1>4, <2>2, <2>3, <2>7
<1> QED BY <1>3, <1>4

(* NoRefreshOwed: however requests, cancels, failures and retries meet the refresh under
   way, the dashboard shows what was announced, or the flags and the refresh under way
   answer for it. *)
THEOREM NoRefreshOwed == Spec => []RefreshOwed
<1>1. IInv => RefreshOwed
  BY NoneOwed
<1> QED BY <1>1, JobsInvariant, PTL

(* The edits a transaction shows are those before with its own, on the rows it is about. *)
LEMMA EditApplied ==
    ASSUME NEW e \in Edits \cup Shifts, NEW about \in {Rows} \cup {{r} : r \in Rows},
           rows' = Edited(rows, e, about)
    PROVE  Abstract!Next
<1> DEFINE content == [r \in Rows |-> rows[r].content]
<1>1. [r \in Rows |-> rows'[r].content]
        = [r \in Rows |-> IF r \in about THEN content[r] \cup {e} ELSE content[r]]
  BY DEF Edited
<1>2. Abstract!Apply(e, about)
  BY <1>1 DEF Abstract!Apply
<1> QED BY <1>2 DEF Abstract!Next

(* Every step is an edit that reaches all its rows, or shows none. *)
LEMMA StepRefines ==
    IInv /\ [Next]_vars => [Abstract!Next]_([r \in Rows |-> rows[r].content])
<1> SUFFICES ASSUME IInv, [Next]_vars
             PROVE  Abstract!Next \/ rows' = rows
  OBVIOUS
<1>1. CASE CommitSave
  <2>1. ui.at = "flushed" /\ Commit
    BY <1>1 DEF CommitSave
  <2>2. /\ ui.row \in Rows /\ ui.edit \in Edits
        /\ rows' = Edited(rows, ui.edit, {ui.row})
    BY <2>1 DEF IInv, OneWriter, DialogOK, Commit
  <2> QED BY <2>2, EditApplied
<1>2. ASSUME NEW j \in Jobs, CommitShift(j) \/ CommitRecalculation(j)
      PROVE  Abstract!Next
  <2>1. Commit /\ job[j].at \in {"loaded", "recalculating"} /\ job[j].todo = {}
    BY <1>2 DEF CommitShift, CommitRecalculation
  <2>2. JobShape(j, job[j])
    BY DEF IInv, JobsOK, JobOK
  <2>3. j \in Shifts /\ job[j].row \in Rows
    BY <1>2, <2>2, JobAssumption DEF CommitShift, CommitRecalculation, JobShape, Jobs
  <2>4. Written(job[j]) \in {Rows} \cup {{r} : r \in Rows} /\ Written(job[j]) # {}
    BY <2>1, <2>3 DEF Written
  <2>5. dirty = Edited(rows, j, Written(job[j]))
    BY <2>3, <2>4 DEF IInv, OneWriter
  <2>6. PICK about \in {Rows} \cup {{r} : r \in Rows} : about = Written(job[j])
    BY <2>4
  <2>7. rows' = Edited(rows, j, about)
    BY <2>1, <2>5, <2>6 DEF Commit
  <2> QED BY <2>3, <2>7, EditApplied
<1>3. CASE UNCHANGED vars
  BY <1>3 DEF vars, dbVars
<1>4. CASE UserStep
  BY <1>4 DEF UserStep, PressRefresh, StartShift, OpenDialog, RequestCancel, AnswerClose,
              RetryRefresh, RetryShift, CloseDialog, SaveDialog, dbVars
<1>5. CASE SaveStep /\ ~CommitSave
  BY <1>5 DEF SaveStep, FlushSave, SaveLockedOut, AnnounceSave, AuditLockedOut,
              UpdateWithVersionCheck, Rollback, dbVars
<1>6. ASSUME NEW j \in Jobs, BeginWork(j) \/ WriteRow(j) \/ EndWork(j) \/ FailWork(j)
      PROVE  rows' = rows
  BY <1>6 DEF BeginWork, WriteRow, EndWork, FailWork, UpdateWithVersionCheck, Rollback,
              dbVars
<1>7. ASSUME NEW j \in Jobs, HandleSignal(j)
      PROVE  rows' = rows
  BY <1>7 DEF HandleSignal, ShowRefresh, AnnounceShift, HandleCancelled, AskRetry,
              ReportFailure, dbVars
<1> QED BY <1>1, <1>2, <1>3, <1>4, <1>5, <1>6, <1>7 DEF Next, WorkStep

(* EditsAtomic: the committed rows only ever change by one edit that reaches all the rows
   it is about, whatever sessions interleave and fail: none overwrites another. *)
THEOREM EditsAtomic == Spec => ImplementsAtomicEdits
<1>1. Init => Abstract!Init
  BY DEF Init, InitRows, FirstRow, Abstract!Init
<1>2. IInv /\ [Next]_vars => [Abstract!Next]_([r \in Rows |-> rows[r].content])
  BY StepRefines
<1> QED BY <1>1, <1>2, JobsInvariant, PTL DEF Spec, ImplementsAtomicEdits, Abstract!Spec
=============================================================================
