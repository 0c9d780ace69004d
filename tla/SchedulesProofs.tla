--------------------------- MODULE SchedulesProofs ---------------------------
(***************************************************************************)
(* Proofs about Schedules.                                                 *)
(*                                                                         *)
(* Why no occurrence is admitted twice although finished rows are removed: *)
(* a run-once row is never compacted, and the watermark of a schedule has  *)
(* passed every minute it was ever admitted for, an edit included.  So the *)
(* row of a key, once gone, does not come back, and what a tick of either  *)
(* backend remembers of it (its template, that it is bound) cannot become  *)
(* false of a later row.                                                   *)
(*                                                                         *)
(* Why compaction keeps enough of a schedule's history: nothing newer than *)
(* the newest row it takes goes, and Retained finished rows are newer.     *)
(***************************************************************************)
EXTENDS Schedules, FiniteSetTheorems, WellFoundedInduction, TLAPS

Executing == {"preview", "trust", "bind", "apply", "finish"}

\* What a tick holds in memory.
LoopRow == [pc : {"idle", "next"} \cup Executing, minute : 0 .. MaxMinute,
            pending : SUBSET [key : Key, template : Template], listed : BOOLEAN,
            due : SUBSET [id : Schedule, revision : Revision], key : Key \cup {None},
            template : Template \cup {None}, operation : BOOLEAN, started : BOOLEAN]

Spawn == [planned : BOOLEAN, launched : BOOLEAN, succeeded : BOOLEAN]

Types ==
    /\ schedules \in [Schedule -> {None} \cup ScheduleRow]
    /\ receipts \in [MutationKey -> {None} \cup [request : Put \cup Delete, revision : Revision]]
    /\ spawns \in [Key -> Spawn]
    /\ loop \in [Backend -> LoopRow]
    /\ holder \in Backend
    /\ minute \in Minute
    /\ admitted \in [Key -> Nat]

\* k was admitted with this template; its row, while there is one, says so.
Snapshot(k, template) ==
    /\ k \in Key
    /\ admitted[k] = 1
    /\ Exists(k) => occurrences[k].template = template

\* The row of k, while there is one, names its operation.
Bound(k) == Exists(k) => occurrences[k].operation

\* Every row is well formed, was admitted, and carries a template its schedule had; the row
\* of a minute is one of the schedule its key names.
Rows ==
    /\ DOMAIN occurrences \subseteq Key
    /\ \A k \in DOMAIN occurrences :
         /\ occurrences[k] \in OccurrenceRow
         /\ occurrences[k].state = "started" => occurrences[k].operation
         /\ admitted[k] = 1
         /\ <<occurrences[k].schedule, occurrences[k].revision, occurrences[k].template>>
              \in published
         /\ k \in ScheduledKey => occurrences[k].schedule = k[1]

\* Nothing was admitted twice, and no guard lets it: the watermark has passed every admitted
\* minute, and the row of a run-once key stays.
Admissions ==
    /\ \A k \in Key : admitted[k] <= 1
    /\ \A s \in Schedule, m \in Minute :
         admitted[<<s, m>>] = 1 => schedules[s] # None /\ m <= schedules[s].watermark
    /\ \A k \in ManualKey : admitted[k] = 1 => Exists(k)

\* What a schedule says was published under its revision.
Publications ==
    \A s \in Schedule : schedules[s] # None =>
        <<s, schedules[s].revision, schedules[s].template>> \in published

\* What a tick remembers of the rows it executes is true of them.
Fits(m) ==
    /\ m.pc # "idle" => m.minute \in Minute
    /\ \A p \in m.pending : Snapshot(p.key, p.template)
    /\ m.pc \in Executing => m.template \in Template /\ Snapshot(m.key, m.template)
    /\ m.pc = "apply" => Bound(m.key)
    /\ m.pc = "finish" /\ m.started => m.operation

Loops == \A b \in Backend : Fits(loop[b])

\* Nothing was launched but what an admitted row was bound for, with the template of the row.
Launches ==
    /\ \A k \in Key : spawns[k].launched => admitted[k] = 1 /\ Bound(k)
    /\ \A l \in launchedWith : Snapshot(l[1], l[2])

IInv == Types /\ Rows /\ Admissions /\ Publications /\ Loops /\ Launches /\ contradicted = {}

\* What no step does to an admitted key: admit it again, bring its row back, change the
\* template of the row or unbind it.
Kept ==
    /\ \A k \in Key : admitted[k] = 1 => admitted'[k] = 1
    /\ \A k \in DOMAIN occurrences' : admitted[k] = 1 =>
         /\ k \in DOMAIN occurrences
         /\ occurrences'[k].template = occurrences[k].template
         /\ occurrences[k].operation => occurrences'[k].operation

-----------------------------------------------------------------------------
(* What a tick remembers stays true.                                       *)

\* A remembered template stays the one of the row.
LEMMA SnapshotKept ==
    ASSUME Kept, NEW k, NEW template, Snapshot(k, template)
    PROVE  Snapshot(k, template)'
BY DEF Kept, Snapshot, Exists

\* A bound row stays bound.
LEMMA BoundKept ==
    ASSUME Kept, NEW k \in Key, admitted[k] = 1, Bound(k)
    PROVE  Bound(k)'
BY DEF Kept, Bound, Exists

\* What a tick remembers stays true.
LEMMA FitsKept ==
    ASSUME Kept, NEW m, Fits(m)
    PROVE  Fits(m)'
<1>1. \A p \in m.pending : Snapshot(p.key, p.template)'
  BY SnapshotKept DEF Fits
<1>2. m.pc \in Executing => Snapshot(m.key, m.template)'
  BY SnapshotKept DEF Fits
<1>3. m.pc = "apply" => Bound(m.key)'
  <2> SUFFICES ASSUME m.pc = "apply" PROVE Bound(m.key)'
    OBVIOUS
  <2>1. m.key \in Key /\ admitted[m.key] = 1 /\ Bound(m.key)
    BY DEF Fits, Snapshot, Executing
  <2> QED BY <2>1, BoundKept
<1> QED BY <1>1, <1>2, <1>3 DEF Fits

\* A step of one backend leaves the memory of the others alone.
LEMMA LoopsKept ==
    ASSUME Loops, Kept, NEW b \in Backend, NEW m, loop'[b] = m, Fits(m)',
           \A c \in Backend \ {b} : loop'[c] = loop[c]
    PROVE  Loops'
<1> SUFFICES ASSUME NEW c \in Backend PROVE Fits(loop[c])'
  BY DEF Loops
<1>1. PICK n : n = loop'[c]
  OBVIOUS
<1>2. CASE c = b
  BY <1>2 DEF Fits, Snapshot, Bound, Exists
<1>3. CASE c # b
  <2>1. n = loop[c]
    BY <1>1, <1>3
  <2>2. Fits(n)
    BY <2>1 DEF Loops
  <2>3. Fits(n)'
    BY <2>2, FitsKept
  <2> QED BY <1>1, <2>3 DEF Fits, Snapshot, Bound, Exists
<1> QED BY <1>2, <1>3

\* Nor does a step that is no tick's touch it.
LEMMA LoopsUnchanged ==
    ASSUME Loops, Kept, loop' = loop
    PROVE  Loops'
<1> SUFFICES ASSUME NEW b \in Backend PROVE Loops'
  BY DEF Loops
<1>1. PICK m : m = loop[b]
  OBVIOUS
<1>2. Fits(m)'
  BY <1>1, FitsKept DEF Loops
<1> QED BY <1>1, <1>2, LoopsKept

\* What was launched stays covered by its row.
LEMMA LaunchesKept ==
    ASSUME Launches, Kept, spawns \in [Key -> Spawn], UNCHANGED launchedWith,
           \A k \in Key : spawns'[k].launched = spawns[k].launched
    PROVE  Launches'
<1>1. \A l \in launchedWith : Snapshot(l[1], l[2])'
  BY SnapshotKept DEF Launches
<1>2. ASSUME NEW k \in Key, spawns'[k].launched PROVE admitted'[k] = 1 /\ Bound(k)'
  <2>1. spawns[k].launched /\ admitted[k] = 1 /\ Bound(k)
    BY <1>2 DEF Launches, Spawn
  <2> QED BY <2>1, BoundKept DEF Kept
<1> QED BY <1>1, <1>2 DEF Launches, Snapshot, Exists

-----------------------------------------------------------------------------
(* The three ways a step treats the rows.                                  *)

\* It leaves them alone.
LEMMA RowsUnchanged ==
    ASSUME Rows, UNCHANGED <<occurrences, admitted>>, published \subseteq published'
    PROVE  Rows' /\ Kept
BY DEF Rows, Kept

\* It rewrites or removes some, and keeps schedule, revision, template and binding.
Rewritten ==
    /\ DOMAIN occurrences' \subseteq DOMAIN occurrences
    /\ \A k \in DOMAIN occurrences' :
         /\ occurrences'[k] \in OccurrenceRow
         /\ occurrences'[k].state = "started" => occurrences'[k].operation
         /\ occurrences'[k].schedule = occurrences[k].schedule
         /\ occurrences'[k].revision = occurrences[k].revision
         /\ occurrences'[k].template = occurrences[k].template
         /\ occurrences[k].operation => occurrences'[k].operation
    /\ \A k \in DOMAIN occurrences \ DOMAIN occurrences' : k \in ScheduledKey

\* Rewritten rows stay well formed.
LEMMA RowsRewritten ==
    ASSUME Rows, Rewritten, UNCHANGED <<admitted, published>>
    PROVE  Rows' /\ Kept
BY DEF Rows, Kept, Rewritten

\* It inserts the row of a key that was never admitted.
LEMMA RowsInserted ==
    ASSUME Types, Rows, Publications, NEW s \in Schedule, NEW k \in Key,
           NEW revision \in Revision, admitted[k] = 0, CurrentSchedule(s, revision),
           k \in ScheduledKey => k[1] = s,
           Insert(k, Occurrence(s, k, revision)), UNCHANGED published
    PROVE  /\ Rows' /\ Kept
           /\ admitted' \in [Key -> Nat] /\ admitted'[k] = 1
           /\ \A j \in Key \ {k} : admitted'[j] = admitted[j]
           /\ DOMAIN occurrences' = DOMAIN occurrences \cup {k}
           /\ occurrences'[k].template = schedules[s].template
<1>1. /\ admitted' \in [Key -> Nat] /\ admitted'[k] = 1
      /\ \A j \in Key \ {k} : admitted'[j] = admitted[j]
  BY DEF Types, Insert
<1>2. schedules[s] \in ScheduleRow /\ schedules[s].revision = revision
  BY DEF Types, CurrentSchedule
<1>3. <<s, revision, schedules[s].template>> \in published
  BY <1>2 DEF Publications, CurrentSchedule
<1> DEFINE row == Occurrence(s, k, revision)
<1>4. /\ row \in OccurrenceRow /\ row.state = "pending" /\ row.template = schedules[s].template
      /\ row.schedule = s /\ row.revision = revision
  BY <1>2 DEF Occurrence, OccurrenceRow, ScheduleRow
<1> HIDE DEF row
<1>5. /\ DOMAIN occurrences' = DOMAIN occurrences \cup {k}
      /\ occurrences'[k] = row
      /\ \A j \in DOMAIN occurrences \ {k} : occurrences'[j] = occurrences[j]
  BY DEF Insert, row
<1>6. k \notin DOMAIN occurrences
  <2>1. \A j \in DOMAIN occurrences : admitted[j] = 1
    BY DEF Rows
  <2> QED BY ONLY <2>1, admitted[k] = 0
<1>7. Kept
  BY <1>1, <1>5, <1>6 DEF Kept, Rows
<1>8. Rows'
  BY <1>1, <1>3, <1>4, <1>5, <1>6 DEF Rows
<1> QED BY <1>1, <1>4, <1>5, <1>7, <1>8

\* Nothing is admitted, and no schedule vanishes or falls behind its watermark.
LEMMA AdmissionsKept ==
    ASSUME Types, Types', Admissions, UNCHANGED admitted,
           \A k \in ManualKey : Exists(k) => Exists(k)',
           \A s \in Schedule : schedules[s] # None =>
               schedules'[s] # None /\ schedules[s].watermark <= schedules'[s].watermark
    PROVE  Admissions'
<1>1. \A s \in Schedule : schedules[s] # None => /\ schedules[s].watermark \in Nat
                                                 /\ schedules'[s].watermark \in Nat
  BY SchedulesAssumption DEF Types, ScheduleRow
<1>2. \A s \in Schedule, m \in Minute :
        admitted[<<s, m>>] = 1 => schedules'[s] # None /\ m <= schedules'[s].watermark
  BY <1>1, SchedulesAssumption DEF Admissions, Minute
<1> QED BY <1>2 DEF Admissions, Exists

-----------------------------------------------------------------------------
(* put_schedule and delete_schedule                                        *)

Receipt == [request : Put \cup Delete, revision : Revision]

\* A step that changes neither row, admission, tick nor launch keeps what is said of them.
LEMMA MutationKeeps ==
    ASSUME IInv, UnchangedByMutation, published \subseteq published'
    PROVE  Rows' /\ Loops' /\ Launches'
<1>1. Rows' /\ Kept
  BY RowsUnchanged DEF IInv, UnchangedByMutation
<1>2. Loops'
  BY <1>1, LoopsUnchanged DEF IInv, UnchangedByMutation
<1>3. Launches'
  BY <1>1, LaunchesKept DEF IInv, Types, UnchangedByMutation
<1> QED BY <1>1, <1>2, <1>3

\* A new row that keeps the watermark is a legal state of its schedule.
LEMMA ApplyMutationStep ==
    ASSUME IInv, NEW k \in MutationKey, NEW r \in Put \cup Delete, NEW row \in ScheduleRow,
           r.schedule \in Schedule, Fresh(k, r), ApplyMutation(k, r, row),
           schedules[r.schedule] # None => schedules[r.schedule].watermark <= row.watermark
    PROVE  IInv'
<1> DEFINE s == r.schedule
<1>1. /\ schedules' \in [Schedule -> {None} \cup ScheduleRow] /\ schedules'[s] = row
      /\ \A t \in Schedule \ {s} : schedules'[t] = schedules[t]
  BY DEF IInv, Types, ApplyMutation
<1>2. receipts' \in [MutationKey -> {None} \cup Receipt]
  <2>1. [request |-> r, revision |-> row.revision] \in Receipt
    BY DEF Receipt, ScheduleRow
  <2> QED BY <2>1 DEF IInv, Types, ApplyMutation, Receipt
<1>3. Types'
  BY <1>1, <1>2 DEF IInv, Types, ApplyMutation, UnchangedByMutation, Receipt
<1>4. Rows' /\ Loops' /\ Launches'
  BY MutationKeeps DEF ApplyMutation
<1>5. Admissions'
  <2>1. \A t \in Schedule : schedules[t] # None =>
          schedules'[t] # None /\ schedules[t].watermark <= schedules'[t].watermark
    <3> SUFFICES ASSUME NEW t \in Schedule, schedules[t] # None
                 PROVE  schedules'[t] # None /\ schedules[t].watermark <= schedules'[t].watermark
      OBVIOUS
    <3>1. CASE t = s
      BY <1>1, <3>1, NoneAssumption
    <3>2. CASE t # s
      <4>1. schedules[t].watermark \in Nat
        BY SchedulesAssumption DEF IInv, Types, ScheduleRow
      <4> QED BY <1>1, <3>2, <4>1
    <3> QED BY <3>1, <3>2
  <2>2. UNCHANGED <<admitted, occurrences>>
    BY DEF ApplyMutation, UnchangedByMutation
  <2> HIDE DEF s
  <2> QED BY <1>3, <2>1, <2>2, AdmissionsKept DEF IInv, Exists
<1>6. Publications'
  <2> SUFFICES ASSUME NEW t \in Schedule, schedules'[t] # None
               PROVE  <<t, schedules'[t].revision, schedules'[t].template>> \in published'
    BY DEF Publications
  <2>1. published' = published \cup {<<s, row.revision, row.template>>}
    BY DEF ApplyMutation
  <2>2. CASE t = s
    BY <1>1, <2>1, <2>2
  <2>3. CASE t # s
    BY <1>1, <2>1, <2>3 DEF IInv, Publications
  <2> QED BY <2>2, <2>3
<1>7. contradicted' = {}
  BY DEF IInv, ApplyMutation, Answer, Fresh
<1> QED BY <1>3, <1>4, <1>5, <1>6, <1>7 DEF IInv

\* put_schedule keeps the watermark and makes the next revision.
LEMMA PutScheduleStep ==
    ASSUME IInv, NEW k \in MutationKey, NEW r \in Put, PutSchedule(k, r)
    PROVE  IInv'
<1>1. /\ r \in Put \cup Delete /\ r.schedule \in Schedule /\ r.expected + 1 \in Revision
      /\ r.enabled \in BOOLEAN /\ r.expression \in Expression /\ r.template \in Template
  BY SchedulesAssumption DEF Put, Revision
<1> DEFINE old == schedules[r.schedule]
           mark == IF old = None THEN 0 ELSE old.watermark
<1>2. mark \in 0 .. MaxMinute /\ (old # None => old.watermark <= mark)
  <2>1. old # None => old \in ScheduleRow
    BY <1>1 DEF IInv, Types
  <2> HIDE DEF old
  <2>2. old # None => old.watermark \in 0 .. MaxMinute
    BY <2>1 DEF ScheduleRow
  <2> QED BY <2>2, SchedulesAssumption
<1>3. PutRow(r) \in ScheduleRow /\ (old # None => old.watermark <= PutRow(r).watermark)
  BY <1>1, <1>2 DEF PutRow, ScheduleRow
<1> QED BY <1>1, <1>3, ApplyMutationStep DEF PutSchedule

\* delete_schedule leaves a tombstone with the watermark in it.
LEMMA DeleteScheduleStep ==
    ASSUME IInv, NEW k \in MutationKey, NEW r \in Delete, DeleteSchedule(k, r)
    PROVE  IInv'
<1>1. r \in Put \cup Delete /\ r.schedule \in Schedule /\ r.expected + 1 \in Revision
  BY SchedulesAssumption DEF Delete, Revision
<1>2. schedules[r.schedule] \in ScheduleRow /\ schedules[r.schedule].revision = r.expected
  BY <1>1 DEF DeleteSchedule, Mutable, StoredRevision, IInv, Types
<1>3. /\ DeleteRow(r) \in ScheduleRow
      /\ schedules[r.schedule].watermark <= DeleteRow(r).watermark
  <2> DEFINE old == schedules[r.schedule]
  <2>1. old \in ScheduleRow /\ old.revision + 1 \in Revision
    BY <1>1, <1>2
  <2>2. DeleteRow(r) = [old EXCEPT !.revision = old.revision + 1, !.deleted = TRUE]
    BY DEF DeleteRow
  <2> HIDE DEF old
  <2>3. DeleteRow(r) \in ScheduleRow /\ DeleteRow(r).watermark = old.watermark
    BY <2>1, <2>2 DEF ScheduleRow
  <2>4. old.watermark \in 0 .. MaxMinute
    BY <2>1 DEF ScheduleRow
  <2> QED BY <2>3, <2>4, SchedulesAssumption DEF old
<1> QED BY <1>1, <1>3, ApplyMutationStep DEF DeleteSchedule

\* A refused or repeated request writes nothing; the receipt repeats its answer.
LEMMA AnswerStep ==
    ASSUME IInv, NEW k \in MutationKey, NEW r \in Put \cup Delete,
           RefuseMutation(k, r) \/ ReplayMutation(k, r)
    PROVE  IInv'
<1>1. UNCHANGED <<schedules, receipts, published>> /\ UnchangedByMutation
  BY DEF RefuseMutation, ReplayMutation
<1>2. contradicted' = {}
  <2>1. CASE receipts[k] = None
    BY <2>1 DEF IInv, RefuseMutation, ReplayMutation, Answer, Fresh
  <2>2. CASE receipts[k] # None
    <3>1. receipts[k] = [request |-> receipts[k].request, revision |-> receipts[k].revision]
      BY <2>2 DEF IInv, Types
    <3>2. Answer(k, r, IF receipts[k].request = r THEN receipts[k].revision ELSE None)
      BY <2>2 DEF RefuseMutation, ReplayMutation, Fresh
    <3> QED BY <3>1, <3>2 DEF Answer, IInv
  <2> QED BY <2>1, <2>2
<1>3. Rows' /\ Loops' /\ Launches'
  BY <1>1, MutationKeeps
<1>4. Types' /\ Admissions' /\ Publications'
  BY <1>1 DEF IInv, Types, Admissions, Publications, UnchangedByMutation, Exists
<1> QED BY <1>2, <1>3, <1>4 DEF IInv

-----------------------------------------------------------------------------
(* run_schedule_once and the part of a tick that reads and claims          *)

\* A run-once key that has no row was never admitted.
LEMMA RunOnceStep ==
    ASSUME IInv, NEW s \in Schedule, NEW k \in ManualKey, NEW revision \in Revision,
           RunOnce(s, k, revision)
    PROVE  IInv'
<1>1. k \in Key /\ admitted[k] \in Nat
  BY DEF Key, IInv, Types
<1>2. admitted[k] = 0
  BY <1>1 DEF IInv, Admissions, RunOnce
<1>3. /\ Rows' /\ Kept
      /\ admitted' \in [Key -> Nat] /\ admitted'[k] = 1
      /\ \A j \in Key \ {k} : admitted'[j] = admitted[j]
      /\ DOMAIN occurrences' = DOMAIN occurrences \cup {k}
  BY <1>1, <1>2, RowsInserted, KeysAssumption DEF IInv, RunOnce
<1>4. Types'
  BY <1>3 DEF IInv, Types, RunOnce
<1>5. Admissions'
  <2>1. \A j \in Key : admitted'[j] <= 1
    BY <1>3 DEF IInv, Admissions
  <2>2. \A t \in Schedule, m \in Minute : <<t, m>> \in Key \ {k}
    BY KeysAssumption DEF Key, ScheduledKey
  <2>3. \A t \in Schedule, m \in Minute :
          admitted'[<<t, m>>] = 1 => schedules'[t] # None /\ m <= schedules'[t].watermark
    BY <1>3, <2>2 DEF IInv, Admissions, RunOnce
  <2>4. \A j \in ManualKey : admitted'[j] = 1 => j \in DOMAIN occurrences'
    BY <1>3 DEF IInv, Admissions, Exists, Key
  <2> QED BY <2>1, <2>3, <2>4 DEF Admissions, Exists
<1>6. Publications' /\ contradicted' = {}
  BY DEF IInv, Publications, RunOnce
<1>7. Loops'
  BY <1>3, LoopsUnchanged DEF IInv, RunOnce
<1>8. Launches'
  BY <1>3, LaunchesKept DEF IInv, Types, RunOnce
<1> QED BY <1>3, <1>4, <1>5, <1>6, <1>7, <1>8 DEF IInv

\* One backend goes on with what it holds.
LEMMA LoopSet ==
    ASSUME Types, NEW b \in Backend, NEW m \in LoopRow, loop' = [loop EXCEPT ![b] = m]
    PROVE  /\ loop' \in [Backend -> LoopRow] /\ loop'[b] = m
           /\ \A c \in Backend \ {b} : loop'[c] = loop[c]
BY DEF Types

\* A step of a tick that changes no row and launches nothing, when what it remembers is true.
LEMMA ReadStep ==
    ASSUME IInv, NEW b \in Backend, NEW m \in LoopRow, loop' = [loop EXCEPT ![b] = m], Fits(m),
           UNCHANGED <<schedules, occurrences, admitted, launchedWith>>, UnchangedByTick,
           spawns' \in [Key -> Spawn],
           \A k \in Key : spawns'[k].launched = spawns[k].launched
    PROVE  IInv'
<1>1. /\ loop' \in [Backend -> LoopRow] /\ loop'[b] = m
      /\ \A c \in Backend \ {b} : loop'[c] = loop[c]
  BY LoopSet DEF IInv
<1>2. Rows' /\ Kept
  BY RowsUnchanged DEF IInv, UnchangedByTick
<1>3. Fits(m)'
  BY <1>2, FitsKept
<1>4. Loops'
  BY <1>1, <1>2, <1>3, LoopsKept DEF IInv
<1>5. Types'
  BY <1>1 DEF IInv, Types, UnchangedByTick
<1>6. Launches'
  BY <1>2, LaunchesKept DEF IInv, Types
<1>7. Admissions' /\ Publications' /\ contradicted' = {}
  BY DEF IInv, Admissions, Publications, UnchangedByTick, Exists
<1> QED BY <1>2, <1>4, <1>5, <1>6, <1>7 DEF IInv

\* The idle memory remembers nothing.
LEMMA IdleFits == Idle \in LoopRow /\ Fits(Idle)
<1>1. Idle \in LoopRow
  BY SchedulesAssumption DEF Idle, LoopRow
<1>2. Fits(Idle)
  BY DEF Idle, Fits, Executing
<1> QED BY <1>1, <1>2

\* A tick begins with the pending rows as they are.
LEMMA TickStep ==
    ASSUME IInv, NEW b \in Backend, Tick(b)
    PROVE  IInv'
<1> DEFINE rows == {j \in DOMAIN occurrences : occurrences[j].state = "pending"}
           list == {[key |-> k, template |-> occurrences[k].template] : k \in rows}
           m == [Idle EXCEPT !.pc = "next", !.minute = minute, !.pending = list]
<1>1. \A p \in list : p \in [key : Key, template : Template] /\ Snapshot(p.key, p.template)
  <2> SUFFICES ASSUME NEW k \in rows,
                      NEW p, p = [key |-> k, template |-> occurrences[k].template]
               PROVE  p \in [key : Key, template : Template] /\ Snapshot(p.key, p.template)
    OBVIOUS
  <2>1. /\ k \in Key /\ occurrences[k] \in OccurrenceRow /\ admitted[k] = 1
        /\ occurrences[k].template \in Template
    BY DEF IInv, Rows, OccurrenceRow
  <2> QED BY <2>1 DEF Snapshot
<1> HIDE DEF list
<1>2. minute \in Minute /\ minute \in 0 .. MaxMinute
  BY SchedulesAssumption DEF IInv, Types, Minute
<1>3. /\ m \in LoopRow
      /\ m.pc = "next" /\ m.minute = minute /\ m.pending = list
  BY <1>1, <1>2, IdleFits DEF LoopRow, Idle
<1>4. loop' = [loop EXCEPT ![b] = m]
  BY DEF Tick, list
<1> HIDE DEF m
<1>5. Fits(m)
  BY <1>1, <1>2, <1>3 DEF Fits, Executing
<1> QED BY <1>3, <1>4, <1>5, ReadStep DEF Tick, IInv, Types

\* A pending row is executed with the template the tick listed it with.
LEMMA TakePendingStep ==
    ASSUME IInv, NEW b \in Backend, TakePending(b)
    PROVE  IInv'
<1>1. PICK p \in loop[b].pending :
        loop' = [loop EXCEPT ![b] = [Execute(b, p.key, p.template) EXCEPT !.pending = @ \ {p}]]
  BY DEF TakePending
<1> DEFINE old == loop[b]
           m == [Execute(b, p.key, p.template) EXCEPT !.pending = @ \ {p}]
<1>2. old \in LoopRow /\ Fits(old) /\ old.pc = "next"
  BY DEF IInv, Types, Loops, TakePending
<1>3. m = [[old EXCEPT !.pc = "preview", !.key = p.key, !.template = p.template,
                      !.operation = FALSE, !.started = FALSE] EXCEPT !.pending = @ \ {p}]
  BY DEF Execute
<1>4. loop' = [loop EXCEPT ![b] = m] /\ p \in old.pending
  BY <1>1
<1> HIDE DEF old, m
<1>5. p.key \in Key /\ p.template \in Template /\ Snapshot(p.key, p.template)
  BY <1>2, <1>4 DEF LoopRow, Fits
<1>6. m \in LoopRow
  BY <1>2, <1>3, <1>5 DEF LoopRow, Executing
<1>7. /\ m.pc = "preview" /\ m.key = p.key /\ m.template = p.template
      /\ m.pending = old.pending \ {p} /\ m.minute = old.minute
  BY <1>2, <1>3, <1>5 DEF LoopRow
<1>8. Fits(m)
  BY <1>2, <1>5, <1>7 DEF Fits
<1> QED BY <1>4, <1>6, <1>8, ReadStep DEF TakePending, IInv, Types

\* The schedules that are due are listed with their revisions.
LEMMA ListSchedulesStep ==
    ASSUME IInv, NEW b \in Backend, ListSchedules(b)
    PROVE  IInv'
<1> DEFINE old == loop[b]
           list == {[id |-> s, revision |-> schedules[s].revision] :
                      s \in {t \in Schedule : Due(t, old.minute)}}
           m == [old EXCEPT !.listed = TRUE, !.due = list]
<1>1. old \in LoopRow /\ Fits(old) /\ old.pc = "next"
  BY DEF IInv, Types, Loops, ListSchedules
<1>2. list \in SUBSET [id : Schedule, revision : Revision]
  <2> SUFFICES ASSUME NEW s \in Schedule, Due(s, old.minute)
               PROVE  schedules[s].revision \in Revision
    OBVIOUS
  <2>1. schedules[s] \in ScheduleRow
    BY DEF IInv, Types, Due
  <2> QED BY <2>1 DEF ScheduleRow
<1>3. loop' = [loop EXCEPT ![b].listed = TRUE, ![b].due = list]
  BY DEF ListSchedules
<1> HIDE DEF list
<1>4. loop' = [loop EXCEPT ![b] = m]
  BY <1>3, Zenon
<1> HIDE DEF old
<1>5. /\ m \in LoopRow
      /\ m.pc = old.pc /\ m.pending = old.pending /\ m.minute = old.minute
  BY <1>1, <1>2 DEF LoopRow
<1> HIDE DEF m
<1>6. Fits(m)
  BY <1>1, <1>5 DEF Fits, Executing
<1> QED BY <1>4, <1>5, <1>6, ReadStep DEF ListSchedules, IInv, Types

\* A listed schedule is passed over.
LEMMA DueDropped ==
    ASSUME NEW old \in LoopRow, Fits(old), old.pc = "next", NEW d, NEW m,
           m = [old EXCEPT !.due = @ \ {d}]
    PROVE  m \in LoopRow /\ Fits(m)
<1>1. /\ m \in LoopRow
      /\ m.pc = old.pc /\ m.pending = old.pending /\ m.minute = old.minute
  BY DEF LoopRow
<1> QED BY <1>1 DEF Fits, Executing

\* The memory of a tick that executes k for the listed schedule d.
Claimed(old, k, template, d) ==
    [[old EXCEPT !.pc = "preview", !.key = k, !.template = template, !.operation = FALSE,
                 !.started = FALSE] EXCEPT !.due = @ \ {d}]

\* A due schedule is executed.
LEMMA DueExecuted ==
    ASSUME NEW old \in LoopRow, old.pc = "next", NEW k \in Key, NEW template \in Template,
           NEW d, NEW m, m = Claimed(old, k, template, d)
    PROVE  /\ m \in LoopRow
           /\ m.pc = "preview" /\ m.key = k /\ m.template = template
           /\ m.pending = old.pending /\ m.minute = old.minute
<1>1. m \in LoopRow
  BY DEF LoopRow, Executing, Claimed
<1>2. /\ m.pc = "preview" /\ m.key = k /\ m.template = template
      /\ m.pending = old.pending /\ m.minute = old.minute
  BY DEF LoopRow, Claimed
<1> QED BY <1>1, <1>2

\* What a claim reads in memory.
LEMMA ClaimReads ==
    ASSUME IInv, NEW b \in Backend, NEW d \in FirstDue(b), loop[b].pc = "next"
    PROVE  /\ loop[b] \in LoopRow /\ Fits(loop[b]) /\ loop[b].minute \in Minute
           /\ d.id \in Schedule /\ d.revision \in Revision
           /\ <<d.id, loop[b].minute>> \in Key
<1>1. loop[b] \in LoopRow /\ Fits(loop[b]) /\ loop[b].minute \in Minute
  BY DEF IInv, Types, Loops, Fits
<1>2. d.id \in Schedule /\ d.revision \in Revision
  BY <1>1 DEF FirstDue, LoopRow
<1> QED BY <1>1, <1>2 DEF Key, ScheduledKey

\* A minute beyond the watermark was never admitted; its admission moves the watermark on.
LEMMA ClaimNewStep ==
    ASSUME IInv, NEW b \in Backend, ClaimNew(b)
    PROVE  IInv'
<1>1. PICK d \in FirstDue(b) :
        LET k == <<d.id, loop[b].minute>>
        IN  /\ loop[b].pc = "next" /\ loop[b].listed
            /\ ~Exists(k)
            /\ CurrentSchedule(d.id, d.revision)
            /\ AdmissibleMinute(d.id, loop[b].minute)
            /\ Insert(k, Occurrence(d.id, k, d.revision))
            /\ schedules' = [schedules EXCEPT ![d.id].watermark = loop[b].minute]
            /\ loop' = [loop EXCEPT ![b] = [Execute(b, k, schedules[d.id].template)
                                              EXCEPT !.due = @ \ {d}]]
            /\ UNCHANGED <<spawns, launchedWith>>
            /\ UnchangedByTick
  BY DEF ClaimNew
<1>0. PICK old, k, row, m :
        /\ old = loop[b] /\ k = <<d.id, old.minute>> /\ row = schedules[d.id]
        /\ m = Claimed(old, k, row.template, d)
  OBVIOUS
<1>2. /\ old \in LoopRow /\ Fits(old) /\ old.pc = "next" /\ old.minute \in Minute
      /\ d.id \in Schedule /\ d.revision \in Revision /\ k \in Key
  BY <1>0, <1>1, ClaimReads
<1>3. row \in ScheduleRow /\ row.watermark < old.minute /\ row.template \in Template
  BY <1>0, <1>1, <1>2 DEF IInv, Types, CurrentSchedule, AdmissibleMinute, ScheduleRow
<1>4. admitted[k] = 0
  <2>1. admitted[k] \in Nat /\ admitted[k] <= 1
    BY <1>2 DEF IInv, Types, Admissions
  <2>2. row.watermark \in Nat /\ old.minute \in Nat
    BY <1>2, <1>3, SchedulesAssumption DEF ScheduleRow, Minute
  <2>3. admitted[k] # 1
    BY <1>0, <1>2, <1>3, <2>2 DEF IInv, Admissions
  <2> QED BY <2>1, <2>3
<1>5. /\ Rows' /\ Kept
      /\ admitted' \in [Key -> Nat] /\ admitted'[k] = 1
      /\ \A j \in Key \ {k} : admitted'[j] = admitted[j]
      /\ DOMAIN occurrences' = DOMAIN occurrences \cup {k}
      /\ occurrences'[k].template = row.template
  <2>1. k[1] = d.id
    BY <1>0
  <2> QED BY <1>0, <1>1, <1>2, <1>4, <2>1, RowsInserted DEF IInv, UnchangedByTick
<1>6. /\ schedules' \in [Schedule -> {None} \cup ScheduleRow] /\ schedules'[d.id] # None
      /\ schedules'[d.id].watermark = old.minute
      /\ schedules'[d.id].revision = row.revision /\ schedules'[d.id].template = row.template
      /\ \A t \in Schedule \ {d.id} : schedules'[t] = schedules[t]
  <2> DEFINE new == [row EXCEPT !.watermark = old.minute]
  <2>1. schedules' = [schedules EXCEPT ![d.id] = new]
    BY <1>0, <1>1, Zenon
  <2>2. old.minute \in 0 .. MaxMinute
    BY <1>2, SchedulesAssumption DEF Minute
  <2>3. /\ new \in ScheduleRow /\ new.watermark = old.minute
        /\ new.revision = row.revision /\ new.template = row.template
    BY <1>3, <2>2 DEF ScheduleRow
  <2> HIDE DEF new
  <2> QED BY <1>2, <2>1, <2>3, NoneAssumption DEF IInv, Types
<1>7. m \in LoopRow /\ loop' = [loop EXCEPT ![b] = m] /\ Fits(m)'
  <2>1. loop' = [loop EXCEPT ![b] = m]
    BY <1>0, <1>1 DEF Execute, Claimed
  <2>3. /\ m \in LoopRow
        /\ m.pc = "preview" /\ m.key = k /\ m.template = row.template
        /\ m.pending = old.pending /\ m.minute = old.minute
    BY <1>0, <1>2, <1>3, DueExecuted
  <2>4. \A p \in m.pending : Snapshot(p.key, p.template)'
    BY <1>2, <1>5, <2>3, SnapshotKept DEF Fits
  <2>5. Snapshot(m.key, m.template)'
    BY <1>2, <1>5, <2>3 DEF Snapshot, Exists
  <2>6. Fits(m)'
    BY <1>2, <1>3, <2>3, <2>4, <2>5 DEF Fits
  <2> QED BY <2>1, <2>3, <2>6
<1>8. /\ loop' \in [Backend -> LoopRow] /\ loop'[b] = m
      /\ \A c \in Backend \ {b} : loop'[c] = loop[c]
  BY <1>7, LoopSet DEF IInv
<1>9. Loops'
  BY <1>5, <1>7, <1>8, LoopsKept DEF IInv
<1>10. Types'
  BY <1>1, <1>5, <1>6, <1>8 DEF IInv, Types, UnchangedByTick
<1>11. Launches'
  BY <1>1, <1>5, LaunchesKept DEF IInv, Types
<1>12. Publications' /\ contradicted' = {}
  <2>1. UNCHANGED <<published, contradicted>>
    BY <1>1 DEF UnchangedByTick
  <2>2. \A t \in Schedule : schedules'[t] # None =>
          schedules[t] # None /\ schedules'[t].revision = schedules[t].revision
                              /\ schedules'[t].template = schedules[t].template
    BY <1>0, <1>2, <1>3, <1>6, NoneAssumption
  <2> QED BY <2>1, <2>2 DEF IInv, Publications
<1>13. Admissions'
  <2>1. \A j \in Key : admitted'[j] <= 1
    BY <1>5 DEF IInv, Admissions
  <2>2. ASSUME NEW t \in Schedule, NEW n \in Minute, admitted'[<<t, n>>] = 1
        PROVE  schedules'[t] # None /\ n <= schedules'[t].watermark
    <3>1. CASE <<t, n>> = k
      BY <1>0, <1>2, <1>6, <3>1, SchedulesAssumption DEF Minute
    <3>2. CASE <<t, n>> # k
      <4>1. admitted[<<t, n>>] = 1
        BY <1>5, <2>2, <3>2 DEF Key, ScheduledKey
      <4>2. schedules[t] # None /\ n <= schedules[t].watermark
        BY <4>1 DEF IInv, Admissions
      <4>3. CASE t # d.id
        BY <1>6, <4>2, <4>3
      <4>4. CASE t = d.id
        <5>1. row.watermark \in Nat /\ old.minute \in Nat /\ n \in Nat
          BY <1>2, <1>3, SchedulesAssumption DEF ScheduleRow, Minute
        <5> QED BY <1>0, <1>3, <1>6, <4>2, <4>4, <5>1
      <4> QED BY <4>3, <4>4
    <3> QED BY <3>1, <3>2
  <2>3. \A j \in ManualKey : admitted'[j] = 1 => j \in DOMAIN occurrences'
    BY <1>5 DEF IInv, Admissions, Exists, Key
  <2> QED BY <2>1, <2>2, <2>3 DEF Admissions, Exists
<1> QED BY <1>5, <1>9, <1>10, <1>11, <1>12, <1>13 DEF IInv

\* An existing row is executed again while it is pending, with its own template.
LEMMA ClaimExistingStep ==
    ASSUME IInv, NEW b \in Backend, ClaimExisting(b)
    PROVE  IInv'
<1>1. PICK d \in FirstDue(b) :
        LET k == <<d.id, loop[b].minute>>
        IN  /\ loop[b].pc = "next" /\ loop[b].listed
            /\ Exists(k)
            /\ loop' = [loop EXCEPT ![b] =
                 IF IdentityChanged(k, d.id, d.revision) THEN Idle
                 ELSE IF occurrences[k].state = "pending"
                      THEN [Execute(b, k, occurrences[k].template) EXCEPT !.due = @ \ {d}]
                      ELSE [loop[b] EXCEPT !.due = @ \ {d}]]
            /\ UNCHANGED <<schedules, occurrences, spawns, admitted, launchedWith>>
            /\ UnchangedByTick
  BY DEF ClaimExisting
<1>2. PICK old, k, template :
        old = loop[b] /\ k = <<d.id, old.minute>> /\ template = occurrences[k].template
  OBVIOUS
<1>3. old \in LoopRow /\ Fits(old) /\ old.pc = "next" /\ k \in Key
  BY <1>1, <1>2, ClaimReads
<1>4. template \in Template /\ Snapshot(k, template)
  BY <1>1, <1>2, <1>3 DEF IInv, Rows, OccurrenceRow, Snapshot, Exists
<1>5. PICK m \in LoopRow : loop' = [loop EXCEPT ![b] = m] /\ Fits(m)
  <2>1. CASE IdentityChanged(k, d.id, d.revision)
    <3>1. loop' = [loop EXCEPT ![b] = Idle]
      BY <1>1, <1>2, <2>1
    <3> QED BY <3>1, IdleFits
  <2>2. CASE ~IdentityChanged(k, d.id, d.revision) /\ occurrences[k].state = "pending"
    <3>1. PICK m : m = Claimed(old, k, template, d)
      OBVIOUS
    <3>2. loop' = [loop EXCEPT ![b] = m]
      BY <1>1, <1>2, <2>2, <3>1 DEF Execute, Claimed
    <3>3. /\ m \in LoopRow
          /\ m.pc = "preview" /\ m.key = k /\ m.template = template
          /\ m.pending = old.pending /\ m.minute = old.minute
      BY <1>3, <1>4, <3>1, DueExecuted
    <3>4. Fits(m)
      BY <1>3, <1>4, <3>3 DEF Fits
    <3> QED BY <3>2, <3>3, <3>4
  <2>3. CASE ~IdentityChanged(k, d.id, d.revision) /\ occurrences[k].state # "pending"
    <3>1. PICK m : m = [old EXCEPT !.due = @ \ {d}]
      OBVIOUS
    <3>2. loop' = [loop EXCEPT ![b] = m]
      BY <1>1, <1>2, <2>3, <3>1
    <3> QED BY <1>3, <3>1, <3>2, DueDropped
  <2> QED BY <2>1, <2>2, <2>3
<1> QED BY <1>1, <1>5, ReadStep DEF IInv, Types

\* A claim the store refuses passes the schedule over.
LEMMA ClaimNothingStep ==
    ASSUME IInv, NEW b \in Backend, ClaimNothing(b)
    PROVE  IInv'
<1>1. PICK d \in FirstDue(b) :
        loop[b].pc = "next" /\ loop' = [loop EXCEPT ![b].due = @ \ {d}]
  BY DEF ClaimNothing
<1>2. PICK old, m : old = loop[b] /\ m = [old EXCEPT !.due = @ \ {d}]
  OBVIOUS
<1>3. old \in LoopRow /\ Fits(old) /\ old.pc = "next"
  BY <1>1, <1>2, ClaimReads
<1>4. loop' = [loop EXCEPT ![b] = m]
  BY <1>1, <1>2
<1>5. m \in LoopRow /\ Fits(m)
  BY <1>2, <1>3, DueDropped
<1> QED BY <1>4, <1>5, ReadStep DEF ClaimNothing, IInv, Types

\* A tick ends with nothing in memory.
LEMMA EndTickStep ==
    ASSUME IInv, NEW b \in Backend, EndTick(b)
    PROVE  IInv'
BY IdleFits, ReadStep DEF EndTick, IInv, Types

-----------------------------------------------------------------------------
(* The part of a tick that launches                                        *)

\* A launch that is over keeps its key and its template.
LEMMA SettleFits ==
    ASSUME IInv, NEW b \in Backend, loop[b].pc \in Executing, NEW operation \in BOOLEAN,
           NEW started \in BOOLEAN, started => operation, Settle(b, operation, started)
    PROVE  \E m \in LoopRow : loop' = [loop EXCEPT ![b] = m] /\ Fits(m)
<1>1. PICK old, m :
        /\ old = loop[b]
        /\ m = [old EXCEPT !.pc = "finish", !.operation = operation, !.started = started]
  OBVIOUS
<1>2. old \in LoopRow /\ Fits(old) /\ old.pc \in Executing
  BY <1>1 DEF IInv, Types, Loops
<1>3. loop' = [loop EXCEPT ![b] = [loop[b] EXCEPT !.pc = "finish", !.operation = operation,
                                                  !.started = started]]
  BY Zenon DEF Settle
<1>4. loop' = [loop EXCEPT ![b] = m]
  BY <1>1, <1>3
<1>5. m \in LoopRow
  BY <1>1, <1>2 DEF LoopRow, Executing
<1>6. /\ m.pc = "finish" /\ m.key = old.key /\ m.template = old.template
      /\ m.pending = old.pending /\ m.minute = old.minute
      /\ (m.started <=> started) /\ (m.operation <=> operation)
  BY <1>1, <1>2 DEF LoopRow
<1>7. Fits(m)
  BY <1>2, <1>6 DEF Fits, Executing
<1> QED BY <1>4, <1>5, <1>7

\* A launch that goes on keeps its key and its template.
LEMMA ProceedFits ==
    ASSUME IInv, NEW b \in Backend, loop[b].pc \in Executing, NEW pc \in Executing,
           loop' = [loop EXCEPT ![b].pc = pc]
    PROVE  \E m \in LoopRow : /\ loop' = [loop EXCEPT ![b] = m]
                              /\ m.pc = pc /\ m.key = loop[b].key
                              /\ pc \notin {"apply", "finish"} => Fits(m)
                              /\ m.template = loop[b].template
                              /\ m.pending = loop[b].pending /\ m.minute = loop[b].minute
<1>1. PICK old, m : old = loop[b] /\ m = [old EXCEPT !.pc = pc]
  OBVIOUS
<1>2. old \in LoopRow /\ Fits(old) /\ old.pc \in Executing
  BY <1>1 DEF IInv, Types, Loops
<1>3. loop' = [loop EXCEPT ![b] = m]
  BY <1>1
<1>4. /\ m \in LoopRow /\ m.pc = pc /\ m.key = old.key /\ m.template = old.template
      /\ m.pending = old.pending /\ m.minute = old.minute
  BY <1>1, <1>2 DEF LoopRow
<1>5. pc \notin {"apply", "finish"} => Fits(m)
  BY <1>2, <1>4 DEF Fits, Executing
<1> QED BY <1>1, <1>3, <1>4, <1>5

\* preview_agent_spawn launches nothing.
LEMMA PreviewStep ==
    ASSUME IInv, NEW b \in Backend, Preview(b)
    PROVE  IInv'
<1>1. PICK m \in LoopRow : loop' = [loop EXCEPT ![b] = m] /\ Fits(m)
  <2>1. PICK pc \in {"trust", "bind"} : loop' = [loop EXCEPT ![b].pc = pc]
    BY DEF Preview
  <2>2. loop[b].pc \in Executing /\ pc \in Executing /\ pc \notin {"apply", "finish"}
    BY <2>1 DEF Preview, Executing
  <2> QED BY <2>1, <2>2, ProceedFits
<1>2. PICK k, old : k = loop[b].key /\ old = spawns[k]
  OBVIOUS
<1>3. k \in Key /\ old \in Spawn
  BY <1>2 DEF IInv, Types, Loops, Fits, Preview, Executing, Snapshot
<1>4. spawns' = [spawns EXCEPT ![k] = [old EXCEPT !.planned = TRUE]]
  BY <1>2 DEF Preview
<1>5. [old EXCEPT !.planned = TRUE] \in Spawn
  BY <1>3 DEF Spawn
<1>6. [old EXCEPT !.planned = TRUE].launched = old.launched
  BY <1>3 DEF Spawn
<1>7. /\ spawns' \in [Key -> Spawn]
      /\ \A j \in Key : spawns'[j].launched = spawns[j].launched
  BY <1>2, <1>3, <1>4, <1>5, <1>6 DEF IInv, Types
<1> QED BY <1>1, <1>7, ReadStep DEF Preview

\* A refused preview, and a workspace that is not trusted, launch nothing.
LEMMA RefusedStep ==
    ASSUME IInv, NEW b \in Backend, PreviewFails(b) \/ TrustRefused(b)
    PROVE  IInv'
<1>1. loop[b].pc \in Executing /\ \E o \in BOOLEAN : Settle(b, o, FALSE)
  BY DEF PreviewFails, TrustRefused, Executing
<1>2. PICK m \in LoopRow : loop' = [loop EXCEPT ![b] = m] /\ Fits(m)
  BY <1>1, SettleFits
<1> QED BY <1>2, ReadStep DEF PreviewFails, TrustRefused, IInv, Types

\* A step of a tick that rewrites rows.
LEMMA RewriteStep ==
    ASSUME IInv, NEW b \in Backend, NEW m \in LoopRow, loop' = [loop EXCEPT ![b] = m],
           Fits(m)', Rewritten, UnchangedByTick,
           UNCHANGED <<schedules, spawns, admitted, launchedWith>>
    PROVE  IInv'
<1>1. /\ loop' \in [Backend -> LoopRow] /\ loop'[b] = m
      /\ \A c \in Backend \ {b} : loop'[c] = loop[c]
  BY LoopSet DEF IInv
<1>2. Rows' /\ Kept
  BY RowsRewritten DEF IInv, UnchangedByTick
<1>3. Loops'
  BY <1>1, <1>2, LoopsKept DEF IInv
<1>4. Types'
  BY <1>1 DEF IInv, Types, UnchangedByTick
<1>5. Launches'
  BY <1>2, LaunchesKept DEF IInv, Types
<1>6. Admissions'
  BY KeysAssumption DEF IInv, Admissions, Rewritten, Exists
<1>7. Publications' /\ contradicted' = {}
  BY DEF IInv, Publications, UnchangedByTick
<1> QED BY <1>2, <1>3, <1>4, <1>5, <1>6, <1>7 DEF IInv

\* bind_schedule_spawn binds the pending row before the launch, or gives the launch up.
LEMMA BindStep ==
    ASSUME IInv, NEW b \in Backend, Bind(b)
    PROVE  IInv'
<1>1. loop[b].pc \in Executing /\ UnchangedByTick
      /\ UNCHANGED <<schedules, spawns, admitted, launchedWith>>
  BY DEF Bind, Executing
<1>2. CASE UNCHANGED occurrences /\ Settle(b, TRUE, FALSE)
  <2>1. PICK m \in LoopRow : loop' = [loop EXCEPT ![b] = m] /\ Fits(m)
    BY <1>1, <1>2, SettleFits
  <2> QED BY <1>1, <1>2, <2>1, ReadStep DEF IInv, Types
<1>3. CASE /\ Bindable(loop[b].key)
           /\ occurrences' = [occurrences EXCEPT ![loop[b].key].operation = TRUE]
           /\ loop' = [loop EXCEPT ![b].pc = "apply"]
  <2>1. PICK m \in LoopRow : /\ loop' = [loop EXCEPT ![b] = m]
                             /\ m.pc = "apply" /\ m.key = loop[b].key
                             /\ m.template = loop[b].template
                             /\ m.pending = loop[b].pending /\ m.minute = loop[b].minute
    BY <1>1, <1>3, ProceedFits DEF Executing
  <2>2. PICK k, old : k = loop[b].key /\ k = m.key /\ old = occurrences[k]
    BY <2>1
  <2>3. k \in DOMAIN occurrences /\ old \in OccurrenceRow /\ old.state = "pending"
    BY <1>3, <2>2 DEF IInv, Rows, Bindable, Exists
  <2>4. /\ DOMAIN occurrences' = DOMAIN occurrences
        /\ occurrences'[k] = [old EXCEPT !.operation = TRUE]
        /\ \A j \in DOMAIN occurrences \ {k} : occurrences'[j] = occurrences[j]
    BY <1>3, <2>2, <2>3
  <2>5. /\ occurrences'[k] \in OccurrenceRow
        /\ occurrences'[k].schedule = old.schedule /\ occurrences'[k].revision = old.revision
        /\ occurrences'[k].template = old.template /\ occurrences'[k].operation
    BY <2>3, <2>4 DEF OccurrenceRow
  <2>6. Rewritten
    BY <2>2, <2>4, <2>5 DEF Rewritten, IInv, Rows
  <2>7. Kept
    BY <1>1, <2>6, RowsRewritten DEF IInv, UnchangedByTick
  <2>8. Fits(m)'
    <3>1. Fits(loop[b])
      BY DEF IInv, Loops
    <3>2. PICK l : l = loop[b]
      OBVIOUS
    <3>3. Fits(l)'
      BY <2>7, <3>1, <3>2, FitsKept
    <3>4. Bound(k)'
      BY <2>4, <2>5 DEF Bound, Exists
    <3>5. l.pc \in Executing /\ m.pc \in Executing /\ l.pc # "idle"
      BY <1>1, <2>1, <3>2 DEF Executing
    <3> QED BY <2>1, <2>2, <3>2, <3>3, <3>4, <3>5 DEF Fits
  <2> QED BY <1>1, <2>1, <2>6, <2>8, RewriteStep
<1> QED BY <1>2, <1>3 DEF Bind

\* apply_agent_spawn launches under a bound row, with the template of the row.
LEMMA ApplyStep ==
    ASSUME IInv, NEW b \in Backend, Apply(b)
    PROVE  IInv'
<1>1. PICK k, template, old : k = loop[b].key /\ template = loop[b].template /\ old = spawns[k]
  OBVIOUS
<1>2. /\ loop[b].pc \in Executing /\ UnchangedByTick
      /\ UNCHANGED <<schedules, occurrences, admitted>>
  BY DEF Apply, Executing
<1>3. Snapshot(k, template) /\ Bound(k) /\ k \in Key /\ admitted[k] = 1
  BY <1>1 DEF IInv, Loops, Fits, Apply, Executing, Snapshot
<1>4. old \in Spawn
  BY <1>1, <1>3 DEF IInv, Types
<1>5. PICK m \in LoopRow : loop' = [loop EXCEPT ![b] = m] /\ Fits(m)
  <2>1. \E started \in BOOLEAN : Settle(b, TRUE, started)
    BY DEF Apply
  <2> QED BY <1>2, <2>1, SettleFits
<1>6. PICK new \in Spawn : spawns' = [spawns EXCEPT ![k] = new]
  <2>1. CASE spawns' = [spawns EXCEPT ![k].launched = TRUE, ![k].succeeded = TRUE]
    <3>1. PICK new : new = [old EXCEPT !.launched = TRUE, !.succeeded = TRUE]
      OBVIOUS
    <3>2. new \in Spawn
      BY <1>4, <3>1 DEF Spawn
    <3>3. spawns' = [spawns EXCEPT ![k] = [spawns[k] EXCEPT !.launched = TRUE,
                                                           !.succeeded = TRUE]]
      BY <2>1, Zenon
    <3>4. spawns' = [spawns EXCEPT ![k] = new]
      BY <1>1, <3>1, <3>3
    <3> QED BY <3>2, <3>4
  <2>2. CASE \E launched \in {spawns[k].launched, TRUE} :
               spawns' = [spawns EXCEPT ![k].launched = launched]
    <3>1. PICK launched \in BOOLEAN : spawns' = [spawns EXCEPT ![k].launched = launched]
      BY <1>1, <1>4, <2>2 DEF Spawn
    <3>2. PICK new : new = [old EXCEPT !.launched = launched]
      OBVIOUS
    <3>3. new \in Spawn
      BY <1>4, <3>2 DEF Spawn
    <3>4. spawns' = [spawns EXCEPT ![k] = new]
      BY <1>1, <3>1, <3>2
    <3> QED BY <3>3, <3>4
  <2> QED BY <1>1, <2>1, <2>2 DEF Apply
<1>7. spawns' \in [Key -> Spawn] /\ \A j \in Key \ {k} : spawns'[j] = spawns[j]
  BY <1>3, <1>6 DEF IInv, Types
<1>8. /\ loop' \in [Backend -> LoopRow] /\ loop'[b] = m
      /\ \A c \in Backend \ {b} : loop'[c] = loop[c]
  BY <1>5, LoopSet DEF IInv
<1>9. Rows' /\ Kept
  BY <1>2, RowsUnchanged DEF IInv, UnchangedByTick
<1>10. Loops'
  <2>1. Fits(m)'
    BY <1>5, <1>9, FitsKept
  <2> QED BY <1>8, <1>9, <2>1, LoopsKept DEF IInv
<1>11. Types'
  BY <1>2, <1>7, <1>8 DEF IInv, Types, UnchangedByTick
<1>12. Launches'
  <2>1. \A l \in launchedWith' : l \in launchedWith \/ l = <<k, template>>
    BY <1>1 DEF Apply
  <2>2. \A l \in launchedWith' : Snapshot(l[1], l[2])
    BY <1>3, <2>1 DEF IInv, Launches
  <2>3. \A j \in Key : spawns'[j].launched => admitted[j] = 1 /\ Bound(j)
    BY <1>3, <1>7 DEF IInv, Launches
  <2> QED BY <1>2, <2>2, <2>3 DEF Launches, Snapshot, Bound, Exists
<1>13. Admissions' /\ Publications' /\ contradicted' = {}
  BY <1>2 DEF IInv, Admissions, Publications, UnchangedByTick, Exists
<1> QED BY <1>9, <1>10, <1>11, <1>12, <1>13 DEF IInv

\* The tick that goes on after a launch remembers nothing of it.
LEMMA ContinueFits ==
    ASSUME IInv, NEW b \in Backend, loop[b].pc = "finish", Continue(b)
    PROVE  \E m \in LoopRow : loop' = [loop EXCEPT ![b] = m] /\ Fits(m)
<1>1. PICK old, m :
        /\ old = loop[b]
        /\ m = [old EXCEPT !.pc = "next", !.key = None, !.template = None,
                           !.operation = FALSE, !.started = FALSE]
  OBVIOUS
<1>2. old \in LoopRow /\ Fits(old) /\ old.pc = "finish"
  BY <1>1 DEF IInv, Types, Loops
<1>3. loop' = [loop EXCEPT ![b] = [loop[b] EXCEPT !.pc = "next", !.key = None,
                                    !.template = None, !.operation = FALSE, !.started = FALSE]]
  BY Zenon DEF Continue
<1>4. loop' = [loop EXCEPT ![b] = m]
  BY <1>1, <1>3
<1>5. m \in LoopRow
  BY <1>1, <1>2 DEF LoopRow
<1>6. m.pc = "next" /\ m.pending = old.pending /\ m.minute = old.minute
  BY <1>1, <1>2 DEF LoopRow
<1>7. Fits(m)
  BY <1>2, <1>6 DEF Fits, Executing
<1> QED BY <1>4, <1>5, <1>7

\* A lost finish changes nothing but the tick.
LEMMA FinishIsLostStep ==
    ASSUME IInv, NEW b \in Backend, FinishIsLost(b)
    PROVE  IInv'
<1>1. PICK m \in LoopRow : loop' = [loop EXCEPT ![b] = m] /\ Fits(m)
  BY ContinueFits DEF FinishIsLost
<1> QED BY <1>1, ReadStep DEF FinishIsLost, IInv, Types

\* Of some rows of minutes, one is the newest.
LEMMA NewestRow ==
    ASSUME NEW S, S # {}, \A k \in S : k \in ScheduledKey
    PROVE  \E n \in S : \A k \in S : k[2] <= n[2]
<1> DEFINE ages == {MaxMinute - k[2] : k \in S}
<1>1. \A k \in S : k[2] \in Nat /\ MaxMinute - k[2] \in Nat
  BY SchedulesAssumption DEF ScheduledKey, Minute
<1>2. ages \subseteq Nat /\ ages # {}
  BY <1>1
<1>3. PICK a \in ages : \A c \in ages : ~(<<c, a>> \in OpToRel(<, Nat))
  <2> HIDE DEF ages
  <2> QED BY <1>2, WFMin, NatLessThanWellFounded
<1>4. \A c \in ages : ~(c < a)
  BY <1>2, <1>3 DEF OpToRel
<1>5. PICK n \in S : a = MaxMinute - n[2]
  OBVIOUS
<1>6. ASSUME NEW k \in S PROVE k[2] <= n[2]
  <2>1. MaxMinute - k[2] \in ages
    OBVIOUS
  <2>2. ~(MaxMinute - k[2] < MaxMinute - n[2])
    <3> HIDE DEF ages
    <3> QED BY <2>1, <1>4, <1>5
  <2>3. k[2] \in Nat /\ n[2] \in Nat /\ MaxMinute \in Nat
    <3> HIDE DEF ages
    <3> QED BY <1>1, SchedulesAssumption
  <2> QED
    <3> HIDE DEF ages
    <3> QED BY <2>2, <2>3
<1> QED BY <1>6

\* The rows of one schedule are finitely many.
LEMMA FinishedIsFinite ==
    ASSUME NEW rows, NEW s, \A k \in DOMAIN rows : k \in ScheduledKey => rows[k].schedule = k[1]
    PROVE  IsFiniteSet(Finished(rows, s))
<1>1. IsFiniteSet({s}) /\ IsFiniteSet(Minute)
  <2>1. 1 \in Int /\ MaxMinute \in Int
    BY SchedulesAssumption
  <2>2. IsFiniteSet(Minute)
    BY <2>1, FS_Interval DEF Minute
  <2> QED BY <2>2, FS_Singleton
<1>2. IsFiniteSet({s} \X Minute)
  BY <1>1, FS_Product
<1>3. Finished(rows, s) \subseteq {s} \X Minute
  BY DEF Finished, ScheduledKey
<1> QED BY <1>2, <1>3, FS_Subset

\* What compaction takes is finished, and Retained newer outcomes of its schedule stay.
LEMMA CompactionKeepsNewer ==
    ASSUME NEW rows, NEW s, NEW left, left = Compacted(rows, s),
           \A k \in DOMAIN rows : k \in ScheduledKey => rows[k].schedule = k[1],
           NEW k \in DOMAIN rows \ DOMAIN left
    PROVE  /\ k \in Finished(rows, s)
           /\ Cardinality(NewerOver(left, s, k[2])) >= Retained
<1> DEFINE over == Finished(rows, s)
           newer(j) == {i \in over : i[2] > j[2]}
           stale == {j \in over : Cardinality(newer(j)) >= Retained}
<1>1. left = [j \in DOMAIN rows \ stale |-> rows[j]]
  BY DEF Compacted
<1>2. k \in stale
  BY <1>1
<1>3. \A j \in over : j \in ScheduledKey /\ j \in DOMAIN rows
  BY DEF Finished
<1>4. PICK n \in stale : \A j \in stale : j[2] <= n[2]
  BY <1>2, <1>3, NewestRow
<1>5. newer(n) \subseteq NewerOver(left, s, k[2])
  <2> SUFFICES ASSUME NEW i \in newer(n) PROVE i \in NewerOver(left, s, k[2])
    OBVIOUS
  <2>1. i[2] \in Nat /\ n[2] \in Nat /\ k[2] \in Nat
    BY <1>2, <1>3, <1>4, SchedulesAssumption DEF ScheduledKey, Minute
  <2>2. k[2] <= n[2] /\ i[2] > n[2]
    BY <1>2, <1>4
  <2>3. i \notin stale
    BY <1>4, <2>1, <2>2
  <2>4. i \in DOMAIN left /\ left[i] = rows[i]
    BY <1>1, <1>3, <2>3
  <2>5. /\ i \in ScheduledKey /\ rows[i].schedule = s
        /\ rows[i].state = "failed" \/ rows[i].dispatch = "completed"
    BY DEF Finished
  <2>6. i[2] > k[2]
    BY <2>1, <2>2
  <2> QED BY <2>4, <2>5, <2>6 DEF NewerOver, IsOver
<1>6. NewerOver(left, s, k[2]) \subseteq over
  BY <1>1 DEF NewerOver, IsOver, Finished
<1>7. IsFiniteSet(over)
  BY FinishedIsFinite
<1>8. IsFiniteSet(NewerOver(left, s, k[2]))
  <2> HIDE DEF over
  <2> QED BY <1>6, <1>7, FS_Subset
<1>9. Cardinality(newer(n)) <= Cardinality(NewerOver(left, s, k[2]))
  <2> HIDE DEF newer
  <2> QED BY <1>5, <1>8, FS_Subset
<1>10. Cardinality(newer(n)) \in Nat /\ Cardinality(NewerOver(left, s, k[2])) \in Nat
  <2>1. IsFiniteSet(newer(n))
    <3> HIDE DEF newer
    <3> QED BY <1>5, <1>8, FS_Subset
  <2> QED BY <1>8, <2>1, FS_CardinalityType
<1>11. Cardinality(newer(n)) >= Retained
  BY <1>4
<1> QED BY <1>2, <1>9, <1>10, <1>11, SchedulesAssumption

\* The row that finish_schedule_launch writes for k, and the rows it keeps: the others as
\* they were, and nothing removed but finished scheduled rows with newer ones left.
LEMMA FinishRows ==
    ASSUME IInv, NEW b \in Backend, Finish(b), NEW k, k = loop[b].key
    PROVE  /\ k \in DOMAIN occurrences /\ occurrences[k].state = "pending"
           /\ DOMAIN occurrences' \subseteq DOMAIN occurrences
           /\ \A j \in DOMAIN occurrences' \ {k} : occurrences'[j] = occurrences[j]
           /\ \A j \in DOMAIN occurrences \ DOMAIN occurrences' :
                /\ j \in ScheduledKey
                /\ \/ occurrences[j].dispatch = "completed"
                   \/ j # k /\ occurrences[j].state = "failed"
                   \/ j = k /\ ~loop[b].started
                /\ Cardinality(NewerOver(occurrences', occurrences[j].schedule, j[2])) >= Retained
           /\ k \in DOMAIN occurrences' =>
                /\ occurrences'[k] \in OccurrenceRow
                /\ occurrences'[k].state = IF loop[b].started THEN "started" ELSE "failed"
                /\ occurrences'[k].operation <=> loop[b].operation
                /\ occurrences'[k].schedule = occurrences[k].schedule
                /\ occurrences'[k].revision = occurrences[k].revision
                /\ occurrences'[k].template = occurrences[k].template
<1>1. PICK old, operation, started, s, rows :
        /\ old = occurrences[k] /\ operation = loop[b].operation /\ started = loop[b].started
        /\ s = occurrences[k].schedule
        /\ rows = [occurrences EXCEPT
                     ![k].state = IF loop[b].started THEN "started" ELSE "failed",
                     ![k].operation = loop[b].operation]
  OBVIOUS
<1>2. k \in DOMAIN occurrences /\ old.state = "pending" /\ old \in OccurrenceRow
  BY <1>1 DEF Finish, Open, Exists, IInv, Rows
<1>3. operation \in BOOLEAN /\ started \in BOOLEAN
  <2>1. loop[b] \in LoopRow
    BY DEF IInv, Types
  <2> QED BY <1>1, <2>1 DEF LoopRow
<1>4. occurrences' = Compacted(rows, s)
  BY <1>1 DEF Finish
<1>5. PICK state \in {"started", "failed"} : state = IF started THEN "started" ELSE "failed"
  OBVIOUS
<1>6. PICK new : new = [old EXCEPT !.state = state, !.operation = operation]
  OBVIOUS
<1>7. rows = [occurrences EXCEPT ![k] = [occurrences[k] EXCEPT !.state = state,
                                                              !.operation = operation]]
  <2>1. rows = [occurrences EXCEPT ![k].state = state, ![k].operation = operation]
    BY <1>1, <1>5
  <2> QED BY <2>1, Zenon
<1>8. /\ DOMAIN rows = DOMAIN occurrences /\ rows[k] = new
      /\ \A j \in DOMAIN occurrences \ {k} : rows[j] = occurrences[j]
  BY <1>1, <1>2, <1>6, <1>7
<1>9. /\ new \in OccurrenceRow /\ new.state = state /\ (new.operation <=> operation)
      /\ new.schedule = old.schedule /\ new.revision = old.revision
      /\ new.template = old.template /\ new.dispatch = old.dispatch
  BY <1>2, <1>3, <1>6 DEF OccurrenceRow
<1>10. /\ DOMAIN occurrences' \subseteq DOMAIN rows
       /\ \A j \in DOMAIN occurrences' : occurrences'[j] = rows[j]
       /\ \A j \in DOMAIN rows \ DOMAIN occurrences' : j \in Finished(rows, s)
  BY <1>4 DEF Compacted
<1>11. ASSUME NEW j \in DOMAIN occurrences \ DOMAIN occurrences'
       PROVE  /\ j \in ScheduledKey
              /\ \/ occurrences[j].dispatch = "completed"
                 \/ j # k /\ occurrences[j].state = "failed"
                 \/ j = k /\ ~started
  <2>1. j \in ScheduledKey /\ (rows[j].state = "failed" \/ rows[j].dispatch = "completed")
    BY <1>8, <1>10 DEF Finished
  <2>2. CASE j = k
    BY <1>1, <1>5, <1>8, <1>9, <2>1, <2>2
  <2>3. CASE j # k
    BY <1>8, <2>1, <2>3
  <2> QED BY <2>2, <2>3
<1>12. k \in DOMAIN occurrences' => occurrences'[k] = new
  BY <1>8, <1>10
<1>13. ASSUME NEW j \in DOMAIN occurrences \ DOMAIN occurrences'
       PROVE  Cardinality(NewerOver(occurrences', occurrences[j].schedule, j[2])) >= Retained
  <2>1. \A i \in DOMAIN rows : rows[i].schedule = occurrences[i].schedule
    BY <1>1, <1>8, <1>9
  <2>2. \A i \in DOMAIN rows : i \in ScheduledKey => rows[i].schedule = i[1]
    BY <1>8, <2>1 DEF IInv, Rows
  <2>3. j \in DOMAIN rows \ DOMAIN occurrences'
    BY <1>8
  <2>4. Cardinality(NewerOver(occurrences', s, j[2])) >= Retained
    <3>1. PICK left : left = occurrences'
      OBVIOUS
    <3> QED BY <1>4, <2>2, <2>3, <3>1, CompactionKeepsNewer
  <2>5. occurrences[j].schedule = s
    BY <1>10, <2>1, <2>3 DEF Finished
  <2> QED BY <2>4, <2>5
<1> QED BY <1>1, <1>2, <1>5, <1>8, <1>9, <1>10, <1>11, <1>12, <1>13

\* finish_schedule_launch keeps the binding of the row it settles.
LEMMA FinishStep ==
    ASSUME IInv, NEW b \in Backend, Finish(b)
    PROVE  IInv'
<1>1. PICK k : k = loop[b].key
  OBVIOUS
<1>2. PICK m \in LoopRow : loop' = [loop EXCEPT ![b] = m] /\ Fits(m)
  BY ContinueFits DEF Finish
<1>3. /\ loop[b].started => loop[b].operation
      /\ occurrences[k].operation => loop[b].operation
  BY <1>1 DEF IInv, Loops, Fits, Finish, SameOperation
<1>4. Rewritten
  <2>1. /\ DOMAIN occurrences' \subseteq DOMAIN occurrences
        /\ \A j \in DOMAIN occurrences \ DOMAIN occurrences' : j \in ScheduledKey
        /\ \A j \in DOMAIN occurrences' \ {k} : occurrences'[j] = occurrences[j]
    BY <1>1, FinishRows
  <2>2. ASSUME k \in DOMAIN occurrences'
        PROVE  /\ occurrences'[k] \in OccurrenceRow
               /\ occurrences'[k].state = "started" => occurrences'[k].operation
               /\ occurrences'[k].schedule = occurrences[k].schedule
               /\ occurrences'[k].revision = occurrences[k].revision
               /\ occurrences'[k].template = occurrences[k].template
               /\ occurrences[k].operation => occurrences'[k].operation
    BY <1>1, <1>3, <2>2, FinishRows
  <2>3. \A j \in DOMAIN occurrences :
          /\ occurrences[j] \in OccurrenceRow
          /\ occurrences[j].state = "started" => occurrences[j].operation
    BY DEF IInv, Rows
  <2> QED BY ONLY <2>1, <2>2, <2>3 DEF Rewritten
<1>5. Kept
  BY <1>4, RowsRewritten DEF IInv, Finish, UnchangedByTick
<1>6. Fits(m)'
  BY <1>2, <1>5, FitsKept
<1> QED BY <1>2, <1>4, <1>6, RewriteStep DEF Finish

-----------------------------------------------------------------------------
(* The environment                                                         *)

\* A dispatch is bound to the row, or reported on: the row keeps the rest.
LEMMA DispatchStep ==
    ASSUME IInv, NEW k \in Key, Enroll(k) \/ Report(k)
    PROVE  IInv'
<1>1. PICK dispatch \in {"open", "completed"} :
        occurrences' = [occurrences EXCEPT ![k].dispatch = dispatch]
  BY DEF Enroll, Report
<1>2. PICK old : old = occurrences[k]
  OBVIOUS
<1>3. k \in DOMAIN occurrences /\ old \in OccurrenceRow
      /\ (old.state = "started" => old.operation)
  BY <1>2 DEF Enroll, Report, Exists, IInv, Rows
<1>4. /\ DOMAIN occurrences' = DOMAIN occurrences
      /\ occurrences'[k] = [old EXCEPT !.dispatch = dispatch]
      /\ \A j \in DOMAIN occurrences \ {k} : occurrences'[j] = occurrences[j]
  BY <1>1, <1>2, <1>3
<1>5. /\ occurrences'[k] \in OccurrenceRow
      /\ occurrences'[k].schedule = old.schedule /\ occurrences'[k].revision = old.revision
      /\ occurrences'[k].template = old.template
      /\ occurrences'[k].operation = old.operation /\ occurrences'[k].state = old.state
  BY <1>3, <1>4 DEF OccurrenceRow
<1>6. Rewritten
  BY <1>2, <1>3, <1>4, <1>5 DEF Rewritten, IInv, Rows
<1>7. UNCHANGED <<schedules, receipts, spawns, loop, holder, minute, admitted, published,
                  launchedWith, contradicted>>
  BY DEF Enroll, Report
<1>8. Rows' /\ Kept
  BY <1>6, <1>7, RowsRewritten DEF IInv
<1>9. Loops'
  BY <1>7, <1>8, LoopsUnchanged DEF IInv
<1>10. Launches'
  BY <1>7, <1>8, LaunchesKept DEF IInv, Types
<1>11. Types' /\ Admissions' /\ Publications' /\ contradicted' = {}
  BY <1>4, <1>7 DEF IInv, Types, Admissions, Publications, Exists
<1> QED BY <1>8, <1>9, <1>10, <1>11 DEF IInv

\* The clock and the authority move on.
LEMMA EnvironmentStep ==
    ASSUME IInv, NextMinute \/ \E b \in Backend : Takeover(b)
    PROVE  IInv'
<1>1. UNCHANGED <<schedules, receipts, occurrences, spawns, loop, admitted, published,
                  launchedWith, contradicted>>
  BY DEF NextMinute, Takeover
<1>2. minute' \in Minute /\ holder' \in Backend
  BY SchedulesAssumption DEF NextMinute, Takeover, IInv, Types, Minute
<1>3. Rows' /\ Kept
  BY <1>1, RowsUnchanged DEF IInv
<1>4. Loops'
  BY <1>1, <1>3, LoopsUnchanged DEF IInv
<1>5. Launches'
  BY <1>1, <1>3, LaunchesKept DEF IInv, Types
<1>6. Types' /\ Admissions' /\ Publications' /\ contradicted' = {}
  BY <1>1, <1>2 DEF IInv, Types, Admissions, Publications, Exists
<1> QED BY <1>3, <1>4, <1>5, <1>6 DEF IInv

\* A crash takes the memory of a tick and nothing else.
LEMMA CrashStep ==
    ASSUME IInv, NEW b \in Backend, Crash(b)
    PROVE  IInv'
<1>1. /\ loop' \in [Backend -> LoopRow] /\ loop'[b] = Idle
      /\ \A c \in Backend \ {b} : loop'[c] = loop[c]
  BY IdleFits DEF IInv, Types, Crash
<1>2. Rows' /\ Kept
  BY RowsUnchanged DEF IInv, Crash
<1>3. Loops'
  <2>1. PICK m : m = Idle
    OBVIOUS
  <2>2. Fits(m)'
    BY <1>2, <2>1, IdleFits, FitsKept
  <2> QED BY <1>1, <1>2, <2>1, <2>2, LoopsKept DEF IInv
<1>4. Types'
  BY <1>1 DEF IInv, Types, Crash
<1>5. Launches'
  BY <1>2, LaunchesKept DEF IInv, Types, Crash
<1>6. Admissions' /\ Publications' /\ contradicted' = {}
  BY DEF IInv, Admissions, Publications, Crash, Exists
<1> QED BY <1>2, <1>3, <1>4, <1>5, <1>6 DEF IInv

-----------------------------------------------------------------------------
(* The specification                                                       *)

\* The empty store satisfies the invariant.
LEMMA InitIInv == Init => IInv
<1> SUFFICES ASSUME Init PROVE IInv
  OBVIOUS
<1>1. Types
  <2>1. spawns \in [Key -> Spawn]
    BY DEF Init, Spawn
  <2>2. loop \in [Backend -> LoopRow]
    BY IdleFits DEF Init
  <2> QED BY <2>1, <2>2, SchedulesAssumption DEF Init, Types, Minute
<1>2. Rows /\ Publications /\ contradicted = {}
  BY DEF Init, Rows, Publications
<1>3. Admissions
  <2>1. \A k \in Key : admitted[k] = 0
    BY DEF Init
  <2>2. \A s \in Schedule, m \in Minute : <<s, m>> \in Key
    BY DEF Key, ScheduledKey
  <2> QED BY <2>1, <2>2 DEF Admissions, Key
<1>4. Loops
  BY IdleFits DEF Init, Loops
<1>5. Launches
  BY DEF Init, Launches
<1> QED BY <1>1, <1>2, <1>3, <1>4, <1>5 DEF IInv

\* Every step keeps the invariant.
LEMMA NextIInv == IInv /\ [Next]_vars => IInv'
<1> SUFFICES ASSUME IInv, [Next]_vars PROVE IInv'
  OBVIOUS
<1>1. CASE UNCHANGED vars
  <2>1. UNCHANGED <<schedules, receipts, occurrences, spawns, loop, holder, minute, admitted,
                    published, launchedWith, contradicted>>
    BY <1>1 DEF vars
  <2>2. Rows' /\ Kept
    BY <2>1, RowsUnchanged DEF IInv
  <2>3. Loops'
    BY <2>1, <2>2, LoopsUnchanged DEF IInv
  <2>4. Launches'
    BY <2>1, <2>2, LaunchesKept DEF IInv, Types
  <2>5. Types' /\ Admissions' /\ Publications' /\ contradicted' = {}
    BY <2>1 DEF IInv, Types, Admissions, Publications, Exists
  <2> QED BY <2>2, <2>3, <2>4, <2>5 DEF IInv
<1>2. CASE \E b \in Backend : Step(b)
  <2>1. PICK b \in Backend : Step(b)
    BY <1>2
  <2>2. CASE Launch(b)
    BY <2>2, PreviewStep, RefusedStep, BindStep, ApplyStep, FinishStep, FinishIsLostStep
       DEF Launch
  <2> QED BY <2>1, <2>2, TickStep, TakePendingStep, ListSchedulesStep, ClaimNewStep,
             ClaimExistingStep, ClaimNothingStep, EndTickStep DEF Step
<1>3. CASE \E k \in MutationKey : Mutate(k)
  BY <1>3, PutScheduleStep, DeleteScheduleStep, AnswerStep DEF Mutate
<1>4. CASE \E s \in Schedule, k \in ManualKey, revision \in Revision : RunOnce(s, k, revision)
  BY <1>4, RunOnceStep
<1>5. CASE \E k \in Key : Enroll(k) \/ Report(k)
  BY <1>5, DispatchStep
<1>6. CASE NextMinute \/ \E b \in Backend : Takeover(b) \/ Crash(b)
  BY <1>6, EnvironmentStep, CrashStep
<1> QED BY <1>1, <1>2, <1>3, <1>4, <1>5, <1>6 DEF Next

\* The invariant holds throughout.
LEMMA Invariance == Spec => []IInv
BY InitIInv, NextIInv, PTL DEF Spec

\* Every variable has its type, and a started row its operation (the table's CHECK).
THEOREM TypeCorrect == Spec => []TypeOK
<1>1. IInv => TypeOK
  BY DEF IInv, Types, Rows, TypeOK, Spawn, LoopRow, Executing
<1> QED BY <1>1, Invariance, PTL

\* No occurrence is admitted twice, for any number of schedules, minutes and backends, and
\* however few finished rows are retained.
THEOREM OccurrencesAreAdmittedOnce == Spec => []AdmittedOnce
<1>1. IInv => AdmittedOnce
  BY DEF IInv, Admissions, AdmittedOnce
<1> QED BY <1>1, Invariance, PTL

\* An occurrence carries, and was launched with, a template its schedule had at its revision.
THEOREM TemplatesAreOfTheirRevision == Spec => []TemplateOfItsRevision
<1>1. IInv => TemplateOfItsRevision
  BY DEF IInv, Rows, Launches, Snapshot, Exists, TemplateOfItsRevision
<1> QED BY <1>1, Invariance, PTL

\* No agent runs for a row that does not name its operation.
THEOREM LaunchesNameTheirRow == Spec => []LaunchNamesItsRow
<1>1. IInv => LaunchNamesItsRow
  BY DEF IInv, Rows, Launches, Bound, Exists, LaunchNamesItsRow
<1> QED BY <1>1, Invariance, PTL

\* A retried put or delete is answered as it was the first time.
THEOREM RetriesAreAnsweredAlike == Spec => []RetryIsAnsweredAlike
<1>1. IInv => RetryIsAnsweredAlike
  BY DEF IInv, RetryIsAnsweredAlike
<1> QED BY <1>1, Invariance, PTL

-----------------------------------------------------------------------------
(* What a step may do to a row                                             *)

\* A step leaves the rows alone, adds one, or is one of the four that write a row.
LEMMA RowWriters ==
    ASSUME IInv, [Next]_vars
    PROVE  \/ UNCHANGED occurrences
           \/ \E k : k \notin DOMAIN occurrences /\ \E row : Insert(k, row)
           \/ \E b \in Backend : Bind(b) \/ Finish(b)
           \/ \E k \in Key : Enroll(k) \/ Report(k)
<1>1. CASE UNCHANGED vars
  BY <1>1 DEF vars
<1>2. CASE \E b \in Backend : Step(b)
  <2>1. PICK b \in Backend : Step(b)
    BY <1>2
  <2>2. CASE Launch(b)
    BY <2>2 DEF Launch, Preview, PreviewFails, TrustRefused, Apply, FinishIsLost
  <2>3. CASE ClaimNew(b)
    BY <2>3 DEF ClaimNew, Exists
  <2> QED BY <2>1, <2>2, <2>3 DEF Step, Tick, TakePending, ListSchedules, ClaimExisting,
             ClaimNothing, EndTick
<1>3. CASE \E k \in MutationKey : Mutate(k)
  BY <1>3 DEF Mutate, PutSchedule, DeleteSchedule, RefuseMutation, ReplayMutation,
              ApplyMutation, UnchangedByMutation
<1>4. CASE \E s \in Schedule, k \in ManualKey, revision \in Revision : RunOnce(s, k, revision)
  BY <1>4 DEF RunOnce, Exists
<1>5. CASE \E k \in Key : Enroll(k) \/ Report(k)
  BY <1>5
<1>6. CASE NextMinute \/ \E b \in Backend : Takeover(b) \/ Crash(b)
  BY <1>6 DEF NextMinute, Takeover, Crash
<1> QED BY <1>1, <1>2, <1>3, <1>4, <1>5, <1>6 DEF Next

\* An added row leaves the others alone.
LEMMA InsertKeeps ==
    ASSUME NEW k, k \notin DOMAIN occurrences, NEW row, Insert(k, row)
    PROVE  /\ DOMAIN occurrences \subseteq DOMAIN occurrences'
           /\ \A j \in DOMAIN occurrences : occurrences'[j] = occurrences[j]
BY DEF Insert

\* bind_schedule_spawn writes a pending row and no other.
LEMMA BindKeeps ==
    ASSUME IInv, NEW b \in Backend, Bind(b)
    PROVE  /\ DOMAIN occurrences' = DOMAIN occurrences
           /\ \A j \in DOMAIN occurrences :
                occurrences'[j] = occurrences[j] \/ occurrences[j].state = "pending"
<1>1. PICK k : k = loop[b].key
  OBVIOUS
<1>2. CASE UNCHANGED occurrences
  BY <1>2
<1>3. CASE Bindable(k) /\ occurrences' = [occurrences EXCEPT ![k].operation = TRUE]
  BY <1>3 DEF Bindable
<1> QED BY <1>1, <1>2, <1>3 DEF Bind

\* A dispatch leaves state and operation of every row alone.
LEMMA DispatchKeeps ==
    ASSUME IInv, NEW k \in Key, Enroll(k) \/ Report(k)
    PROVE  /\ DOMAIN occurrences' = DOMAIN occurrences
           /\ \A j \in DOMAIN occurrences :
                /\ occurrences'[j].state = occurrences[j].state
                /\ occurrences'[j].operation = occurrences[j].operation
<1>1. PICK dispatch \in {"open", "completed"} :
        occurrences' = [occurrences EXCEPT ![k].dispatch = dispatch]
  BY DEF Enroll, Report
<1>2. PICK old : old = occurrences[k]
  OBVIOUS
<1>3. k \in DOMAIN occurrences /\ old \in OccurrenceRow
  BY <1>2 DEF Enroll, Report, Exists, IInv, Rows
<1>4. /\ DOMAIN occurrences' = DOMAIN occurrences
      /\ occurrences'[k] = [old EXCEPT !.dispatch = dispatch]
      /\ \A j \in DOMAIN occurrences \ {k} : occurrences'[j] = occurrences[j]
  BY <1>1, <1>2, <1>3
<1>5. occurrences'[k].operation = old.operation /\ occurrences'[k].state = old.state
  BY <1>3, <1>4 DEF OccurrenceRow
<1> QED BY <1>2, <1>4, <1>5

\* The first outcome recorded for an occurrence stays, whichever backend comes second.
THEOREM OutcomesAreFinal == Spec => OutcomeIsFinal
<1>1. IInv /\ [Next]_vars =>
        [\A k \in DOMAIN occurrences \cap DOMAIN occurrences' :
           occurrences[k].state # "pending" =>
             /\ occurrences'[k].state = occurrences[k].state
             /\ occurrences'[k].operation = occurrences[k].operation]_vars
  <2> SUFFICES ASSUME IInv, [Next]_vars,
                      NEW k \in DOMAIN occurrences \cap DOMAIN occurrences',
                      occurrences[k].state # "pending"
               PROVE  /\ occurrences'[k].state = occurrences[k].state
                      /\ occurrences'[k].operation = occurrences[k].operation
    OBVIOUS
  <2>1. CASE UNCHANGED occurrences
    BY <2>1
  <2>2. CASE \E j : j \notin DOMAIN occurrences /\ \E row : Insert(j, row)
    BY <2>2, InsertKeeps
  <2>3. CASE \E b \in Backend : Bind(b)
    BY <2>3, BindKeeps
  <2>4. CASE \E b \in Backend : Finish(b)
    <3>1. PICK b \in Backend : Finish(b)
      BY <2>4
    <3>2. PICK j : j = loop[b].key
      OBVIOUS
    <3>3. /\ occurrences[j].state = "pending"
          /\ \A i \in DOMAIN occurrences' \ {j} : occurrences'[i] = occurrences[i]
      BY <3>1, <3>2, FinishRows
    <3> QED BY <3>3
  <2>5. CASE \E j \in Key : Enroll(j) \/ Report(j)
    BY <2>5, DispatchKeeps
  <2> QED BY <2>1, <2>2, <2>3, <2>4, <2>5, RowWriters
<1> QED BY <1>1, Invariance, PTL DEF Spec, OutcomeIsFinal

\* Compaction takes old outcomes of minutes only, for every number of rows retained.
THEOREM HistoryStays == Spec => OnlyOldOutcomesGo
<1>1. IInv /\ [Next]_vars =>
        [\A k \in DOMAIN occurrences \ DOMAIN occurrences' :
           /\ k \in ScheduledKey
           /\ IsOver(occurrences, k) \/ FailsNow(k)
           /\ Cardinality(NewerOver(occurrences', occurrences[k].schedule, k[2])) >= Retained]_vars
  <2> SUFFICES ASSUME IInv, [Next]_vars,
                      NEW k \in DOMAIN occurrences \ DOMAIN occurrences'
               PROVE  /\ k \in ScheduledKey
                      /\ IsOver(occurrences, k) \/ FailsNow(k)
                      /\ Cardinality(NewerOver(occurrences', occurrences[k].schedule, k[2]))
                           >= Retained
    OBVIOUS
  <2>1. ~UNCHANGED occurrences
    OBVIOUS
  <2>2. ~\E j : j \notin DOMAIN occurrences /\ \E row : Insert(j, row)
    BY InsertKeeps
  <2>3. ~\E b \in Backend : Bind(b)
    BY BindKeeps
  <2>4. ~\E j \in Key : Enroll(j) \/ Report(j)
    BY DispatchKeeps
  <2>5. PICK b \in Backend : Finish(b)
    BY <2>1, <2>2, <2>3, <2>4, RowWriters
  <2>6. PICK j : j = loop[b].key
    OBVIOUS
  <2>7. /\ k \in ScheduledKey
        /\ Cardinality(NewerOver(occurrences', occurrences[k].schedule, k[2])) >= Retained
        /\ \/ occurrences[k].dispatch = "completed"
           \/ k # j /\ occurrences[k].state = "failed"
           \/ k = j /\ ~loop[b].started
    BY <2>5, <2>6, FinishRows
  <2>8. loop[b].pc = "finish" /\ loop'[b].pc = "next"
    BY <2>5 DEF Finish, Continue, IInv, Types, LoopRow
  <2> QED BY <2>5, <2>6, <2>7, <2>8 DEF FailsNow, IsOver
<1> QED BY <1>1, Invariance, PTL DEF Spec, OnlyOldOutcomesGo
=============================================================================
