----------------------- MODULE WorkflowAdmissionProofs -----------------------
(***************************************************************************)
(* Proofs about WorkflowAdmission.                                         *)
(*                                                                         *)
(* Why a version is one saved draft and a request one run, although an     *)
(* editor's request is compiled outside the transaction that commits it    *)
(* and ticks work from a list that grows stale: what was read before is    *)
(* compared again in the transaction, and a receipt, or the row itself,    *)
(* stays behind for every key that was used.                               *)
(***************************************************************************)
EXTENDS WorkflowAdmission, WorkflowGraphProofs

ManualOrScheduled == Key \cup (Workflow \X (1 .. MaxMinute))

RunRecord == [workflow : Workflow, version : Nat, key : ManualOrScheduled, settled : BOOLEAN]
Version == [source : Nat, definition : Definitions, trigger : Trigger]
CallRecord ==
    [key : Key, request : Change("activate") \cup Change("run_once"), source : Draft]
Listed == [workflow : Workflow, version : Nat]
TickRecord == [todo : Seq(Listed), minute : 1 .. MaxMinute]

Tables ==
    /\ definitions \in [Workflow -> {None} \cup Record]
    /\ versions \in [Workflow -> Seq(Version)]
    /\ receipts \in [Key -> {None} \cup Requests]
    /\ runs \in Seq(RunRecord)

\* The version that is active, and the version of a run, was snapshotted.
Pinned ==
    /\ \A w \in Workflow : definitions[w] # None =>
         /\ definitions[w].active <= Len(versions[w])
         /\ definitions[w].enabled => definitions[w].active > 0
    /\ \A i \in DOMAIN runs : runs[i].version \in DOMAIN versions[runs[i].workflow]

Existing == {w \in Workflow : definitions[w] # None}

Limits == IsFiniteSet(Existing) /\ Cardinality(Unsettled) <= MaxActive

\* A key that admitted a manual run has its receipt.
Receipted == \A i \in DOMAIN runs : runs[i].key \in Key => receipts[runs[i].key] # None

\* The draft a workflow has was saved at its revision.
DraftSaved ==
    \A w \in Workflow : definitions[w] # None =>
        <<w, definitions[w].revision, definitions[w].definition, definitions[w].trigger>> \in saved

\* Version v of workflow w is a draft that was saved, compiled.
SnapshotOf(w, v) ==
    \E d \in Draft : /\ <<w, v.source, d, v.trigger>> \in saved
                     /\ v.definition = Compiled(d) /\ Compiles(d)

Snapshots == \A w \in Workflow : \A n \in DOMAIN versions[w] : SnapshotOf(w, versions[w][n])

StoredInv ==
    /\ Tables /\ Pinned /\ Limits /\ Receipted /\ OneRunPerRequest /\ DraftSaved /\ Snapshots

\* A request that waits for its transaction has compiled a draft.
CallsFit == /\ calls \in [Caller -> CallRecord \cup {None}]
            /\ \A c \in Caller : calls[c] # None => Compiles(calls[c].source)

\* What a tick has listed exists.
TicksFit ==
    /\ admitting \in [Backend -> TickRecord \cup {None}]
    /\ \A b \in Backend : admitting[b] # None =>
         \A i \in DOMAIN admitting[b].todo : definitions[admitting[b].todo[i].workflow] # None

WorkersFit ==
    \A b \in Backend : /\ workers[b] \subseteq DOMAIN runs /\ IsFiniteSet(workers[b])
                       /\ Cardinality(workers[b]) <= Slots

ProcessInv ==
    /\ CallsFit /\ TicksFit /\ WorkersFit /\ workers \in [Backend -> SUBSET Nat]
    /\ holder \in Backend /\ minute \in 1 .. MaxMinute

IInv == StoredInv /\ ProcessInv

-----------------------------------------------------------------------------
(* Steps that leave the tables alone                                       *)

\* An element of a sequence.
LEMMA Element ==
    ASSUME NEW S, NEW s \in Seq(S), NEW i \in DOMAIN s
    PROVE  s[i] \in S
OBVIOUS

\* A function on the numbers up to n is a sequence.
LEMMA IsSequence ==
    ASSUME NEW S, NEW n \in Nat, NEW f \in [1 .. n -> S]
    PROVE  f \in Seq(S) /\ DOMAIN f = 1 .. n
OBVIOUS

\* The tables stay as they are.
LEMMA StoredKept ==
    ASSUME StoredInv, UNCHANGED stored
    PROVE  StoredInv'
<1>1. UNCHANGED <<definitions, versions, receipts, runs, saved>>
  BY DEF stored
<1>2. Tables' /\ Pinned' /\ Receipted' /\ DraftSaved'
  BY <1>1 DEF StoredInv, Tables, Pinned, Receipted, DraftSaved
<1>3. Limits'
  BY <1>1 DEF StoredInv, Limits, Existing, Unsettled
<1>4. OneRunPerRequest'
  BY <1>1 DEF StoredInv, OneRunPerRequest
<1>5. Snapshots'
  BY <1>1 DEF StoredInv, Snapshots, SnapshotOf
<1> QED BY <1>2, <1>3, <1>4, <1>5 DEF StoredInv

\* No workflow and no row is removed.
Grows ==
    /\ \A w \in Workflow : definitions[w] # None => definitions'[w] # None
    /\ DOMAIN runs \subseteq DOMAIN runs'

\* Tables that stay have grown.
LEMMA StoredGrows == UNCHANGED stored => Grows
BY DEF stored, Grows

\* The loops and the workers are unaffected by tables that grow.
LEMMA LoopsKept ==
    ASSUME ProcessInv, Grows, UNCHANGED <<admitting, workers, holder, minute>>
    PROVE  /\ TicksFit' /\ WorkersFit' /\ (workers \in [Backend -> SUBSET Nat])'
           /\ (holder \in Backend)' /\ (minute \in 1 .. MaxMinute)'
<1>1. TicksFit'
  <2> SUFFICES ASSUME NEW b \in Backend, admitting[b] # None, NEW i \in DOMAIN admitting[b].todo
               PROVE  definitions'[admitting[b].todo[i].workflow] # None
    BY DEF ProcessInv, TicksFit
  <2>1. admitting[b].todo \in Seq(Listed)
    BY DEF ProcessInv, TicksFit, TickRecord
  <2>2. admitting[b].todo[i].workflow \in Workflow
    <3>1. admitting[b].todo[i] \in Listed
      BY <2>1, Element
    <3> QED BY <3>1 DEF Listed
  <2>3. definitions[admitting[b].todo[i].workflow] # None
    BY DEF ProcessInv, TicksFit
  <2> QED BY <2>2, <2>3 DEF Grows
<1>2. WorkersFit'
  BY DEF ProcessInv, WorkersFit, Grows
<1> QED BY <1>1, <1>2 DEF ProcessInv

\* A request ends.
LEMMA EndCallKeeps ==
    ASSUME ProcessInv, Grows, NEW c \in Caller, EndCall(c)
    PROVE  ProcessInv'
<1>1. /\ UNCHANGED <<admitting, workers, holder, minute>>
      /\ calls' = [calls EXCEPT ![c] = None]
  BY DEF EndCall
<1>2. CallsFit'
  BY <1>1 DEF ProcessInv, CallsFit
<1> QED BY <1>1, <1>2, LoopsKept DEF ProcessInv

\* Only the tables change.
LEMMA ProcessKept ==
    ASSUME ProcessInv, Grows, UNCHANGED process
    PROVE  ProcessInv'
<1>1. UNCHANGED <<calls, admitting, workers, holder, minute>>
  BY DEF process
<1>2. CallsFit'
  BY <1>1 DEF ProcessInv, CallsFit
<1> QED BY <1>1, <1>2, LoopsKept DEF ProcessInv

\* A request is compiled.
LEMMA CompileStep ==
    ASSUME IInv, NEW c \in Caller, NEW k \in Key, NEW r \in Requests, Compile(c, k, r)
    PROVE  IInv'
<1>1. /\ UNCHANGED stored /\ UNCHANGED <<admitting, workers, holder, minute>>
      /\ r.op \in {"activate", "run_once"} /\ definitions[r.workflow] # None
      /\ Compiles(definitions[r.workflow].definition)
  BY DEF Compile
<1>2. r \in Change("activate") \cup Change("run_once") /\ r.workflow \in Workflow
  BY <1>1 DEF Requests, Put, Change
<1>3. PICK d : d = definitions[r.workflow].definition
  OBVIOUS
<1>4. d \in Draft /\ Compiles(d)
  BY <1>1, <1>2, <1>3 DEF IInv, StoredInv, Tables, Record
<1>5. PICK n : n = [key |-> k, request |-> r, source |-> d]
  OBVIOUS
<1>6. n \in CallRecord /\ n.source = d
  BY <1>2, <1>4, <1>5 DEF CallRecord
<1>7. calls' = [calls EXCEPT ![c] = n]
  BY <1>3, <1>5 DEF Compile
<1>8. CallsFit'
  BY <1>4, <1>6, <1>7 DEF IInv, ProcessInv, CallsFit
<1> QED BY <1>1, <1>8, StoredKept, StoredGrows, LoopsKept DEF IInv, ProcessInv

\* A request is answered from its receipt, or refused.
LEMMA NothingStep ==
    ASSUME IInv, NEW c \in Caller, CallChangesNothing(c)
    PROVE  IInv'
BY StoredKept, StoredGrows, EndCallKeeps DEF CallChangesNothing, IInv

\* A step of a loop that leaves calls, authority and clock alone.
LEMMA LoopStep ==
    ASSUME IInv, UNCHANGED stored, UNCHANGED <<calls, holder, minute>>,
           TicksFit', WorkersFit', (workers \in [Backend -> SUBSET Nat])'
    PROVE  IInv'
<1>1. CallsFit'
  BY DEF IInv, ProcessInv, CallsFit
<1> QED BY <1>1, StoredKept DEF IInv, ProcessInv

\* A tick lists the workflows that are enabled.
LEMMA TickStep ==
    ASSUME IInv, NEW b \in Backend, Tick(b)
    PROVE  IInv'
<1>1. UNCHANGED stored /\ UNCHANGED <<calls, workers, holder, minute>>
  BY DEF Tick
<1>2. UNCHANGED <<definitions, runs>>
  BY <1>1 DEF stored
<1>3. PICK todo \in EnabledSummaries :
        admitting' = [admitting EXCEPT ![b] = [todo |-> todo, minute |-> minute]]
  BY DEF Tick
<1>4. Cardinality(Enabled) \in Nat
  <2>1. Enabled \subseteq Existing /\ IsFiniteSet(Existing)
    BY DEF Enabled, Existing, IInv, StoredInv, Limits
  <2> QED BY <2>1, FS_Subset, FS_CardinalityType
<1>5. /\ todo \in Seq(Listed)
      /\ \A i \in DOMAIN todo : definitions[todo[i].workflow] # None
  <2>1. todo \in [1 .. Cardinality(Enabled) -> {Summary(w) : w \in Enabled}]
    BY <1>3 DEF EnabledSummaries
  <2>2. \A w \in Enabled : /\ Summary(w) \in Listed
                           /\ definitions[Summary(w).workflow] # None
    BY DEF Enabled, Summary, Listed, IInv, StoredInv, Tables, Record
  <2>3. \A i \in 1 .. Cardinality(Enabled) :
          /\ todo[i] \in Listed
          /\ definitions[todo[i].workflow] # None
    BY <2>1, <2>2
  <2>4. todo \in [1 .. Cardinality(Enabled) -> Listed]
    BY <2>1, <2>3
  <2> QED BY <1>4, <2>3, <2>4, IsSequence
<1>6. PICK t : t = [todo |-> todo, minute |-> minute]
  OBVIOUS
<1>7. t \in TickRecord /\ t.todo = todo
  BY <1>5, <1>6 DEF TickRecord, IInv, ProcessInv
<1>8. admitting' = [admitting EXCEPT ![b] = t]
  BY <1>3, <1>6
<1>9. TicksFit'
  BY <1>2, <1>5, <1>7, <1>8 DEF IInv, ProcessInv, TicksFit
<1>10. WorkersFit' /\ (workers \in [Backend -> SUBSET Nat])'
  BY <1>1, <1>2 DEF IInv, ProcessInv, WorkersFit
<1> QED BY <1>1, <1>9, <1>10, LoopStep

\* The rest of a list holds what the list held.
LEMMA RestFits ==
    ASSUME IInv, NEW b \in Backend, Admitting(b)
    PROVE  /\ Tail(admitting[b].todo) \in Seq(Listed)
           /\ \A i \in DOMAIN Tail(admitting[b].todo) :
                definitions[Tail(admitting[b].todo)[i].workflow] # None
           /\ Candidate(b) \in Listed /\ definitions[Candidate(b).workflow] # None
           /\ admitting[b].minute \in 1 .. MaxMinute
<1>1. PICK s : s = admitting[b].todo
  OBVIOUS
<1>2. /\ s \in Seq(Listed) /\ s # <<>> /\ \A i \in DOMAIN s : definitions[s[i].workflow] # None
      /\ admitting[b].minute \in 1 .. MaxMinute
  BY <1>1 DEF IInv, ProcessInv, TicksFit, TickRecord, Admitting
<1>3. /\ Tail(s) \in Seq(Listed)
      /\ \A i \in DOMAIN Tail(s) : Tail(s)[i] = s[i + 1] /\ i + 1 \in DOMAIN s
      /\ Head(s) = s[1] /\ 1 \in DOMAIN s /\ s[1] \in Listed
  BY <1>2
<1> QED BY <1>1, <1>2, <1>3 DEF Candidate

\* A tick goes on with another list.
LEMMA ProceedFits ==
    ASSUME IInv, NEW b \in Backend, Admitting(b), UNCHANGED definitions,
           NEW todo \in Seq(Listed),
           \A i \in DOMAIN todo : definitions[todo[i].workflow] # None, Proceed(b, todo)
    PROVE  TicksFit'
<1>1. PICK m : m = admitting[b]
  OBVIOUS
<1>2. m \in TickRecord
  BY <1>1 DEF IInv, ProcessInv, TicksFit, Admitting
<1>3. PICK t : t = [m EXCEPT !.todo = todo]
  OBVIOUS
<1>4. t \in TickRecord /\ t.todo = todo
  BY <1>2, <1>3 DEF TickRecord
<1>5. admitting' = [admitting EXCEPT ![b] = t]
  BY <1>1, <1>3 DEF Proceed
<1> QED BY <1>4, <1>5 DEF IInv, ProcessInv, TicksFit

\* A listed workflow is passed over, or the admissions of the tick end.
LEMMA PassStep ==
    ASSUME IInv, NEW b \in Backend, SkipSchedule(b) \/ AdmissionFails(b)
    PROVE  IInv'
<1>1. /\ UNCHANGED stored /\ Admitting(b) /\ UNCHANGED <<calls, workers, holder, minute>>
      /\ Proceed(b, Tail(admitting[b].todo)) \/ Proceed(b, <<>>)
  BY DEF SkipSchedule, AdmissionFails, Proceed
<1>2. UNCHANGED <<definitions, runs>>
  BY <1>1 DEF stored
<1>3. TicksFit'
  <2>1. CASE Proceed(b, Tail(admitting[b].todo))
    <3>1. PICK todo : todo = Tail(admitting[b].todo)
      OBVIOUS
    <3> QED BY <1>1, <1>2, <2>1, <3>1, RestFits, ProceedFits
  <2>2. CASE Proceed(b, <<>>)
    <3>0. <<>> \in Seq(Listed)
      OBVIOUS
    <3>1. PICK todo \in Seq(Listed) : todo = <<>>
      BY <3>0, Zenon
    <3>2. DOMAIN todo = {}
      BY <3>1
    <3> QED BY <1>1, <1>2, <2>2, <3>1, <3>2, ProceedFits
  <2> QED BY <1>1, <2>1, <2>2
<1>4. WorkersFit' /\ (workers \in [Backend -> SUBSET Nat])'
  BY <1>1, <1>2 DEF IInv, ProcessInv, WorkersFit
<1> QED BY <1>1, <1>3, <1>4, LoopStep

\* Rows are finitely many.
LEMMA RowsFinite ==
    ASSUME Tables
    PROVE  /\ DOMAIN runs = 1 .. Len(runs) /\ Len(runs) \in Nat
           /\ IsFiniteSet(Unsettled) /\ Unsettled \subseteq DOMAIN runs
<1>1. DOMAIN runs = 1 .. Len(runs) /\ Len(runs) \in Nat
  BY DEF Tables
<1>2. IsFiniteSet(1 .. Len(runs))
  BY <1>1, FS_Interval
<1>3. Unsettled \subseteq 1 .. Len(runs)
  BY <1>1 DEF Unsettled
<1> QED BY <1>1, <1>2, <1>3, FS_Subset

\* Free slots are filled, and not exceeded.
LEMMA SpawnWorkersStep ==
    ASSUME IInv, NEW b \in Backend, SpawnWorkers(b)
    PROVE  IInv'
<1>1. /\ UNCHANGED stored /\ UNCHANGED <<calls, holder, minute>>
      /\ admitting' = [admitting EXCEPT ![b] = None]
  BY DEF SpawnWorkers
<1>2. UNCHANGED <<definitions, runs>>
  BY <1>1 DEF stored
<1>3. TicksFit'
  BY <1>1, <1>2 DEF IInv, ProcessInv, TicksFit
<1>4. PICK rows \in Spawned(b) : workers' = [workers EXCEPT ![b] = @ \cup rows]
  BY DEF SpawnWorkers
<1>5. /\ rows \subseteq Unsettled /\ Cardinality(rows) <= Slots - Cardinality(workers[b])
  BY <1>4 DEF Spawned
<1>6. /\ Tables /\ workers \in [Backend -> SUBSET Nat] /\ WorkersFit
      /\ workers[b] \subseteq DOMAIN runs /\ IsFiniteSet(workers[b])
  BY DEF IInv, StoredInv, ProcessInv, WorkersFit
<1>7. /\ DOMAIN runs = 1 .. Len(runs) /\ Len(runs) \in Nat
      /\ IsFiniteSet(Unsettled) /\ Unsettled \subseteq DOMAIN runs
  BY <1>6, RowsFinite
<1>8. IsFiniteSet(rows)
  BY <1>5, <1>7, FS_Subset
<1>9. PICK both : both = workers[b] \cup rows
  OBVIOUS
<1>10. IsFiniteSet(both) /\ Cardinality(both) <= Slots
  <2>1. IsFiniteSet(both) /\ Cardinality(both) <= Cardinality(workers[b]) + Cardinality(rows)
    <3>1. /\ IsFiniteSet(both)
          /\ Cardinality(both) = Cardinality(workers[b]) + Cardinality(rows)
                                   - Cardinality(workers[b] \cap rows)
      BY <1>6, <1>8, <1>9, FS_Union
    <3>2. IsFiniteSet(workers[b] \cap rows)
      BY <1>6, <1>8, FS_Intersection
    <3>3. Cardinality(workers[b] \cap rows) \in Nat
      BY <3>2, FS_CardinalityType
    <3>4. Cardinality(workers[b]) \in Nat /\ Cardinality(rows) \in Nat
      BY <1>6, <1>8, FS_CardinalityType
    <3> QED BY <3>1, <3>3, <3>4
  <2>2. Cardinality(workers[b]) \in Nat /\ Cardinality(rows) \in Nat /\ Cardinality(both) \in Nat
    BY <1>6, <1>8, <2>1, FS_CardinalityType
  <2> QED BY <1>5, <2>1, <2>2, AdmissionAssumption
<1>11. both \subseteq DOMAIN runs
  BY <1>5, <1>6, <1>7, <1>9
<1>12. workers' = [workers EXCEPT ![b] = both]
  BY <1>4, <1>9
<1>13. WorkersFit' /\ (workers \in [Backend -> SUBSET Nat])'
  BY <1>2, <1>6, <1>7, <1>10, <1>11, <1>12 DEF WorkersFit
<1> QED BY <1>1, <1>3, <1>13, LoopStep

\* A worker is joined.
LEMMA JoinWorkerStep ==
    ASSUME IInv, NEW b \in Backend, NEW i, JoinWorker(b, i)
    PROVE  IInv'
<1>1. /\ UNCHANGED stored /\ UNCHANGED <<calls, admitting, holder, minute>> /\ i \in workers[b]
      /\ workers' = [workers EXCEPT ![b] = @ \ {i}]
  BY DEF JoinWorker
<1>2. UNCHANGED <<definitions, runs>>
  BY <1>1 DEF stored
<1>3. TicksFit'
  BY <1>1, <1>2 DEF IInv, ProcessInv, TicksFit
<1>4. /\ workers \in [Backend -> SUBSET Nat] /\ WorkersFit
      /\ workers[b] \subseteq DOMAIN runs /\ IsFiniteSet(workers[b])
      /\ Cardinality(workers[b]) <= Slots
  BY DEF IInv, ProcessInv, WorkersFit
<1>5. PICK rest : rest = workers[b] \ {i}
  OBVIOUS
<1>6. IsFiniteSet(rest) /\ Cardinality(rest) <= Cardinality(workers[b])
  BY <1>4, <1>5, FS_Subset
<1>7. Cardinality(rest) <= Slots
  <2>1. Cardinality(rest) \in Nat /\ Cardinality(workers[b]) \in Nat
    BY <1>4, <1>6, FS_CardinalityType
  <2> QED BY <1>4, <1>6, <2>1, AdmissionAssumption
<1>8. workers' = [workers EXCEPT ![b] = rest]
  BY <1>1, <1>5
<1>9. rest \subseteq DOMAIN runs /\ rest \subseteq Nat
  BY <1>4, <1>5
<1>10. WorkersFit' /\ (workers \in [Backend -> SUBSET Nat])'
  BY <1>2, <1>4, <1>6, <1>7, <1>8, <1>9 DEF WorkersFit
<1> QED BY <1>1, <1>3, <1>10, LoopStep

\* A backend stops, another one takes over, or time passes.
LEMMA EnvironmentStep ==
    ASSUME IInv, (\E b \in Backend : Crash(b) \/ Takeover(b)) \/ NextMinute
    PROVE  IInv'
<1>1. UNCHANGED stored
  BY DEF Crash, Takeover, NextMinute
<1>2. StoredInv' /\ Grows
  BY <1>1, StoredKept, StoredGrows DEF IInv
<1>3. UNCHANGED <<definitions, runs>>
  BY <1>1 DEF stored
<1>4. ASSUME NEW b \in Backend, Crash(b) PROVE ProcessInv'
  <2>1. /\ admitting' = [admitting EXCEPT ![b] = None] /\ workers' = [workers EXCEPT ![b] = {}]
        /\ UNCHANGED <<holder, minute>>
    BY <1>4 DEF Crash
  <2>2. CallsFit'
    BY <1>4 DEF Crash, IInv, ProcessInv, CallsFit
  <2>3. TicksFit'
    BY <1>3, <2>1 DEF IInv, ProcessInv, TicksFit
  <2>4. IsFiniteSet({}) /\ Cardinality({}) = 0
    BY FS_EmptySet
  <2>5. WorkersFit' /\ (workers \in [Backend -> SUBSET Nat])'
    BY <1>3, <2>1, <2>4, AdmissionAssumption DEF IInv, ProcessInv, WorkersFit
  <2> QED BY <2>1, <2>2, <2>3, <2>5 DEF IInv, ProcessInv
<1>5. ASSUME NEW b \in Backend, Takeover(b) PROVE ProcessInv'
  <2>1. UNCHANGED <<calls, admitting, workers, minute>> /\ holder' = b
    BY <1>5 DEF Takeover
  <2> QED BY <1>3, <2>1 DEF IInv, ProcessInv, CallsFit, TicksFit, WorkersFit
<1>6. CASE NextMinute
  <2>1. UNCHANGED <<calls, admitting, workers, holder>> /\ minute' \in 1 .. MaxMinute
    BY <1>6, AdmissionAssumption DEF NextMinute, IInv, ProcessInv
  <2>2. CallsFit' /\ TicksFit'
    BY <1>3, <2>1 DEF IInv, ProcessInv, CallsFit, TicksFit
  <2>3. WorkersFit' /\ (workers \in [Backend -> SUBSET Nat])'
    BY <1>3, <2>1 DEF IInv, ProcessInv, WorkersFit
  <2>4. holder' \in Backend /\ minute' \in 1 .. MaxMinute
    <3>1. holder \in Backend
      BY DEF IInv, ProcessInv
    <3> QED BY ONLY <2>1, <3>1
  <2> QED BY ONLY <1>2, <2>2, <2>3, <2>4 DEF IInv, ProcessInv
<1> QED BY <1>2, <1>4, <1>5, <1>6 DEF IInv

-----------------------------------------------------------------------------
(* Steps that change the definitions                                       *)

\* A definition of workflow w is replaced by n, and every other one stays.
Redefined(w, n) ==
    /\ definitions' = [definitions EXCEPT ![w] = n]
    /\ n \in Record
    /\ saved \subseteq saved'
    /\ <<w, n.revision, n.definition, n.trigger>> \in saved'

\* The parts of the invariant that only definitions and versions can disturb.
LEMMA RedefinedKeeps ==
    ASSUME StoredInv, NEW w \in Workflow, NEW n, Redefined(w, n), n # None,
           versions' \in [Workflow -> Seq(Version)],
           \A v \in Workflow : Len(versions[v]) <= Len(versions'[v]),
           n.active <= Len(versions'[w]), n.enabled => n.active > 0
    PROVE  /\ (definitions \in [Workflow -> {None} \cup Record])'
           /\ \A v \in Workflow : definitions'[v] # None =>
                /\ definitions'[v].active <= Len(versions'[v])
                /\ definitions'[v].enabled => definitions'[v].active > 0
           /\ IsFiniteSet(Existing)' /\ DraftSaved'
           /\ \A v \in Workflow : definitions[v] # None => definitions'[v] # None
<1>1. /\ definitions' \in [Workflow -> {None} \cup Record] /\ definitions'[w] = n
      /\ \A v \in Workflow : v # w => definitions'[v] = definitions[v]
  BY DEF Redefined, StoredInv, Tables
<1>2. \A v \in Workflow : definitions'[v] # None =>
        /\ definitions'[v].active <= Len(versions'[v])
        /\ definitions'[v].enabled => definitions'[v].active > 0
  <2> SUFFICES ASSUME NEW v \in Workflow, definitions'[v] # None
               PROVE  /\ definitions'[v].active <= Len(versions'[v])
                      /\ definitions'[v].enabled => definitions'[v].active > 0
    OBVIOUS
  <2>1. CASE v = w
    BY <1>1, <2>1
  <2>2. CASE v # w
    <3>1. /\ definitions'[v] = definitions[v] /\ definitions[v].active \in Nat
          /\ definitions[v].active <= Len(versions[v])
          /\ definitions[v].enabled => definitions[v].active > 0
      BY <1>1, <2>2 DEF StoredInv, Tables, Pinned, Record
    <3>2. Len(versions[v]) \in Nat /\ Len(versions'[v]) \in Nat
      BY DEF StoredInv, Tables
    <3>3. Len(versions[v]) <= Len(versions'[v])
      OBVIOUS
    <3> QED BY <3>1, <3>2, <3>3
  <2> QED BY <2>1, <2>2
<1>3. IsFiniteSet(Existing)'
  <2>1. IsFiniteSet(Existing)
    BY DEF StoredInv, Limits
  <2>2. IsFiniteSet(Existing \cup {w})
    BY <2>1, FS_AddElement
  <2>3. {v \in Workflow : definitions'[v] # None} \subseteq Existing \cup {w}
    BY <1>1 DEF Existing
  <2>4. IsFiniteSet({v \in Workflow : definitions'[v] # None})
    BY <2>2, <2>3, FS_Subset
  <2> QED BY <2>4 DEF Existing
<1>4. DraftSaved'
  BY <1>1 DEF Redefined, StoredInv, DraftSaved
<1>5. \A v \in Workflow : definitions[v] # None => definitions'[v] # None
  BY <1>1
<1> QED BY <1>1, <1>2, <1>3, <1>4, <1>5

\* Versions that stay were snapshotted, of drafts that are kept.
LEMMA SnapshotsKept ==
    ASSUME StoredInv, UNCHANGED versions, saved \subseteq saved'
    PROVE  Snapshots'
BY DEF StoredInv, Snapshots, SnapshotOf

\* A receipt is stored for a fresh key.
LEMMA ReceiptKept ==
    ASSUME StoredInv, NEW k \in Key, NEW r \in Requests, receipts' = [receipts EXCEPT ![k] = r],
           UNCHANGED runs
    PROVE  (receipts \in [Key -> {None} \cup Requests])' /\ Receipted'
<1>1. r # None
  BY NoneAssumption
<1> QED BY <1>1 DEF StoredInv, Tables, Receipted

\* Rows that stay, whose versions stay.
LEMMA RowsKept ==
    ASSUME StoredInv, UNCHANGED <<versions, runs>>
    PROVE  /\ (\A i \in DOMAIN runs : runs[i].version \in DOMAIN versions[runs[i].workflow])'
           /\ (Cardinality(Unsettled) <= MaxActive)' /\ OneRunPerRequest'
           /\ (runs \in Seq(RunRecord))' /\ (versions \in [Workflow -> Seq(Version)])'
<1>1. Unsettled' = Unsettled
  BY DEF Unsettled
<1> QED BY <1>1 DEF StoredInv, Tables, Pinned, Limits, OneRunPerRequest

\* A request that replaces a definition, and leaves versions and rows alone.
LEMMA RedefinedStep ==
    ASSUME StoredInv, ProcessInv, NEW k \in Key, NEW r \in Requests,
           receipts' = [receipts EXCEPT ![k] = r], UNCHANGED <<versions, runs>>,
           UNCHANGED process, NEW w \in Workflow, NEW n, Redefined(w, n), n # None,
           n.active <= Len(versions'[w]), n.enabled => n.active > 0
    PROVE  IInv'
<1>1. /\ versions' \in [Workflow -> Seq(Version)]
      /\ \A v \in Workflow : Len(versions[v]) <= Len(versions'[v])
  <2>1. \A v \in Workflow : Len(versions[v]) \in Nat
    BY DEF StoredInv, Tables
  <2> QED BY <2>1 DEF StoredInv, Tables
<1>2. /\ (definitions \in [Workflow -> {None} \cup Record])'
      /\ \A v \in Workflow : definitions'[v] # None =>
           /\ definitions'[v].active <= Len(versions'[v])
           /\ definitions'[v].enabled => definitions'[v].active > 0
      /\ IsFiniteSet(Existing)' /\ DraftSaved'
      /\ \A v \in Workflow : definitions[v] # None => definitions'[v] # None
  BY <1>1, RedefinedKeeps
<1>3. /\ (\A i \in DOMAIN runs : runs[i].version \in DOMAIN versions[runs[i].workflow])'
      /\ (Cardinality(Unsettled) <= MaxActive)' /\ OneRunPerRequest'
      /\ (runs \in Seq(RunRecord))'
  BY RowsKept
<1>4. (receipts \in [Key -> {None} \cup Requests])' /\ Receipted'
  BY ReceiptKept
<1>5. Snapshots'
  BY SnapshotsKept DEF Redefined
<1>6. Tables' /\ Pinned' /\ Limits'
  BY <1>1, <1>2, <1>3, <1>4 DEF Tables, Pinned, Limits
<1>7. Grows
  BY <1>2 DEF Grows
<1>8. ProcessInv'
  BY <1>7, ProcessKept
<1> QED BY <1>2, <1>3, <1>4, <1>5, <1>6, <1>8 DEF IInv, StoredInv

\* A workflow is saved.
LEMMA PutDefinitionStep ==
    ASSUME IInv, NEW k \in Key, NEW r \in Requests, PutDefinition(k, r)
    PROVE  IInv'
<1>1. /\ UNCHANGED <<versions, runs>> /\ UNCHANGED process /\ r.op = "put"
      /\ receipts' = [receipts EXCEPT ![k] = r]
  BY DEF PutDefinition
<1>2. r \in Put
  BY <1>1 DEF Requests, Put, Change
<1>3. PICK w, old : w = r.workflow /\ old = definitions[w]
  OBVIOUS
<1>4. PICK e, x : /\ e = (old # None /\ old.enabled)
                  /\ x = IF old = None THEN 0 ELSE old.active
  OBVIOUS
<1>5. PICK n : n = [revision |-> r.expected + 1, definition |-> r.definition,
                    trigger |-> r.trigger, enabled |-> e, active |-> x]
  OBVIOUS
<1>6. /\ definitions' = [definitions EXCEPT ![w] = n]
      /\ saved' = saved \cup {<<w, r.expected + 1, r.definition, r.trigger>>}
  BY <1>3, <1>4, <1>5 DEF PutDefinition
<1>7. /\ w \in Workflow /\ r.expected + 1 \in 1 .. MaxRevision /\ r.definition \in Draft
      /\ r.trigger \in Trigger
  BY <1>2, <1>3, AdmissionAssumption DEF Put
<1>8. StoredInv /\ ProcessInv /\ Tables /\ (old # None => old \in Record)
  BY <1>3, <1>7 DEF IInv, StoredInv, Tables
<1>9. e \in BOOLEAN /\ x \in Nat
  BY <1>4, <1>8 DEF Record
<1>10. /\ n \in Record /\ n.revision = r.expected + 1 /\ n.definition = r.definition
       /\ n.trigger = r.trigger /\ n.active = x /\ n.enabled = e
  BY <1>5, <1>7, <1>9 DEF Record
<1>11. n # None
  BY <1>10, NoneAssumption
<1>12. Redefined(w, n)
  BY <1>6, <1>10 DEF Redefined
<1>13. Len(versions[w]) \in Nat /\ x <= Len(versions[w]) /\ (e => x > 0)
  <2>1. Len(versions[w]) \in Nat
    BY <1>7, <1>8 DEF Tables
  <2>2. CASE old = None
    <3>1. x = 0 /\ ~e
      BY <1>4, <2>2
    <3> QED BY ONLY <2>1, <3>1
  <2>3. CASE old # None
    BY <1>3, <1>4, <1>7, <1>8, <2>1, <2>3 DEF StoredInv, Pinned
  <2> QED BY <2>1, <2>2, <2>3
<1>14. /\ versions' \in [Workflow -> Seq(Version)] /\ versions' = versions
       /\ \A v \in Workflow : Len(versions[v]) <= Len(versions'[v])
  <2>1. \A v \in Workflow : Len(versions[v]) \in Nat
    BY <1>8 DEF Tables
  <2> QED BY <1>1, <1>8, <2>1 DEF Tables
<1>15. n.active <= Len(versions'[w]) /\ (n.enabled => n.active > 0)
  BY <1>10, <1>13, <1>14
<1> QED BY <1>1, <1>7, <1>8, <1>11, <1>12, <1>14, <1>15, RedefinedStep

\* A definition that a request names with its revision.
LEMMA ExpectedExists ==
    ASSUME IInv, NEW r \in Requests, r.op # "put", Expected(r)
    PROVE  /\ r.workflow \in Workflow /\ definitions[r.workflow] \in Record
           /\ definitions[r.workflow] # None
           /\ definitions[r.workflow].revision = r.expected
           /\ r.expected \in 1 .. MaxRevision - 1 /\ r.expected + 1 \in 1 .. MaxRevision
           /\ Revision(r.workflow) = r.expected
<1>1. r.workflow \in Workflow /\ r.expected \in 1 .. MaxRevision - 1
  BY DEF Requests, Put, Change
<1>2. Revision(r.workflow) = r.expected
  BY DEF Expected
<1>3. definitions[r.workflow] # None
  BY <1>1, <1>2, AdmissionAssumption DEF Revision
<1>4. definitions[r.workflow].revision = r.expected
  BY <1>2, <1>3 DEF Revision
<1>5. definitions[r.workflow] \in Record
  BY <1>1, <1>3 DEF IInv, StoredInv, Tables
<1>6. r.expected + 1 \in 1 .. MaxRevision
  BY <1>1, AdmissionAssumption
<1> QED BY <1>1, <1>2, <1>3, <1>4, <1>5, <1>6

\* A workflow is paused.
LEMMA PauseDefinitionStep ==
    ASSUME IInv, NEW k \in Key, NEW r \in Requests, PauseDefinition(k, r)
    PROVE  IInv'
<1>1. /\ UNCHANGED <<versions, runs>> /\ UNCHANGED process /\ r.op # "put" /\ Expected(r)
      /\ receipts' = [receipts EXCEPT ![k] = r]
  BY DEF PauseDefinition
<1>2. PICK w, old : w = r.workflow /\ old = definitions[w]
  OBVIOUS
<1>3. /\ w \in Workflow /\ old \in Record /\ old # None /\ old.revision = r.expected
      /\ r.expected + 1 \in 1 .. MaxRevision /\ Revision(w) = r.expected
  BY <1>1, <1>2, ExpectedExists
<1>4. PICK n : n = [old EXCEPT !.revision = r.expected + 1, !.enabled = FALSE]
  OBVIOUS
<1>5. /\ n \in Record /\ n.revision = r.expected + 1 /\ n.definition = old.definition
      /\ n.trigger = old.trigger /\ n.active = old.active /\ n.enabled = FALSE
  BY <1>3, <1>4 DEF Record
<1>6. definitions' = [definitions EXCEPT ![w] = n]
  <2>1. definitions' = [definitions EXCEPT ![w].revision = @ + 1, ![w].enabled = FALSE]
    BY <1>2 DEF PauseDefinition
  <2>2. definitions \in [Workflow -> {None} \cup Record]
    BY DEF IInv, StoredInv, Tables
  <2> QED BY <1>2, <1>3, <1>4, <2>1, <2>2
<1>7. saved' = saved \cup {<<w, r.expected + 1, old.definition, old.trigger>>}
  BY <1>2, <1>3 DEF PauseDefinition, Resaved
<1>8. n # None
  BY <1>5, NoneAssumption
<1>9. Redefined(w, n)
  BY <1>5, <1>6, <1>7 DEF Redefined
<1>10. n.active <= Len(versions'[w]) /\ (n.enabled => n.active > 0)
  BY <1>1, <1>2, <1>3, <1>5 DEF IInv, StoredInv, Pinned
<1> QED BY <1>1, <1>3, <1>8, <1>9, <1>10, RedefinedStep DEF IInv

-----------------------------------------------------------------------------
(* Steps that take a snapshot or admit a run                               *)

\* Compilation gives a definition.
LEMMA CompiledType ==
    ASSUME NEW d \in Definitions
    PROVE  /\ Compiled(d) \in Definitions
           /\ Compiled(d) = [nodes |-> d.nodes, edges |-> d.edges \cup d.outputs,
                             outputs |-> d.outputs, wellTyped |-> d.wellTyped]
<1>1. PICK e : e = d.edges \cup d.outputs
  OBVIOUS
<1>2. e \in SUBSET (Nat \X Nat)
  <2>1. d.edges \in SUBSET (Nat \X Nat) /\ d.outputs \in SUBSET (Nat \X Nat)
    BY DEF Definitions
  <2> QED BY ONLY <1>1, <2>1, Zenon
<1>3. Compiled(d) = [d EXCEPT !.edges = e]
  BY <1>1 DEF Compiled, Dependencies
<1>4. Compiled(d) = [nodes |-> d.nodes, edges |-> e, outputs |-> d.outputs,
                     wellTyped |-> d.wellTyped]
  BY <1>3 DEF Definitions
<1>5. Compiled(d) \in Definitions
  BY <1>2, <1>4 DEF Definitions
<1> QED BY <1>1, <1>4, <1>5

\* Every workflow keeps its versions.
VersionsGrow ==
    /\ versions' \in [Workflow -> Seq(Version)]
    /\ \A v \in Workflow : /\ Len(versions[v]) <= Len(versions'[v])
                           /\ DOMAIN versions[v] \subseteq DOMAIN versions'[v]

\* The transaction compares the draft again: the version it adds is the saved draft.
LEMMA Versioned ==
    ASSUME IInv, NEW call \in CallRecord, Compiles(call.source), SnapshotAdmitted(call),
           NEW w, w = call.request.workflow,
           versions' = [versions EXCEPT ![w] = Snapshot(call)], saved \subseteq saved'
    PROVE  /\ VersionsGrow /\ Snapshots' /\ w \in Workflow
           /\ Len(versions'[w]) = Len(versions[w]) + 1 /\ Len(versions[w]) \in Nat
           /\ Len(versions[w]) + 1 \in DOMAIN versions'[w]
<1>1. /\ call.request \in Requests /\ call.request.op # "put" /\ Expected(call.request)
      /\ call.source \in Draft
  BY DEF CallRecord, Requests, Change, SnapshotAdmitted
<1>2. PICK old : old = definitions[w]
  OBVIOUS
<1>3. /\ w \in Workflow /\ old \in Record /\ old # None
      /\ Revision(w) = old.revision /\ old.revision \in Nat /\ old.trigger \in Trigger
  BY <1>1, <1>2, ExpectedExists DEF Record
<1>4. old.definition = call.source
  BY <1>2 DEF SnapshotAdmitted
<1>5. PICK x : x = [source |-> old.revision, definition |-> Compiled(call.source),
                    trigger |-> old.trigger]
  OBVIOUS
<1>6. /\ x \in Version /\ x.source = old.revision /\ x.definition = Compiled(call.source)
      /\ x.trigger = old.trigger
  <2>1. Compiled(call.source) \in Definitions
    BY <1>1, AdmissionAssumption, CompiledType
  <2> QED BY <1>3, <1>5, <2>1 DEF Version
<1>7. PICK s : s = versions[w]
  OBVIOUS
<1>8. s \in Seq(Version) /\ versions \in [Workflow -> Seq(Version)]
  BY <1>3, <1>7 DEF IInv, StoredInv, Tables
<1>9. versions' = [versions EXCEPT ![w] = Append(s, x)]
  BY <1>2, <1>3, <1>5, <1>7 DEF Snapshot
<1>10. /\ Append(s, x) \in Seq(Version) /\ Len(Append(s, x)) = Len(s) + 1 /\ Len(s) \in Nat
       /\ DOMAIN Append(s, x) = DOMAIN s \cup {Len(s) + 1}
       /\ \A i \in DOMAIN s : Append(s, x)[i] = s[i]
       /\ Append(s, x)[Len(s) + 1] = x
  BY ONLY <1>6, <1>8
<1>11. PICK t : t = Append(s, x)
  OBVIOUS
<1>12. /\ versions' \in [Workflow -> Seq(Version)] /\ versions'[w] = t
       /\ \A v \in Workflow : v # w => versions'[v] = versions[v]
  BY ONLY <1>3, <1>8, <1>9, <1>10, <1>11
<1>13. VersionsGrow
  <2>1. \A v \in Workflow : Len(versions[v]) \in Nat
    BY <1>8
  <2> QED BY ONLY <1>7, <1>10, <1>11, <1>12, <2>1 DEF VersionsGrow
<1>14. <<w, x.source, call.source, x.trigger>> \in saved
  BY <1>2, <1>3, <1>4, <1>6 DEF IInv, StoredInv, DraftSaved
<1>15. Snapshots'
  <2> SUFFICES ASSUME NEW v \in Workflow, NEW n \in DOMAIN versions'[v]
               PROVE  SnapshotOf(v, versions[v][n])'
    BY DEF Snapshots
  <2>1. CASE v = w /\ n = Len(s) + 1
    <3>1. versions'[v][n] = x
      BY <1>10, <1>11, <1>12, <2>1
    <3> QED BY <1>1, <1>6, <1>14, <2>1, <3>1 DEF SnapshotOf
  <2>2. CASE ~(v = w /\ n = Len(s) + 1)
    <3>1. n \in DOMAIN versions[v] /\ versions'[v][n] = versions[v][n]
      BY <1>7, <1>10, <1>11, <1>12, <2>2
    <3>2. SnapshotOf(v, versions[v][n])
      BY <3>1 DEF IInv, StoredInv, Snapshots
    <3>3. PICK d \in Draft : /\ <<v, versions[v][n].source, d, versions[v][n].trigger>> \in saved
                             /\ versions[v][n].definition = Compiled(d) /\ Compiles(d)
      BY <3>2 DEF SnapshotOf
    <3>4. /\ <<v, versions'[v][n].source, d, versions'[v][n].trigger>> \in saved'
          /\ versions'[v][n].definition = Compiled(d) /\ Compiles(d)
      BY <3>1, <3>3
    <3> QED BY <3>4 DEF SnapshotOf
  <2> QED BY <2>1, <2>2
<1> QED BY <1>3, <1>7, <1>10, <1>11, <1>12, <1>13, <1>15

\* A workflow is activated.
LEMMA ActivateStep ==
    ASSUME IInv, NEW c \in Caller, Activate(c)
    PROVE  IInv'
<1>1. PICK call, w, k, r : /\ call = calls[c] /\ w = call.request.workflow
                           /\ k = call.key /\ r = call.request
  OBVIOUS
<1>2. /\ calls[c] # None /\ SnapshotAdmitted(call) /\ EndCall(c) /\ UNCHANGED runs
      /\ versions' = [versions EXCEPT ![w] = Snapshot(call)]
      /\ receipts' = [receipts EXCEPT ![k] = r]
      /\ definitions' = [definitions EXCEPT ![w].revision = @ + 1, ![w].enabled = TRUE,
                                            ![w].active = Len(versions[w]) + 1]
      /\ saved' = Resaved(w)
  BY <1>1 DEF Activate
<1>3. /\ call \in CallRecord /\ Compiles(call.source) /\ k \in Key /\ r \in Requests
      /\ r.op # "put" /\ Expected(r) /\ w = r.workflow
  BY <1>1, <1>2 DEF IInv, ProcessInv, CallsFit, CallRecord, Requests, Change, SnapshotAdmitted
<1>4. PICK old : old = definitions[w]
  OBVIOUS
<1>5. /\ w \in Workflow /\ old \in Record /\ old # None /\ old.revision = r.expected
      /\ r.expected + 1 \in 1 .. MaxRevision /\ Revision(w) = r.expected
  BY <1>3, <1>4, ExpectedExists
<1>6. saved' = saved \cup {<<w, r.expected + 1, old.definition, old.trigger>>}
  BY <1>2, <1>4, <1>5 DEF Resaved
<1>7. /\ VersionsGrow /\ Snapshots' /\ Len(versions'[w]) = Len(versions[w]) + 1
      /\ Len(versions[w]) \in Nat
  BY <1>1, <1>2, <1>3, <1>6, Versioned
<1>8. PICK m : m = Len(versions[w]) + 1
  OBVIOUS
<1>9. PICK n : n = [old EXCEPT !.revision = r.expected + 1, !.enabled = TRUE, !.active = m]
  OBVIOUS
<1>10. /\ n \in Record /\ n.revision = r.expected + 1 /\ n.definition = old.definition
       /\ n.trigger = old.trigger /\ n.active = m
  <2>1. m \in Nat
    BY ONLY <1>7, <1>8
  <2> QED BY ONLY <1>5, <1>9, <2>1 DEF Record
<1>11. definitions' = [definitions EXCEPT ![w] = n]
  <2>1. definitions \in [Workflow -> {None} \cup Record]
    BY DEF IInv, StoredInv, Tables
  <2> QED BY <1>2, <1>4, <1>5, <1>8, <1>9, <2>1
<1>12. n # None
  BY <1>10, NoneAssumption
<1>13. Redefined(w, n)
  BY <1>6, <1>10, <1>11 DEF Redefined
<1>14. n.active <= Len(versions'[w]) /\ (n.enabled => n.active > 0)
  BY <1>7, <1>8, <1>10
<1>15. /\ (definitions \in [Workflow -> {None} \cup Record])'
       /\ \A v \in Workflow : definitions'[v] # None =>
            /\ definitions'[v].active <= Len(versions'[v])
            /\ definitions'[v].enabled => definitions'[v].active > 0
       /\ IsFiniteSet(Existing)' /\ DraftSaved'
       /\ \A v \in Workflow : definitions[v] # None => definitions'[v] # None
  BY <1>5, <1>7, <1>12, <1>13, <1>14, RedefinedKeeps DEF IInv, VersionsGrow
<1>16. (receipts \in [Key -> {None} \cup Requests])' /\ Receipted'
  BY <1>2, <1>3, ReceiptKept DEF IInv
<1>17. /\ (\A i \in DOMAIN runs : runs[i].version \in DOMAIN versions[runs[i].workflow])'
       /\ (Cardinality(Unsettled) <= MaxActive)' /\ OneRunPerRequest'
       /\ (runs \in Seq(RunRecord))'
  <2>1. Unsettled' = Unsettled
    BY <1>2 DEF Unsettled
  <2>2. \A i \in DOMAIN runs : runs[i] \in RunRecord
    BY Element DEF IInv, StoredInv, Tables
  <2>3. \A i \in DOMAIN runs : runs[i].version \in DOMAIN versions'[runs[i].workflow]
    BY <1>7, <2>2 DEF VersionsGrow, RunRecord, IInv, StoredInv, Pinned
  <2> QED BY <1>2, <2>1, <2>3 DEF IInv, StoredInv, Tables, Pinned, Limits, OneRunPerRequest
<1>18. Tables' /\ Pinned' /\ Limits'
  BY <1>7, <1>15, <1>16, <1>17 DEF Tables, Pinned, Limits, VersionsGrow
<1>19. Grows
  BY <1>2, <1>15 DEF Grows
<1>20. ProcessInv'
  BY <1>2, <1>19, EndCallKeeps DEF IInv
<1> QED BY <1>7, <1>15, <1>16, <1>17, <1>18, <1>20 DEF IInv, StoredInv

\* A run is admitted whose key no row has, while there is room for one.
LEMMA Admitted ==
    ASSUME IInv, NEW row \in RunRecord, ~row.settled, RoomForRun, runs' = Append(runs, row),
           Unclaimed(row.key), VersionsGrow, row.version \in DOMAIN versions'[row.workflow],
           \A k \in Key : receipts[k] # None => receipts'[k] # None,
           row.key \in Key => receipts'[row.key] # None
    PROVE  /\ (\A i \in DOMAIN runs : runs[i].version \in DOMAIN versions[runs[i].workflow])'
           /\ (Cardinality(Unsettled) <= MaxActive)' /\ OneRunPerRequest'
           /\ (runs \in Seq(RunRecord))' /\ Receipted' /\ DOMAIN runs \subseteq DOMAIN runs'
<1>1. PICK s, n : s = runs /\ n = Len(s) + 1
  OBVIOUS
<1>2. s \in Seq(RunRecord)
  BY <1>1 DEF IInv, StoredInv, Tables
<1>3. /\ runs' \in Seq(RunRecord) /\ n \notin DOMAIN s /\ DOMAIN runs' = DOMAIN s \cup {n}
      /\ \A i \in DOMAIN s : runs'[i] = s[i]
      /\ runs'[n] = row
  <2>1. runs' = Append(s, row)
    BY <1>1
  <2>2. /\ Append(s, row) \in Seq(RunRecord) /\ n \notin DOMAIN s
        /\ DOMAIN Append(s, row) = DOMAIN s \cup {n}
        /\ \A i \in DOMAIN s : Append(s, row)[i] = s[i]
        /\ Append(s, row)[n] = row
    BY ONLY <1>1, <1>2, row \in RunRecord
  <2> QED BY ONLY <2>1, <2>2
<1>4. \A i \in DOMAIN s : s[i] \in RunRecord
  BY <1>2, Element
<1>5. \A i \in DOMAIN runs' : runs'[i].version \in DOMAIN versions'[runs'[i].workflow]
  <2>1. \A i \in DOMAIN s : s[i].version \in DOMAIN versions'[s[i].workflow]
    BY <1>1, <1>4 DEF VersionsGrow, RunRecord, IInv, StoredInv, Pinned
  <2> QED BY <1>3, <2>1
<1>6. (Cardinality(Unsettled) <= MaxActive)'
  <2>1. Unsettled = {i \in DOMAIN s : ~s[i].settled}
    BY <1>1 DEF Unsettled
  <2>2. {i \in DOMAIN runs' : ~runs'[i].settled} = Unsettled \cup {n}
    BY <1>3, <2>1
  <2>3. IsFiniteSet(Unsettled) /\ n \notin Unsettled
    BY <1>3, <2>1, RowsFinite DEF IInv, StoredInv
  <2>4. Cardinality(Unsettled \cup {n}) = Cardinality(Unsettled) + 1
    BY <2>3, FS_AddElement
  <2>5. Cardinality(Unsettled) \in Nat
    BY <2>3, FS_CardinalityType
  <2>6. Cardinality(Unsettled \cup {n}) <= MaxActive
    BY <2>4, <2>5, AdmissionAssumption DEF RoomForRun
  <2> QED BY <2>2, <2>6 DEF Unsettled
<1>7. OneRunPerRequest'
  <2>1. \A i \in DOMAIN s : s[i].key # row.key
    BY <1>1 DEF Unclaimed
  <2>2. \A i, j \in DOMAIN s : s[i].key = s[j].key => i = j
    BY <1>1 DEF IInv, StoredInv, OneRunPerRequest
  <2>3. \A i, j \in DOMAIN runs' : runs'[i].key = runs'[j].key => i = j
    BY ONLY <1>3, <2>1, <2>2
  <2> QED BY <2>3 DEF OneRunPerRequest
<1>8. Receipted'
  <2>1. \A i \in DOMAIN s : s[i].key \in Key => receipts'[s[i].key] # None
    BY <1>1 DEF IInv, StoredInv, Receipted
  <2> QED BY <1>3, <2>1 DEF Receipted
<1> QED BY <1>1, <1>3, <1>5, <1>6, <1>7, <1>8

\* A definition that stays has an active version still, if versions grow.
LEMMA DefinitionsKept ==
    ASSUME IInv, VersionsGrow, UNCHANGED <<definitions, saved>>
    PROVE  /\ (definitions \in [Workflow -> {None} \cup Record])'
           /\ \A v \in Workflow : definitions'[v] # None =>
                /\ definitions'[v].active <= Len(versions'[v])
                /\ definitions'[v].enabled => definitions'[v].active > 0
           /\ IsFiniteSet(Existing)' /\ DraftSaved'
<1>1. \A v \in Workflow : Len(versions[v]) \in Nat /\ Len(versions'[v]) \in Nat
  BY DEF VersionsGrow, IInv, StoredInv, Tables
<1>2. \A v \in Workflow : definitions[v] # None =>
        /\ definitions[v].active \in Nat /\ definitions[v].active <= Len(versions[v])
        /\ definitions[v].enabled => definitions[v].active > 0
  BY DEF IInv, StoredInv, Tables, Pinned, Record
<1>3. \A v \in Workflow : Len(versions[v]) <= Len(versions'[v])
  BY DEF VersionsGrow
<1>4. \A v \in Workflow : definitions[v] # None =>
        /\ definitions[v].active <= Len(versions'[v])
        /\ definitions[v].enabled => definitions[v].active > 0
  BY ONLY <1>1, <1>2, <1>3
<1>5. IsFiniteSet(Existing)'
  BY DEF IInv, StoredInv, Limits, Existing
<1> QED BY <1>4, <1>5 DEF IInv, StoredInv, Tables, DraftSaved

\* A run once request admits its run.
LEMMA StartManualRunStep ==
    ASSUME IInv, NEW c \in Caller, StartManualRun(c)
    PROVE  IInv'
<1>1. PICK call, w, k, r : /\ call = calls[c] /\ w = call.request.workflow
                           /\ k = call.key /\ r = call.request
  OBVIOUS
<1>2. /\ calls[c] # None /\ SnapshotAdmitted(call) /\ EndCall(c)
      /\ UNCHANGED <<definitions, saved>> /\ Fresh(k) /\ RoomForRun
      /\ versions' = [versions EXCEPT ![w] = Snapshot(call)]
      /\ receipts' = [receipts EXCEPT ![k] = r]
      /\ runs' = Append(runs, RunRow(w, Len(versions[w]) + 1, k))
  BY <1>1 DEF StartManualRun
<1>3. /\ call \in CallRecord /\ Compiles(call.source) /\ k \in Key /\ r \in Requests
  BY <1>1, <1>2 DEF IInv, ProcessInv, CallsFit, CallRecord, Requests, Change
<1>4. /\ VersionsGrow /\ Snapshots' /\ w \in Workflow /\ Len(versions[w]) \in Nat
      /\ Len(versions[w]) + 1 \in DOMAIN versions'[w]
  BY <1>1, <1>2, <1>3, Versioned
<1>5. PICK m : m = Len(versions[w]) + 1
  OBVIOUS
<1>6. PICK row : row = [workflow |-> w, version |-> m, key |-> k, settled |-> FALSE]
  OBVIOUS
<1>7. /\ row \in RunRecord /\ row.workflow = w /\ row.version = m /\ row.key = k
      /\ ~row.settled
  <2>1. m \in Nat /\ k \in ManualOrScheduled
    BY <1>3, <1>4, <1>5 DEF ManualOrScheduled
  <2> QED BY ONLY <1>4, <1>6, <2>1 DEF RunRecord
<1>8. runs' = Append(runs, row)
  BY <1>2, <1>5, <1>6 DEF RunRow
<1>9. Unclaimed(k)
  BY <1>2, <1>3 DEF Unclaimed, Fresh, IInv, StoredInv, Receipted
<1>10. /\ receipts' \in [Key -> {None} \cup Requests] /\ receipts'[k] # None
       /\ \A x \in Key : receipts[x] # None => receipts'[x] # None
  <2>1. receipts \in [Key -> {None} \cup Requests] /\ r # None
    BY <1>3, NoneAssumption DEF IInv, StoredInv, Tables
  <2> QED BY ONLY <1>2, <1>3, <2>1
<1>11. row.version \in DOMAIN versions'[row.workflow]
  BY <1>4, <1>5, <1>7
<1>12. /\ (\A i \in DOMAIN runs : runs[i].version \in DOMAIN versions[runs[i].workflow])'
       /\ (Cardinality(Unsettled) <= MaxActive)' /\ OneRunPerRequest'
       /\ (runs \in Seq(RunRecord))' /\ Receipted' /\ DOMAIN runs \subseteq DOMAIN runs'
  BY <1>2, <1>4, <1>7, <1>8, <1>9, <1>10, <1>11, Admitted
<1>13. /\ (definitions \in [Workflow -> {None} \cup Record])'
       /\ \A v \in Workflow : definitions'[v] # None =>
            /\ definitions'[v].active <= Len(versions'[v])
            /\ definitions'[v].enabled => definitions'[v].active > 0
       /\ IsFiniteSet(Existing)' /\ DraftSaved'
  BY <1>2, <1>4, DefinitionsKept
<1>14. Tables' /\ Pinned' /\ Limits'
  BY <1>4, <1>10, <1>12, <1>13 DEF Tables, Pinned, Limits, VersionsGrow
<1>15. Grows
  BY <1>2, <1>12 DEF Grows
<1>16. ProcessInv'
  BY <1>2, <1>15, EndCallKeeps DEF IInv
<1> QED BY <1>4, <1>12, <1>13, <1>14, <1>16 DEF IInv, StoredInv

\* A tick admits the run that is due.
LEMMA ClaimScheduledRunStep ==
    ASSUME IInv, NEW b \in Backend, ClaimScheduledRun(b)
    PROVE  IInv'
<1>1. PICK w, m, k, todo : /\ w = Candidate(b).workflow /\ m = Candidate(b).version
                           /\ k = ScheduledKey(b) /\ todo = Tail(admitting[b].todo)
  OBVIOUS
<1>2. /\ UNCHANGED <<definitions, versions, receipts, saved>> /\ Admitting(b) /\ RoomForRun
      /\ Proceed(b, todo) /\ Unclaimed(k) /\ StillActive(b)
      /\ runs' = Append(runs, RunRow(w, m, k))
  BY <1>1 DEF ClaimScheduledRun, Claimable
<1>3. /\ todo \in Seq(Listed) /\ \A i \in DOMAIN todo : definitions[todo[i].workflow] # None
      /\ w \in Workflow /\ m \in Nat /\ definitions[w] # None /\ k = <<w, admitting[b].minute>>
      /\ admitting[b].minute \in 1 .. MaxMinute
  BY <1>1, <1>2, RestFits DEF Listed, ScheduledKey
<1>4. definitions[w].enabled /\ definitions[w].active = m
  BY <1>1, <1>2 DEF StillActive
<1>5. m \in DOMAIN versions[w]
  <2>1. m > 0 /\ m <= Len(versions[w])
    BY <1>3, <1>4 DEF IInv, StoredInv, Pinned
  <2>2. versions[w] \in Seq(Version)
    BY <1>3 DEF IInv, StoredInv, Tables
  <2> QED BY ONLY <1>3, <2>1, <2>2
<1>6. PICK row : row = [workflow |-> w, version |-> m, key |-> k, settled |-> FALSE]
  OBVIOUS
<1>7. k \in Workflow \X (1 .. MaxMinute) /\ k \notin Key
  BY <1>3, KeyAssumption
<1>8. /\ row \in RunRecord /\ row.workflow = w /\ row.version = m /\ row.key = k
      /\ ~row.settled
  <2>1. k \in ManualOrScheduled
    BY <1>7 DEF ManualOrScheduled
  <2> QED BY ONLY <1>3, <1>6, <2>1 DEF RunRecord
<1>9. runs' = Append(runs, row)
  BY <1>2, <1>6 DEF RunRow
<1>10. VersionsGrow
  <2>1. versions \in [Workflow -> Seq(Version)] /\ versions' = versions
    BY <1>2 DEF IInv, StoredInv, Tables
  <2>2. \A v \in Workflow : Len(versions[v]) \in Nat
    BY <2>1
  <2> QED BY <2>1, <2>2 DEF VersionsGrow
<1>11. row.version \in DOMAIN versions'[row.workflow]
  BY <1>2, <1>5, <1>8
<1>12. /\ (\A i \in DOMAIN runs : runs[i].version \in DOMAIN versions[runs[i].workflow])'
       /\ (Cardinality(Unsettled) <= MaxActive)' /\ OneRunPerRequest'
       /\ (runs \in Seq(RunRecord))' /\ Receipted' /\ DOMAIN runs \subseteq DOMAIN runs'
  BY <1>2, <1>7, <1>8, <1>9, <1>10, <1>11, Admitted
<1>13. /\ (definitions \in [Workflow -> {None} \cup Record])'
       /\ \A v \in Workflow : definitions'[v] # None =>
            /\ definitions'[v].active <= Len(versions'[v])
            /\ definitions'[v].enabled => definitions'[v].active > 0
       /\ IsFiniteSet(Existing)' /\ DraftSaved'
  BY <1>2, <1>10, DefinitionsKept
<1>14. (receipts \in [Key -> {None} \cup Requests])'
  BY <1>2 DEF IInv, StoredInv, Tables
<1>15. Snapshots'
  BY <1>2, SnapshotsKept DEF IInv
<1>16. Tables' /\ Pinned' /\ Limits'
  BY <1>10, <1>12, <1>13, <1>14 DEF Tables, Pinned, Limits, VersionsGrow
<1>17. TicksFit'
  BY <1>2, <1>3, ProceedFits
<1>18. UNCHANGED <<calls, workers, holder, minute>>
  BY <1>2 DEF Proceed
<1>19. CallsFit'
  BY <1>18 DEF IInv, ProcessInv, CallsFit
<1>20. WorkersFit'
  BY <1>12, <1>18 DEF IInv, ProcessInv, WorkersFit
<1>21. ProcessInv'
  BY <1>17, <1>18, <1>19, <1>20 DEF IInv, ProcessInv
<1> QED BY <1>12, <1>13, <1>15, <1>16, <1>21 DEF IInv, StoredInv

\* A worker settles its run.
LEMMA SettleStep ==
    ASSUME IInv, NEW b \in Backend, NEW i, Settle(b, i)
    PROVE  IInv'
<1>1. /\ UNCHANGED <<definitions, versions, receipts, saved>> /\ UNCHANGED process
      /\ runs' = [runs EXCEPT ![i].settled = TRUE] /\ i \in workers[b]
  BY DEF Settle
<1>2. PICK s, old : s = runs /\ old = s[i]
  OBVIOUS
<1>3. s \in Seq(RunRecord) /\ i \in DOMAIN s
  BY <1>1, <1>2 DEF IInv, StoredInv, ProcessInv, Tables, WorkersFit
<1>4. old \in RunRecord
  BY <1>2, <1>3, Element
<1>5. PICK n : n = [old EXCEPT !.settled = TRUE]
  OBVIOUS
<1>6. /\ n \in RunRecord /\ n.workflow = old.workflow /\ n.version = old.version
      /\ n.key = old.key /\ n.settled = TRUE
  BY ONLY <1>4, <1>5 DEF RunRecord
<1>7. runs' = [s EXCEPT ![i] = n]
  BY <1>1, <1>2, <1>5
<1>8. /\ runs' \in Seq(RunRecord) /\ DOMAIN runs' = DOMAIN s /\ runs'[i] = n
      /\ \A j \in DOMAIN s : j # i => runs'[j] = s[j]
  BY ONLY <1>3, <1>6, <1>7
<1>9. \A j \in DOMAIN s : /\ runs'[j].workflow = s[j].workflow
                          /\ runs'[j].version = s[j].version /\ runs'[j].key = s[j].key
  BY ONLY <1>2, <1>6, <1>8
<1>10. (Cardinality(Unsettled) <= MaxActive)'
  <2>1. IsFiniteSet(Unsettled) /\ Cardinality(Unsettled) <= MaxActive
    BY RowsFinite DEF IInv, StoredInv, Limits
  <2>2. {j \in DOMAIN runs' : ~runs'[j].settled} \subseteq Unsettled
    BY <1>2, <1>6, <1>8 DEF Unsettled
  <2>3. PICK less : less = {j \in DOMAIN runs' : ~runs'[j].settled}
    OBVIOUS
  <2>4. IsFiniteSet(less) /\ Cardinality(less) <= Cardinality(Unsettled)
    BY <2>1, <2>2, <2>3, FS_Subset
  <2>5. Cardinality(less) \in Nat /\ Cardinality(Unsettled) \in Nat
    BY <2>1, <2>4, FS_CardinalityType
  <2>6. Cardinality(less) <= MaxActive
    BY <2>1, <2>4, <2>5, AdmissionAssumption
  <2> QED BY <2>3, <2>6 DEF Unsettled
<1>11. OneRunPerRequest' /\ Receipted' /\ Pinned'
  BY <1>1, <1>2, <1>8, <1>9 DEF IInv, StoredInv, OneRunPerRequest, Receipted, Pinned
<1>12. Tables' /\ DraftSaved'
  BY <1>1, <1>8 DEF IInv, StoredInv, Tables, DraftSaved
<1>13. Limits'
  BY <1>1, <1>10 DEF IInv, StoredInv, Limits, Existing
<1>14. Snapshots'
  BY <1>1, SnapshotsKept DEF IInv
<1>15. Grows
  BY <1>1, <1>2, <1>8 DEF Grows
<1>16. ProcessInv'
  BY <1>1, <1>15, ProcessKept DEF IInv
<1> QED BY <1>11, <1>12, <1>13, <1>14, <1>16 DEF IInv, StoredInv

-----------------------------------------------------------------------------
(* The theorems                                                            *)

\* Nothing is saved, nothing admitted and nobody works.
LEMMA InitInv == Init => IInv
<1> SUFFICES ASSUME Init PROVE IInv
  OBVIOUS
<1>1. Tables
  BY DEF Init, Tables
<1>2. Existing = {} /\ Unsettled = {}
  BY DEF Init, Existing, Unsettled
<1>3. Limits
  BY <1>2, FS_EmptySet, AdmissionAssumption DEF Limits
<1>4. Pinned /\ Receipted /\ OneRunPerRequest /\ DraftSaved
  BY DEF Init, Pinned, Receipted, OneRunPerRequest, DraftSaved
<1>5. Snapshots
  BY DEF Init, Snapshots
<1>6. CallsFit /\ TicksFit
  BY DEF Init, CallsFit, TicksFit
<1>7. WorkersFit /\ workers \in [Backend -> SUBSET Nat]
  BY FS_EmptySet, AdmissionAssumption DEF Init, WorkersFit
<1>8. holder \in Backend
  BY AdmissionAssumption DEF Init
<1>9. minute \in 1 .. MaxMinute
  BY AdmissionAssumption DEF Init
<1> QED BY <1>1, <1>3, <1>4, <1>5, <1>6, <1>7, <1>8, <1>9 DEF IInv, StoredInv, ProcessInv

\* Every step keeps the invariant.
LEMMA NextInv == IInv /\ [Next]_vars => IInv'
<1> SUFFICES ASSUME IInv, [Next]_vars PROVE IInv'
  OBVIOUS
<1>1. ASSUME NEW q \in Submitted, Edit(q[1], q[2]) PROVE IInv'
  <2>1. q[1] \in Key /\ q[2] \in Requests
    BY AdmissionAssumption
  <2>2. PICK k, r : k = q[1] /\ r = q[2]
    OBVIOUS
  <2>3. /\ k \in Key /\ r \in Requests
        /\ PutDefinition(k, r) \/ PauseDefinition(k, r) \/ \E c \in Caller : Compile(c, k, r)
    BY <1>1, <2>1, <2>2 DEF Edit
  <2> QED BY <2>3, PutDefinitionStep, PauseDefinitionStep, CompileStep
<1>2. ASSUME NEW c \in Caller, Commit(c) PROVE IInv'
  BY <1>2, ActivateStep, StartManualRunStep, NothingStep DEF Commit
<1>3. ASSUME NEW b \in Backend, Admit(b) PROVE IInv'
  BY <1>3, TickStep, ClaimScheduledRunStep, PassStep, SpawnWorkersStep DEF Admit
<1>4. ASSUME NEW b \in Backend, Join(b) PROVE IInv'
  BY <1>4, JoinWorkerStep DEF Join
<1>5. ASSUME NEW b \in Backend, Crash(b) \/ Takeover(b) PROVE IInv'
  BY <1>5, EnvironmentStep
<1>6. CASE Settles
  BY <1>6, SettleStep DEF Settles
<1>7. CASE NextMinute
  BY <1>7, EnvironmentStep
<1>8. CASE UNCHANGED vars
  <2>1. UNCHANGED stored /\ UNCHANGED process
    BY <1>8 DEF vars, stored, process
  <2> QED BY <2>1, StoredKept, StoredGrows, ProcessKept DEF IInv
<1> QED BY <1>1, <1>2, <1>3, <1>4, <1>5, <1>6, <1>7, <1>8 DEF Next

\* The inductive invariant holds in every behaviour.
LEMMA Invariant == Spec => []IInv
BY InitInv, NextInv, PTL DEF Spec

\* Every variable has its type, every reference its target, and the limits on unsettled runs
\* and on a loop's workers are kept: a table at its limit, a list of candidates that is
\* stale, and two backends that tick at the same time included.
THEOREM TypeCorrect == Spec => []TypeOK
<1>1. IInv => TypeOK
  BY DEF IInv, StoredInv, ProcessInv, Tables, Pinned, Limits, WorkersFit, TypeOK
<1> QED BY <1>1, Invariant, PTL

\* A run once key and a workflow's minute admit one run each, whoever else found no receipt
\* or no row before: start_workflow_run and claim_scheduled_workflow_run look once more in
\* their transaction, and the receipt, or the row itself, is permanent.
THEOREM RequestsAdmitOneRun == Spec => []OneRunPerRequest
<1>1. IInv => OneRunPerRequest
  BY DEF IInv, StoredInv
<1> QED BY <1>1, Invariant, PTL

\* Rows that a step adds.
Added == DOMAIN runs' \ DOMAIN runs

\* The one row that is added.
LEMMA AddedRow ==
    ASSUME IInv, NEW row, runs' = Append(runs, row)
    PROVE  \A i \in Added : runs'[i] = row
<1>1. PICK s : s = runs
  OBVIOUS
<1>2. runs' = Append(s, row) /\ s \in Seq(RunRecord)
  BY <1>1 DEF IInv, StoredInv, Tables
<1>3. /\ DOMAIN Append(s, row) = DOMAIN s \cup {Len(s) + 1}
      /\ Append(s, row)[Len(s) + 1] = row
  BY ONLY <1>2
<1> QED BY ONLY <1>1, <1>2, <1>3 DEF Added

\* The rows a step adds are of an editor's request, or of a workflow and the version it is
\* enabled with.
LEMMA AddedAreCurrent ==
    ASSUME IInv, Next
    PROVE  \A i \in Added : runs'[i].key \notin Key =>
              /\ definitions[runs'[i].workflow].enabled
              /\ definitions[runs'[i].workflow].active = runs'[i].version
<1>2. ASSUME DOMAIN runs' = DOMAIN runs
      PROVE  \A i \in Added : FALSE
  BY <1>2 DEF Added
<1>4. ASSUME NEW c \in Caller, StartManualRun(c)
      PROVE  \A i \in Added : runs'[i].key \in Key
  <2>1. PICK row, k : /\ row = RunRow(calls[c].request.workflow,
                                   Len(versions[calls[c].request.workflow]) + 1, calls[c].key)
                      /\ k = calls[c].key
    OBVIOUS
  <2>2. runs' = Append(runs, row) /\ calls[c] # None
    BY <1>4, <2>1 DEF StartManualRun
  <2>3. k \in Key
    BY <2>1, <2>2 DEF IInv, ProcessInv, CallsFit, CallRecord
  <2>4. row.key = k
    BY ONLY <2>1 DEF RunRow
  <2>5. \A i \in Added : runs'[i] = row
    BY <2>2, AddedRow
  <2> QED BY ONLY <2>3, <2>4, <2>5
<1>5. ASSUME NEW b \in Backend, ClaimScheduledRun(b)
      PROVE  \A i \in Added : /\ definitions[runs'[i].workflow].enabled
                              /\ definitions[runs'[i].workflow].active = runs'[i].version
  <2>1. PICK row, w, v : /\ row = RunRow(w, v, ScheduledKey(b)) /\ w = Candidate(b).workflow
                         /\ v = Candidate(b).version
    OBVIOUS
  <2>2. runs' = Append(runs, row) /\ StillActive(b)
    BY <1>5, <2>1 DEF ClaimScheduledRun, Claimable
  <2>3. definitions[w].enabled /\ definitions[w].active = v
    BY <2>1, <2>2 DEF StillActive
  <2>4. row.workflow = w /\ row.version = v
    BY ONLY <2>1 DEF RunRow
  <2>5. \A i \in Added : runs'[i] = row
    BY <2>2, AddedRow
  <2> QED BY ONLY <2>3, <2>4, <2>5
<1>6. ASSUME NEW b \in Backend, NEW i, Settle(b, i)
      PROVE  DOMAIN runs' = DOMAIN runs
  BY <1>6 DEF Settle
<1>7. CASE UNCHANGED runs
  BY <1>2, <1>7
<1>8. CASE ~UNCHANGED runs
  <2>1. \/ \E c \in Caller : StartManualRun(c)
        \/ \E b \in Backend : ClaimScheduledRun(b)
        \/ \E b \in Backend, i \in DOMAIN runs : Settle(b, i)
    <3>1. ASSUME NEW q, Edit(q[1], q[2]) PROVE UNCHANGED runs
      BY <3>1 DEF Edit, PutDefinition, PauseDefinition, Compile, stored
    <3>2. ASSUME NEW c, Commit(c) PROVE StartManualRun(c) \/ UNCHANGED runs
      BY <3>2 DEF Commit, Activate, CallChangesNothing, stored
    <3>3. ASSUME NEW b, Admit(b) PROVE ClaimScheduledRun(b) \/ UNCHANGED runs
      BY <3>3 DEF Admit, Tick, SkipSchedule, AdmissionFails, SpawnWorkers, stored
    <3>4. ASSUME NEW b, Join(b) \/ Crash(b) \/ Takeover(b) \/ NextMinute PROVE UNCHANGED runs
      BY <3>4 DEF Join, JoinWorker, Crash, Takeover, NextMinute, stored
    <3> QED BY <1>8, <3>1, <3>2, <3>3, <3>4 DEF Next, Settles
  <2> QED BY <1>2, <1>4, <1>5, <1>6, <2>1
<1> QED BY <1>7, <1>8

\* A tick that listed a workflow before it was paused, or before another version was
\* activated, admits nothing for it: claim_scheduled_workflow_run reads the definition again.
THEOREM SchedulesFollowTheDefinition == Spec => ScheduledWhileActive
<1>1. IInv /\ [Next]_vars =>
        [\A i \in DOMAIN runs' \ DOMAIN runs :
           runs'[i].key \notin Key =>
              /\ definitions[runs'[i].workflow].enabled
              /\ definitions[runs'[i].workflow].active = runs'[i].version]_vars
  BY AddedAreCurrent DEF Added
<1> QED BY <1>1, Invariant, PTL DEF Spec, ScheduledWhileActive

\* A compiled definition compiles to the same order: the implied edges imply no others.
LEMMA CompiledAgain ==
    ASSUME NEW d \in Definitions, Compiles(d)
    PROVE  Compiles(Compiled(d)) /\ Order(Compiled(d)) = Order(d)
<1>1. PICK c : c = Compiled(d)
  OBVIOUS
<1>2. /\ c.nodes = d.nodes /\ c.edges = d.edges \cup d.outputs /\ c.outputs = d.outputs
      /\ c.wellTyped = d.wellTyped
  BY <1>1, CompiledType
<1>3. Dependencies(c) = Dependencies(d)
  BY <1>2 DEF Dependencies
<1>4. Order(c) = Order(d)
  BY <1>2, <1>3 DEF Order
<1>5. Compiles(c)
  BY <1>2, <1>3, <1>4 DEF Compiles, Closed
<1> QED BY <1>1, <1>4, <1>5

\* Whatever was saved while it was compiled, a version is one saved draft with its trigger,
\* and the order that every later compilation of the version gives can run that draft: the
\* transaction of snapshot compares the draft that was compiled with the record.
THEOREM SnapshotsAreSavedDrafts == Spec => []VersionsAreSavedDrafts
<1>1. IInv => VersionsAreSavedDrafts
  <2> SUFFICES ASSUME IInv, NEW w \in Workflow, NEW n \in DOMAIN versions[w]
               PROVE  \E d \in Draft :
                        /\ <<w, versions[w][n].source, d, versions[w][n].trigger>> \in saved
                        /\ versions[w][n].definition = Compiled(d)
                        /\ Compiles(versions[w][n].definition)
                        /\ Executable(d, Order(versions[w][n].definition))
    BY DEF VersionsAreSavedDrafts
  <2>1. SnapshotOf(w, versions[w][n])
    BY DEF IInv, StoredInv, Snapshots
  <2>2. PICK d \in Draft : /\ <<w, versions[w][n].source, d, versions[w][n].trigger>> \in saved
                           /\ versions[w][n].definition = Compiled(d) /\ Compiles(d)
    BY <2>1 DEF SnapshotOf
  <2>3. d \in Definitions /\ IsFiniteSet(d.nodes)
    BY <2>2, AdmissionAssumption
  <2>4. Compiles(Compiled(d)) /\ Order(Compiled(d)) = Order(d)
    BY <2>2, <2>3, CompiledAgain
  <2>5. Executable(d, Order(d))
    BY <2>2, <2>3, CompiledOrderRuns DEF OrderRuns
  <2> QED BY <2>2, <2>4, <2>5
<1> QED BY <1>1, Invariant, PTL
=============================================================================
