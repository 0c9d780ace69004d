--------------------------- MODULE AgentSpawnProofs ---------------------------
(***************************************************************************)
(* Proofs about AgentSpawn, in every behaviour of AgentStop.               *)
(*                                                                         *)
(* Why a prompt is not handed out again although any answer may be lost:   *)
(* the holder of the agent's lock has the journal's receipt in its hands,  *)
(* so it runs a stage only when the journal says so, and once a prompt may *)
(* have been written the journal shows a prompt delivery in flight, failed *)
(* uncertainly or committed, from which no directive leads back to it.     *)
(* Only a prompt that the launch carries goes out with every session that  *)
(* is started, and a session is started only in the place of one that is   *)
(* over and only until the launch is committed.                            *)
(***************************************************************************)
EXTENDS AgentStop, FiniteSetTheorems, TLAPS

Receipt ==
    [plan : Plan, sequence : Nat \ {0}, completed : 0 .. 3, inFlight : BOOLEAN,
     failure : {"none", "certain", "uncertain"}, claimed : BOOLEAN, accepted : BOOLEAN,
     gate : {"none", "open", "carried"},
     outcome : {"none", "Succeeded", "ManualInterventionRequired"}]

JournalEvent ==
    [kind : {"StagePrepared", "StageCommitted", "StageFailed", "CheckoutClaimed",
             "RetryAuthorized", "Terminated", "Succeeded"},
     accepted : BOOLEAN, gate : {"none", "open", "carried"},
     written : {"unknown", "no", "yes"}]

World ==
    [workspace : {"none", "kept", "removed", "replaced"},
     session : {"none", "running", "exited", "stopped"}, started : Nat, bound : Nat,
     closing : Nat, handed : Nat, permit : Attempt \cup {None}]

Recording == {"looping", "preparing", "claiming", "committing"}
Applying == Recording \cup {"applying", "executing", "launched"}
Closing == {"driving", "closing", "advancing", "closed", "terminalizing"}

SpawnCall ==
    [at : Applying \cup {"previewing", "observed"}, operation : Operation \cup {None},
     receipt : Receipt \cup {NoReceipt}, event : JournalEvent \cup {None}]
DriveCall ==
    [at : Closing, operation : Operation, stop : Attempt \cup {None},
     close : Closes, admission : {None, "Preserve", "Replaced", "Remove"},
     outcome : {None, "Stopped"} \cup Terminal]

Types ==
    /\ journal \in [Operation -> Receipt \cup {NoReceipt}]
    /\ world \in [Operation -> World]
    /\ calls \in [Caller -> SpawnCall \cup DriveCall \cup {None}]
    /\ stops \in [Attempt -> StopRecord \cup {None}]
    /\ closes \in [Operation -> [Closes -> {"none", "Admitted", "Stopped", "SourceRetained"}]]

\* The prompt is typed into the terminal, and not handed over by the launch or as a turn.
IsTyped(plan) == plan.native /\ plan.prompt /\ ~plan.carries

\* The receipt is a fold that the events admit.
WellFormed(r) ==
    /\ r.completed <= IF r.plan.prompt THEN 3 ELSE 2
    /\ r.inFlight => r.failure = "none"
    /\ r.inFlight \/ r.failure # "none" => r.completed < IF r.plan.prompt THEN 3 ELSE 2
    /\ r.accepted => r.plan.carries
    /\ r.gate = "open" => ~r.plan.carries
    /\ r.plan.carries /\ r.completed >= 2 => r.accepted \/ r.gate = "carried"
    /\ r.plan.carries /\ r.completed = 2 => r.failure # "certain"

\* What the receipt says happened did, and a prompt that was handed over shows in it.
Evidenced(r, w) ==
    /\ r.completed >= 1 => w.workspace # "none"
    /\ r.completed >= 2 => w.session # "none" /\ w.bound = w.started
    /\ r.completed = 3 => w.handed # 0
    /\ r.plan.carries => w.handed = w.started
    /\ ~r.plan.carries => w.handed \in {0, 1}
    /\ IsTyped(r.plan) /\ w.handed # 0 =>
         \/ r.completed = 3
         \/ r.completed = 2 /\ (r.inFlight \/ r.failure = "uncertain")
    /\ w.session = "none" <=> w.started = 0
    /\ w.bound <= w.started /\ w.closing <= w.started
    /\ w.bound # 0 => r.completed >= 1

\* An operation that was not planned has no effect, and a planned one those its receipt shows.
Traced(r, w) ==
    \/ r = NoReceipt /\ w = Untouched
    \/ r \in Receipt /\ WellFormed(r) /\ Evidenced(r, w)

\* What a launch reports of the prompt it may carry.
LaunchSeen(plan, e) == plan.carries => e.accepted \/ e.gate = "carried"

\* The effect that the commit of the stage in flight reports has happened.
StageDone(r, w, e) ==
    /\ r.completed = 0 => w.workspace # "none"
    /\ r.completed = 1 => w.session # "none" /\ w.bound = w.started /\ LaunchSeen(r.plan, e)
    /\ r.completed = 2 => w.handed # 0

\* What the holder of the lock has in hand: the receipt of the journal, and an event that
\* is true of the world.
InHand(m, r, w) ==
    /\ m.receipt = r
    /\ r \in Receipt
    /\ m.at \in Recording \cup {"launched"} =>
         /\ m.event \in JournalEvent
         /\ m.event.accepted => r.plan.carries
         /\ m.event.gate = "open" => ~r.plan.carries
    /\ m.at = "looping" => m.event.kind \in {"Succeeded", "RetryAuthorized"}
    /\ m.at = "preparing" => m.event.kind = "StagePrepared"
    /\ m.at \in {"executing", "claiming", "launched", "committing"} => r.inFlight
    /\ m.at = "executing" /\ r.completed = 2 /\ IsTyped(r.plan) => w.handed = 0
    /\ m.at = "claiming" =>
         m.event.kind = "CheckoutClaimed" /\ r.completed = 0 /\ w.workspace # "none"
    /\ m.at = "launched" =>
         /\ m.event.kind = "StageCommitted" /\ r.completed = 1
         /\ w.session # "none" /\ LaunchSeen(r.plan, m.event)
    /\ m.at = "committing" =>
         /\ m.event.kind \in {"StageCommitted", "StageFailed", "Terminated"}
         /\ m.event.kind = "StageCommitted" => StageDone(r, w, m.event)
         /\ m.event.kind = "StageFailed" /\ m.event.written = "no" /\ r.completed = 2
              /\ r.plan.native => w.handed = 0

\* A request that waits for the lock has a receipt the journal had at that sequence.
Seen(m, r) ==
    /\ r \in Receipt /\ m.receipt \in Receipt
    /\ m.receipt.sequence <= r.sequence
    /\ m.receipt.sequence = r.sequence => m.receipt = r

\* The outcome a driver records is one of a close, or of a stop.
OutcomeFits(m) ==
    /\ m.at = "advancing" => m.outcome \in {"Stopped", "SourceRetained"}
    /\ m.at = "terminalizing" => m.outcome \in Terminal

CallFits(m) ==
    /\ m.at = "observed" => m.operation \in Operation /\ Seen(m, journal[m.operation])
    /\ m.at \in Applying =>
         m.operation \in Operation /\ InHand(m, journal[m.operation], world[m.operation])
    /\ m.at \in Closing =>
         /\ closes[m.operation][m.close] # "none"
         /\ m.stop # None => stops[m.stop] # None
         /\ OutcomeFits(m)

Journals == \A o \in Operation : Traced(journal[o], world[o])

Calls == \A c \in Caller : calls[c] # None => CallFits(calls[c])

\* The lock of an agent has one holder.
Exclusive ==
    \A c, d \in Caller :
        Holds(c) /\ Holds(d) /\ calls[c].operation = calls[d].operation => c = d

\* One operation owns the key.
OneOperation == \A o, p \in Operation : Exists(o) /\ Exists(p) => o = p

\* A runtime is closed, and a stop planned, only once the runtime is selected.
SelectedFirst ==
    /\ \A o \in Operation, k \in Closes : closes[o][k] # "none" => world[o].bound # 0
    /\ \A a \in Attempt : stops[a] # None =>
         /\ world[stops[a].operation].bound # 0
         /\ stops[a].fence # None => closes[stops[a].operation][stops[a].fence.close] # "none"
         /\ stops[a].state = "Authorized" =>
              /\ stops[a].child \in Closes
              /\ closes[stops[a].operation][stops[a].child] # "none"

SpawnInv == Types /\ Journals /\ Calls /\ Exclusive /\ OneOperation /\ SelectedFirst

-----------------------------------------------------------------------------
(* Requests whose operation a step leaves alone                            *)

\* A receipt that was seen stays behind a journal that grows.
LEMMA SeenKept ==
    ASSUME NEW m, NEW r, NEW s, Seen(m, r), s \in Receipt,
           s = r \/ r.sequence < s.sequence
    PROVE  Seen(m, s)
<1>1. r.sequence \in Nat /\ s.sequence \in Nat /\ m.receipt.sequence \in Nat
  BY DEF Seen, Receipt
<1> QED BY <1>1 DEF Seen

\* What a request knows stays true when its operation is left alone, and what it saw of a
\* journal when the journal grows.
LEMMA CallKept ==
    ASSUME NEW m \in SpawnCall \cup DriveCall, CallFits(m),
           m.at \in Applying => UNCHANGED <<journal[m.operation], world[m.operation]>>,
           m.at = "observed" =>
             \/ UNCHANGED journal[m.operation]
             \/ /\ journal'[m.operation] \in Receipt
                /\ journal[m.operation].sequence < journal'[m.operation].sequence,
           m.at \in Closing =>
             /\ closes[m.operation][m.close] # "none" => closes'[m.operation][m.close] # "none"
             /\ m.stop # None /\ stops[m.stop] # None => stops'[m.stop] # None
    PROVE  CallFits(m)'
<1>1. m.at = "observed" => m.operation \in Operation /\ Seen(m, journal'[m.operation])
  <2> SUFFICES ASSUME m.at = "observed"
               PROVE  m.operation \in Operation /\ Seen(m, journal'[m.operation])
    OBVIOUS
  <2>1. m.operation \in Operation /\ Seen(m, journal[m.operation])
    BY DEF CallFits
  <2>2. journal[m.operation] \in Receipt
    BY <2>1 DEF Seen
  <2> QED BY <2>1, <2>2, SeenKept
<1>2. m.at \in Applying =>
        m.operation \in Operation /\ InHand(m, journal'[m.operation], world'[m.operation])
  BY DEF CallFits
<1>3. m.at \in Closing =>
        /\ closes'[m.operation][m.close] # "none"
        /\ m.stop # None => stops'[m.stop] # None
        /\ OutcomeFits(m)
  BY DEF CallFits
<1> QED BY <1>1, <1>2, <1>3 DEF CallFits

\* The lock: nobody but c holds operation o.
Alone(c, o) == \A d \in Caller \ {c} : Holds(d) => calls[d].operation # o

\* A holder is alone.
LEMMA HolderAlone ==
    ASSUME Exclusive, NEW c \in Caller, Holds(c)
    PROVE  Alone(c, calls[c].operation)
BY DEF Exclusive, Alone

\* Nobody holds a lock that is free.
LEMMA FreeAlone ==
    ASSUME NEW c \in Caller, NEW o \in Operation, LockFree(o)
    PROVE  Alone(c, o)
BY DEF LockFree, Alone

\* Where a request may stand that holds no lock.
Waiting == {"previewing", "observed"}

\* A step of request c that touches one operation, under its lock.
LEMMA LocalStep ==
    ASSUME SpawnInv, Types', SelectedFirst', NEW c \in Caller, NEW o \in Operation,
           Alone(c, o),
           \A d \in Caller \ {c} : calls'[d] = calls[d],
           \A p \in Operation \ {o} : journal'[p] = journal[p] /\ world'[p] = world[p],
           Traced(journal'[o], world'[o]),
           \/ journal'[o] = journal[o]
           \/ /\ journal[o] \in Receipt /\ journal'[o] \in Receipt
              /\ journal[o].sequence < journal'[o].sequence,
           \A p \in Operation, k \in Closes : closes[p][k] # "none" => closes'[p][k] # "none",
           \A a \in Attempt : stops[a] # None => stops'[a] # None,
           NEW m, calls'[c] = m,
           m # None => m.operation = o /\ m.at \notin Waiting /\ CallFits(m)'
    PROVE  SpawnInv'
<1>1. Journals'
  <2> SUFFICES ASSUME NEW p \in Operation PROVE Traced(journal'[p], world'[p])
    BY DEF Journals
  <2>1. CASE p = o
    BY <2>1
  <2>2. CASE p # o
    BY <2>2 DEF SpawnInv, Journals
  <2> QED BY <2>1, <2>2
<1>2. Calls'
  <2> SUFFICES ASSUME NEW d \in Caller, calls'[d] # None PROVE CallFits(calls[d])'
    BY DEF Calls
  <2>1. PICK n : n = calls'[d]
    OBVIOUS
  <2>2. CallFits(n)'
    <3>1. CASE d = c
      BY <2>1, <3>1
    <3>2. CASE d # c
      <4>1. /\ n = calls[d] /\ n # None /\ n \in SpawnCall \cup DriveCall /\ CallFits(n)
        BY <2>1, <3>2 DEF SpawnInv, Calls, Types
      <4>2. n.at \in Applying \cup Closing => n.operation # o
        BY <3>2, <4>1 DEF Alone, Holds, Applying, Closing, Recording
      <4>3. n.at \in Applying => n.operation \in Operation
        BY <4>1 DEF CallFits
      <4>4. n.at = "observed" => n.operation \in Operation
        BY <4>1 DEF CallFits
      <4>5. n.at \in Closing => n.operation \in Operation /\ n.close \in Closes
                               /\ n.stop \in Attempt \cup {None}
        <5>1. n.at \in Closing => n \in DriveCall
          BY <4>1 DEF SpawnCall, Applying, Recording, Closing
        <5> QED BY <5>1 DEF DriveCall
      <4> QED BY <4>1, <4>2, <4>3, <4>4, <4>5, CallKept
    <3> QED BY <3>1, <3>2
  <2> QED BY <2>1, <2>2 DEF CallFits
<1>3. Exclusive'
  <2> SUFFICES ASSUME NEW d \in Caller, NEW e \in Caller, Holds(d)', Holds(e)',
                      calls'[d].operation = calls'[e].operation
               PROVE  d = e
    BY DEF Exclusive
  <2>1. ASSUME NEW f \in Caller \ {c}, Holds(f)'
        PROVE  calls'[f].operation # o /\ Holds(f) /\ calls'[f].operation = calls[f].operation
    BY <2>1 DEF Alone, Holds
  <2>2. Holds(c)' => calls'[c].operation = o
    BY DEF Holds
  <2>3. CASE d = c \/ e = c
    BY <2>1, <2>2, <2>3
  <2>4. CASE d # c /\ e # c
    BY <2>1, <2>4 DEF SpawnInv, Exclusive
  <2> QED BY <2>3, <2>4
<1>4. OneOperation'
  <2>1. \A p \in Operation : Exists(p)' => Exists(p)
    <3> SUFFICES ASSUME NEW p \in Operation, journal'[p].sequence > 0
                 PROVE  journal[p].sequence > 0
      BY DEF Exists
    <3>1. CASE journal'[p] = journal[p]
      BY <3>1
    <3>2. CASE journal[p] \in Receipt
      BY <3>2 DEF Receipt
    <3> QED BY <3>1, <3>2
  <2> QED BY <2>1 DEF SpawnInv, OneOperation
<1> QED BY <1>1, <1>2, <1>3, <1>4 DEF SpawnInv

-----------------------------------------------------------------------------
(* Steps that touch no operation, and the steps of a holder                *)

\* Selections, closes and stops that stay keep their order.
LEMMA SelectedKept ==
    ASSUME SelectedFirst, Types, Types', UNCHANGED <<stops, closes>>,
           \A o \in Operation : world[o].bound # 0 => world'[o].bound # 0
    PROVE  SelectedFirst'
<1>1. \A a \in Attempt : stops[a] # None => stops[a].operation \in Operation
  BY DEF Types, StopRecord
<1> QED BY <1>1 DEF SelectedFirst

\* A step that only changes what one request without a lock holds.
LEMMA QuietStep ==
    ASSUME SpawnInv, NEW c \in Caller, UNCHANGED <<journal, world, stops, closes>>,
           NEW m \in SpawnCall \cup {None}, calls' = [calls EXCEPT ![c] = m],
           m # None => m.at \in Waiting /\ CallFits(m)
    PROVE  SpawnInv'
<1>1. Types'
  BY DEF SpawnInv, Types
<1>2. Journals' /\ OneOperation' /\ SelectedFirst'
  BY DEF SpawnInv, Journals, OneOperation, SelectedFirst, Exists
<1>3. calls'[c] = m /\ \A d \in Caller \ {c} : calls'[d] = calls[d]
  BY DEF SpawnInv, Types
<1>4. Calls'
  <2>1. \A d \in Caller : calls'[d] # None => CallFits(calls'[d])
    BY <1>3 DEF SpawnInv, Calls
  <2> QED BY <2>1 DEF Calls, CallFits
<1>5. Exclusive'
  <2>1. \A d \in Caller : Holds(d)' => Holds(d) /\ calls'[d] = calls[d]
    BY <1>3 DEF Holds, Waiting
  <2> QED BY <2>1 DEF SpawnInv, Exclusive
<1> QED BY <1>1, <1>2, <1>4, <1>5 DEF SpawnInv

\* A request that ends tells nothing.
LEMMA ReturnStep ==
    ASSUME SpawnInv, NEW c \in Caller, Return(c), UNCHANGED <<journal, world, stops, closes>>
    PROVE  SpawnInv'
BY QuietStep DEF Return

\* What the request that applies an operation has in hand.
LEMMA HolderReads ==
    ASSUME SpawnInv, NEW c \in Caller, calls[c] # None, calls[c].at \in Applying,
           NEW m, m = calls[c], NEW o, o = m.operation
    PROVE  /\ m \in SpawnCall /\ o \in Operation /\ Alone(c, o) /\ Holds(c)
           /\ journal[o] \in Receipt /\ world[o] \in World
           /\ journal[o].plan \in Plans /\ (journal[o].plan.carries => journal[o].plan.native
                                                                     /\ journal[o].plan.prompt)
           /\ WellFormed(journal[o]) /\ Evidenced(journal[o], world[o])
           /\ InHand(m, journal[o], world[o])
<1>1. m \in SpawnCall
  BY DEF SpawnInv, Types, DriveCall, Applying, Recording, Closing
<1>2. o \in Operation /\ InHand(m, journal[o], world[o])
  BY DEF SpawnInv, Calls, CallFits
<1>3. Holds(c)
  BY DEF Holds, Applying, Recording
<1>4. Alone(c, o)
  BY <1>3, HolderAlone DEF SpawnInv
<1>5. journal[o] \in Receipt /\ world[o] \in World
  BY <1>2 DEF InHand, SpawnInv, Types
<1>6. WellFormed(journal[o]) /\ Evidenced(journal[o], world[o])
  <2>1. journal[o] # NoReceipt
    BY <1>5 DEF Receipt, NoReceipt
  <2>2. Traced(journal[o], world[o])
    BY <1>2 DEF SpawnInv, Journals
  <2> QED BY <2>1, <2>2 DEF Traced
<1>7. journal[o].plan \in Plan
  BY <1>5 DEF Receipt
<1> QED BY <1>1, <1>2, <1>3, <1>4, <1>5, <1>6, <1>7, SpawnAssumption

\* A step of the request that applies an operation: an effect on its world, and the event
\* that will report it.
LEMMA EffectStep ==
    ASSUME SpawnInv, NEW c \in Caller, calls[c] # None, calls[c].at \in Applying,
           NEW o, o = calls[c].operation, UNCHANGED <<journal, stops, closes>>,
           NEW w \in World, world' = [world EXCEPT ![o] = w],
           NEW m \in SpawnCall, calls' = [calls EXCEPT ![c] = m],
           m.operation = o, m.at \in Applying, world[o].bound # 0 => w.bound # 0,
           Evidenced(journal[o], w), InHand(m, journal[o], w)
    PROVE  SpawnInv'
<1>1. /\ o \in Operation /\ Alone(c, o) /\ journal[o] \in Receipt /\ WellFormed(journal[o])
  BY HolderReads
<1>2. /\ calls'[c] = m /\ \A d \in Caller \ {c} : calls'[d] = calls[d]
      /\ world'[o] = w /\ \A p \in Operation \ {o} : world'[p] = world[p]
  BY <1>1 DEF SpawnInv, Types
<1>3. Types'
  BY <1>1 DEF SpawnInv, Types
<1>4. SelectedFirst'
  BY <1>2, <1>3, SelectedKept DEF SpawnInv
<1>5. CallFits(m)'
  <2>1. m.at # "observed" /\ m.at \notin Closing
    BY DEF Applying, Recording, Closing
  <2>2. m.operation \in Operation /\ InHand(m, journal'[m.operation], world'[m.operation])
    BY <1>1, <1>2
  <2> QED BY <2>1, <2>2 DEF CallFits
<1>6. Traced(journal'[o], world'[o])
  BY <1>1, <1>2 DEF Traced
<1>7. m.at \notin Waiting
  BY DEF Applying, Recording, Waiting
<1> QED BY <1>1, <1>2, <1>3, <1>4, <1>5, <1>6, <1>7, LocalStep

\* A step of that request that leaves the world alone.
LEMMA MoveStep ==
    ASSUME SpawnInv, NEW c \in Caller, calls[c] # None, calls[c].at \in Applying,
           NEW o, o = calls[c].operation, UNCHANGED <<journal, world, stops, closes>>,
           NEW m \in SpawnCall, calls' = [calls EXCEPT ![c] = m],
           m.operation = o, m.at \in Applying, InHand(m, journal[o], world[o])
    PROVE  SpawnInv'
<1>1. o \in Operation /\ world[o] \in World /\ Evidenced(journal[o], world[o])
  BY HolderReads
<1>2. PICK w \in World : w = world[o]
  BY <1>1
<1>3. world' = [world EXCEPT ![o] = w]
  BY <1>1, <1>2 DEF SpawnInv, Types
<1>4. Evidenced(journal[o], w) /\ InHand(m, journal[o], w) /\ (world[o].bound # 0 => w.bound # 0)
  BY <1>1, <1>2
<1>5. UNCHANGED <<journal, stops, closes>>
  OBVIOUS
<1> QED BY <1>3, <1>4, <1>5, EffectStep

-----------------------------------------------------------------------------
(* What a request holds after it has moved on                              *)

\* A request that goes on, as one update of what it holds.
LEMMA GoesIs ==
    ASSUME Types, NEW c \in Caller, NEW at \in Applying, Goes(c, at), calls[c] \in SpawnCall
    PROVE  \E n \in SpawnCall : /\ calls' = [calls EXCEPT ![c] = n]
                                /\ n.at = at /\ n.operation = calls[c].operation
                                /\ n.receipt = calls[c].receipt /\ n.event = calls[c].event
<1>1. PICK m, n : m = calls[c] /\ n = [m EXCEPT !.at = at]
  OBVIOUS
<1>2. calls' = [calls EXCEPT ![c] = n]
  BY <1>1 DEF Goes
<1>3. /\ n \in SpawnCall /\ n.at = at /\ n.operation = m.operation
      /\ n.receipt = m.receipt /\ n.event = m.event
  BY <1>1 DEF SpawnCall
<1> QED BY ONLY <1>1, <1>2, <1>3

\* A request that will append an event, as one update of what it holds.
LEMMA RecordsIs ==
    ASSUME Types, NEW c \in Caller, NEW at \in Applying, NEW e \in JournalEvent,
           Records(c, at, e), calls[c] \in SpawnCall
    PROVE  \E n \in SpawnCall : /\ calls' = [calls EXCEPT ![c] = n]
                                /\ n.at = at /\ n.operation = calls[c].operation
                                /\ n.receipt = calls[c].receipt /\ n.event = e
<1>1. PICK m, n : m = calls[c] /\ n = [m EXCEPT !.at = at, !.event = e]
  OBVIOUS
<1>2. calls' = [calls EXCEPT ![c] = [calls[c] EXCEPT !.at = at, !.event = e]]
  BY Zenon DEF Records
<1>3. calls' = [calls EXCEPT ![c] = n]
  BY <1>1, <1>2
<1>4. /\ n \in SpawnCall /\ n.at = at /\ n.operation = m.operation
      /\ n.receipt = m.receipt /\ n.event = e
  BY <1>1 DEF SpawnCall
<1> QED BY ONLY <1>1, <1>3, <1>4

\* The events of the model.
LEMMA EventIs ==
    /\ \A kind \in {"StagePrepared", "StageCommitted", "CheckoutClaimed", "RetryAuthorized",
                    "Terminated", "Succeeded"} :
         /\ Event(kind) \in JournalEvent /\ Event(kind).kind = kind
         /\ Event(kind).accepted = FALSE /\ Event(kind).gate = "none"
    /\ \A written \in {"unknown", "no", "yes"} :
         /\ StageFailed(written) \in JournalEvent /\ StageFailed(written).kind = "StageFailed"
         /\ StageFailed(written).written = written
         /\ StageFailed(written).accepted = FALSE /\ StageFailed(written).gate = "none"
    /\ \A accepted \in BOOLEAN, gate \in {"none", "open", "carried"} :
         /\ Launched(accepted, gate) \in JournalEvent
         /\ Launched(accepted, gate).kind = "StageCommitted"
         /\ Launched(accepted, gate).accepted = accepted
         /\ Launched(accepted, gate).gate = gate
BY DEF Event, StageFailed, Launched, JournalEvent

-----------------------------------------------------------------------------
(* Preview, observe and authorize                                          *)

\* A preview that found no operation holds nothing.
LEMMA PreviewStep ==
    ASSUME SpawnInv, NEW c \in Caller, Preview(c)
    PROVE  SpawnInv'
<1>1. PICK m : m = Call("previewing", None, NoReceipt)
  OBVIOUS
<1>2. m \in SpawnCall /\ m.at = "previewing"
  BY <1>1 DEF Call, SpawnCall
<1>3. CallFits(m) /\ m.at \in Waiting
  BY <1>2 DEF CallFits, Waiting, Applying, Recording, Closing
<1> QED BY <1>1, <1>2, <1>3, QuietStep DEF Preview, Keeps

\* Of two previews that race, one appends its plan.
LEMMA AppendPlanStep ==
    ASSUME SpawnInv, NEW c \in Caller, NEW plan \in Plan, AppendPlan(c, plan)
    PROVE  SpawnInv'
<1>1. CASE ~KeyIsFree
  BY <1>1, ReturnStep DEF AppendPlan, Keeps
<1>2. CASE KeyIsFree
  <2>1. PICK o \in Operation : journal' = [journal EXCEPT ![o] = Planned(plan)]
    BY <1>2 DEF AppendPlan
  <2>2. \A p \in Operation : journal[p] \notin Receipt /\ journal[p] = NoReceipt
                             /\ world[p] = Untouched
    <3> SUFFICES ASSUME NEW p \in Operation
                 PROVE  journal[p] \notin Receipt /\ journal[p] = NoReceipt
                        /\ world[p] = Untouched
      OBVIOUS
    <3>1. ~(journal[p].sequence > 0)
      BY <1>2 DEF KeyIsFree, Exists
    <3>2. journal[p] \notin Receipt
      BY <3>1 DEF Receipt
    <3> QED BY <3>2 DEF SpawnInv, Journals, Traced
  <2>3. PICK r : r = Planned(plan)
    OBVIOUS
  <2>4. /\ r \in Receipt /\ r.completed = 0 /\ ~r.inFlight /\ r.failure = "none"
        /\ ~r.accepted /\ r.gate = "none" /\ r.plan = plan /\ r.sequence = 1
    BY <2>3 DEF Planned, Receipt
  <2>5. Traced(r, Untouched)
    BY <2>4 DEF Traced, WellFormed, Evidenced, Untouched, IsTyped
  <2>6. journal'[o] = r /\ \A p \in Operation \ {o} : journal'[p] = NoReceipt
    BY <2>1, <2>2, <2>3 DEF SpawnInv, Types
  <2>7. UNCHANGED <<world, stops, closes>>
    BY DEF AppendPlan, Keeps
  <2>8. calls' \in [Caller -> SpawnCall \cup DriveCall \cup {None}]
        /\ \A d \in Caller : calls'[d] # None => calls'[d] = calls[d]
    BY DEF AppendPlan, Return, SpawnInv, Types
  <2>9. Types'
    BY <2>1, <2>3, <2>4, <2>7, <2>8 DEF SpawnInv, Types
  <2>10. Journals'
    BY <2>2, <2>5, <2>6, <2>7 DEF Journals, Traced
  <2>11. Calls'
    <3> SUFFICES ASSUME NEW d \in Caller, calls'[d] # None PROVE CallFits(calls[d])'
      BY DEF Calls
    <3>1. PICK n : n = calls[d]
      OBVIOUS
    <3>2. n # None /\ CallFits(n)
      BY <2>8, <3>1 DEF SpawnInv, Calls
    <3>3. n.at # "observed" /\ n.at \notin Applying
      BY <2>2, <3>2 DEF CallFits, Seen, InHand
    <3>4. n \in SpawnCall \cup DriveCall
      BY <3>1, <3>2 DEF SpawnInv, Types
    <3>5. CallFits(n)'
      BY <2>7, <3>2, <3>3, <3>4, CallKept
    <3>6. calls'[d] = n
      BY <2>8, <3>1
    <3> QED BY <3>5, <3>6 DEF CallFits
  <2>12. Exclusive'
    BY <2>8 DEF SpawnInv, Exclusive, Holds
  <2>13. OneOperation'
    <3>1. \A p \in Operation : Exists(p)' => p = o
      BY <2>6 DEF Exists, NoReceipt
    <3> QED BY <3>1 DEF OneOperation
  <2>14. SelectedFirst'
    BY <2>7 DEF SpawnInv, SelectedFirst
  <2> QED BY <2>9, <2>10, <2>11, <2>12, <2>13, <2>14 DEF SpawnInv
<1> QED BY <1>1, <1>2

\* A client that reads the receipt has seen the journal as it is.
LEMMA ObserveStep ==
    ASSUME SpawnInv, NEW c \in Caller, NEW o \in Operation, Observe(c, o)
    PROVE  SpawnInv'
<1>1. PICK m : m = Call("observed", o, journal[o])
  OBVIOUS
<1>2. journal[o] \in Receipt
  BY DEF Observe, Exists, SpawnInv, Types, NoReceipt
<1>3. m \in SpawnCall /\ m.at = "observed" /\ m.operation = o /\ m.receipt = journal[o]
  BY <1>1, <1>2 DEF Call, SpawnCall
<1>4. journal[o].sequence \in Nat
  BY <1>2 DEF Receipt
<1>5. CallFits(m) /\ m.at \in Waiting
  BY <1>2, <1>3, <1>4 DEF CallFits, Waiting, Applying, Recording, Closing, Seen
<1> QED BY <1>1, <1>3, <1>5, QuietStep DEF Observe, Keeps

\* A request that is authorized under the lock has the receipt of the journal.
LEMMA AuthorizeStep ==
    ASSUME SpawnInv, NEW c \in Caller, Authorize(c)
    PROVE  SpawnInv'
<1>1. UNCHANGED <<journal, world, stops, closes>>
  BY DEF Authorize, Keeps
<1>2. CASE Return(c)
  BY <1>1, <1>2, ReturnStep
<1>3. CASE /\ journal[calls[c].operation].sequence = calls[c].receipt.sequence
           /\ Goes(c, "applying")
  <2>1. PICK old, o : old = calls[c] /\ o = old.operation
    OBVIOUS
  <2>2. old \in SpawnCall /\ old.at = "observed" /\ CallFits(old)
    BY <2>1 DEF Authorize, SpawnInv, Types, Calls, DriveCall, Closing
  <2>3. o \in Operation /\ Seen(old, journal[o])
    BY <2>1, <2>2 DEF CallFits
  <2>4. old.receipt = journal[o] /\ journal[o] \in Receipt
    BY <1>3, <2>1, <2>3 DEF Seen
  <2>5. "applying" \in Applying /\ "applying" \notin Recording
    BY DEF Applying, Recording
  <2>6. PICK m \in SpawnCall : /\ calls' = [calls EXCEPT ![c] = m]
                               /\ m.at = "applying" /\ m.operation = o
                               /\ m.receipt = old.receipt
    BY <1>3, <2>1, <2>2, <2>5, GoesIs DEF SpawnInv
  <2>7. CallFits(m)'
    <3>1. InHand(m, journal[o], world[o])
      BY <2>4, <2>5, <2>6 DEF InHand
    <3> QED BY <1>1, <2>3, <2>6, <3>1 DEF CallFits, Closing
  <2>8. Alone(c, o)
    BY <2>1, <2>3, FreeAlone DEF Authorize
  <2>9. calls'[c] = m /\ \A d \in Caller \ {c} : calls'[d] = calls[d]
    BY <2>6 DEF SpawnInv, Types
  <2>10. Types' /\ SelectedFirst'
    BY <1>1, <2>6 DEF SpawnInv, Types, SelectedFirst
  <2>11. Traced(journal'[o], world'[o])
    BY <1>1, <2>3 DEF SpawnInv, Journals
  <2> QED BY <1>1, <2>3, <2>6, <2>7, <2>8, <2>9, <2>10, <2>11, LocalStep DEF Waiting
<1> QED BY <1>2, <1>3 DEF Authorize

-----------------------------------------------------------------------------
(* The journal's fold                                                      *)

\* Which stage is in flight or comes next.
LEMMA StageIs ==
    ASSUME NEW r \in Receipt, r.plan \in Plans
    PROVE  /\ Finished(r) <=> r.completed = IF r.plan.prompt THEN 3 ELSE 2
           /\ r.completed = 0 => Stage(r) = "Worktree"
           /\ r.completed = 1 =>
                Stage(r) = IF r.plan.native THEN "RuntimeLaunch" ELSE "StructuredLaunch"
           /\ r.completed = 2 /\ r.plan.prompt =>
                Stage(r) = IF r.plan.native THEN "PromptDelivery"
                           ELSE "StructuredPromptDelivery"
<1>1. r.completed \in 0 .. 3
  BY DEF Receipt
<1>2. CASE r.plan.prompt
  <2>1. /\ Len(Stages(r.plan)) = 3 /\ Stages(r.plan)[1] = "Worktree"
        /\ Stages(r.plan)[2] = IF r.plan.native THEN "RuntimeLaunch" ELSE "StructuredLaunch"
        /\ Stages(r.plan)[3] = IF r.plan.native THEN "PromptDelivery"
                               ELSE "StructuredPromptDelivery"
    BY <1>2 DEF Stages
  <2> QED BY <1>1, <1>2, <2>1 DEF Finished, Stage
<1>3. CASE ~r.plan.prompt
  <2>1. /\ Len(Stages(r.plan)) = 2 /\ Stages(r.plan)[1] = "Worktree"
        /\ Stages(r.plan)[2] = IF r.plan.native THEN "RuntimeLaunch" ELSE "StructuredLaunch"
    BY <1>3 DEF Stages
  <2> QED BY <1>1, <1>3, <2>1 DEF Finished, Stage
<1> QED BY <1>2, <1>3

\* Every event is the next of its sequence and leaves the plan alone.
LEMMA FoldIs ==
    ASSUME NEW r \in Receipt, NEW e \in JournalEvent, Admits(r, e), WellFormed(r),
           NEW s, s = Folded(r, e)
    PROVE  /\ s \in Receipt /\ s.sequence = r.sequence + 1 /\ s.plan = r.plan
           /\ e.kind = "StagePrepared" =>
                /\ s.inFlight /\ s.completed = r.completed /\ s.failure = r.failure
                /\ s.accepted = r.accepted /\ s.gate = r.gate
           /\ e.kind = "StageCommitted" =>
                /\ ~s.inFlight /\ s.completed = r.completed + 1 /\ s.failure = r.failure
                /\ s.accepted <=> r.accepted \/ e.accepted
                /\ s.gate = IF e.gate = "none" THEN r.gate ELSE e.gate
           /\ e.kind = "StageFailed" =>
                /\ ~s.inFlight /\ s.completed = r.completed
                /\ s.failure = IF PromptWriteIsUncertain(Stage(r), e.written)
                               THEN "uncertain" ELSE "certain"
                /\ s.accepted = r.accepted /\ s.gate = r.gate
           /\ e.kind = "RetryAuthorized" =>
                /\ s.inFlight = r.inFlight /\ s.completed = r.completed /\ s.failure = "none"
                /\ s.accepted = r.accepted /\ s.gate = r.gate
           /\ e.kind \in {"CheckoutClaimed", "Terminated", "Succeeded"} =>
                /\ s.inFlight = r.inFlight /\ s.completed = r.completed
                /\ s.failure = r.failure
                /\ s.accepted = r.accepted /\ s.gate = r.gate
<1> DEFINE t == [r EXCEPT !.sequence = @ + 1]
<1>1. /\ t \in Receipt /\ t.sequence = r.sequence + 1 /\ t.plan = r.plan
      /\ (t.inFlight <=> r.inFlight) /\ t.completed = r.completed /\ t.failure = r.failure
      /\ (t.accepted <=> r.accepted) /\ t.gate = r.gate
  BY DEF Receipt
<1> HIDE DEF t
<1>2. CASE e.kind = "StagePrepared"
  <2>1. s = [t EXCEPT !.inFlight = TRUE]
    BY <1>2 DEF Folded, t
  <2> QED BY <1>1, <1>2, <2>1 DEF Receipt
<1>3. CASE e.kind = "StageCommitted"
  <2>1. s = [t EXCEPT !.inFlight = FALSE, !.completed = @ + 1, !.accepted = @ \/ e.accepted,
                      !.gate = IF e.gate = "none" THEN @ ELSE e.gate]
    BY <1>3 DEF Folded, t
  <2>2. PICK n, a, g : /\ n = t.completed + 1 /\ a = (t.accepted \/ e.accepted)
                       /\ g = IF e.gate = "none" THEN t.gate ELSE e.gate
    OBVIOUS
  <2>3. s = [t EXCEPT !.inFlight = FALSE, !.completed = n, !.accepted = a, !.gate = g]
    BY <2>1, <2>2
  <2>4. n \in 0 .. 3
    BY <1>1, <1>3, <2>2 DEF Admits, WellFormed, Receipt
  <2>5. a \in BOOLEAN /\ g \in {"none", "open", "carried"}
    BY <1>1, <2>2 DEF Receipt, JournalEvent
  <2>6. s \in Receipt /\ s.sequence = t.sequence /\ s.plan = t.plan
    BY <1>1, <2>3, <2>4, <2>5 DEF Receipt
  <2>7. /\ ~s.inFlight /\ s.completed = n /\ s.failure = t.failure /\ s.gate = g
        /\ (s.accepted <=> a)
    BY <1>1, <2>3, <2>4, <2>5 DEF Receipt
  <2> QED BY <1>1, <1>3, <2>2, <2>6, <2>7
<1>4. CASE e.kind = "StageFailed"
  <2>1. PICK f \in {"uncertain", "certain"} :
          f = IF PromptWriteIsUncertain(Stage(r), e.written) THEN "uncertain" ELSE "certain"
    OBVIOUS
  <2>2. s = [t EXCEPT !.inFlight = FALSE, !.failure = f]
    BY <1>4, <2>1 DEF Folded, t
  <2> QED BY <1>1, <1>4, <2>1, <2>2 DEF Receipt
<1>5. CASE e.kind = "RetryAuthorized"
  <2>1. s = [t EXCEPT !.failure = "none"]
    BY <1>5 DEF Folded, t
  <2> QED BY <1>1, <1>5, <2>1 DEF Receipt
<1>6. CASE e.kind = "CheckoutClaimed"
  <2>1. s = [t EXCEPT !.claimed = TRUE]
    BY <1>6 DEF Folded, t
  <2> QED BY <1>1, <1>6, <2>1 DEF Receipt
<1>7. CASE e.kind = "Terminated"
  <2>1. s = [t EXCEPT !.outcome = "ManualInterventionRequired"]
    BY <1>7 DEF Folded, t
  <2> QED BY <1>1, <1>7, <2>1 DEF Receipt
<1>8. CASE e.kind = "Succeeded"
  <2>1. s = [t EXCEPT !.outcome = "Succeeded"]
    BY <1>8 DEF Folded, t
  <2> QED BY <1>1, <1>8, <2>1 DEF Receipt
<1> QED BY <1>2, <1>3, <1>4, <1>5, <1>6, <1>7, <1>8 DEF JournalEvent

\* An event that is true of the world leaves a journal that is.
LEMMA FoldFits ==
    ASSUME NEW m, m.at \in Recording, NEW r \in Receipt, NEW w \in World, InHand(m, r, w),
           WellFormed(r), Evidenced(r, w), r.plan \in Plans,
           r.plan.carries => r.plan.native /\ r.plan.prompt,
           Admits(r, m.event), NEW s, s = Folded(r, m.event)
    PROVE  /\ s \in Receipt /\ s.sequence = r.sequence + 1 /\ s.plan = r.plan
           /\ WellFormed(s) /\ Evidenced(s, w)
           /\ m.at = "preparing" =>
                s.inFlight /\ (s.completed = 2 /\ IsTyped(s.plan) => w.handed = 0)
           /\ m.at = "claiming" => s.inFlight /\ s.completed = 0 /\ w.workspace # "none"
<1> DEFINE e == m.event
<1>1. e \in JournalEvent /\ (e.accepted => r.plan.carries) /\ (e.gate = "open" => ~r.plan.carries)
  BY DEF InHand
<1>2. r.completed \in 0 .. 3 /\ w.handed \in Nat /\ s = Folded(r, e) /\ Admits(r, e)
  BY DEF Receipt, World
<1>3. /\ Finished(r) <=> r.completed = IF r.plan.prompt THEN 3 ELSE 2
      /\ r.completed = 2 /\ r.plan.prompt =>
           Stage(r) = IF r.plan.native THEN "PromptDelivery" ELSE "StructuredPromptDelivery"
  BY StageIs
<1>4. /\ m.at = "preparing" <=> e.kind = "StagePrepared"
      /\ m.at = "claiming" <=> e.kind = "CheckoutClaimed"
      /\ m.at = "claiming" => r.inFlight /\ r.completed = 0 /\ w.workspace # "none"
      /\ e.kind \in {"StageCommitted", "StageFailed", "Terminated"} => m.at = "committing"
      /\ e.kind = "StageCommitted" => StageDone(r, w, e)
      /\ e.kind = "StageFailed" /\ e.written = "no" /\ r.completed = 2 /\ r.plan.native =>
           w.handed = 0
  BY DEF InHand, Recording
<1> HIDE DEF e
<1>5. s \in Receipt /\ s.sequence = r.sequence + 1 /\ s.plan = r.plan
  BY <1>1, <1>2, FoldIs
<1>6. CASE e.kind = "StagePrepared"
  <2>1. /\ s.inFlight /\ s.completed = r.completed /\ s.failure = r.failure
        /\ s.accepted = r.accepted /\ s.gate = r.gate
    BY <1>1, <1>2, <1>6, FoldIs
  <2>2. ~r.inFlight /\ r.failure = "none" /\ ~Finished(r)
    BY <1>2, <1>6 DEF Admits
  <2>3. WellFormed(s)
    BY <1>2, <1>3, <1>5, <2>1, <2>2 DEF WellFormed
  <2>4. s.completed = 2 /\ IsTyped(s.plan) => w.handed = 0
    BY <1>2, <1>5, <2>1, <2>2 DEF Evidenced
  <2>5. Evidenced(s, w)
    BY <1>5, <2>1, <2>2 DEF Evidenced
  <2> QED BY <1>4, <1>5, <1>6, <2>1, <2>3, <2>4, <2>5
<1>7. CASE e.kind = "StageCommitted"
  <2>1. /\ ~s.inFlight /\ s.completed = r.completed + 1 /\ s.failure = r.failure
        /\ s.accepted <=> r.accepted \/ e.accepted
        /\ s.gate = IF e.gate = "none" THEN r.gate ELSE e.gate
    BY <1>1, <1>2, <1>7, FoldIs
  <2>2. r.inFlight
    BY <1>2, <1>7 DEF Admits
  <2>3. r.completed < IF r.plan.prompt THEN 3 ELSE 2
    BY <2>2 DEF WellFormed
  <2>4. StageDone(r, w, e)
    BY <1>4, <1>7
  <2>5. r.plan.carries /\ s.completed >= 2 => s.accepted \/ s.gate = "carried"
    <3>1. CASE r.completed = 1
      BY <2>1, <2>4, <3>1 DEF StageDone, LaunchSeen
    <3>2. CASE r.completed # 1
      <4>1. s.completed >= 2 => r.completed >= 2
        BY <1>2, <2>1, <3>2
      <4>2. e.gate \in {"none", "open", "carried"}
        BY <1>1 DEF JournalEvent
      <4> QED BY <1>1, <2>1, <4>1, <4>2 DEF WellFormed
    <3> QED BY <3>1, <3>2
  <2>6. /\ s.completed <= IF r.plan.prompt THEN 3 ELSE 2
        /\ s.accepted => r.plan.carries
        /\ s.gate = "open" => ~r.plan.carries
        /\ s.failure = "none"
    BY <1>1, <1>2, <2>1, <2>2, <2>3 DEF WellFormed
  <2>7. WellFormed(s)
    BY ONLY <1>5, <2>1, <2>5, <2>6 DEF WellFormed
  <2>8. Evidenced(s, w)
    <3>1. CASE r.completed = 0
      BY <1>5, <2>1, <2>4, <3>1 DEF Evidenced, StageDone
    <3>2. CASE r.completed = 1
      BY <1>5, <2>1, <2>4, <3>2 DEF Evidenced, StageDone
    <3>3. CASE r.completed = 2
      BY <1>5, <2>1, <2>4, <3>3 DEF Evidenced, StageDone
    <3> QED BY <1>2, <2>3, <3>1, <3>2, <3>3
  <2> QED BY <1>4, <1>5, <1>7, <2>7, <2>8
<1>8. CASE e.kind = "StageFailed"
  <2>1. /\ ~s.inFlight /\ s.completed = r.completed
        /\ s.failure = IF PromptWriteIsUncertain(Stage(r), e.written)
                       THEN "uncertain" ELSE "certain"
        /\ s.accepted = r.accepted /\ s.gate = r.gate
    BY <1>1, <1>2, <1>8, FoldIs
  <2>2. r.inFlight
    BY <1>2, <1>8 DEF Admits
  <2>3. r.plan.carries /\ r.completed = 2 => s.failure # "certain"
    <3> SUFFICES ASSUME r.plan.carries, r.completed = 2 PROVE s.failure = "uncertain"
      OBVIOUS
    <3>1. w.handed # 0
      BY DEF Evidenced
    <3>2. Stage(r) = "PromptDelivery" /\ e.written # "no"
      BY <1>3, <1>4, <1>8, <3>1
    <3> QED BY <2>1, <3>2 DEF PromptWriteIsUncertain
  <2>4. WellFormed(s)
    BY <1>2, <1>5, <2>1, <2>2, <2>3 DEF WellFormed
  <2>5. IsTyped(s.plan) /\ w.handed # 0 =>
          s.completed = 3 \/ (s.completed = 2 /\ s.failure = "uncertain")
    <3> SUFFICES ASSUME IsTyped(r.plan), w.handed # 0, r.completed # 3
                 PROVE  s.completed = 2 /\ s.failure = "uncertain"
      BY <1>5, <2>1
    <3>1. r.completed = 2
      BY DEF Evidenced
    <3>2. Stage(r) = "PromptDelivery" /\ e.written # "no"
      BY <1>3, <1>4, <1>8, <3>1 DEF IsTyped
    <3> QED BY <2>1, <3>1, <3>2 DEF PromptWriteIsUncertain
  <2>6. Evidenced(s, w)
    BY <1>5, <2>1, <2>5 DEF Evidenced
  <2> QED BY <1>4, <1>5, <1>8, <2>4, <2>6
<1>9. CASE e.kind = "RetryAuthorized"
  <2>1. /\ s.inFlight = r.inFlight /\ s.completed = r.completed /\ s.failure = "none"
        /\ s.accepted = r.accepted /\ s.gate = r.gate
    BY <1>1, <1>2, <1>9, FoldIs
  <2>2. r.failure = "certain"
    BY <1>2, <1>9 DEF Admits
  <2>3. WellFormed(s)
    BY <1>2, <1>5, <2>1, <2>2 DEF WellFormed
  <2>4. Evidenced(s, w)
    BY <1>5, <2>1, <2>2 DEF Evidenced
  <2> QED BY <1>4, <1>5, <1>9, <2>3, <2>4
<1>10. CASE e.kind \in {"CheckoutClaimed", "Terminated", "Succeeded"}
  <2>1. /\ s.inFlight = r.inFlight /\ s.completed = r.completed
        /\ s.failure = r.failure
        /\ s.accepted = r.accepted /\ s.gate = r.gate
    BY <1>1, <1>2, <1>10, FoldIs
  <2>2. WellFormed(s)
    BY <1>2, <1>5, <2>1 DEF WellFormed
  <2>3. Evidenced(s, w)
    BY <1>5, <2>1 DEF Evidenced
  <2> QED BY <1>4, <1>5, <1>10, <2>1, <2>2, <2>3
<1> QED BY <1>1, <1>6, <1>7, <1>8, <1>9, <1>10 DEF JournalEvent

-----------------------------------------------------------------------------
(* Following the directive, and appending                                  *)

\* The directive sends a caller to a stage that may be run.
LEMMA FollowDirectiveStep ==
    ASSUME SpawnInv, NEW c \in Caller, FollowDirective(c)
    PROVE  SpawnInv'
<1>1. PICK m, o, r, w : m = calls[c] /\ o = m.operation /\ r = journal[o] /\ w = world[o]
  OBVIOUS
<1>2. m # None /\ m.at = "applying" /\ m.at \in Applying
  BY <1>1 DEF FollowDirective, Applying
<1>3. /\ m \in SpawnCall /\ o \in Operation /\ r \in Receipt /\ w \in World
      /\ r.plan \in Plans /\ WellFormed(r) /\ Evidenced(r, w) /\ InHand(m, r, w)
      /\ r = m.receipt
  BY <1>1, <1>2, HolderReads DEF InHand
<1>4. UNCHANGED <<journal, world, stops, closes>>
  BY DEF FollowDirective, Keeps
<1>5. calls[c] # None /\ calls[c].at \in Applying
  BY <1>1, <1>2
<1>6. Directs(c) /\ r = calls[c].receipt
  BY <1>1, <1>3 DEF FollowDirective
<1>7. CASE Recovery(r) \in {"None", "DoNotReplayPrompt"}
  BY <1>4, <1>6, <1>7, ReturnStep DEF Directs
<1>8. CASE Recovery(r) \in {"Finish", "RetryRequired"}
  <2>1. PICK e : /\ e \in JournalEvent /\ e.kind \in {"Succeeded", "RetryAuthorized"}
                 /\ e.accepted = FALSE /\ e.gate = "none" /\ Records(c, "looping", e)
    BY <1>6, <1>8, EventIs DEF Directs
  <2>2. "looping" \in Applying
    BY DEF Applying, Recording
  <2>3. PICK n \in SpawnCall : /\ calls' = [calls EXCEPT ![c] = n]
                               /\ n.at = "looping" /\ n.operation = o
                               /\ n.receipt = r /\ n.event = e
    BY <1>1, <1>3, <2>1, <2>2, RecordsIs DEF SpawnInv
  <2>4. InHand(n, r, w)
    BY <1>3, <2>1, <2>3 DEF InHand
  <2>5. /\ n.operation = calls[c].operation /\ n.at \in Applying
        /\ InHand(n, journal[o], world[o])
    BY <1>1, <2>2, <2>3, <2>4
  <2> QED BY <1>1, <1>4, <1>5, <2>3, <2>5, MoveStep
<1>9. CASE Recovery(r) = "Continue"
  <2>1. PICK e : /\ e \in JournalEvent /\ e.kind = "StagePrepared"
                 /\ e.accepted = FALSE /\ e.gate = "none" /\ Records(c, "preparing", e)
    BY <1>6, <1>9, EventIs DEF Directs
  <2>2. "preparing" \in Applying
    BY DEF Applying, Recording
  <2>3. PICK n \in SpawnCall : /\ calls' = [calls EXCEPT ![c] = n]
                               /\ n.at = "preparing" /\ n.operation = o
                               /\ n.receipt = r /\ n.event = e
    BY <1>1, <1>3, <2>1, <2>2, RecordsIs DEF SpawnInv
  <2>4. InHand(n, r, w)
    BY <1>3, <2>1, <2>3 DEF InHand
  <2>5. /\ n.operation = calls[c].operation /\ n.at \in Applying
        /\ InHand(n, journal[o], world[o])
    BY <1>1, <2>2, <2>3, <2>4
  <2> QED BY <1>1, <1>4, <1>5, <2>3, <2>5, MoveStep
<1>10. CASE Recovery(r) = "InspectBeforeRetry"
  <2>1. Goes(c, "executing")
    BY <1>6, <1>10 DEF Directs
  <2>2. "executing" \in Applying /\ "executing" \notin Recording
    BY DEF Applying, Recording
  <2>3. PICK n \in SpawnCall : /\ calls' = [calls EXCEPT ![c] = n]
                               /\ n.at = "executing" /\ n.operation = o /\ n.receipt = r
    BY <1>1, <1>3, <2>1, <2>2, GoesIs DEF SpawnInv
  <2>4. r.inFlight /\ Stage(r) # "PromptDelivery"
    BY <1>10 DEF Recovery
  <2>5. ~(r.completed = 2 /\ IsTyped(r.plan))
    BY <1>3, <2>4, StageIs DEF IsTyped
  <2>6. InHand(n, r, w)
    BY <1>3, <2>2, <2>3, <2>4, <2>5 DEF InHand
  <2>7. /\ n.operation = calls[c].operation /\ n.at \in Applying
        /\ InHand(n, journal[o], world[o])
    BY <1>1, <2>2, <2>3, <2>6
  <2> QED BY <1>1, <1>4, <1>5, <2>3, <2>7, MoveStep
<1> QED BY <1>7, <1>8, <1>9, <1>10 DEF Recovery

\* The event is in the journal, and the caller goes on with the receipt it made.
LEMMA AppendEventStep ==
    ASSUME SpawnInv, NEW c \in Caller, AppendEvent(c)
    PROVE  SpawnInv'
<1>1. PICK m, o, r, w : m = calls[c] /\ o = m.operation /\ r = journal[o] /\ w = world[o]
  OBVIOUS
<1>2. m # None /\ m.at \in Recording /\ m.at \in Applying
  BY <1>1 DEF AppendEvent, Recording, Applying
<1>3. /\ m \in SpawnCall /\ o \in Operation /\ r \in Receipt /\ w \in World /\ Alone(c, o)
      /\ r.plan \in Plans /\ (r.plan.carries => r.plan.native /\ r.plan.prompt)
      /\ WellFormed(r) /\ Evidenced(r, w) /\ InHand(m, r, w) /\ r = m.receipt
  BY <1>1, <1>2, HolderReads DEF InHand
<1>4. UNCHANGED <<world, stops, closes>>
  BY DEF AppendEvent, Keeps
<1>5. CASE Return(c) /\ UNCHANGED journal
  BY <1>4, <1>5, ReturnStep
<1>6. CASE /\ Appendable(o, m.receipt) /\ Admits(r, m.event)
           /\ journal' = [journal EXCEPT ![o] = Folded(@, m.event)]
           /\ calls' = [calls EXCEPT ![c] = After(c, Folded(journal[o], m.event))]
  <2>1. PICK s : s = Folded(r, m.event)
    OBVIOUS
  <2>2. /\ s \in Receipt /\ s.sequence = r.sequence + 1 /\ s.plan = r.plan
        /\ WellFormed(s) /\ Evidenced(s, w)
        /\ m.at = "preparing" =>
             s.inFlight /\ (s.completed = 2 /\ IsTyped(s.plan) => w.handed = 0)
        /\ m.at = "claiming" => s.inFlight /\ s.completed = 0 /\ w.workspace # "none"
    BY <1>2, <1>3, <1>6, <2>1, FoldFits
  <2>3. /\ journal' \in [Operation -> Receipt \cup {NoReceipt}] /\ journal'[o] = s
        /\ \A p \in Operation \ {o} : journal'[p] = journal[p]
    BY <1>1, <1>3, <1>6, <2>1, <2>2 DEF SpawnInv, Types
  <2>4. PICK n : n = After(c, s)
    OBVIOUS
  <2>5. n \in SpawnCall \cup {None}
        /\ (n # None => n.operation = o /\ n.at \in Applying /\ InHand(n, s, w))
    <3>1. CASE m.at = "looping"
      <4>1. n = [m EXCEPT !.at = "applying", !.receipt = s]
        BY <1>1, <2>4, <3>1 DEF After
      <4>2. /\ n \in SpawnCall /\ n.at = "applying" /\ n.receipt = s /\ n.operation = o
        BY <1>1, <1>3, <2>2, <4>1 DEF SpawnCall, Applying
      <4> QED BY <2>2, <4>2 DEF InHand, Applying, Recording
    <3>2. CASE m.at = "preparing"
      <4>1. n = [m EXCEPT !.at = "executing", !.receipt = s]
        BY <1>1, <2>4, <3>2 DEF After
      <4>2. /\ n \in SpawnCall /\ n.at = "executing" /\ n.receipt = s /\ n.operation = o
        BY <1>1, <1>3, <2>2, <4>1 DEF SpawnCall, Applying
      <4> QED BY <2>2, <3>2, <4>2 DEF InHand, Applying, Recording
    <3>3. CASE m.at = "claiming"
      <4>1. PICK e \in JournalEvent : /\ e = Event("StageCommitted")
                                      /\ e.kind = "StageCommitted"
                                      /\ e.accepted = FALSE /\ e.gate = "none"
        BY EventIs
      <4>2. n = [m EXCEPT !.at = "committing", !.receipt = s, !.event = e]
        BY <1>1, <2>4, <3>3, <4>1 DEF After
      <4>3. /\ n \in SpawnCall /\ n.at = "committing" /\ n.receipt = s /\ n.operation = o
            /\ n.event = e
        BY <1>1, <1>3, <2>2, <4>1, <4>2 DEF SpawnCall, Applying, Recording
      <4>4. StageDone(s, w, e)
        BY <2>2, <3>3 DEF StageDone
      <4> QED BY <2>2, <3>3, <4>1, <4>3, <4>4 DEF InHand, Applying, Recording
    <3>4. CASE m.at = "committing"
      <4>1. CASE RequiresClientAction(s)
        BY <1>1, <2>4, <3>4, <4>1 DEF After
      <4>2. CASE ~RequiresClientAction(s)
        <5>1. n = [m EXCEPT !.at = "applying", !.receipt = s]
          BY <1>1, <2>4, <3>4, <4>2 DEF After
        <5>2. /\ n \in SpawnCall /\ n.at = "applying" /\ n.receipt = s /\ n.operation = o
          BY <1>1, <1>3, <2>2, <5>1 DEF SpawnCall, Applying
        <5> QED BY <2>2, <5>2 DEF InHand, Applying, Recording
      <4> QED BY <4>1, <4>2
    <3> QED BY <1>2, <3>1, <3>2, <3>3, <3>4 DEF Recording
  <2>6. /\ calls' \in [Caller -> SpawnCall \cup DriveCall \cup {None}] /\ calls'[c] = n
        /\ \A d \in Caller \ {c} : calls'[d] = calls[d]
    BY <1>1, <1>6, <2>1, <2>4, <2>5 DEF SpawnInv, Types
  <2>7. Types' /\ SelectedFirst'
    BY <1>4, <2>3, <2>6 DEF SpawnInv, Types, SelectedFirst
  <2>8. n # None => n.operation = o /\ n.at \notin Waiting /\ CallFits(n)'
    <3> SUFFICES ASSUME n # None PROVE n.operation = o /\ n.at \notin Waiting /\ CallFits(n)'
      OBVIOUS
    <3>1. n.at \notin Waiting /\ n.at # "observed" /\ n.at \notin Closing
      BY <2>5 DEF Applying, Recording, Closing, Waiting
    <3>2. n.operation = o /\ InHand(n, journal'[n.operation], world'[n.operation])
      BY <1>1, <1>4, <2>3, <2>5
    <3> QED BY <1>3, <3>1, <3>2 DEF CallFits
  <2>9. Traced(journal'[o], world'[o])
    BY <1>1, <1>4, <2>2, <2>3 DEF Traced
  <2>10. r.sequence < s.sequence
    BY <1>3, <2>2 DEF Receipt
  <2>11. /\ \A p \in Operation, k \in Closes : closes[p][k] # "none" => closes'[p][k] # "none"
         /\ \A a \in Attempt : stops[a] # None => stops'[a] # None
    BY <1>4
  <2>12. /\ \A p \in Operation \ {o} : journal'[p] = journal[p] /\ world'[p] = world[p]
         /\ journal[o] \in Receipt /\ journal'[o] \in Receipt
         /\ journal[o].sequence < journal'[o].sequence
    BY <1>1, <1>3, <1>4, <2>2, <2>3, <2>10
  <2> QED BY <1>3, <2>6, <2>7, <2>8, <2>9, <2>11, <2>12, LocalStep
<1> QED BY <1>1, <1>5, <1>6 DEF AppendEvent

-----------------------------------------------------------------------------
(* The effects                                                             *)

\* A step that records an event whose effect on the world, if any, it has made.
LEMMA RecordStep ==
    ASSUME SpawnInv, NEW c \in Caller, calls[c] # None, calls[c].at \in Applying,
           NEW o, o = calls[c].operation, NEW r, r = journal[o],
           UNCHANGED <<journal, stops, closes>>,
           NEW w \in World, world' = [world EXCEPT ![o] = w],
           world[o].bound # 0 => w.bound # 0, Evidenced(r, w),
           NEW at \in {"claiming", "launched", "committing"}, NEW e \in JournalEvent,
           Records(c, at, e), r.inFlight,
           e.accepted => r.plan.carries, e.gate = "open" => ~r.plan.carries,
           at = "claiming" =>
             e.kind = "CheckoutClaimed" /\ r.completed = 0 /\ w.workspace # "none",
           at = "launched" =>
             /\ e.kind = "StageCommitted" /\ r.completed = 1 /\ w.session # "none"
             /\ LaunchSeen(r.plan, e),
           at = "committing" =>
             /\ e.kind \in {"StageCommitted", "StageFailed", "Terminated"}
             /\ e.kind = "StageCommitted" => StageDone(r, w, e)
             /\ e.kind = "StageFailed" /\ e.written = "no" /\ r.completed = 2 /\ r.plan.native =>
                  w.handed = 0
    PROVE  SpawnInv'
<1>1. calls[c] \in SpawnCall /\ InHand(calls[c], r, world[o]) /\ r \in Receipt
      /\ calls[c].receipt = r
  BY HolderReads DEF InHand
<1>2. at \in Applying
  BY DEF Applying, Recording
<1>3. PICK n \in SpawnCall : /\ calls' = [calls EXCEPT ![c] = n]
                             /\ n.at = at /\ n.operation = o
                             /\ n.receipt = r /\ n.event = e
  BY <1>1, <1>2, RecordsIs DEF SpawnInv
<1>4. InHand(n, r, w)
  BY <1>1, <1>3 DEF InHand
<1>5. n.at \in Applying
  BY <1>2, <1>3
<1>6. Evidenced(journal[o], w) /\ InHand(n, journal[o], w)
  BY <1>4
<1>7. n \in SpawnCall /\ n.operation = o /\ calls' = [calls EXCEPT ![c] = n]
  BY <1>3
<1> QED BY ONLY SpawnInv, c \in Caller, calls[c] # None, calls[c].at \in Applying,
           o = calls[c].operation, UNCHANGED <<journal, stops, closes>>, w \in World,
           world' = [world EXCEPT ![o] = w], world[o].bound # 0 => w.bound # 0,
           <1>5, <1>6, <1>7, EffectStep

\* What a caller that runs a stage knows.
LEMMA ExecutorReads ==
    ASSUME SpawnInv, NEW c \in Caller, NEW stage, Executes(c, stage),
           NEW m, m = calls[c], NEW o, o = m.operation, NEW r, r = journal[o]
    PROVE  /\ m # None /\ m.at \in Applying /\ m.at = "executing" /\ o \in Operation
           /\ r \in Receipt /\ world[o] \in World /\ m.receipt = r
           /\ WellFormed(r) /\ Evidenced(r, world[o]) /\ InHand(m, r, world[o]) /\ r.inFlight
           /\ r.plan \in Plans /\ (r.plan.carries => r.plan.native /\ r.plan.prompt)
           /\ stage = "Worktree" => r.completed = 0
           /\ stage = "RuntimeLaunch" => r.completed = 1 /\ r.plan.native
           /\ stage = "StructuredLaunch" => r.completed = 1 /\ ~r.plan.native
           /\ stage = "PromptDelivery" => r.completed = 2 /\ r.plan.native /\ r.plan.prompt
           /\ stage = "StructuredPromptDelivery" =>
                r.completed = 2 /\ ~r.plan.native /\ r.plan.prompt
<1>1. m # None /\ m.at \in Applying /\ m.at = "executing" /\ Stage(m.receipt) = stage
  BY DEF Executes, Applying
<1>2. /\ o \in Operation /\ r \in Receipt /\ world[o] \in World
      /\ r.plan \in Plans /\ (r.plan.carries => r.plan.native /\ r.plan.prompt)
      /\ WellFormed(r) /\ Evidenced(r, world[o]) /\ InHand(m, r, world[o])
  BY <1>1, HolderReads
<1>3. m.receipt = r /\ r.inFlight
  BY <1>1, <1>2 DEF InHand
<1>4. r.completed < (IF r.plan.prompt THEN 3 ELSE 2) /\ r.completed \in 0 .. 3
  BY <1>2, <1>3 DEF WellFormed, Receipt
<1>5. CASE r.completed = 0
  BY <1>1, <1>2, <1>3, <1>5, StageIs
<1>6. CASE r.completed = 1
  BY <1>1, <1>2, <1>3, <1>6, StageIs
<1>7. CASE r.completed = 2 /\ r.plan.prompt
  BY <1>1, <1>2, <1>3, <1>7, StageIs
<1> QED BY <1>1, <1>2, <1>3, <1>4, <1>5, <1>6, <1>7

\* A step that commits the stage, or records that it failed or cannot go on.
LEMMA CommitStep ==
    ASSUME SpawnInv, NEW c \in Caller, calls[c] # None, calls[c].at \in Applying,
           NEW o, o = calls[c].operation, NEW r, r = journal[o],
           UNCHANGED <<journal, stops, closes>>,
           NEW w \in World, world' = [world EXCEPT ![o] = w],
           world[o].bound # 0 => w.bound # 0, Evidenced(r, w),
           NEW e \in JournalEvent, Records(c, "committing", e), r.inFlight,
           e.accepted = FALSE, e.gate = "none",
           e.kind \in {"StageCommitted", "StageFailed", "Terminated"},
           e.kind = "StageCommitted" => StageDone(r, w, e),
           e.kind = "StageFailed" /\ e.written = "no" /\ r.completed = 2 /\ r.plan.native =>
             w.handed = 0
    PROVE  SpawnInv'
<1>1. PICK at \in {"claiming", "launched", "committing"} : at = "committing"
  OBVIOUS
<1>2. /\ Records(c, at, e) /\ at # "claiming" /\ at # "launched"
      /\ e.accepted => r.plan.carries /\ (e.gate = "open" => ~r.plan.carries)
  BY <1>1
<1> QED BY <1>2, RecordStep

\* A workspace that is there is what the claim and the commit say.
LEMMA AcquireWorktreeStep ==
    ASSUME SpawnInv, NEW c \in Caller, AcquireWorktree(c)
    PROVE  SpawnInv'
<1>1. PICK m, o, r, old : m = calls[c] /\ o = m.operation /\ r = journal[o] /\ old = world[o]
  OBVIOUS
<1>2. /\ m # None /\ m.at \in Applying /\ o \in Operation /\ r \in Receipt /\ old \in World
      /\ Evidenced(r, old) /\ r.inFlight /\ r.completed = 0
  BY <1>1, ExecutorReads DEF AcquireWorktree
<1>3. UNCHANGED <<journal, stops, closes>>
  BY DEF AcquireWorktree, Answered, Keeps, Failed
<1>4. PICK kept : kept = [old EXCEPT !.workspace = "kept"]
  OBVIOUS
<1>5. /\ kept \in World /\ kept.workspace = "kept" /\ kept.session = old.session
      /\ kept.started = old.started /\ kept.bound = old.bound /\ kept.closing = old.closing
      /\ kept.handed = old.handed
  BY <1>2, <1>4 DEF World
<1>6. Evidenced(r, kept)
  BY <1>2, <1>5 DEF Evidenced
<1>7. CASE /\ world' = [world EXCEPT ![o].workspace = "kept"]
           /\ \/ Records(c, "claiming", Event("CheckoutClaimed"))
              \/ Records(c, "committing", Event("StageCommitted"))
  <2>1. world' = [world EXCEPT ![o] = kept]
    BY <1>1, <1>4, <1>7
  <2>2. PICK e \in JournalEvent, at \in {"claiming", "committing"} :
          /\ Records(c, at, e) /\ e.accepted = FALSE /\ e.gate = "none"
          /\ at = "claiming" => e.kind = "CheckoutClaimed"
          /\ at = "committing" => e.kind = "StageCommitted"
    BY <1>7, EventIs
  <2>3. StageDone(r, kept, e)
    BY <1>2, <1>5 DEF StageDone
  <2>4. (e.accepted => r.plan.carries) /\ (e.gate = "open" => ~r.plan.carries)
    BY <2>2
  <2>5. world[o].bound # 0 => kept.bound # 0
    BY <1>1, <1>5
  <2> QED BY <1>1, <1>2, <1>3, <1>5, <1>6, <2>1, <2>2, <2>3, <2>4, <2>5, RecordStep
<1>8. CASE /\ world' = [world EXCEPT ![o].workspace = "kept"] \/ UNCHANGED world
           /\ Records(c, "committing", StageFailed("unknown"))
  <2>1. PICK w \in World : /\ world' = [world EXCEPT ![o] = w]
                           /\ world[o].bound # 0 => w.bound # 0
                           /\ Evidenced(r, w)
    <3>1. CASE UNCHANGED world
      <4>1. world' = [world EXCEPT ![o] = old]
        BY <1>1, <1>2, <3>1 DEF SpawnInv, Types
      <4> QED BY <1>1, <1>2, <4>1
    <3>2. CASE world' = [world EXCEPT ![o].workspace = "kept"]
      <4>1. world' = [world EXCEPT ![o] = kept]
        BY <1>1, <1>4, <3>2
      <4> QED BY <1>1, <1>5, <1>6, <4>1
    <3> QED BY <1>8, <3>1, <3>2
  <2>2. PICK e \in JournalEvent : /\ Records(c, "committing", e) /\ e.kind = "StageFailed"
                                  /\ e.accepted = FALSE /\ e.gate = "none"
    BY <1>8, EventIs
  <2>3. /\ e.kind \in {"StageCommitted", "StageFailed", "Terminated"}
        /\ e.kind = "StageCommitted" => StageDone(r, w, e)
        /\ ~(e.kind = "StageFailed" /\ e.written = "no" /\ r.completed = 2 /\ r.plan.native)
        /\ o = calls[c].operation /\ calls[c] # None /\ calls[c].at \in Applying
    BY <1>1, <1>2, <2>2
  <2> QED BY <1>1, <1>2, <1>3, <2>1, <2>2, <2>3, CommitStep
<1> QED BY <1>1, <1>7, <1>8 DEF AcquireWorktree

\* A world that stays is a world that was replaced by itself.
LEMMA WorldStays ==
    ASSUME Types, NEW o \in Operation, NEW old, old = world[o]
    PROVE  world = [world EXCEPT ![o] = old]
BY DEF Types

\* The session that a launch returns: the one that runs, or a new one.
StartedFrom(o, plan, w) ==
    /\ w.session = "running" /\ w.workspace = world[o].workspace
    /\ w.closing = world[o].closing /\ w.permit = world[o].permit
    /\ \/ w = world[o] /\ Running(o)
       \/ /\ ~Running(o) /\ w.started = world[o].started + 1
          /\ w.bound = IF plan.native \/ world[o].bound = 0 THEN world[o].bound ELSE w.started
          /\ w.handed = IF plan.carries THEN world[o].handed + 1 ELSE world[o].handed

\* The session that a launch finds running, or starts; one that carries its prompt hands it
\* over when it starts.
LEMMA SessionStartedIs ==
    ASSUME Types, NEW o \in Operation, NEW plan, NEW old \in World, old = world[o]
    PROVE  \E w \in World : /\ SessionStarted(o, plan) = [world EXCEPT ![o] = w]
                            /\ StartedFrom(o, plan, w)
<1>1. CASE Running(o)
  <2>1. SessionStarted(o, plan) = world
    BY <1>1 DEF SessionStarted
  <2>2. StartedFrom(o, plan, old)
    BY <1>1 DEF StartedFrom, Running
  <2> QED BY <2>1, <2>2, WorldStays
<1>2. CASE ~Running(o)
  <2>1. PICK n, b, h : /\ n = old.started + 1
                       /\ b = IF plan.native \/ old.bound = 0 THEN old.bound ELSE n
                       /\ h = IF plan.carries THEN old.handed + 1 ELSE old.handed
    OBVIOUS
  <2>2. PICK w : w = [old EXCEPT !.session = "running", !.started = n, !.bound = b, !.handed = h]
    OBVIOUS
  <2>3. SessionStarted(o, plan) = [world EXCEPT ![o] = w]
    <3>1. SessionStarted(o, plan) =
            [world EXCEPT ![o] = [world[o] EXCEPT !.session = "running",
                 !.started = world[o].started + 1,
                 !.bound = IF plan.native \/ world[o].bound = 0 THEN world[o].bound
                           ELSE world[o].started + 1,
                 !.handed = IF plan.carries THEN world[o].handed + 1 ELSE world[o].handed]]
      BY <1>2, Zenon DEF SessionStarted
    <3> QED BY <2>1, <2>2, <3>1
  <2>4. n \in Nat /\ b \in Nat /\ h \in Nat
    BY <2>1 DEF World
  <2>5. /\ w \in World /\ w.workspace = old.workspace /\ w.session = "running"
        /\ w.started = n /\ w.bound = b /\ w.closing = old.closing /\ w.handed = h
        /\ w.permit = old.permit
    BY <2>2, <2>4 DEF World
  <2>6. StartedFrom(o, plan, w)
    BY <1>2, <2>1, <2>5 DEF StartedFrom
  <2> QED BY <2>3, <2>5, <2>6
<1> QED BY <1>1, <1>2

\* It is what the journal says.
LEMMA SessionStartedFits ==
    ASSUME Types, NEW o \in Operation, NEW r \in Receipt, NEW old \in World, old = world[o],
           Evidenced(r, old), r.completed = 1
    PROVE  \E w \in World : /\ SessionStarted(o, r.plan) = [world EXCEPT ![o] = w]
                            /\ w.session # "none" /\ (old.bound # 0 => w.bound # 0)
                            /\ Evidenced(r, w)
<1>1. PICK plan : plan = r.plan
  OBVIOUS
<1>2. PICK w \in World : /\ SessionStarted(o, plan) = [world EXCEPT ![o] = w]
                         /\ StartedFrom(o, plan, w)
  BY SessionStartedIs
<1>3. /\ old.started \in Nat /\ old.bound \in Nat /\ old.closing \in Nat /\ old.handed \in Nat
      /\ w.started \in Nat /\ w.bound \in Nat /\ w.session # "none"
  BY <1>2 DEF World, StartedFrom
<1>4. Evidenced(r, w) /\ (old.bound # 0 => w.bound # 0)
  <2>1. CASE w = old
    BY <2>1
  <2>2. CASE /\ w.started = old.started + 1 /\ w.closing = old.closing
             /\ w.session = "running" /\ w.workspace = old.workspace
             /\ w.bound = old.bound \/ w.bound = w.started
             /\ w.handed = IF r.plan.carries THEN old.handed + 1 ELSE old.handed
    <3>1. /\ r.plan.carries => w.handed = w.started
          /\ ~r.plan.carries => w.handed = old.handed
      BY <1>3, <2>2 DEF Evidenced
    <3>2. w.bound <= w.started /\ w.closing <= w.started /\ w.started # 0
      BY <1>3, <2>2 DEF Evidenced
    <3>3. ~r.plan.carries => w.handed \in {0, 1}
      BY <3>1 DEF Evidenced
    <3>4. IsTyped(r.plan) => w.handed = 0
      BY <3>1 DEF Evidenced, IsTyped
    <3>5. old.bound # 0 => w.bound # 0
      BY <2>2, <3>2
    <3> QED BY <2>2, <3>1, <3>2, <3>3, <3>4, <3>5 DEF Evidenced
  <2> QED BY <1>1, <1>2, <2>1, <2>2 DEF StartedFrom
<1> QED BY <1>1, <1>2, <1>3, <1>4

\* A launch that failed, whether or not its session started.
LEMMA LaunchFailed ==
    ASSUME SpawnInv, NEW c \in Caller, NEW stage \in {"RuntimeLaunch", "StructuredLaunch"},
           Executes(c, stage), LaunchFails(c), UNCHANGED journal
    PROVE  SpawnInv'
<1>1. PICK m, o, r, old : m = calls[c] /\ o = m.operation /\ r = journal[o] /\ old = world[o]
  OBVIOUS
<1>2. /\ m # None /\ m.at \in Applying /\ o \in Operation /\ r \in Receipt /\ old \in World
      /\ Evidenced(r, old) /\ r.inFlight /\ r.completed = 1 /\ m.receipt = r /\ r.plan \in Plans
  BY <1>1, ExecutorReads
<1>3. PICK w \in World : /\ world' = [world EXCEPT ![o] = w]
                         /\ world[o].bound # 0 => w.bound # 0
                         /\ Evidenced(r, w)
  <2>1. CASE world' = world
    BY <1>1, <1>2, <2>1, WorldStays DEF SpawnInv
  <2>2. CASE world' = SessionStarted(o, r.plan)
    BY <1>1, <1>2, <2>2, SessionStartedFits DEF SpawnInv
  <2> QED BY <1>1, <1>2, <2>1, <2>2 DEF LaunchFails
<1>4. PICK e \in JournalEvent : /\ Records(c, "committing", e)
                                /\ e.kind \in {"StageFailed", "Terminated"}
                                /\ e.accepted = FALSE /\ e.gate = "none"
  <2>1. \E e \in {StageFailed("unknown"), Event("Terminated")} : Records(c, "committing", e)
    BY DEF LaunchFails
  <2> QED BY <2>1, EventIs
<1>5. /\ e.kind \in {"StageCommitted", "StageFailed", "Terminated"}
      /\ e.kind = "StageCommitted" => StageDone(r, w, e)
      /\ ~(e.kind = "StageFailed" /\ e.written = "no" /\ r.completed = 2 /\ r.plan.native)
      /\ o = calls[c].operation /\ calls[c] # None /\ calls[c].at \in Applying
  BY <1>1, <1>2, <1>4
<1>6. UNCHANGED <<journal, stops, closes>>
  BY DEF LaunchFails, Answered, Keeps, Failed
<1> QED BY <1>1, <1>2, <1>3, <1>4, <1>5, <1>6, CommitStep

\* A launch that was answered: the session is there, and what the answer says of the prompt
\* the session carries is true.
LEMMA LaunchAnswered ==
    ASSUME SpawnInv, NEW c \in Caller, NEW stage \in {"RuntimeLaunch", "StructuredLaunch"},
           Executes(c, stage), NEW m, m = calls[c], NEW o, o = m.operation,
           world' = SessionStarted(o, m.receipt.plan), UNCHANGED <<journal, stops, closes>>,
           NEW e \in JournalEvent, Records(c, "launched", e), e.kind = "StageCommitted",
           e.accepted => m.receipt.plan.carries,
           e.gate = "open" => ~m.receipt.plan.carries, LaunchSeen(m.receipt.plan, e)
    PROVE  SpawnInv'
<1>1. PICK r, old : r = journal[o] /\ old = world[o]
  OBVIOUS
<1>2. /\ m # None /\ m.at \in Applying /\ o \in Operation /\ r \in Receipt /\ old \in World
      /\ Evidenced(r, old) /\ r.inFlight /\ r.completed = 1 /\ m.receipt = r /\ r.plan \in Plans
  BY <1>1, ExecutorReads
<1>3. PICK w \in World : /\ world' = [world EXCEPT ![o] = w]
                         /\ world[o].bound # 0 => w.bound # 0
                         /\ w.session # "none" /\ Evidenced(r, w)
  <2>1. world' = SessionStarted(o, r.plan) /\ Types
    BY <1>2 DEF SpawnInv
  <2>2. \E w \in World : /\ SessionStarted(o, r.plan) = [world EXCEPT ![o] = w]
                         /\ w.session # "none" /\ (old.bound # 0 => w.bound # 0)
                         /\ Evidenced(r, w)
    BY <1>1, <1>2, <2>1, SessionStartedFits
  <2> QED BY <1>1, <2>1, <2>2
<1>4. PICK at \in {"claiming", "launched", "committing"} : at = "launched"
  OBVIOUS
<1>5. /\ Records(c, at, e) /\ at # "claiming" /\ at # "committing"
      /\ (e.accepted => r.plan.carries) /\ (e.gate = "open" => ~r.plan.carries)
      /\ LaunchSeen(r.plan, e)
      /\ o = calls[c].operation /\ calls[c] # None /\ calls[c].at \in Applying
  BY <1>2, <1>4
<1> QED BY <1>1, <1>2, <1>3, <1>5, RecordStep

\* The native launch.
LEMMA LaunchRuntimeStep ==
    ASSUME SpawnInv, NEW c \in Caller, LaunchRuntime(c)
    PROVE  SpawnInv'
<1>1. PICK m, o, plan : m = calls[c] /\ o = m.operation /\ plan = m.receipt.plan
  OBVIOUS
<1>2. Executes(c, "RuntimeLaunch") /\ UNCHANGED <<journal, stops, closes>>
  BY DEF LaunchRuntime, LaunchFails, Answered, Keeps, Failed
<1>3. plan \in Plans
  BY <1>1, <1>2, ExecutorReads
<1>4. CASE /\ world' = SessionStarted(o, plan)
           /\ \E gate \in SeenGates(plan) :
                Records(c, "launched", Launched(Accepted(plan, gate), gate))
  <2>1. PICK gate \in SeenGates(plan) :
          Records(c, "launched", Launched(Accepted(plan, gate), gate))
    BY <1>4
  <2>2. /\ gate \in {"none", "open", "carried"}
        /\ gate = "open" => ~plan.carries /\ (plan.carries => gate \in {"none", "carried"})
    BY <2>1 DEF SeenGates
  <2>3. Accepted(plan, gate) \in BOOLEAN
    BY DEF Accepted
  <2>4. PICK e \in JournalEvent : /\ e = Launched(Accepted(plan, gate), gate)
                                  /\ e.kind = "StageCommitted" /\ e.gate = gate
                                  /\ e.accepted <=> Accepted(plan, gate)
    BY <2>2, <2>3, EventIs
  <2>5. /\ e.accepted => plan.carries
        /\ e.gate = "open" => ~plan.carries
    BY <2>2, <2>4 DEF Accepted
  <2>6. LaunchSeen(plan, e)
    BY <2>2, <2>4 DEF Accepted, LaunchSeen, SeenGates
  <2>7. Records(c, "launched", e)
    BY <2>1, <2>4
  <2> QED BY <1>1, <1>2, <1>4, <2>4, <2>5, <2>6, <2>7, LaunchAnswered
<1>5. CASE LaunchFails(c)
  BY <1>2, <1>5, LaunchFailed
<1> QED BY <1>1, <1>4, <1>5 DEF LaunchRuntime

\* The launch of the structured protocol, which carries no prompt.
LEMMA LaunchStructuredStep ==
    ASSUME SpawnInv, NEW c \in Caller, LaunchStructured(c)
    PROVE  SpawnInv'
<1>1. PICK m, o, plan : m = calls[c] /\ o = m.operation /\ plan = m.receipt.plan
  OBVIOUS
<1>2. Executes(c, "StructuredLaunch") /\ UNCHANGED <<journal, stops, closes>>
  BY DEF LaunchStructured, LaunchFails, Failed, Answered, Keeps
<1>3. plan \in Plans /\ ~plan.carries
  BY <1>1, <1>2, ExecutorReads
<1>4. CASE /\ world' = SessionStarted(o, plan)
           /\ Records(c, "launched", Event("StageCommitted"))
  <2>1. PICK e \in JournalEvent : /\ e = Event("StageCommitted") /\ e.kind = "StageCommitted"
                                  /\ e.accepted = FALSE /\ e.gate = "none"
    BY EventIs
  <2>2. LaunchSeen(plan, e) /\ Records(c, "launched", e) /\ ~e.accepted /\ e.gate # "open"
    BY <1>3, <1>4, <2>1 DEF LaunchSeen
  <2> QED BY <1>1, <1>2, <1>4, <2>1, <2>2, LaunchAnswered
<1>5. CASE LaunchFails(c)
  BY <1>2, <1>5, LaunchFailed
<1> QED BY <1>1, <1>4, <1>5 DEF LaunchStructured

\* The selection is stored before the launch is committed.
LEMMA PersistSelectionStep ==
    ASSUME SpawnInv, NEW c \in Caller, PersistSelection(c)
    PROVE  SpawnInv'
<1>1. PICK m, o, r, old : m = calls[c] /\ o = m.operation /\ r = journal[o] /\ old = world[o]
  OBVIOUS
<1>2. m # None /\ m.at = "launched" /\ m.at \in Applying
  BY <1>1 DEF PersistSelection, Applying
<1>3. /\ m \in SpawnCall /\ o \in Operation /\ r \in Receipt /\ old \in World
      /\ Evidenced(r, old) /\ InHand(m, r, old)
  BY <1>1, <1>2, HolderReads
<1>4. /\ m.receipt = r /\ r.inFlight /\ r.completed = 1 /\ m.event \in JournalEvent
      /\ m.event.kind = "StageCommitted" /\ LaunchSeen(r.plan, m.event)
      /\ (m.event.accepted => r.plan.carries) /\ (m.event.gate = "open" => ~r.plan.carries)
      /\ old.session # "none"
  BY <1>2, <1>3 DEF InHand
<1>5. UNCHANGED <<journal, stops, closes>>
  BY DEF PersistSelection, Answered, Keeps, Failed
<1>6. CASE /\ world' = [world EXCEPT ![o].bound = world[o].started]
           /\ Goes(c, "committing")
  <2>1. PICK w : w = [old EXCEPT !.bound = old.started]
    OBVIOUS
  <2>2. /\ w \in World /\ w.workspace = old.workspace /\ w.session = old.session
        /\ w.started = old.started /\ w.bound = old.started /\ w.closing = old.closing
        /\ w.handed = old.handed /\ old.started \in Nat
    BY <1>3, <2>1 DEF World
  <2>3. world' = [world EXCEPT ![o] = w]
    BY <1>1, <1>6, <2>1
  <2>4. Evidenced(r, w)
    BY <1>3, <1>4, <2>2 DEF Evidenced
  <2>5. "committing" \in Applying
    BY DEF Applying, Recording
  <2>6. PICK n \in SpawnCall : /\ calls' = [calls EXCEPT ![c] = n] /\ n.at = "committing"
                               /\ n.operation = o /\ n.receipt = r /\ n.event = m.event
    BY <1>1, <1>3, <1>4, <1>6, <2>5, GoesIs DEF SpawnInv
  <2>7. StageDone(r, w, n.event)
    BY <1>4, <2>2, <2>6 DEF StageDone
  <2>8. InHand(n, r, w)
    BY <1>3, <1>4, <2>6, <2>7 DEF InHand
  <2>9. n.at \in Applying /\ Evidenced(journal[o], w) /\ InHand(n, journal[o], w)
        /\ calls[c] # None /\ calls[c].at \in Applying /\ o = calls[c].operation
        /\ w.bound # 0
    BY <1>1, <1>2, <1>3, <1>4, <2>2, <2>4, <2>5, <2>6, <2>8 DEF Evidenced
  <2> QED BY <1>5, <2>2, <2>3, <2>6, <2>9, EffectStep
<1>7. CASE Records(c, "committing", StageFailed("unknown")) /\ UNCHANGED world
  <2>1. PICK e \in JournalEvent : /\ Records(c, "committing", e) /\ e.kind = "StageFailed"
                                  /\ e.accepted = FALSE /\ e.gate = "none"
    BY <1>7, EventIs
  <2>2. world' = [world EXCEPT ![o] = old]
    BY <1>1, <1>3, <1>7, WorldStays DEF SpawnInv
  <2>3. /\ e.kind \in {"StageCommitted", "StageFailed", "Terminated"}
        /\ e.kind = "StageCommitted" => StageDone(r, old, e)
        /\ ~(e.kind = "StageFailed" /\ e.written = "no" /\ r.completed = 2 /\ r.plan.native)
        /\ o = calls[c].operation /\ calls[c] # None /\ calls[c].at \in Applying
        /\ world[o].bound # 0 => old.bound # 0
    BY <1>1, <1>2, <1>4, <2>1
  <2> QED BY <1>1, <1>3, <1>4, <1>5, <2>1, <2>2, <2>3, CommitStep
<1> QED BY <1>1, <1>6, <1>7 DEF PersistSelection

\* The typed prompt: it is typed only by a caller that runs the delivery for the first time,
\* and a failure that allows a retry is recorded only when nothing was written.
LEMMA DeliverPromptStep ==
    ASSUME SpawnInv, NEW c \in Caller, DeliverPrompt(c)
    PROVE  SpawnInv'
<1>1. PICK m, o, r, old : m = calls[c] /\ o = m.operation /\ r = journal[o] /\ old = world[o]
  OBVIOUS
<1>2. Executes(c, "PromptDelivery")
  BY DEF DeliverPrompt
<1>3. /\ m # None /\ m.at \in Applying /\ m.at = "executing" /\ o \in Operation
      /\ r \in Receipt /\ old \in World /\ m.receipt = r
      /\ WellFormed(r) /\ Evidenced(r, old) /\ InHand(m, r, old) /\ r.inFlight
      /\ r.completed = 2 /\ r.plan.native /\ r.plan.prompt
  BY <1>1, <1>2, ExecutorReads
<1>4. UNCHANGED <<journal, stops, closes>>
  BY DEF DeliverPrompt, Answered, Keeps, Failed
<1>5. ~r.plan.carries => IsTyped(r.plan) /\ old.handed = 0
  BY <1>3 DEF InHand, IsTyped
<1>6. r.plan.carries => (r.accepted \/ r.gate = "carried") /\ old.handed # 0
  BY <1>3 DEF WellFormed, Evidenced
<1>7. r.accepted => r.plan.carries
  BY <1>3 DEF WellFormed
<1>8. r.gate = "open" => ~r.plan.carries
  BY <1>3 DEF WellFormed
<1>9. ASSUME NEW w \in World, world' = [world EXCEPT ![o] = w],
             old.bound # 0 => w.bound # 0, Evidenced(r, w),
             NEW e \in JournalEvent, Records(c, "committing", e),
             e.accepted = FALSE, e.gate = "none", e.kind \in {"StageCommitted", "StageFailed"},
             e.kind = "StageCommitted" => w.handed # 0,
             e.kind = "StageFailed" /\ e.written = "no" => w.handed = 0
      PROVE  SpawnInv'
  <2>1. e.kind = "StageCommitted" => StageDone(r, w, e)
    BY <1>3, <1>9 DEF StageDone
  <2>2. /\ e.kind \in {"StageCommitted", "StageFailed", "Terminated"}
        /\ e.kind = "StageFailed" /\ e.written = "no" /\ r.completed = 2 /\ r.plan.native
             => w.handed = 0
        /\ o = calls[c].operation /\ calls[c] # None /\ calls[c].at \in Applying
        /\ world[o].bound # 0 => w.bound # 0
    BY <1>1, <1>3, <1>9
  <2> QED BY <1>1, <1>3, <1>4, <1>9, <2>1, <2>2, CommitStep
<1>10. world = [world EXCEPT ![o] = old]
  BY <1>1, <1>3, WorldStays DEF SpawnInv
<1>11. CASE /\ HeldAtGate(r) /\ UNCHANGED world
            /\ Records(c, "committing", StageFailed(IF r.gate = "carried" THEN "yes" ELSE "no"))
  <2>1. PICK written \in {"unknown", "no", "yes"} :
          written = IF r.gate = "carried" THEN "yes" ELSE "no"
    OBVIOUS
  <2>2. PICK e \in JournalEvent : /\ Records(c, "committing", e) /\ e.kind = "StageFailed"
                                  /\ e.accepted = FALSE /\ e.gate = "none"
                                  /\ e.written = written
    BY <1>11, <2>1, EventIs
  <2>3. written = "no" => old.handed = 0
    BY <1>5, <1>8, <1>11, <2>1 DEF HeldAtGate
  <2> QED BY <1>3, <1>9, <1>10, <1>11, <2>2, <2>3
<1>12. CASE /\ ~HeldAtGate(r) /\ r.accepted /\ UNCHANGED world
            /\ Records(c, "committing", Event("StageCommitted"))
  <2>1. PICK e \in JournalEvent : /\ Records(c, "committing", e) /\ e.kind = "StageCommitted"
                                  /\ e.accepted = FALSE /\ e.gate = "none"
    BY <1>12, EventIs
  <2> QED BY <1>3, <1>6, <1>7, <1>9, <1>10, <1>12, <2>1
<1>13. CASE /\ ~HeldAtGate(r) /\ ~r.accepted
            /\ \/ /\ UNCHANGED world
                  /\ \E written \in {"no", "yes"} : Records(c, "committing", StageFailed(written))
               \/ /\ world' = [world EXCEPT ![o].handed = @ + 1]
                  /\ \/ Records(c, "committing", StageFailed("yes"))
                     \/ Records(c, "committing", Event("StageCommitted"))
  <2>1. IsTyped(r.plan) /\ old.handed = 0
    BY <1>5, <1>6, <1>13 DEF HeldAtGate
  <2>2. CASE /\ UNCHANGED world
             /\ \E written \in {"no", "yes"} : Records(c, "committing", StageFailed(written))
    <3>1. PICK e \in JournalEvent : /\ Records(c, "committing", e) /\ e.kind = "StageFailed"
                                    /\ e.accepted = FALSE /\ e.gate = "none"
      BY <2>2, EventIs
    <3> QED BY <1>3, <1>9, <1>10, <2>1, <2>2, <3>1
  <2>3. CASE /\ world' = [world EXCEPT ![o].handed = @ + 1]
             /\ \/ Records(c, "committing", StageFailed("yes"))
                \/ Records(c, "committing", Event("StageCommitted"))
    <3>1. PICK w : w = [old EXCEPT !.handed = 1]
      OBVIOUS
    <3>2. world' = [world EXCEPT ![o] = w]
      <4>1. world' = [world EXCEPT ![o] = [world[o] EXCEPT !.handed = world[o].handed + 1]]
        BY <2>3, Zenon
      <4>2. world[o].handed + 1 = 1
        BY <1>1, <2>1
      <4> QED BY <1>1, <3>1, <4>1, <4>2
    <3>3. /\ w \in World /\ w.workspace = old.workspace /\ w.session = old.session
          /\ w.started = old.started /\ w.bound = old.bound /\ w.closing = old.closing
          /\ w.handed = 1
      BY <1>3, <3>1 DEF World
    <3>4. Evidenced(r, w)
      BY <1>3, <2>1, <3>3 DEF Evidenced, IsTyped
    <3>5. PICK e \in JournalEvent : /\ Records(c, "committing", e)
                                    /\ e.kind \in {"StageCommitted", "StageFailed"}
                                    /\ e.accepted = FALSE /\ e.gate = "none"
                                    /\ e.kind = "StageFailed" => e.written = "yes"
      BY <2>3, EventIs
    <3>6. w.handed # 0 /\ (old.bound # 0 => w.bound # 0)
      BY <3>3
    <3> QED BY <1>1, <1>9, <3>2, <3>3, <3>4, <3>5, <3>6
  <2> QED BY <1>13, <2>2, <2>3
<1>14. /\ m.receipt = r /\ calls[c] = m /\ calls[c].operation = o
  BY <1>1, <1>3
<1> QED BY <1>11, <1>12, <1>13, <1>14 DEF DeliverPrompt

\* The structured turn: its id is the operation's, so a repeat hands nothing over again.
LEMMA DeliverTurnStep ==
    ASSUME SpawnInv, NEW c \in Caller, DeliverTurn(c)
    PROVE  SpawnInv'
<1>1. PICK m, o, r, old : m = calls[c] /\ o = m.operation /\ r = journal[o] /\ old = world[o]
  OBVIOUS
<1>2. Executes(c, "StructuredPromptDelivery")
  BY DEF DeliverTurn
<1>3. /\ m # None /\ m.at \in Applying /\ o \in Operation
      /\ r \in Receipt /\ old \in World /\ m.receipt = r /\ Evidenced(r, old) /\ r.inFlight
      /\ r.completed = 2 /\ ~r.plan.native /\ ~r.plan.carries
  BY <1>1, <1>2, ExecutorReads
<1>4. UNCHANGED <<journal, stops, closes>>
  BY DEF DeliverTurn, Answered, Keeps, Failed
<1>5. PICK w : w = [old EXCEPT !.handed = 1]
  OBVIOUS
<1>6. /\ w \in World /\ w.workspace = old.workspace /\ w.session = old.session
      /\ w.started = old.started /\ w.bound = old.bound /\ w.closing = old.closing
      /\ w.handed = 1
  BY <1>3, <1>5 DEF World
<1>7. Evidenced(r, w)
  BY <1>3, <1>6 DEF Evidenced, IsTyped
<1>8. PICK e \in JournalEvent, v \in {old, w} :
        /\ Records(c, "committing", e) /\ e.accepted = FALSE /\ e.gate = "none"
        /\ e.kind \in {"StageCommitted", "StageFailed"}
        /\ e.kind = "StageCommitted" => v = w
        /\ world' = [world EXCEPT ![o] = v]
  <2>1. /\ Event("StageCommitted") \in JournalEvent
        /\ Event("StageCommitted").kind = "StageCommitted"
        /\ Event("StageCommitted").accepted = FALSE /\ Event("StageCommitted").gate = "none"
        /\ StageFailed("unknown") \in JournalEvent /\ StageFailed("unknown").kind = "StageFailed"
        /\ StageFailed("unknown").accepted = FALSE /\ StageFailed("unknown").gate = "none"
    BY EventIs
  <2>2. world = [world EXCEPT ![o] = old]
    BY <1>1, <1>3, WorldStays DEF SpawnInv
  <2>3. [world EXCEPT ![o].handed = 1] = [world EXCEPT ![o] = w]
    BY <1>1, <1>5
  <2>4. CASE /\ world' = [world EXCEPT ![o].handed = 1]
             /\ Records(c, "committing", Event("StageCommitted"))
    BY <2>1, <2>3, <2>4
  <2>5. CASE /\ world' = [world EXCEPT ![o].handed = 1] \/ UNCHANGED world
             /\ Records(c, "committing", StageFailed("unknown"))
    BY <2>1, <2>2, <2>3, <2>5
  <2> QED BY <1>1, <2>4, <2>5 DEF DeliverTurn
<1>9. /\ v \in World /\ Evidenced(r, v) /\ (world[o].bound # 0 => v.bound # 0)
      /\ e.kind = "StageCommitted" => StageDone(r, v, e)
  BY <1>1, <1>3, <1>6, <1>7, <1>8 DEF StageDone
<1>10. /\ e.kind \in {"StageCommitted", "StageFailed", "Terminated"}
       /\ ~(e.kind = "StageFailed" /\ e.written = "no" /\ r.completed = 2 /\ r.plan.native)
       /\ o = calls[c].operation /\ calls[c] # None /\ calls[c].at \in Applying
  BY <1>1, <1>3, <1>8
<1> QED BY <1>1, <1>3, <1>4, <1>8, <1>9, <1>10, CommitStep

\* A crash ends every request.
LEMMA CrashStep ==
    ASSUME SpawnInv, Crash
    PROVE  SpawnInv'
<1>1. UNCHANGED <<journal, world, stops, closes>> /\ \A c \in Caller : calls'[c] = None
  BY DEF Crash
<1>2. Types'
  BY <1>1 DEF SpawnInv, Types, Crash
<1>3. Journals' /\ OneOperation' /\ SelectedFirst'
  BY <1>1 DEF SpawnInv, Journals, OneOperation, SelectedFirst, Exists
<1>4. Calls' /\ Exclusive'
  BY <1>1 DEF Calls, Exclusive, Holds
<1> QED BY <1>2, <1>3, <1>4 DEF SpawnInv

\* A step that leaves the journals, the requests and the closes alone.
LEMMA IdleStep ==
    ASSUME SpawnInv, UNCHANGED <<journal, world, calls, stops, closes>>
    PROVE  SpawnInv'
<1>1. Types' /\ Journals' /\ OneOperation' /\ SelectedFirst'
  BY DEF SpawnInv, Types, Journals, OneOperation, SelectedFirst, Exists
<1>2. Calls' /\ Exclusive'
  BY DEF SpawnInv, Calls, CallFits, Exclusive, Holds
<1> QED BY <1>1, <1>2 DEF SpawnInv

\* The world of an operation in another state of its session or its checkout.
Alike(old, w) ==
    /\ w \in World /\ (w.workspace = "none" <=> old.workspace = "none")
    /\ (w.session = "none" <=> old.session = "none")
    /\ w.started = old.started /\ w.bound = old.bound /\ w.closing = old.closing
    /\ w.handed = old.handed /\ w.permit = old.permit

\* A session that ends, or a checkout that somebody replaces, changes nothing that a request
\* knows.
LEMMA OutsideStep ==
    ASSUME SpawnInv, NEW o \in Operation, UNCHANGED <<journal, calls, stops, closes>>,
           NEW old, old = world[o], old # Untouched, NEW w, Alike(old, w),
           world' = [world EXCEPT ![o] = w]
    PROVE  SpawnInv'
<1>1. world'[o] = w /\ \A p \in Operation \ {o} : world'[p] = world[p]
  BY DEF SpawnInv, Types
<1>2. Types'
  BY DEF SpawnInv, Types, Alike
<1>3. Journals'
  <2> SUFFICES ASSUME NEW p \in Operation PROVE Traced(journal'[p], world'[p])
    BY DEF Journals
  <2>1. Traced(journal[p], world[p])
    BY DEF SpawnInv, Journals
  <2>2. CASE p # o
    BY <1>1, <2>1, <2>2
  <2>3. CASE p = o
    <3>1. journal[o] \in Receipt /\ WellFormed(journal[o]) /\ Evidenced(journal[o], old)
      BY <2>1, <2>3 DEF Traced
    <3>2. Evidenced(journal[o], w)
      BY <3>1 DEF Evidenced, Alike
    <3> QED BY <1>1, <2>3, <3>1, <3>2 DEF Traced
  <2> QED BY <2>2, <2>3
<1>4. Calls'
  <2> SUFFICES ASSUME NEW d \in Caller, calls'[d] # None PROVE CallFits(calls[d])'
    BY DEF Calls
  <2>1. PICK n : n = calls[d]
    OBVIOUS
  <2>2. n # None /\ CallFits(n) /\ calls'[d] = n
    BY <2>1 DEF SpawnInv, Calls
  <2>3. CallFits(n)'
    <3>1. n.at \in Applying =>
            n.operation \in Operation /\ InHand(n, journal'[n.operation], world'[n.operation])
      <4> SUFFICES ASSUME n.at \in Applying
                   PROVE  /\ n.operation \in Operation
                          /\ InHand(n, journal'[n.operation], world'[n.operation])
        OBVIOUS
      <4>1. n.operation \in Operation /\ InHand(n, journal[n.operation], world[n.operation])
        BY <2>2 DEF CallFits
      <4>2. CASE n.operation # o
        BY <1>1, <4>1, <4>2
      <4>3. CASE n.operation = o
        <5>1. InHand(n, journal[o], old)
          BY <4>1, <4>3
        <5>2. InHand(n, journal[o], w)
          BY <5>1 DEF InHand, StageDone, Alike
        <5> QED BY <1>1, <4>1, <4>3, <5>2
      <4> QED BY <4>2, <4>3
    <3>2. n.at = "observed" => n.operation \in Operation /\ Seen(n, journal'[n.operation])
      BY <2>2 DEF CallFits
    <3>3. n.at \in Closing =>
            /\ closes'[n.operation][n.close] # "none"
            /\ n.stop # None => stops'[n.stop] # None
            /\ OutcomeFits(n)
      BY <2>2 DEF CallFits
    <3> QED BY <3>1, <3>2, <3>3 DEF CallFits
  <2> QED BY <2>2, <2>3 DEF CallFits
<1>5. Exclusive' /\ OneOperation'
  BY DEF SpawnInv, Exclusive, OneOperation, Exists, Holds
<1>6. SelectedFirst'
  <2>1. \A p \in Operation : world[p].bound # 0 => world'[p].bound # 0
    BY <1>1 DEF Alike
  <2> QED BY <1>2, <2>1, SelectedKept DEF SpawnInv
<1> QED BY <1>2, <1>3, <1>4, <1>5, <1>6 DEF SpawnInv

\* A session that has ended by itself.
LEMMA SessionExitsIs ==
    ASSUME SpawnInv, NEW o \in Operation, SessionExits(o), NEW old, old = world[o]
    PROVE  /\ UNCHANGED <<journal, calls, stops, closes>>
           /\ old.session = "running" /\ old # Untouched
           /\ \E w \in World :
                /\ world' = [world EXCEPT ![o] = w] /\ w.session = "exited"
                /\ w.workspace = old.workspace /\ Alike(old, w)
<1>1. /\ UNCHANGED <<journal, calls, stops, closes>> /\ old.session = "running"
      /\ old \in World
  BY DEF SessionExits, Keeps, Running, SpawnInv, Types
<1>2. PICK w : w = [old EXCEPT !.session = "exited"]
  OBVIOUS
<1>3. w \in World /\ w.session = "exited" /\ w.workspace = old.workspace /\ Alike(old, w)
  BY <1>1, <1>2 DEF World, Alike
<1>4. world' = [world EXCEPT ![o] = w]
  BY <1>2 DEF SessionExits
<1>5. old # Untouched
  BY <1>1 DEF Untouched
<1> QED BY <1>1, <1>3, <1>4, <1>5

\* It changes nothing else.
LEMMA SessionExitsStep ==
    ASSUME SpawnInv, NEW o \in Operation, SessionExits(o)
    PROVE  SpawnInv'
BY SessionExitsIs, OutsideStep

\* Every step of a spawn.
LEMMA SpawnNextStep ==
    ASSUME SpawnInv, SpawnNext
    PROVE  SpawnInv'
<1>1. ASSUME NEW c \in Caller, Spawning(c) PROVE SpawnInv'
  BY <1>1, AppendPlanStep, AuthorizeStep, FollowDirectiveStep, AppendEventStep,
     AcquireWorktreeStep, LaunchRuntimeStep, LaunchStructuredStep, PersistSelectionStep,
     DeliverPromptStep, DeliverTurnStep DEF Spawning
<1>2. ASSUME NEW c \in Caller, GiveUp(c) PROVE SpawnInv'
  BY <1>2, ReturnStep DEF GiveUp
<1>3. CASE AnswerGate
  BY <1>3, IdleStep DEF AnswerGate
<1> QED BY <1>1, <1>2, <1>3, ObserveStep, PreviewStep, CrashStep, SessionExitsStep DEF SpawnNext

-----------------------------------------------------------------------------
(* The steps of a stop                                                     *)

\* An operation whose runtime is selected has a journal and a session.
LEMMA SelectedReads ==
    ASSUME SpawnInv, NEW o \in Operation, world[o].bound # 0
    PROVE  /\ journal[o] \in Receipt /\ WellFormed(journal[o])
           /\ Evidenced(journal[o], world[o])
           /\ world[o] \in World /\ world[o].session # "none"
<1>1. Traced(journal[o], world[o]) /\ world[o] \in World
  BY DEF SpawnInv, Journals, Types
<1>2. world[o] # Untouched
  BY DEF Untouched
<1>3. Evidenced(journal[o], world[o]) /\ world[o].bound \in Nat /\ world[o].started \in Nat
  BY <1>1, <1>2 DEF Traced, World
<1>4. world[o].session # "none"
  BY <1>3 DEF Evidenced
<1> QED BY <1>1, <1>2, <1>4 DEF Traced

\* What the driver of a close knows.
LEMMA DriverReads ==
    ASSUME SpawnInv, NEW c \in Caller, calls[c] # None, calls[c].at \in Closing,
           NEW m, m = calls[c], NEW o, o = m.operation
    PROVE  /\ m \in DriveCall /\ o \in Operation /\ Alone(c, o) /\ world[o].bound # 0
           /\ m.close \in Closes /\ closes[o][m.close] # "none"
           /\ m.stop \in Attempt \cup {None} /\ (m.stop # None => stops[m.stop] # None)
           /\ OutcomeFits(m)
<1>1. m \in DriveCall
  BY DEF SpawnInv, Types, SpawnCall, Applying, Recording, Closing
<1>2. /\ o \in Operation /\ m.close \in Closes /\ m.stop \in Attempt \cup {None}
  BY <1>1 DEF DriveCall
<1>3. /\ closes[o][m.close] # "none" /\ (m.stop # None => stops[m.stop] # None)
      /\ OutcomeFits(m)
  BY DEF SpawnInv, Calls, CallFits
<1>4. world[o].bound # 0
  BY <1>2, <1>3 DEF SpawnInv, SelectedFirst
<1>5. Holds(c)
  BY DEF Holds, Closing
<1>6. Alone(c, o)
  BY <1>5, HolderAlone DEF SpawnInv
<1> QED BY <1>1, <1>2, <1>3, <1>4, <1>6

\* A world that the driver of a close may leave behind.
Touched(old, w) ==
    /\ w \in World /\ w.started = old.started /\ w.bound = old.bound /\ w.handed = old.handed
    /\ w.closing \in {old.closing, old.bound}
    /\ w.session = "none" <=> old.session = "none"
    /\ old.workspace # "none" => w.workspace # "none"

\* A step under the lock of an agent that is stopped.
LEMMA DriveStep ==
    ASSUME SpawnInv, NEW c \in Caller, NEW o \in Operation, Alone(c, o),
           world[o].bound # 0, UNCHANGED journal,
           stops' \in [Attempt -> StopRecord \cup {None}],
           closes' \in [Operation -> [Closes -> {"none", "Admitted", "Stopped", "SourceRetained"}]],
           \A p \in Operation, k \in Closes : closes[p][k] # "none" => closes'[p][k] # "none",
           \A a \in Attempt : stops[a] # None => stops'[a] # None,
           NEW w, Touched(world[o], w), world' = [world EXCEPT ![o] = w], SelectedFirst',
           NEW n \in DriveCall \cup {None}, calls' = [calls EXCEPT ![c] = n],
           n # None => /\ n.operation = o /\ closes'[o][n.close] # "none"
                       /\ n.stop # None => stops'[n.stop] # None
                       /\ OutcomeFits(n)
    PROVE  SpawnInv'
<1>1. /\ journal[o] \in Receipt /\ WellFormed(journal[o]) /\ Evidenced(journal[o], world[o])
      /\ w \in World
  BY SelectedReads DEF Touched
<1>2. Evidenced(journal[o], w)
  BY <1>1 DEF Evidenced, Touched
<1>3. /\ calls'[c] = n /\ \A d \in Caller \ {c} : calls'[d] = calls[d]
      /\ world'[o] = w /\ \A p \in Operation \ {o} : world'[p] = world[p]
  BY DEF SpawnInv, Types
<1>4. Types'
  BY <1>1 DEF SpawnInv, Types
<1>5. Traced(journal'[o], world'[o])
  BY <1>1, <1>2, <1>3 DEF Traced
<1>6. n # None => n.operation = o /\ n.at \notin Waiting /\ CallFits(n)'
  <2> SUFFICES ASSUME n # None
               PROVE  n.operation = o /\ n.at \notin Waiting /\ CallFits(n)'
    OBVIOUS
  <2>1. n.at \in Closing
    BY DEF DriveCall
  <2>2. n.at \notin Waiting /\ n.at # "observed" /\ n.at \notin Applying
    BY <2>1 DEF Closing, Waiting, Applying, Recording
  <2> QED BY <2>1, <2>2 DEF CallFits
<1> QED BY <1>3, <1>4, <1>5, <1>6, LocalStep

\* A step of a driver that changes no row.
LEMMA DriverMoves ==
    ASSUME SpawnInv, NEW c \in Caller, calls[c] # None, calls[c].at \in Closing,
           NEW o, o = calls[c].operation, UNCHANGED <<journal, stops, closes>>,
           NEW w, Touched(world[o], w), world' = [world EXCEPT ![o] = w],
           NEW n \in DriveCall, calls' = [calls EXCEPT ![c] = n], n.operation = o,
           n.stop = calls[c].stop, n.close = calls[c].close,
           OutcomeFits(n)
    PROVE  SpawnInv'
<1>1. /\ o \in Operation /\ Alone(c, o) /\ world[o].bound # 0
      /\ closes[o][n.close] # "none" /\ (n.stop # None => stops[n.stop] # None)
  BY DriverReads
<1>2. world'[o] = w /\ \A p \in Operation \ {o} : world'[p] = world[p]
  BY <1>1 DEF SpawnInv, Types
<1>3. Types /\ SelectedFirst
  BY DEF SpawnInv
<1>4. SelectedFirst'
  <2>1. \A p \in Operation : world[p].bound # 0 => world'[p].bound # 0
    BY <1>2 DEF Touched
  <2>2. \A a \in Attempt : stops[a] # None => stops[a].operation \in Operation
    BY <1>3 DEF Types, StopRecord
  <2> QED BY <1>3, <2>1, <2>2 DEF SelectedFirst
<1>5. /\ stops' \in [Attempt -> StopRecord \cup {None}]
      /\ closes' \in [Operation -> [Closes -> {"none", "Admitted", "Stopped", "SourceRetained"}]]
      /\ \A p \in Operation, k \in Closes : closes[p][k] # "none" => closes'[p][k] # "none"
      /\ \A a \in Attempt : stops[a] # None => stops'[a] # None
      /\ closes'[o][n.close] # "none" /\ (n.stop # None => stops'[n.stop] # None)
  BY <1>1, <1>3 DEF Types
<1> QED BY <1>1, <1>4, <1>5, DriveStep

\* A driver that has come to an outcome, as one update of what it holds.
LEMMA OutcomeIsIs ==
    ASSUME Types, NEW c \in Caller, NEW at \in Closing,
           NEW outcome \in {None, "Stopped"} \cup Terminal,
           OutcomeIs(c, at, outcome), calls[c] \in DriveCall
    PROVE  \E n \in DriveCall :
             /\ calls' = [calls EXCEPT ![c] = n] /\ n.at = at /\ n.outcome = outcome
             /\ n.operation = calls[c].operation /\ n.stop = calls[c].stop
             /\ n.close = calls[c].close /\ n.admission = calls[c].admission
<1>1. PICK m, n : m = calls[c] /\ n = [m EXCEPT !.at = at, !.outcome = outcome]
  OBVIOUS
<1>2. calls' = [calls EXCEPT ![c] = [calls[c] EXCEPT !.at = at, !.outcome = outcome]]
  BY Zenon DEF OutcomeIs
<1>3. calls' = [calls EXCEPT ![c] = n]
  BY <1>1, <1>2
<1>4. /\ n \in DriveCall /\ n.at = at /\ n.outcome = outcome
      /\ n.operation = m.operation /\ n.stop = m.stop
      /\ n.close = m.close /\ n.admission = m.admission
  BY <1>1 DEF DriveCall
<1> QED BY ONLY <1>1, <1>3, <1>4

\* A driver that has admitted the removal or knows that there is none.
LEMMA AdmitsIs ==
    ASSUME Types, NEW c \in Caller, NEW admission \in {"Preserve", "Replaced", "Remove"},
           AdmissionIs(c, admission), calls[c] \in DriveCall
    PROVE  \E n \in DriveCall :
             /\ calls' = [calls EXCEPT ![c] = n] /\ n.at = "closing"
             /\ n.admission = admission
             /\ n.operation = calls[c].operation /\ n.stop = calls[c].stop
             /\ n.close = calls[c].close
<1>1. PICK m, n : m = calls[c] /\ n = [m EXCEPT !.at = "closing", !.admission = admission]
  OBVIOUS
<1>2. calls' = [calls EXCEPT ![c] = [calls[c] EXCEPT !.at = "closing", !.admission = admission]]
  BY Zenon DEF AdmissionIs
<1>3. calls' = [calls EXCEPT ![c] = n]
  BY <1>1, <1>2
<1>4. /\ n \in DriveCall /\ n.at = "closing" /\ n.admission = admission
      /\ n.operation = m.operation /\ n.stop = m.stop /\ n.close = m.close
  BY <1>1 DEF DriveCall, Closing
<1> QED BY ONLY <1>1, <1>3, <1>4

\* A driver that has advanced its close and goes on.
LEMMA ClosedIs ==
    ASSUME Types, NEW c \in Caller, Goes(c, "closed"), calls[c] \in DriveCall
    PROVE  \E n \in DriveCall :
             /\ calls' = [calls EXCEPT ![c] = n] /\ n.at = "closed"
             /\ n.operation = calls[c].operation /\ n.stop = calls[c].stop
             /\ n.close = calls[c].close /\ n.admission = calls[c].admission
             /\ n.outcome = calls[c].outcome
<1>1. PICK m, n : m = calls[c] /\ n = [m EXCEPT !.at = "closed"]
  OBVIOUS
<1>2. calls' = [calls EXCEPT ![c] = n]
  BY <1>1 DEF Goes
<1>3. /\ n \in DriveCall /\ n.at = "closed" /\ n.operation = m.operation
      /\ n.stop = m.stop /\ n.close = m.close /\ n.admission = m.admission
      /\ n.outcome = m.outcome
  BY <1>1 DEF DriveCall, Closing
<1> QED BY ONLY <1>1, <1>2, <1>3

\* The permit: who holds it changes, and the rest of the world does not.
Repermitted(old, w) ==
    /\ w \in World /\ w.workspace = old.workspace /\ w.session = old.session
    /\ w.started = old.started /\ w.bound = old.bound /\ w.closing = old.closing
    /\ w.handed = old.handed

\* A world with another permit.
LEMMA RepermittedIs ==
    ASSUME NEW old \in World, NEW p \in Attempt \cup {None}, NEW w, w = [old EXCEPT !.permit = p]
    PROVE  Repermitted(old, w) /\ w.permit = p
BY DEF Repermitted, World

\* What a driver does about the checkout before it stops the session.
LEMMA AdmitRemovalIs ==
    ASSUME SpawnInv, NEW c \in Caller, AdmitRemoval(c),
           NEW m, m = calls[c], NEW o, o = m.operation, NEW old, old = world[o],
           NEW a, a = m.stop
    PROVE  /\ UNCHANGED <<journal, stops, closes>> /\ m # None /\ m.at = "driving"
           /\ \E n \in DriveCall, w \in World :
                /\ calls' = [calls EXCEPT ![c] = n] /\ world' = [world EXCEPT ![o] = w]
                /\ n.operation = o /\ n.stop = a /\ n.close = m.close
                /\ Repermitted(old, w)
                /\ \/ /\ n.at = "terminalizing" /\ n.outcome = "SourceRetained"
                      /\ closes[o][m.close] = "SourceRetained"
                      /\ w.permit = IF old.permit = a THEN None ELSE old.permit
                   \/ /\ n.at = "closing" /\ n.admission = "Preserve"
                      /\ ~stops[a].remove /\ w = old
                   \/ /\ n.at = "closing" /\ n.admission = "Replaced" /\ stops[a].remove
                      /\ old.workspace = "replaced" /\ old.permit # a /\ w = old
                   \/ /\ n.at = "closing" /\ n.admission = "Remove" /\ stops[a].remove
                      /\ w.permit \in {old.permit, a}
<1>1. /\ UNCHANGED <<journal, stops, closes>> /\ m # None /\ m.at = "driving"
      /\ m.at \in Closing /\ Types
  BY DEF AdmitRemoval, Keeps, At, Closing, SpawnInv
<1>2. /\ m \in DriveCall /\ o \in Operation /\ a \in Attempt \cup {None} /\ old \in World
  BY <1>1, DriverReads DEF Types
<1>3. old.permit \in Attempt \cup {None} /\ Repermitted(old, old)
  BY <1>2 DEF World, Repermitted
<1>4. world = [world EXCEPT ![o] = old]
  BY <1>1, <1>2, WorldStays
<1>5. CASE /\ closes[o][m.close] = "SourceRetained"
           /\ world' = [world EXCEPT ![o].permit = IF @ = a THEN None ELSE @]
           /\ OutcomeIs(c, "terminalizing", "SourceRetained")
  <2>1. PICK p \in Attempt \cup {None} : p = IF old.permit = a THEN None ELSE old.permit
    BY <1>3
  <2>2. PICK w : w = [old EXCEPT !.permit = p]
    OBVIOUS
  <2>3. world' = [world EXCEPT ![o] = w]
    <3>1. world' = [world EXCEPT ![o] = [world[o] EXCEPT !.permit =
                      IF world[o].permit = a THEN None ELSE world[o].permit]]
      BY <1>5, Zenon
    <3> QED BY <2>1, <2>2, <3>1
  <2>4. Repermitted(old, w) /\ w.permit = p /\ w \in World
    BY <1>2, <2>2, RepermittedIs DEF Repermitted
  <2>5. "terminalizing" \in Closing /\ "SourceRetained" \in {None, "Stopped"} \cup Terminal
    BY DEF Closing, Terminal
  <2>6. PICK n \in DriveCall :
          /\ calls' = [calls EXCEPT ![c] = n] /\ n.at = "terminalizing"
          /\ n.outcome = "SourceRetained" /\ n.operation = o /\ n.stop = a
          /\ n.close = m.close
    BY <1>1, <1>2, <1>5, <2>5, OutcomeIsIs
  <2> QED BY <1>1, <1>5, <2>1, <2>3, <2>4, <2>6
<1>6. ASSUME NEW admission \in {"Preserve", "Replaced", "Remove"},
             AdmissionIs(c, admission)
      PROVE  \E n \in DriveCall :
               /\ calls' = [calls EXCEPT ![c] = n] /\ n.at = "closing"
               /\ n.admission = admission
               /\ n.operation = o /\ n.stop = a /\ n.close = m.close
  BY <1>1, <1>2, <1>6, AdmitsIs
<1>7. CASE /\ ~stops[a].remove /\ UNCHANGED world
           /\ AdmissionIs(c, "Preserve")
  BY <1>1, <1>2, <1>3, <1>4, <1>6, <1>7
<1>8. CASE /\ stops[a].remove /\ UNCHANGED world
           /\ old.workspace = "replaced" /\ old.permit # a
           /\ AdmissionIs(c, "Replaced")
  BY <1>1, <1>2, <1>3, <1>4, <1>6, <1>8
<1>9. CASE /\ stops[a].remove
           /\ world' = [world EXCEPT ![o].permit = IF world[o].workspace = "removed" THEN @ ELSE a]
           /\ AdmissionIs(c, "Remove")
  <2>1. PICK p \in Attempt \cup {None} : p = IF old.workspace = "removed" THEN old.permit ELSE a
    BY <1>2, <1>3
  <2>2. PICK w : w = [old EXCEPT !.permit = p]
    OBVIOUS
  <2>3. world' = [world EXCEPT ![o] = w]
    <3>1. world' = [world EXCEPT ![o] = [world[o] EXCEPT !.permit =
                      IF world[o].workspace = "removed" THEN world[o].permit ELSE a]]
      BY <1>9, Zenon
    <3> QED BY <2>1, <2>2, <3>1
  <2>4. Repermitted(old, w) /\ w.permit \in {old.permit, a} /\ w \in World
    BY <1>2, <2>1, <2>2, RepermittedIs DEF Repermitted
  <2>5. PICK n \in DriveCall :
          /\ calls' = [calls EXCEPT ![c] = n] /\ n.at = "closing" /\ n.admission = "Remove"
          /\ n.operation = o /\ n.stop = a /\ n.close = m.close
    BY <1>6, <1>9
  <2> QED BY <1>1, <1>9, <2>3, <2>4, <2>5
<1> QED BY <1>5, <1>7, <1>8, <1>9 DEF AdmitRemoval, CloseState

\* Whether the session was stopped, and what the driver reports of it.
LEMMA StopSessionIs ==
    ASSUME SpawnInv, NEW c \in Caller, StopSession(c),
           NEW m, m = calls[c], NEW o, o = m.operation, NEW old, old = world[o]
    PROVE  /\ UNCHANGED <<journal, stops, closes>> /\ m # None /\ m.at = "closing"
           /\ \E n \in DriveCall, w \in World :
                /\ calls' = [calls EXCEPT ![c] = n] /\ world' = [world EXCEPT ![o] = w]
                /\ n.operation = o /\ n.stop = m.stop /\ n.close = m.close
                /\ n.admission = m.admission
                /\ w.workspace = old.workspace /\ w.session \in {old.session, "stopped"}
                /\ w.started = old.started /\ w.bound = old.bound /\ w.closing = old.closing
                /\ w.handed = old.handed /\ w.permit = old.permit
                /\ \/ n.at = "closed" /\ closes[o][m.close] = "Stopped" /\ n.outcome = "Stopped"
                   \/ /\ n.at = "advancing" /\ closes[o][m.close] = "Admitted"
                      /\ n.outcome \in {"Stopped", "SourceRetained"}
                      /\ n.outcome = "Stopped" =>
                           w.session = "stopped" \/ w.closing # w.started
<1>1. /\ UNCHANGED <<journal, stops, closes>> /\ m # None /\ m.at = "closing"
      /\ m.at \in Closing /\ Types
  BY DEF StopSession, Keeps, At, Closing, SpawnInv
<1>2. m \in DriveCall /\ o \in Operation /\ old \in World
  BY <1>1, DriverReads DEF Types
<1>3. PICK w : w = [old EXCEPT !.session = "stopped"]
  OBVIOUS
<1>4. /\ w \in World /\ w.workspace = old.workspace /\ w.session = "stopped"
      /\ w.started = old.started /\ w.bound = old.bound /\ w.closing = old.closing
      /\ w.handed = old.handed /\ w.permit = old.permit
  BY <1>2, <1>3 DEF World
<1>5. /\ world = [world EXCEPT ![o] = old]
      /\ [world EXCEPT ![o].session = "stopped"] = [world EXCEPT ![o] = w]
  BY <1>1, <1>2, <1>3, WorldStays
<1>6. ASSUME NEW at \in {"closed", "advancing"}, NEW outcome \in {"Stopped", "SourceRetained"},
             OutcomeIs(c, at, outcome)
      PROVE  \E n \in DriveCall :
               /\ calls' = [calls EXCEPT ![c] = n] /\ n.at = at /\ n.outcome = outcome
               /\ n.operation = o /\ n.stop = m.stop /\ n.close = m.close
               /\ n.admission = m.admission
  <2>1. at \in Closing /\ outcome \in {None, "Stopped"} \cup Terminal
    BY DEF Closing, Terminal
  <2> QED BY <1>1, <1>2, <1>6, <2>1, OutcomeIsIs
<1>7. CASE /\ closes[o][m.close] = "Stopped" /\ UNCHANGED world
           /\ OutcomeIs(c, "closed", "Stopped")
  BY <1>1, <1>2, <1>5, <1>6, <1>7
<1>8. CASE /\ closes[o][m.close] = "Admitted" /\ OutcomeIs(c, "advancing", "Stopped")
           /\ world' = IF world[o].closing = world[o].started
                       THEN [world EXCEPT ![o].session = "stopped"] ELSE world
  <2>1. PICK n \in DriveCall :
          /\ calls' = [calls EXCEPT ![c] = n] /\ n.at = "advancing" /\ n.outcome = "Stopped"
          /\ n.operation = o /\ n.stop = m.stop /\ n.close = m.close
          /\ n.admission = m.admission
    BY <1>6, <1>8
  <2>2. CASE old.closing = old.started
    <3>1. world' = [world EXCEPT ![o] = w]
      BY <1>5, <1>8, <2>2
    <3> QED BY <1>1, <1>4, <1>8, <2>1, <3>1
  <2>3. CASE old.closing # old.started
    <3>1. world' = [world EXCEPT ![o] = old]
      BY <1>5, <1>8, <2>3
    <3> QED BY <1>1, <1>2, <1>8, <2>1, <2>3, <3>1
  <2> QED BY <2>2, <2>3
<1>9. CASE /\ closes[o][m.close] = "Admitted" /\ OutcomeIs(c, "advancing", "SourceRetained")
           /\ UNCHANGED world
  BY <1>1, <1>2, <1>5, <1>6, <1>9
<1> QED BY <1>7, <1>8, <1>9 DEF StopSession, CloseState

\* The permit of a stop whose session was kept is released.
LEMMA KeepSourceIs ==
    ASSUME SpawnInv, NEW c \in Caller, KeepSource(c),
           NEW m, m = calls[c], NEW o, o = m.operation, NEW old, old = world[o]
    PROVE  /\ UNCHANGED <<journal, stops, closes>> /\ m # None
           /\ m.at = "closed" /\ m.outcome = "SourceRetained"
           /\ \E n \in DriveCall, w \in World :
                /\ calls' = [calls EXCEPT ![c] = n] /\ world' = [world EXCEPT ![o] = w]
                /\ n.operation = o /\ n.stop = m.stop /\ n.close = m.close
                /\ n.at = "terminalizing" /\ n.outcome = "SourceRetained"
                /\ Repermitted(old, w)
                /\ w.permit = IF m.admission = "Remove" THEN None ELSE old.permit
<1>1. /\ UNCHANGED <<journal, stops, closes>> /\ m # None /\ m.at = "closed"
      /\ m.outcome = "SourceRetained" /\ m.at \in Closing /\ Types
  BY DEF KeepSource, Keeps, At, Closing, SpawnInv
<1>2. m \in DriveCall /\ o \in Operation /\ old \in World
  BY <1>1, DriverReads DEF Types
<1>3. PICK w : /\ w \in World /\ world' = [world EXCEPT ![o] = w] /\ Repermitted(old, w)
               /\ w.permit = IF m.admission = "Remove" THEN None ELSE old.permit
  <2>1. CASE m.admission = "Remove"
    <3>1. PICK w : w = [old EXCEPT !.permit = None]
      OBVIOUS
    <3>2. world' = [world EXCEPT ![o] = w]
      BY <2>1, <3>1 DEF KeepSource
    <3>3. Repermitted(old, w) /\ w.permit = None
      BY <1>2, <3>1, RepermittedIs
    <3> QED BY <2>1, <3>2, <3>3 DEF Repermitted
  <2>2. CASE m.admission # "Remove"
    <3>1. world' = [world EXCEPT ![o] = old]
      BY <1>1, <1>2, <2>2, WorldStays DEF KeepSource
    <3>2. Repermitted(old, old)
      BY <1>2 DEF Repermitted
    <3> QED BY <1>2, <2>2, <3>1, <3>2
  <2> QED BY <2>1, <2>2
<1>4. "terminalizing" \in Closing /\ "SourceRetained" \in {None, "Stopped"} \cup Terminal
  BY DEF Closing, Terminal
<1>5. OutcomeIs(c, "terminalizing", "SourceRetained")
  BY DEF KeepSource
<1>6. PICK n \in DriveCall :
        /\ calls' = [calls EXCEPT ![c] = n] /\ n.at = "terminalizing"
        /\ n.outcome = "SourceRetained" /\ n.operation = o /\ n.stop = m.stop
        /\ n.close = m.close
  BY <1>1, <1>2, <1>4, <1>5, OutcomeIsIs
<1> QED BY <1>1, <1>3, <1>6

\* What becomes of the checkout once the session has stopped.
LEMMA SettleCheckoutIs ==
    ASSUME SpawnInv, NEW c \in Caller, SettleCheckout(c),
           NEW m, m = calls[c], NEW o, o = m.operation, NEW old, old = world[o]
    PROVE  /\ UNCHANGED <<journal, stops, closes>> /\ m # None
           /\ m.at = "closed" /\ m.outcome = "Stopped"
           /\ \E n \in DriveCall, w \in World :
                /\ calls' = [calls EXCEPT ![c] = n] /\ world' = [world EXCEPT ![o] = w]
                /\ n.operation = o /\ n.stop = m.stop /\ n.close = m.close
                /\ n.at = "terminalizing"
                /\ w.session = old.session /\ w.started = old.started
                /\ w.bound = old.bound /\ w.closing = old.closing /\ w.handed = old.handed
                /\ \/ n.outcome = "WorkspacePreserved" /\ m.admission = "Preserve" /\ w = old
                   \/ /\ n.outcome = "WorkspaceReplaced" /\ w = old
                      /\ \/ m.admission = "Replaced"
                         \/ m.admission = "Remove" /\ old.workspace = "replaced"
                   \/ /\ n.outcome = "Succeeded" /\ m.admission = "Remove"
                      /\ old.workspace # "replaced"
                      /\ w.workspace = "removed" /\ w.permit = None
<1>1. /\ UNCHANGED <<journal, stops, closes>> /\ m # None /\ m.at = "closed"
      /\ m.outcome = "Stopped" /\ m.at \in Closing /\ Types
  BY DEF SettleCheckout, Keeps, At, Closing, SpawnInv
<1>2. m \in DriveCall /\ o \in Operation /\ old \in World
  BY <1>1, DriverReads DEF Types
<1>3. ASSUME NEW outcome \in Terminal, OutcomeIs(c, "terminalizing", outcome)
      PROVE  \E n \in DriveCall :
               /\ calls' = [calls EXCEPT ![c] = n] /\ n.at = "terminalizing"
               /\ n.outcome = outcome /\ n.operation = o /\ n.stop = m.stop
               /\ n.close = m.close
  <2>1. "terminalizing" \in Closing /\ outcome \in {None, "Stopped"} \cup Terminal
    BY DEF Closing
  <2> QED BY <1>1, <1>2, <1>3, <2>1, OutcomeIsIs
<1>4. /\ "WorkspacePreserved" \in Terminal /\ "WorkspaceReplaced" \in Terminal
      /\ "Succeeded" \in Terminal
  BY DEF Terminal
<1>5. world = [world EXCEPT ![o] = old]
  BY <1>1, <1>2, WorldStays
<1>6. CASE /\ m.admission = "Preserve" /\ UNCHANGED world
           /\ OutcomeIs(c, "terminalizing", "WorkspacePreserved")
  BY <1>1, <1>2, <1>3, <1>4, <1>5, <1>6
<1>7. CASE /\ m.admission = "Replaced" \/ (m.admission = "Remove" /\ old.workspace = "replaced")
           /\ UNCHANGED world /\ OutcomeIs(c, "terminalizing", "WorkspaceReplaced")
  BY <1>1, <1>2, <1>3, <1>4, <1>5, <1>7
<1>8. CASE /\ m.admission = "Remove" /\ old.workspace # "replaced"
           /\ world' = [world EXCEPT ![o].workspace = "removed", ![o].permit = None]
           /\ OutcomeIs(c, "terminalizing", "Succeeded")
  <2>1. PICK w : w = [old EXCEPT !.workspace = "removed", !.permit = None]
    OBVIOUS
  <2>2. world' = [world EXCEPT ![o] = w]
    <3>1. world' = [world EXCEPT ![o] = [world[o] EXCEPT !.workspace = "removed",
                                                         !.permit = None]]
      BY <1>8, Zenon
    <3> QED BY <2>1, <3>1
  <2>3. /\ w \in World /\ w.workspace = "removed" /\ w.session = old.session
        /\ w.started = old.started /\ w.bound = old.bound /\ w.closing = old.closing
        /\ w.handed = old.handed /\ w.permit = None
    BY <1>2, <2>1 DEF World
  <2>4. PICK n \in DriveCall :
          /\ calls' = [calls EXCEPT ![c] = n] /\ n.at = "terminalizing"
          /\ n.outcome = "Succeeded" /\ n.operation = o /\ n.stop = m.stop
          /\ n.close = m.close
    BY <1>3, <1>4, <1>8
  <2> QED BY <1>1, <1>8, <2>2, <2>3, <2>4
<1> QED BY <1>6, <1>7, <1>8 DEF SettleCheckout

\* The close gets the outcome that the driver has seen.
LEMMA AdvanceCloseIs ==
    ASSUME SpawnInv, NEW c \in Caller, AdvanceClose(c),
           NEW m, m = calls[c], NEW o, o = m.operation
    PROVE  /\ UNCHANGED <<journal, world, stops>> /\ m # None /\ m.at = "advancing"
           /\ m.outcome \in {"Stopped", "SourceRetained"}
           /\ closes' \in [Operation -> [Closes -> {"none", "Admitted", "Stopped",
                                                    "SourceRetained"}]]
           /\ closes'[o][m.close] = m.outcome
           /\ \A p \in Operation, k \in Closes :
                p # o \/ k # m.close => closes'[p][k] = closes[p][k]
           /\ \E n \in DriveCall \cup {None} :
                /\ calls' = [calls EXCEPT ![c] = n]
                /\ m.stop = None => n = None
                /\ n # None =>
                     /\ n.operation = o /\ n.stop = m.stop /\ n.close = m.close
                     /\ n.at = "closed" /\ n.admission = m.admission /\ n.outcome = m.outcome
<1>1. /\ UNCHANGED <<journal, world, stops>> /\ m # None /\ m.at = "advancing"
      /\ m.at \in Closing /\ Types
  BY DEF AdvanceClose, At, Closing, SpawnInv
<1>2. /\ m \in DriveCall /\ o \in Operation /\ m.close \in Closes
      /\ m.outcome \in {"Stopped", "SourceRetained"}
  BY <1>1, DriverReads DEF OutcomeFits
<1>3. PICK k, x : k = m.close /\ x = m.outcome
  OBVIOUS
<1>4. closes' = [closes EXCEPT ![o][k] = x]
  BY <1>3 DEF AdvanceClose
<1>5. /\ closes' \in [Operation -> [Closes -> {"none", "Admitted", "Stopped", "SourceRetained"}]]
      /\ closes'[o][k] = x
      /\ \A p \in Operation, j \in Closes : p # o \/ j # k => closes'[p][j] = closes[p][j]
  BY <1>1, <1>2, <1>3, <1>4 DEF Types
<1>6. CASE m.stop = None /\ Return(c)
  BY <1>1, <1>2, <1>3, <1>5, <1>6 DEF Return
<1>7. CASE m.stop # None /\ Goes(c, "closed")
  <2>1. PICK n \in DriveCall :
          /\ calls' = [calls EXCEPT ![c] = n] /\ n.at = "closed" /\ n.operation = o
          /\ n.stop = m.stop /\ n.close = m.close /\ n.admission = m.admission
          /\ n.outcome = m.outcome
    BY <1>1, <1>2, <1>7, ClosedIs
  <2> QED BY <1>1, <1>2, <1>3, <1>5, <1>7, <2>1
<1> QED BY <1>6, <1>7 DEF AdvanceClose

\* The outcome is recorded for the stop, and for no other.
LEMMA TerminalizeIs ==
    ASSUME SpawnInv, NEW c \in Caller, Terminalize(c),
           NEW m, m = calls[c], NEW o, o = m.operation, NEW a, a = m.stop
    PROVE  /\ UNCHANGED <<journal, world, closes>> /\ m # None /\ m.at = "terminalizing"
           /\ calls' = [calls EXCEPT ![c] = None]
           /\ stops' \in [Attempt -> StopRecord \cup {None}]
           /\ \A b \in Attempt : b # a => stops'[b] = stops[b]
           /\ a # None =>
                /\ stops[a] # None /\ stops'[a] # None
                /\ stops'[a].operation = stops[a].operation
                /\ stops'[a].fence = stops[a].fence /\ (stops'[a].remove <=> stops[a].remove)
                /\ stops'[a].child = stops[a].child
                /\ stops'[a].state =
                     IF stops[a].state = "Authorized" THEN m.outcome ELSE stops[a].state
<1>1. /\ UNCHANGED <<journal, world, closes>> /\ m # None /\ m.at = "terminalizing"
      /\ calls' = [calls EXCEPT ![c] = None] /\ m.at \in Closing /\ Types
  BY DEF Terminalize, At, Closing, SpawnInv, Return
<1>2. /\ a \in Attempt \cup {None} /\ (a # None => stops[a] # None) /\ m.outcome \in Terminal
  BY <1>1, DriverReads DEF OutcomeFits
<1>3. PICK x : x = IF stops[a].state = "Authorized" THEN m.outcome ELSE stops[a].state
  OBVIOUS
<1>4. stops' = [stops EXCEPT ![a].state = x]
  <2>1. stops' = [stops EXCEPT ![a].state = IF stops[a].state = "Authorized" THEN m.outcome
                                            ELSE stops[a].state]
    BY Zenon DEF Terminalize
  <2> QED BY <1>3, <2>1
<1>5. CASE a = None
  BY <1>1, <1>4, <1>5, StopAssumption DEF Types
<1>6. CASE a # None
  <2>1. PICK s, t : s = stops[a] /\ t = [s EXCEPT !.state = x]
    OBVIOUS
  <2>2. s \in StopRecord
    BY <1>1, <1>2, <1>6, <2>1 DEF Types
  <2>3. x \in Active \cup Terminal \cup {"Superseded"}
    BY <1>2, <1>3, <2>1, <2>2 DEF StopRecord
  <2>4. /\ t \in StopRecord /\ t.operation = s.operation /\ t.fence = s.fence
        /\ (t.remove <=> s.remove) /\ t.child = s.child /\ t.state = x
    BY <2>1, <2>2, <2>3 DEF StopRecord
  <2>5. stops' = [stops EXCEPT ![a] = t]
    BY <1>4, <2>1
  <2>6. /\ stops'[a] = t /\ stops' \in [Attempt -> StopRecord \cup {None}]
        /\ \A b \in Attempt : b # a => stops'[b] = stops[b]
    BY <1>1, <1>2, <1>6, <2>4, <2>5 DEF Types
  <2>7. t # None
    BY <2>4, StopAssumption
  <2> QED BY <1>1, <1>2, <1>3, <2>1, <2>4, <2>6, <2>7
<1> QED BY <1>5, <1>6

\* A close names the session that is bound, and the rest of the world does not change.
Renamed(old, w) ==
    /\ w \in World /\ w.workspace = old.workspace /\ w.session = old.session
    /\ w.started = old.started /\ w.bound = old.bound /\ w.closing = old.bound
    /\ w.handed = old.handed /\ w.permit = old.permit

\* A close that is admitted.
LEMMA NamesIs ==
    ASSUME Types, NEW o \in Operation, NEW old, old = world[o]
    PROVE  \E w \in World : Names(o) = [world EXCEPT ![o] = w] /\ Renamed(old, w)
<1>1. PICK w : w = [old EXCEPT !.closing = old.bound]
  OBVIOUS
<1>2. old \in World
  BY DEF Types
<1>3. w \in World /\ Renamed(old, w)
  BY <1>1, <1>2 DEF World, Renamed
<1>4. Names(o) = [world EXCEPT ![o] = w]
  BY <1>1 DEF Names
<1> QED BY <1>3, <1>4

\* The session that an authorized stop ends: that of the close it continues, or the one the
\* selection names when no close holds the runtime.
NamedBy(a, o, k, w) ==
    \/ w = world[o] /\ closes[o][k] # "none"
    \/ Renamed(world[o], w) /\ k = a /\ Effective(o) = {}

\* A stop is authorized together with the close it uses.
LEMMA AuthorizeStopIs ==
    ASSUME SpawnInv, NEW c \in Caller, NEW a \in Attempt, AuthorizeStop(c, a),
           NEW s, s = stops[a], NEW o, o = s.operation, NEW k, k = Child(a)
    PROVE  /\ UNCHANGED journal /\ calls[c] = None /\ LockFree(o)
           /\ \E w \in World : world' = [world EXCEPT ![o] = w] /\ NamedBy(a, o, k, w)
           /\ s \in StopRecord /\ s.state = "Planned" /\ o \in Operation /\ k \in Closes
           /\ world[o].bound # 0
           /\ k = a \/ (k # a /\ closes[o][k] # "none")
           /\ stops' \in [Attempt -> StopRecord \cup {None}]
           /\ \A b \in Attempt : b # a => stops'[b] = stops[b]
           /\ stops'[a] # None /\ stops'[a].operation = o /\ stops'[a].fence = s.fence
           /\ (stops'[a].remove <=> s.remove) /\ stops'[a].child = k
           /\ stops'[a].state = "Authorized"
           /\ closes' \in [Operation -> [Closes -> {"none", "Admitted", "Stopped",
                                                    "SourceRetained"}]]
           /\ \A p \in Operation, j \in Closes :
                p # o \/ j # k => closes'[p][j] = closes[p][j]
           /\ closes'[o][k] = IF closes[o][k] = "none" THEN "Admitted" ELSE closes[o][k]
           /\ \E n \in DriveCall :
                /\ calls' = [calls EXCEPT ![c] = n] /\ n.at = "driving" /\ n.operation = o
                /\ n.stop = a /\ n.close = k
<1>1. /\ UNCHANGED journal /\ calls[c] = None /\ LockFree(o)
      /\ s # None /\ s.state = "Planned" /\ Types /\ SelectedFirst
  BY DEF AuthorizeStop, SpawnInv
<1>2. s \in StopRecord /\ o \in Operation
  BY <1>1 DEF Types, StopRecord
<1>3. world[o].bound # 0
  BY <1>1 DEF SelectedFirst
<1>4. k \in Closes /\ (k = a \/ (k # a /\ closes[o][k] # "none"))
  <2>1. CASE s.fence = None
    BY <2>1 DEF Child, Closes
  <2>2. CASE s.fence # None
    BY <1>1, <1>2, <2>2 DEF Child, SelectedFirst, StopRecord
  <2> QED BY <2>1, <2>2
<1>5. PICK t : t = [s EXCEPT !.state = "Authorized", !.child = k]
  OBVIOUS
<1>6. /\ t \in StopRecord /\ t.operation = o /\ t.fence = s.fence
      /\ (t.remove <=> s.remove) /\ t.child = k /\ t.state = "Authorized"
  BY <1>2, <1>4, <1>5 DEF StopRecord, Active
<1>7. stops' = [stops EXCEPT ![a] = t]
  <2>1. stops' = [stops EXCEPT ![a] = [stops[a] EXCEPT !.state = "Authorized", !.child = Child(a)]]
    BY Zenon DEF AuthorizeStop
  <2> QED BY <1>5, <2>1
<1>8. /\ stops'[a] = t /\ stops' \in [Attempt -> StopRecord \cup {None}] /\ t # None
      /\ \A b \in Attempt : b # a => stops'[b] = stops[b]
  BY <1>1, <1>6, <1>7, StopAssumption DEF Types
<1>9. PICK x : x = IF closes[o][k] = "none" THEN "Admitted" ELSE closes[o][k]
  OBVIOUS
<1>10. closes' = [closes EXCEPT ![o][k] = x]
  <2>1. closes' = [closes EXCEPT ![o][k] = IF closes[o][k] = "none" THEN "Admitted"
                                           ELSE closes[o][k]]
    BY Zenon DEF AuthorizeStop
  <2> QED BY <1>9, <2>1
<1>11. /\ closes' \in [Operation -> [Closes -> {"none", "Admitted", "Stopped", "SourceRetained"}]]
       /\ closes'[o][k] = x
       /\ \A p \in Operation, j \in Closes : p # o \/ j # k => closes'[p][j] = closes[p][j]
  BY <1>1, <1>2, <1>4, <1>9, <1>10 DEF Types
<1>12. PICK n : n = StopCall("driving", a, k)
  OBVIOUS
<1>13. /\ n \in DriveCall /\ n.at = "driving" /\ n.operation = o /\ n.stop = a /\ n.close = k
  BY <1>2, <1>4, <1>12 DEF StopCall, DriveCall, Closing
<1>14. calls' = [calls EXCEPT ![c] = n]
  BY <1>12 DEF AuthorizeStop
<1>15. \E w \in World : world' = [world EXCEPT ![o] = w] /\ NamedBy(a, o, k, w)
  <2>1. CASE s.fence = None
    <3>1. world' = Names(o) /\ k = a /\ Effective(o) = {}
      BY <2>1 DEF AuthorizeStop, Converges, Child
    <3>2. PICK w \in World : world' = [world EXCEPT ![o] = w] /\ Renamed(world[o], w)
      BY <1>1, <1>2, <3>1, NamesIs
    <3> QED BY <3>1, <3>2 DEF NamedBy
  <2>2. CASE s.fence # None
    <3>1. world' = world /\ k = s.fence.close
      BY <2>2 DEF AuthorizeStop, Child
    <3>2. closes[o][k] # "none"
      BY <1>1, <2>2, <3>1 DEF SelectedFirst
    <3>3. PICK w : w = world[o]
      OBVIOUS
    <3>4. w \in World /\ world = [world EXCEPT ![o] = w]
      BY <1>1, <1>2, <3>3, WorldStays DEF Types
    <3> QED BY <3>1, <3>2, <3>3, <3>4 DEF NamedBy
  <2> QED BY <2>1, <2>2
<1> QED BY <1>1, <1>2, <1>3, <1>4, <1>6, <1>8, <1>9, <1>11, <1>13, <1>14, <1>15

\* An authorized stop is taken up again.
LEMMA DriveStopIs ==
    ASSUME SpawnInv, NEW c \in Caller, NEW a \in Attempt, DriveStop(c, a),
           NEW s, s = stops[a], NEW o, o = s.operation
    PROVE  /\ UNCHANGED <<journal, world, stops, closes>> /\ calls[c] = None /\ LockFree(o)
           /\ s # None /\ s \in StopRecord /\ s.state = "Authorized" /\ o \in Operation
           /\ world[o].bound # 0 /\ s.child \in Closes /\ closes[o][s.child] # "none"
           /\ \E n \in DriveCall :
                /\ calls' = [calls EXCEPT ![c] = n] /\ n.at = "driving" /\ n.operation = o
                /\ n.stop = a /\ n.close = s.child
<1>1. /\ UNCHANGED <<journal, world, stops, closes>> /\ calls[c] = None /\ LockFree(o)
      /\ s # None /\ s.state = "Authorized" /\ Types /\ SelectedFirst
  BY DEF DriveStop, Keeps, SpawnInv
<1>2. s \in StopRecord /\ o \in Operation
  BY <1>1 DEF Types, StopRecord
<1>3. world[o].bound # 0 /\ s.child \in Closes /\ closes[o][s.child] # "none"
  BY <1>1 DEF SelectedFirst
<1>4. PICK n : n = StopCall("driving", a, s.child)
  OBVIOUS
<1>5. /\ n \in DriveCall /\ n.at = "driving" /\ n.operation = o /\ n.stop = a
      /\ n.close = s.child
  BY <1>2, <1>3, <1>4 DEF StopCall, DriveCall, Closing
<1>6. calls' = [calls EXCEPT ![c] = n]
  BY <1>4 DEF DriveStop
<1> QED BY <1>1, <1>2, <1>3, <1>5, <1>6

\* A plain stop admits its close.
LEMMA AdmitCloseIs ==
    ASSUME SpawnInv, NEW c \in Caller, NEW o \in Operation, AdmitClose(c, o)
    PROVE  /\ UNCHANGED <<journal, stops>> /\ calls[c] = None /\ LockFree(o)
           /\ world[o].bound # 0 /\ closes[o][Plain] = "none" /\ Effective(o) = {}
           /\ \E w \in World : world' = [world EXCEPT ![o] = w] /\ Renamed(world[o], w)
           /\ closes' \in [Operation -> [Closes -> {"none", "Admitted", "Stopped",
                                                    "SourceRetained"}]]
           /\ closes'[o][Plain] = "Admitted"
           /\ \A p \in Operation, k \in Closes :
                p # o \/ k # Plain => closes'[p][k] = closes[p][k]
           /\ \E n \in DriveCall :
                /\ calls' = [calls EXCEPT ![c] = n] /\ n.at = "closing" /\ n.operation = o
                /\ n.stop = None /\ n.close = Plain
<1>1. /\ UNCHANGED <<journal, stops>> /\ calls[c] = None /\ LockFree(o)
      /\ world[o].bound # 0 /\ closes[o][Plain] = "none" /\ Effective(o) = {}
      /\ world' = Names(o) /\ Types
  BY DEF AdmitClose, SpawnInv
<1>2. Plain \in Closes
  BY DEF Closes
<1>3. closes' = [closes EXCEPT ![o][Plain] = "Admitted"]
  BY DEF AdmitClose
<1>4. /\ closes' \in [Operation -> [Closes -> {"none", "Admitted", "Stopped", "SourceRetained"}]]
      /\ closes'[o][Plain] = "Admitted"
      /\ \A p \in Operation, k \in Closes : p # o \/ k # Plain => closes'[p][k] = closes[p][k]
  BY <1>1, <1>2, <1>3 DEF Types
<1>5. PICK n : n = CloseCall(o, Plain)
  OBVIOUS
<1>6. /\ n \in DriveCall /\ n.at = "closing" /\ n.operation = o /\ n.stop = None
      /\ n.close = Plain
  BY <1>2, <1>5 DEF CloseCall, DriveCall, Closing
<1>7. calls' = [calls EXCEPT ![c] = n]
  BY <1>5 DEF AdmitClose
<1>8. \E w \in World : world' = [world EXCEPT ![o] = w] /\ Renamed(world[o], w)
  BY <1>1, NamesIs
<1> QED BY <1>1, <1>4, <1>6, <1>7, <1>8

\* A close that is admitted is taken up, whoever admitted it.
LEMMA DriveCloseIs ==
    ASSUME SpawnInv, NEW c \in Caller, NEW o \in Operation, DriveClose(c, o)
    PROVE  /\ UNCHANGED <<journal, world, stops, closes>> /\ calls[c] = None /\ LockFree(o)
           /\ world[o].bound # 0
           /\ \E n \in DriveCall :
                /\ calls' = [calls EXCEPT ![c] = n] /\ n.at = "closing" /\ n.operation = o
                /\ n.stop = None /\ n.close \in Closes /\ closes[o][n.close] = "Admitted"
<1>1. /\ UNCHANGED <<journal, world, stops, closes>> /\ calls[c] = None /\ LockFree(o)
      /\ SelectedFirst
  BY DEF DriveClose, Keeps, SpawnInv
<1>2. PICK k \in Closes : /\ closes[o][k] = "Admitted"
                          /\ calls' = [calls EXCEPT ![c] = CloseCall(o, k)]
  BY DEF DriveClose, Effective, Closes
<1>3. world[o].bound # 0
  BY <1>1, <1>2 DEF SelectedFirst
<1>4. PICK n : n = CloseCall(o, k)
  OBVIOUS
<1>5. /\ n \in DriveCall /\ n.at = "closing" /\ n.operation = o /\ n.stop = None
      /\ n.close = k
  BY <1>2, <1>4 DEF CloseCall, DriveCall, Closing
<1> QED BY <1>1, <1>2, <1>3, <1>4, <1>5

\* A stop that another plan has replaced.
Superseded(s, t) ==
    /\ s # None /\ t # None /\ s.state = "Planned" /\ t.state = "Superseded"
    /\ t.operation = s.operation /\ t.fence = s.fence
    /\ (t.remove <=> s.remove) /\ t.child = s.child

\* A stop is planned, and the plans that saw another runtime give way.
LEMMA PlanStopIs ==
    ASSUME SpawnInv, NEW a \in Attempt, NEW o \in Operation, NEW remove \in BOOLEAN,
           PlanStop(a, o, remove)
    PROVE  /\ UNCHANGED <<journal, world, calls, closes>> /\ stops[a] = None
           /\ LockFree(o) /\ world[o].bound # 0
           /\ stops' \in [Attempt -> StopRecord \cup {None}]
           /\ stops'[a] # None /\ stops'[a].operation = o /\ stops'[a].state = "Planned"
           /\ stops'[a].fence # None => closes[o][stops'[a].fence.close] # "none"
           /\ \A b \in Attempt : b # a =>
                \/ stops'[b] = stops[b]
                \/ Superseded(stops[b], stops'[b]) /\ stops[b].operation = o
<1>1. /\ UNCHANGED <<journal, world, calls, closes>> /\ stops[a] = None
      /\ LockFree(o) /\ world[o].bound # 0 /\ Types
  BY DEF PlanStop, SpawnInv
<1>2. PICK fence : fence = Fence(o)
  OBVIOUS
<1>3. /\ fence \in [close : Closes, state : {"Admitted", "Stopped"}] \cup {None}
      /\ fence # None => closes[o][fence.close] # "none"
  <2>1. CASE Effective(o) = {}
    BY <1>2, <2>1 DEF Fence
  <2>2. CASE Effective(o) # {}
    <3>1. PICK k : k = CHOOSE j \in Effective(o) : TRUE
      OBVIOUS
    <3>2. k \in Effective(o)
      BY <2>2, <3>1
    <3>3. k \in Closes /\ closes[o][k] \in {"Admitted", "Stopped"}
      BY <3>2 DEF Effective, Closes
    <3>4. fence = [close |-> k, state |-> closes[o][k]]
      BY <1>2, <2>2, <3>1 DEF Fence
    <3> QED BY <3>3, <3>4
  <2> QED BY <2>1, <2>2
<1>4. PICK s : s = [operation |-> o, state |-> "Planned", fence |-> fence,
                    remove |-> remove, child |-> None]
  OBVIOUS
<1>5. s \in StopRecord /\ s # None /\ s.operation = o /\ s.state = "Planned" /\ s.fence = fence
  BY <1>3, <1>4, StopAssumption DEF StopRecord, Active
<1>6. stops' = [b \in Attempt |->
                  IF b = a THEN s
                  ELSE IF b \in ActiveStops(o) THEN [stops[b] EXCEPT !.state = "Superseded"]
                  ELSE stops[b]]
  BY <1>2, <1>4 DEF PlanStop
<1>7. ASSUME NEW b \in Attempt, b # a
      PROVE  /\ stops'[b] \in StopRecord \cup {None}
             /\ \/ stops'[b] = stops[b]
                \/ Superseded(stops[b], stops'[b]) /\ stops[b].operation = o
  <2>1. CASE b \notin ActiveStops(o)
    BY <1>1, <1>6, <1>7, <2>1 DEF Types
  <2>2. CASE b \in ActiveStops(o)
    <3>1. PICK old, t : old = stops[b] /\ t = [old EXCEPT !.state = "Superseded"]
      OBVIOUS
    <3>2. /\ old # None /\ old.operation = o /\ old \in StopRecord /\ old.state = "Planned"
      BY <1>1, <2>2, <3>1 DEF ActiveStops, Types, PlanStop, Supersedable
    <3>3. /\ t \in StopRecord /\ t.state = "Superseded" /\ t.operation = old.operation
          /\ t.fence = old.fence /\ (t.remove <=> old.remove) /\ t.child = old.child
      BY <3>1, <3>2 DEF StopRecord
    <3>4. stops'[b] = t /\ t # None
      BY <1>6, <1>7, <2>2, <3>1, <3>3, StopAssumption
    <3> QED BY <3>1, <3>2, <3>3, <3>4 DEF Superseded
  <2> QED BY <2>1, <2>2
<1>8. stops'[a] = s
  BY <1>6
<1>9. stops' \in [Attempt -> StopRecord \cup {None}]
  <2>1. \A b \in Attempt : stops'[b] \in StopRecord \cup {None}
    BY <1>5, <1>7, <1>8
  <2>2. stops' = [b \in Attempt |-> stops'[b]]
    BY <1>6
  <2> QED BY <2>1, <2>2
<1> QED BY <1>1, <1>3, <1>5, <1>7, <1>8, <1>9

\* A plan of a stop changes no spawn.
LEMMA PlanStopStep ==
    ASSUME SpawnInv, NEW a \in Attempt, NEW o \in Operation, NEW remove \in BOOLEAN,
           PlanStop(a, o, remove)
    PROVE  SpawnInv'
<1>1. /\ UNCHANGED <<journal, world, calls, closes>> /\ world[o].bound # 0 /\ stops[a] = None
      /\ stops' \in [Attempt -> StopRecord \cup {None}]
      /\ stops'[a] # None /\ stops'[a].operation = o /\ stops'[a].state = "Planned"
      /\ stops'[a].fence # None => closes[o][stops'[a].fence.close] # "none"
  BY PlanStopIs
<1>2. \A b \in Attempt : b # a =>
        \/ stops'[b] = stops[b]
        \/ Superseded(stops[b], stops'[b]) /\ stops[b].operation = o
  BY PlanStopIs
<1>3. Types' /\ Journals' /\ OneOperation' /\ Exclusive'
  BY <1>1 DEF SpawnInv, Types, Journals, OneOperation, Exclusive, Exists, Holds
<1>4. SelectedFirst'
  <2>1. SelectedFirst
    BY DEF SpawnInv
  <2>2. \A p \in Operation, k \in Closes : closes'[p][k] # "none" => world'[p].bound # 0
    BY <1>1, <2>1 DEF SelectedFirst
  <2>3. ASSUME NEW b \in Attempt, stops'[b] # None
        PROVE  /\ world'[stops'[b].operation].bound # 0
               /\ stops'[b].fence # None =>
                    closes'[stops'[b].operation][stops'[b].fence.close] # "none"
               /\ stops'[b].state = "Authorized" =>
                    /\ stops'[b].child \in Closes
                    /\ closes'[stops'[b].operation][stops'[b].child] # "none"
    <3>1. CASE b = a
      BY <1>1, <3>1
    <3>2. CASE b # a /\ stops'[b] = stops[b]
      BY <1>1, <2>1, <2>3, <3>2 DEF SelectedFirst
    <3>3. CASE b # a /\ Superseded(stops[b], stops'[b])
      BY <1>1, <2>1, <3>3 DEF SelectedFirst, Superseded
    <3> QED BY <1>2, <3>1, <3>2, <3>3
  <2> QED BY <2>2, <2>3 DEF SelectedFirst
<1>5. \A b \in Attempt : stops[b] # None => stops'[b] # None
  BY <1>1, <1>2 DEF Superseded
<1>6. Calls'
  <2> SUFFICES ASSUME NEW d \in Caller, calls'[d] # None PROVE CallFits(calls[d])'
    BY DEF Calls
  <2>1. PICK n : n = calls[d]
    OBVIOUS
  <2>2. n # None /\ n \in SpawnCall \cup DriveCall /\ CallFits(n)
    BY <1>1, <2>1 DEF SpawnInv, Types, Calls
  <2>3. n.at \in Closing => n.stop \in Attempt \cup {None}
    <3>1. n.at \in Closing => n \in DriveCall
      BY <2>2 DEF SpawnCall, Applying, Recording, Closing
    <3> QED BY <3>1 DEF DriveCall
  <2>4. CallFits(n)'
    BY <1>1, <1>5, <2>2, <2>3, CallKept
  <2>5. calls'[d] = n
    BY <1>1, <2>1
  <2> QED BY <2>4, <2>5 DEF CallFits
<1> QED BY <1>3, <1>4, <1>6 DEF SpawnInv

\* Somebody else's checkout in the place of the agent's is still a checkout.
LEMMA ReplaceCheckoutIs ==
    ASSUME SpawnInv, NEW o \in Operation, ReplaceCheckout(o), NEW old, old = world[o]
    PROVE  /\ UNCHANGED <<journal, calls, stops, closes>>
           /\ old.workspace = "kept" /\ old # Untouched
           /\ \E w \in World :
                /\ world' = [world EXCEPT ![o] = w] /\ w.workspace = "replaced"
                /\ w.session = old.session /\ Alike(old, w)
<1>1. /\ UNCHANGED <<journal, calls, stops, closes>> /\ old.workspace = "kept"
      /\ old \in World
  BY DEF ReplaceCheckout, Keeps, SpawnInv, Types
<1>2. PICK w : w = [old EXCEPT !.workspace = "replaced"]
  OBVIOUS
<1>3. /\ w \in World /\ w.workspace = "replaced" /\ w.session = old.session /\ Alike(old, w)
  BY <1>1, <1>2 DEF World, Alike
<1>4. world' = [world EXCEPT ![o] = w]
  BY <1>2 DEF ReplaceCheckout
<1>5. old # Untouched
  BY <1>1 DEF Untouched
<1> QED BY <1>1, <1>3, <1>4, <1>5

\* It changes nothing else.
LEMMA ReplaceCheckoutStep ==
    ASSUME SpawnInv, NEW o \in Operation, ReplaceCheckout(o)
    PROVE  SpawnInv'
BY ReplaceCheckoutIs, OutsideStep

\* A stop that is authorized with the close it uses.
LEMMA AuthorizeStopStep ==
    ASSUME SpawnInv, NEW c \in Caller, NEW a \in Attempt, AuthorizeStop(c, a)
    PROVE  SpawnInv'
<1>1. PICK s, o, k : s = stops[a] /\ o = s.operation /\ k = Child(a)
  OBVIOUS
<1>2. /\ UNCHANGED journal /\ LockFree(o) /\ o \in Operation /\ k \in Closes
      /\ world[o].bound # 0 /\ s \in StopRecord
      /\ stops' \in [Attempt -> StopRecord \cup {None}]
      /\ \A b \in Attempt : b # a => stops'[b] = stops[b]
      /\ stops'[a] # None /\ stops'[a].operation = o /\ stops'[a].fence = s.fence
      /\ stops'[a].child = k
  BY <1>1, AuthorizeStopIs
<1>3. /\ closes' \in [Operation -> [Closes -> {"none", "Admitted", "Stopped", "SourceRetained"}]]
      /\ \A p \in Operation, j \in Closes : p # o \/ j # k => closes'[p][j] = closes[p][j]
      /\ closes'[o][k] = IF closes[o][k] = "none" THEN "Admitted" ELSE closes[o][k]
  BY <1>1, AuthorizeStopIs
<1>4. PICK n \in DriveCall :
        /\ calls' = [calls EXCEPT ![c] = n] /\ n.at = "driving" /\ n.operation = o
        /\ n.stop = a /\ n.close = k
  BY <1>1, AuthorizeStopIs
<1>5. closes'[o][k] # "none"
      /\ \A p \in Operation, j \in Closes : closes[p][j] # "none" => closes'[p][j] # "none"
  BY <1>3
<1>6. /\ SelectedFirst /\ Types /\ s # None
  BY <1>1 DEF SpawnInv, AuthorizeStop
<1>7. PICK w \in World : world' = [world EXCEPT ![o] = w] /\ NamedBy(a, o, k, w)
  BY <1>1, AuthorizeStopIs
<1>8. Touched(world[o], w) /\ world' = [world EXCEPT ![o] = w]
  BY <1>7 DEF Touched, Renamed, NamedBy
<1>9. \A p \in Operation : world[p].bound # 0 => world'[p].bound # 0
  BY <1>2, <1>6, <1>8 DEF Touched, Types
<1>10. SelectedFirst'
  <2>1. \A p \in Operation, j \in Closes : closes'[p][j] # "none" => world'[p].bound # 0
    BY <1>2, <1>3, <1>6, <1>9 DEF SelectedFirst
  <2>2. ASSUME NEW b \in Attempt, stops'[b] # None
        PROVE  /\ world'[stops'[b].operation].bound # 0
               /\ stops'[b].fence # None =>
                    closes'[stops'[b].operation][stops'[b].fence.close] # "none"
               /\ stops'[b].state = "Authorized" =>
                    /\ stops'[b].child \in Closes
                    /\ closes'[stops'[b].operation][stops'[b].child] # "none"
    <3>1. CASE b = a
      <4>1. s.fence # None => s.fence.close \in Closes /\ closes[o][s.fence.close] # "none"
        BY <1>1, <1>2, <1>6 DEF SelectedFirst, StopRecord
      <4> QED BY <1>2, <1>5, <1>9, <3>1, <4>1
    <3>2. CASE b # a
      <4>1. PICK t : t = stops[b]
        OBVIOUS
      <4>2. stops'[b] = t /\ t # None /\ t \in StopRecord
        BY <1>2, <1>6, <2>2, <3>2, <4>1 DEF Types
      <4>3. /\ t.operation \in Operation /\ world[t.operation].bound # 0
            /\ t.fence # None =>
                 t.fence.close \in Closes /\ closes[t.operation][t.fence.close] # "none"
            /\ t.state = "Authorized" =>
                 t.child \in Closes /\ closes[t.operation][t.child] # "none"
        BY <1>6, <4>1, <4>2 DEF SelectedFirst, StopRecord
      <4> QED BY <1>2, <1>5, <1>9, <4>2, <4>3
    <3> QED BY <3>1, <3>2
  <2> QED BY <2>1, <2>2 DEF SelectedFirst
<1>11. Alone(c, o) /\ \A b \in Attempt : stops[b] # None => stops'[b] # None
  BY <1>2, FreeAlone
<1>12. OutcomeFits(n)
  BY <1>4 DEF OutcomeFits
<1>13. /\ n \in DriveCall \cup {None} /\ UNCHANGED journal
       /\ closes'[o][n.close] # "none" /\ (n.stop # None => stops'[n.stop] # None)
  BY <1>2, <1>4, <1>5
<1> QED BY <1>2, <1>3, <1>4, <1>5, <1>10, <1>8, <1>11, <1>12, <1>13, DriveStep

\* A close or a stop that is taken up under the lock.
LEMMA TakeUpStep ==
    ASSUME SpawnInv, NEW c \in Caller, NEW o \in Operation, LockFree(o),
           UNCHANGED <<journal, stops>>, world[o].bound # 0,
           NEW w, Touched(world[o], w), world' = [world EXCEPT ![o] = w],
           closes' \in [Operation -> [Closes -> {"none", "Admitted", "Stopped", "SourceRetained"}]],
           \A p \in Operation, k \in Closes :
             closes'[p][k] = closes[p][k] \/ (p = o /\ closes'[p][k] # "none"),
           NEW n \in DriveCall, calls' = [calls EXCEPT ![c] = n], n.operation = o,
           n.at \in {"driving", "closing"}, closes'[o][n.close] # "none",
           n.stop # None => stops[n.stop] # None
    PROVE  SpawnInv'
<1>1. Types /\ SelectedFirst
  BY DEF SpawnInv
<1>2. \A p \in Operation, k \in Closes : closes[p][k] # "none" => closes'[p][k] # "none"
  OBVIOUS
<1>3. \A a \in Attempt : stops[a] # None =>
        /\ stops[a].operation \in Operation
        /\ stops[a].fence # None => stops[a].fence.close \in Closes
  BY <1>1 DEF Types, StopRecord
<1>4. SelectedFirst'
  <2>1. \A p \in Operation : world[p].bound # 0 => world'[p].bound # 0
    BY <1>1 DEF Touched, Types
  <2>2. \A p \in Operation, k \in Closes : closes'[p][k] # "none" => world'[p].bound # 0
    BY <1>1, <2>1 DEF SelectedFirst
  <2>3. \A a \in Attempt : stops'[a] # None =>
          /\ world'[stops'[a].operation].bound # 0
          /\ stops'[a].fence # None =>
               closes'[stops'[a].operation][stops'[a].fence.close] # "none"
          /\ stops'[a].state = "Authorized" =>
               /\ stops'[a].child \in Closes
               /\ closes'[stops'[a].operation][stops'[a].child] # "none"
    BY <1>1, <1>2, <1>3, <2>1 DEF SelectedFirst
  <2> QED BY <2>2, <2>3 DEF SelectedFirst
<1>5. /\ stops' \in [Attempt -> StopRecord \cup {None}]
      /\ \A a \in Attempt : stops[a] # None => stops'[a] # None
      /\ n.stop # None => stops'[n.stop] # None
  BY <1>1 DEF Types
<1>6. Alone(c, o)
  BY FreeAlone
<1>7. OutcomeFits(n)
  BY DEF OutcomeFits
<1>8. UNCHANGED journal
  OBVIOUS
<1> QED BY <1>2, <1>4, <1>5, <1>6, <1>7, <1>8, DriveStep

\* The three ways to take up a close.
LEMMA TakeUpSteps ==
    ASSUME SpawnInv, NEW c \in Caller,
           \/ \E a \in Attempt : DriveStop(c, a)
           \/ \E o \in Operation : AdmitClose(c, o) \/ DriveClose(c, o)
    PROVE  SpawnInv'
<1>1. closes \in [Operation -> [Closes -> {"none", "Admitted", "Stopped", "SourceRetained"}]]
  BY DEF SpawnInv, Types
<1>2. ASSUME NEW o \in Operation
      PROVE  \E w : Touched(world[o], w) /\ world = [world EXCEPT ![o] = w]
  <2>1. PICK w : w = world[o]
    OBVIOUS
  <2>2. w \in World /\ world = [world EXCEPT ![o] = w]
    BY <2>1, WorldStays DEF SpawnInv, Types
  <2> QED BY <2>1, <2>2 DEF Touched
<1>3. ASSUME NEW a \in Attempt, DriveStop(c, a) PROVE SpawnInv'
  <2>1. PICK s, o : s = stops[a] /\ o = s.operation
    OBVIOUS
  <2>2. /\ UNCHANGED <<journal, world, stops, closes>> /\ LockFree(o) /\ o \in Operation
        /\ s # None /\ world[o].bound # 0 /\ closes[o][s.child] # "none"
    BY <1>3, <2>1, DriveStopIs
  <2>3. PICK n \in DriveCall :
          /\ calls' = [calls EXCEPT ![c] = n] /\ n.at = "driving" /\ n.operation = o
          /\ n.stop = a /\ n.close = s.child
    BY <1>3, <2>1, DriveStopIs
  <2>4. /\ \A p \in Operation, k \in Closes :
             closes'[p][k] = closes[p][k] \/ (p = o /\ closes'[p][k] # "none")
        /\ closes'[o][n.close] # "none" /\ n.at \in {"driving", "closing"}
        /\ n.stop # None => stops[n.stop] # None
        /\ closes' \in [Operation -> [Closes -> {"none", "Admitted", "Stopped",
                                                 "SourceRetained"}]]
    BY <1>1, <2>1, <2>2, <2>3
  <2>5. PICK w : Touched(world[o], w) /\ world' = [world EXCEPT ![o] = w]
    BY <1>2, <2>2
  <2> QED BY <2>2, <2>3, <2>4, <2>5, TakeUpStep
<1>4. ASSUME NEW o \in Operation, AdmitClose(c, o) PROVE SpawnInv'
  <2>1. /\ UNCHANGED <<journal, stops>> /\ LockFree(o) /\ world[o].bound # 0
        /\ closes' \in [Operation -> [Closes -> {"none", "Admitted", "Stopped",
                                                 "SourceRetained"}]]
        /\ closes'[o][Plain] = "Admitted"
        /\ \A p \in Operation, k \in Closes : p # o \/ k # Plain => closes'[p][k] = closes[p][k]
    BY <1>4, AdmitCloseIs
  <2>2. PICK n \in DriveCall :
          /\ calls' = [calls EXCEPT ![c] = n] /\ n.at = "closing" /\ n.operation = o
          /\ n.stop = None /\ n.close = Plain
    BY <1>4, AdmitCloseIs
  <2>3. /\ \A p \in Operation, k \in Closes :
             closes'[p][k] = closes[p][k] \/ (p = o /\ closes'[p][k] # "none")
        /\ closes'[o][n.close] # "none" /\ n.at \in {"driving", "closing"}
        /\ n.stop # None => stops[n.stop] # None
    BY <2>1, <2>2
  <2>4. PICK w \in World : world' = [world EXCEPT ![o] = w] /\ Renamed(world[o], w)
    BY <1>4, AdmitCloseIs
  <2>5. Touched(world[o], w)
    BY <2>4 DEF Touched, Renamed
  <2> QED BY <2>1, <2>2, <2>3, <2>4, <2>5, TakeUpStep
<1>5. ASSUME NEW o \in Operation, DriveClose(c, o) PROVE SpawnInv'
  <2>1. /\ UNCHANGED <<journal, world, stops, closes>> /\ LockFree(o) /\ world[o].bound # 0
    BY <1>5, DriveCloseIs
  <2>2. PICK n \in DriveCall :
          /\ calls' = [calls EXCEPT ![c] = n] /\ n.at = "closing" /\ n.operation = o
          /\ n.stop = None /\ closes[o][n.close] = "Admitted"
    BY <1>5, DriveCloseIs
  <2>3. PICK w : Touched(world[o], w) /\ world' = [world EXCEPT ![o] = w]
    BY <1>2, <2>1
  <2> QED BY <1>1, <2>1, <2>2, <2>3, TakeUpStep
<1> QED BY <1>3, <1>4, <1>5

\* The steps of a driver that change the checkout or the session.
LEMMA DriverSteps ==
    ASSUME SpawnInv, NEW c \in Caller,
           AdmitRemoval(c) \/ StopSession(c) \/ KeepSource(c) \/ SettleCheckout(c)
    PROVE  SpawnInv'
<1>1. PICK m, o, old : m = calls[c] /\ o = m.operation /\ old = world[o]
  OBVIOUS
<1>2. m # None /\ m.at \in Closing /\ UNCHANGED <<journal, stops, closes>>
  BY <1>1 DEF AdmitRemoval, StopSession, KeepSource, SettleCheckout, At, Closing, Keeps
<1>3. o \in Operation /\ old.bound # 0 /\ old.session # "none"
  BY <1>1, <1>2, DriverReads, SelectedReads
<1>4. PICK n \in DriveCall, w \in World :
        /\ calls' = [calls EXCEPT ![c] = n] /\ world' = [world EXCEPT ![o] = w]
        /\ n.operation = o /\ n.stop = m.stop /\ n.close = m.close
        /\ OutcomeFits(n) /\ Touched(old, w)
  <2>1. CASE AdmitRemoval(c)
    <3>1. PICK n \in DriveCall, w \in World :
            /\ calls' = [calls EXCEPT ![c] = n] /\ world' = [world EXCEPT ![o] = w]
            /\ n.operation = o /\ n.stop = m.stop /\ n.close = m.close
            /\ Repermitted(old, w)
            /\ n.at = "closing" \/ (n.at = "terminalizing" /\ n.outcome = "SourceRetained")
      BY <1>1, <2>1, AdmitRemovalIs
    <3>2. OutcomeFits(n) /\ Touched(old, w)
      BY <3>1 DEF OutcomeFits, Terminal, Touched, Repermitted
    <3> QED BY <3>1, <3>2
  <2>2. CASE StopSession(c)
    <3>1. PICK n \in DriveCall, w \in World :
            /\ calls' = [calls EXCEPT ![c] = n] /\ world' = [world EXCEPT ![o] = w]
            /\ n.operation = o /\ n.stop = m.stop /\ n.close = m.close
            /\ w.workspace = old.workspace /\ w.session \in {old.session, "stopped"}
            /\ w.started = old.started /\ w.bound = old.bound /\ w.closing = old.closing
            /\ w.handed = old.handed
            /\ \/ n.at = "closed"
               \/ n.at = "advancing" /\ n.outcome \in {"Stopped", "SourceRetained"}
      BY <1>1, <2>2, StopSessionIs
    <3>2. OutcomeFits(n) /\ Touched(old, w)
      BY <1>3, <3>1 DEF OutcomeFits, Touched
    <3> QED BY <3>1, <3>2
  <2>3. CASE KeepSource(c)
    <3>1. PICK n \in DriveCall, w \in World :
            /\ calls' = [calls EXCEPT ![c] = n] /\ world' = [world EXCEPT ![o] = w]
            /\ n.operation = o /\ n.stop = m.stop /\ n.close = m.close
            /\ n.at = "terminalizing" /\ n.outcome = "SourceRetained"
            /\ Repermitted(old, w)
      BY <1>1, <2>3, KeepSourceIs
    <3>2. OutcomeFits(n) /\ Touched(old, w)
      BY <3>1 DEF OutcomeFits, Terminal, Touched, Repermitted
    <3> QED BY <3>1, <3>2
  <2>4. CASE SettleCheckout(c)
    <3>1. PICK n \in DriveCall, w \in World :
            /\ calls' = [calls EXCEPT ![c] = n] /\ world' = [world EXCEPT ![o] = w]
            /\ n.operation = o /\ n.stop = m.stop /\ n.close = m.close
            /\ n.at = "terminalizing"
            /\ w.session = old.session /\ w.started = old.started
            /\ w.bound = old.bound /\ w.closing = old.closing
            /\ w.handed = old.handed /\ (w = old \/ w.workspace = "removed")
            /\ n.outcome \in {"WorkspacePreserved", "WorkspaceReplaced", "Succeeded"}
      BY <1>1, <2>4, SettleCheckoutIs
    <3>2. OutcomeFits(n) /\ Touched(old, w)
      BY <3>1 DEF OutcomeFits, Terminal, Touched
    <3> QED BY <3>1, <3>2
  <2> QED BY <2>1, <2>2, <2>3, <2>4
<1> QED BY <1>1, <1>2, <1>4, DriverMoves

\* The close is advanced.
LEMMA AdvanceCloseStep ==
    ASSUME SpawnInv, NEW c \in Caller, AdvanceClose(c)
    PROVE  SpawnInv'
<1>1. PICK m, o : m = calls[c] /\ o = m.operation
  OBVIOUS
<1>2. /\ UNCHANGED <<journal, world, stops>> /\ m # None /\ m.at = "advancing"
      /\ m.outcome \in {"Stopped", "SourceRetained"}
      /\ closes' \in [Operation -> [Closes -> {"none", "Admitted", "Stopped", "SourceRetained"}]]
      /\ closes'[o][m.close] = m.outcome
      /\ \A p \in Operation, k \in Closes : p # o \/ k # m.close => closes'[p][k] = closes[p][k]
  BY <1>1, AdvanceCloseIs
<1>3. PICK n \in DriveCall \cup {None} :
        /\ calls' = [calls EXCEPT ![c] = n]
        /\ n # None => /\ n.operation = o /\ n.stop = m.stop /\ n.close = m.close
                       /\ n.at = "closed"
  <2>1. \E n \in DriveCall \cup {None} :
          /\ calls' = [calls EXCEPT ![c] = n]
          /\ m.stop = None => n = None
          /\ n # None =>
               /\ n.operation = o /\ n.stop = m.stop /\ n.close = m.close
               /\ n.at = "closed" /\ n.admission = m.admission /\ n.outcome = m.outcome
    BY <1>1, AdvanceCloseIs
  <2> QED BY <2>1
<1>4. m.at \in Closing
  BY <1>2 DEF Closing
<1>5. /\ o \in Operation /\ Alone(c, o) /\ world[o].bound # 0
      /\ m.stop # None => stops[m.stop] # None
  BY <1>1, <1>2, <1>4, DriverReads
<1>6. Types /\ SelectedFirst
  BY DEF SpawnInv
<1>7. \A p \in Operation, k \in Closes : closes[p][k] # "none" => closes'[p][k] # "none"
  BY <1>2
<1>8. SelectedFirst'
  <2>1. \A p \in Operation, k \in Closes : closes'[p][k] # "none" => world'[p].bound # 0
    BY <1>2, <1>5, <1>6 DEF SelectedFirst
  <2>2. \A a \in Attempt : stops[a] # None =>
          /\ stops[a].operation \in Operation
          /\ stops[a].fence # None => stops[a].fence.close \in Closes
    BY <1>6 DEF Types, StopRecord
  <2>3. \A a \in Attempt : stops'[a] # None =>
          /\ world'[stops'[a].operation].bound # 0
          /\ stops'[a].fence # None =>
               closes'[stops'[a].operation][stops'[a].fence.close] # "none"
          /\ stops'[a].state = "Authorized" =>
               /\ stops'[a].child \in Closes
               /\ closes'[stops'[a].operation][stops'[a].child] # "none"
    BY <1>2, <1>6, <1>7, <2>2 DEF SelectedFirst
  <2> QED BY <2>1, <2>3 DEF SelectedFirst
<1>9. PICK w : w = world[o]
  OBVIOUS
<1>10. Touched(world[o], w) /\ world' = [world EXCEPT ![o] = w]
  BY <1>2, <1>5, <1>6, <1>9, WorldStays DEF Touched, Types
<1>11. /\ stops' \in [Attempt -> StopRecord \cup {None}]
       /\ \A a \in Attempt : stops[a] # None => stops'[a] # None
  BY <1>2, <1>6 DEF Types
<1>12. n # None => /\ n.operation = o /\ closes'[o][n.close] # "none"
                   /\ n.stop # None => stops'[n.stop] # None
                   /\ OutcomeFits(n)
  BY <1>2, <1>3, <1>5 DEF OutcomeFits
<1> QED BY <1>2, <1>3, <1>5, <1>7, <1>8, <1>10, <1>11, <1>12, DriveStep

\* The outcome is recorded.
LEMMA TerminalizeStep ==
    ASSUME SpawnInv, NEW c \in Caller, Terminalize(c)
    PROVE  SpawnInv'
<1>1. PICK m, o, a : m = calls[c] /\ o = m.operation /\ a = m.stop
  OBVIOUS
<1>2. /\ UNCHANGED <<journal, world, closes>> /\ m # None /\ m.at = "terminalizing"
      /\ calls' = [calls EXCEPT ![c] = None]
      /\ stops' \in [Attempt -> StopRecord \cup {None}]
      /\ \A b \in Attempt : b # a => stops'[b] = stops[b]
  BY <1>1, TerminalizeIs
<1>3. a # None =>
        /\ stops[a] # None /\ stops'[a] # None /\ stops'[a].operation = stops[a].operation
        /\ stops'[a].fence = stops[a].fence /\ stops'[a].child = stops[a].child
        /\ stops'[a].state = IF stops[a].state = "Authorized" THEN m.outcome ELSE stops[a].state
  BY <1>1, TerminalizeIs
<1>4. m.at \in Closing
  BY <1>2 DEF Closing
<1>5. /\ o \in Operation /\ Alone(c, o) /\ world[o].bound # 0
      /\ m.outcome \in Terminal
  BY <1>1, <1>2, <1>4, DriverReads DEF OutcomeFits
<1>6. Types /\ SelectedFirst /\ "Authorized" \notin Terminal
  BY DEF SpawnInv, Terminal
<1>7. SelectedFirst'
  <2>1. \A p \in Operation, k \in Closes : closes'[p][k] # "none" => world'[p].bound # 0
    BY <1>2, <1>6 DEF SelectedFirst
  <2>2. ASSUME NEW b \in Attempt, stops'[b] # None
        PROVE  /\ world'[stops'[b].operation].bound # 0
               /\ stops'[b].fence # None =>
                    closes'[stops'[b].operation][stops'[b].fence.close] # "none"
               /\ stops'[b].state = "Authorized" =>
                    /\ stops'[b].child \in Closes
                    /\ closes'[stops'[b].operation][stops'[b].child] # "none"
    <3>1. CASE b # a
      BY <1>2, <1>6, <2>2, <3>1 DEF SelectedFirst
    <3>2. CASE b = a
      <4>1. a # None
        BY <3>2, StopAssumption
      <4> QED BY <1>2, <1>3, <1>5, <1>6, <3>2, <4>1 DEF SelectedFirst
    <3> QED BY <3>1, <3>2
  <2> QED BY <2>1, <2>2 DEF SelectedFirst
<1>8. PICK w : w = world[o]
  OBVIOUS
<1>9. Touched(world[o], w) /\ world' = [world EXCEPT ![o] = w]
  BY <1>2, <1>5, <1>6, <1>8, WorldStays DEF Touched, Types
<1>10. \A b \in Attempt : stops[b] # None => stops'[b] # None
  BY <1>2, <1>3, StopAssumption
<1>11. /\ closes' \in [Operation -> [Closes -> {"none", "Admitted", "Stopped", "SourceRetained"}]]
       /\ \A p \in Operation, k \in Closes : closes[p][k] # "none" => closes'[p][k] # "none"
  BY <1>2, <1>6 DEF Types
<1>12. PICK n \in DriveCall \cup {None} : n = None
  OBVIOUS
<1> QED BY <1>2, <1>5, <1>7, <1>9, <1>10, <1>11, <1>12, DriveStep

-----------------------------------------------------------------------------
(* The theorems                                                            *)

\* Nothing is planned, spawned or stopped at first.
LEMMA SpawnInvInit == SpawnInit => SpawnInv
<1> SUFFICES ASSUME SpawnInit PROVE SpawnInv
  OBVIOUS
<1>1. Untouched \in World
  BY DEF Untouched, World
<1>2. Types
  BY <1>1 DEF SpawnInit, Types, Closes
<1>3. Journals
  BY DEF SpawnInit, Journals, Traced
<1>4. Calls /\ Exclusive /\ OneOperation
  BY DEF SpawnInit, Calls, Exclusive, Holds, OneOperation, Exists, NoReceipt
<1>5. SelectedFirst
  BY DEF SpawnInit, SelectedFirst, Closes
<1> QED BY <1>2, <1>3, <1>4, <1>5 DEF SpawnInv

\* Every step keeps the invariant.
LEMMA SpawnInvNext == SpawnInv /\ [Next]_vars => SpawnInv'
<1> SUFFICES ASSUME SpawnInv, [Next]_vars PROVE SpawnInv'
  OBVIOUS
<1>1. CASE UNCHANGED vars
  BY <1>1, IdleStep DEF vars
<1>2. ASSUME NEW c \in Caller, Driving(c) PROVE SpawnInv'
  BY <1>2, DriverSteps, AdvanceCloseStep, TerminalizeStep DEF Driving
<1>3. ASSUME NEW c \in Caller, StopFails(c) PROVE SpawnInv'
  BY <1>3, ReturnStep DEF StopFails
<1>4. ASSUME NEW c \in Caller, NEW a \in Attempt, AuthorizeStop(c, a) \/ DriveStop(c, a)
      PROVE  SpawnInv'
  BY <1>4, AuthorizeStopStep, TakeUpSteps
<1>5. ASSUME NEW c \in Caller, NEW o \in Operation, AdmitClose(c, o) \/ DriveClose(c, o)
      PROVE  SpawnInv'
  BY <1>5, TakeUpSteps
<1> QED BY <1>1, <1>2, <1>3, <1>4, <1>5, SpawnNextStep, PlanStopStep, ReplaceCheckoutStep DEF Next

\* The invariant holds in every state.
LEMMA SpawnInvAlways == Spec => []SpawnInv
BY SpawnInvInit, SpawnInvNext, PTL DEF Spec

\* One update of the world that leaves the prompts as they are.
LEMMA NothingHanded ==
    ASSUME Types, NEW p \in Operation, NEW w, world' = [world EXCEPT ![p] = w],
           w.handed = world[p].handed, NEW o \in Operation
    PROVE  world'[o].handed = world[o].handed
BY DEF Types

\* The steps that hand no prompt over.
LEMMA QuietHands ==
    ASSUME SpawnInv, [Next]_vars, NEW o \in Operation,
           \A c \in Caller :
             ~(LaunchRuntime(c) \/ LaunchStructured(c) \/ DeliverPrompt(c) \/ DeliverTurn(c))
    PROVE  world'[o].handed = world[o].handed
<1>1. Types
  BY DEF SpawnInv
<1>2. CASE UNCHANGED world
  BY <1>2
<1>3. ASSUME NEW c \in Caller, AcquireWorktree(c) \/ PersistSelection(c)
      PROVE  world'[o].handed = world[o].handed
  <2>1. PICK p, old, n : p = calls[c].operation /\ old = world[p] /\ n = old.started
    OBVIOUS
  <2>2. calls[c] # None /\ calls[c].at \in Applying
    BY <1>3 DEF AcquireWorktree, PersistSelection, Executes, Applying
  <2>3. p \in Operation /\ old \in World
    BY <2>1, <2>2, HolderReads
  <2>4. \/ UNCHANGED world \/ world' = [world EXCEPT ![p].workspace = "kept"]
        \/ world' = [world EXCEPT ![p].bound = n]
    BY <1>3, <2>1 DEF AcquireWorktree, PersistSelection
  <2>5. PICK v, w : v = [old EXCEPT !.workspace = "kept"] /\ w = [old EXCEPT !.bound = n]
    OBVIOUS
  <2>6. v.handed = old.handed /\ w.handed = old.handed
    BY <2>3, <2>5 DEF World
  <2>7. /\ [world EXCEPT ![p].workspace = "kept"] = [world EXCEPT ![p] = v]
        /\ [world EXCEPT ![p].bound = n] = [world EXCEPT ![p] = w]
    BY <2>1, <2>5
  <2> QED BY <1>1, <2>1, <2>3, <2>4, <2>6, <2>7, NothingHanded
<1>4. ASSUME NEW p \in Operation, SessionExits(p) \/ ReplaceCheckout(p)
      PROVE  world'[o].handed = world[o].handed
  <2>1. PICK w \in World : world' = [world EXCEPT ![p] = w] /\ Alike(world[p], w)
    BY <1>4, SessionExitsIs, ReplaceCheckoutIs
  <2> QED BY <1>1, <2>1, NothingHanded DEF Alike
<1>5. ASSUME NEW c \in Caller, NEW a \in Attempt, AuthorizeStop(c, a)
      PROVE  world'[o].handed = world[o].handed
  <2>1. PICK s, p, k : s = stops[a] /\ p = s.operation /\ k = Child(a)
    OBVIOUS
  <2>2. p \in Operation
    BY <1>5, <2>1, AuthorizeStopIs
  <2>3. PICK w \in World : world' = [world EXCEPT ![p] = w] /\ NamedBy(a, p, k, w)
    BY <1>5, <2>1, AuthorizeStopIs
  <2>4. world' = [world EXCEPT ![p] = w] /\ w.handed = world[p].handed
    BY <2>3 DEF Renamed, NamedBy
  <2> QED BY <1>1, <2>2, <2>4, NothingHanded
<1>6. ASSUME NEW c \in Caller, NEW p \in Operation, AdmitClose(c, p)
      PROVE  world'[o].handed = world[o].handed
  <2>1. PICK w \in World : world' = [world EXCEPT ![p] = w] /\ Renamed(world[p], w)
    BY <1>6, AdmitCloseIs
  <2> QED BY <1>1, <2>1, NothingHanded DEF Renamed
<1>7. ASSUME NEW c \in Caller,
             AdmitRemoval(c) \/ StopSession(c) \/ KeepSource(c) \/ SettleCheckout(c)
      PROVE  world'[o].handed = world[o].handed
  <2>1. PICK p, old : p = calls[c].operation /\ old = world[p]
    OBVIOUS
  <2>2. calls[c] # None /\ calls[c].at \in Closing
    BY <1>7 DEF AdmitRemoval, StopSession, KeepSource, SettleCheckout, At, Closing
  <2>3. p \in Operation
    BY <2>1, <2>2, DriverReads
  <2>4. PICK w \in World : world' = [world EXCEPT ![p] = w] /\ w.handed = old.handed
    <3>1. CASE AdmitRemoval(c)
      BY <2>1, <3>1, AdmitRemovalIs DEF Repermitted
    <3>2. CASE StopSession(c)
      BY <2>1, <3>2, StopSessionIs
    <3>3. CASE KeepSource(c)
      BY <2>1, <3>3, KeepSourceIs DEF Repermitted
    <3>4. CASE SettleCheckout(c)
      BY <2>1, <3>4, SettleCheckoutIs
    <3> QED BY <1>7, <3>1, <3>2, <3>3, <3>4
  <2> QED BY <1>1, <2>1, <2>3, <2>4, NothingHanded
<1>8. ASSUME ~UNCHANGED world
      PROVE  \/ \E c \in Caller : \/ AcquireWorktree(c) \/ PersistSelection(c) \/ AdmitRemoval(c)
                                 \/ StopSession(c) \/ KeepSource(c) \/ SettleCheckout(c)
             \/ \E p \in Operation : SessionExits(p) \/ ReplaceCheckout(p)
             \/ \E c \in Caller, a \in Attempt : AuthorizeStop(c, a)
             \/ \E c \in Caller, p \in Operation : AdmitClose(c, p)
  BY <1>8 DEF Next, vars, SpawnNext, Spawning, Observe, Preview, AppendPlan, Authorize,
     FollowDirective, AppendEvent, GiveUp, Crash, AnswerGate, PlanStop, DriveStop, DriveClose,
     Driving, AdvanceClose, Terminalize, StopFails
<1> QED BY <1>2, <1>3, <1>4, <1>5, <1>6, <1>7, <1>8

\* A launch hands its prompt over only with a session that it starts.
LEMMA LaunchHands ==
    ASSUME SpawnInv, NEW c \in Caller, LaunchRuntime(c) \/ LaunchStructured(c),
           NEW o \in Operation, world'[o].handed # world[o].handed
    PROVE  /\ journal[o] \in Receipt /\ world'[o].handed = world[o].handed + 1
           /\ journal[o].plan.carries /\ journal[o].completed = 1 /\ ~Running(o)
<1>1. PICK m, p, r, old, plan : /\ m = calls[c] /\ p = m.operation /\ r = journal[p]
                                /\ old = world[p] /\ plan = m.receipt.plan
  OBVIOUS
<1>2. PICK stage \in {"RuntimeLaunch", "StructuredLaunch"} : Executes(c, stage)
  BY DEF LaunchRuntime, LaunchStructured
<1>3. p \in Operation /\ r \in Receipt /\ old \in World /\ r.completed = 1 /\ plan = r.plan
  BY <1>1, <1>2, ExecutorReads
<1>4. UNCHANGED world \/ world' = SessionStarted(p, plan)
  BY <1>1 DEF LaunchRuntime, LaunchStructured, LaunchFails
<1>5. Types
  BY DEF SpawnInv
<1>6. PICK w \in World : /\ SessionStarted(p, plan) = [world EXCEPT ![p] = w]
                         /\ StartedFrom(p, plan, w)
  BY <1>1, <1>3, <1>5, SessionStartedIs
<1>7. world' = [world EXCEPT ![p] = w]
  BY <1>4, <1>6
<1>8. p = o /\ world'[o] = w
  BY <1>3, <1>5, <1>7 DEF Types
<1> QED BY <1>1, <1>3, <1>6, <1>8 DEF StartedFrom

\* A prompt is typed or sent only when none was handed over.
LEMMA DeliveryHands ==
    ASSUME SpawnInv, NEW c \in Caller, DeliverPrompt(c) \/ DeliverTurn(c),
           NEW o \in Operation, world'[o].handed # world[o].handed
    PROVE  /\ journal[o] \in Receipt /\ world'[o].handed = world[o].handed + 1
           /\ world[o].handed = 0
<1>1. PICK m, p, r, old : m = calls[c] /\ p = m.operation /\ r = journal[p] /\ old = world[p]
  OBVIOUS
<1>2. PICK stage \in {"PromptDelivery", "StructuredPromptDelivery"} : Executes(c, stage)
  BY DEF DeliverPrompt, DeliverTurn
<1>3. /\ p \in Operation /\ r \in Receipt /\ old \in World /\ m.receipt = r
      /\ m.at = "executing" /\ WellFormed(r) /\ Evidenced(r, old) /\ InHand(m, r, old)
      /\ r.completed = 2 /\ r.plan.prompt
      /\ stage = "PromptDelivery" => r.plan.native
      /\ stage = "StructuredPromptDelivery" => ~r.plan.native
      /\ r.plan.carries => r.plan.native
  BY <1>1, <1>2, ExecutorReads
<1>4. Types
  BY DEF SpawnInv
<1>5. CASE DeliverPrompt(c)
  <2>1. Executes(c, "PromptDelivery")
    BY <1>5 DEF DeliverPrompt
  <2>2. r.plan.native
    BY <1>1, <2>1, ExecutorReads
  <2>3. ~UNCHANGED world
    OBVIOUS
  <2>4. ~HeldAtGate(r) /\ ~r.accepted /\ world' = [world EXCEPT ![p].handed = @ + 1]
    BY <1>1, <1>3, <1>5, <2>3 DEF DeliverPrompt
  <2>5. ~r.plan.carries
    BY <1>3, <2>4 DEF WellFormed, HeldAtGate
  <2>6. old.handed = 0
    BY <1>3, <2>2, <2>5 DEF InHand, IsTyped
  <2>7. PICK w : w = [old EXCEPT !.handed = 1]
    OBVIOUS
  <2>8. world' = [world EXCEPT ![p] = w]
    <3>1. world' = [world EXCEPT ![p] = [world[p] EXCEPT !.handed = world[p].handed + 1]]
      BY <2>4, Zenon
    <3>2. world[p].handed + 1 = 1
      BY <1>1, <2>6
    <3> QED BY <1>1, <2>7, <3>1, <3>2
  <2>9. p = o /\ world'[o] = w
    BY <1>3, <1>4, <2>8 DEF Types
  <2>10. w.handed = 1
    BY <1>3, <2>7 DEF World
  <2> QED BY <1>1, <1>3, <2>6, <2>9, <2>10
<1>6. CASE DeliverTurn(c)
  <2>1. Executes(c, "StructuredPromptDelivery")
    BY <1>6 DEF DeliverTurn
  <2>2. ~r.plan.carries
    BY <1>1, <2>1, ExecutorReads
  <2>3. old.handed \in {0, 1}
    BY <1>3, <2>2 DEF Evidenced
  <2>4. world' = [world EXCEPT ![p].handed = 1]
    BY <1>1, <1>6 DEF DeliverTurn
  <2>5. PICK w : w = [old EXCEPT !.handed = 1]
    OBVIOUS
  <2>6. world' = [world EXCEPT ![p] = w]
    BY <1>1, <2>4, <2>5
  <2>7. p = o /\ world'[o] = w
    BY <1>3, <1>4, <2>6 DEF Types
  <2>8. w.handed = 1
    BY <1>3, <2>5 DEF World
  <2> QED BY <1>1, <1>3, <2>3, <2>7, <2>8
<1> QED BY <1>5, <1>6

\* An operation that was not planned has handed nothing over.
LEMMA OthersUnhanded ==
    ASSUME SpawnInv, NEW o \in Operation, journal[o] \in Receipt, NEW p \in Operation \ {o}
    PROVE  world[p].handed = 0
<1>1. Exists(o)
  BY DEF Exists, Receipt
<1>2. ~Exists(p)
  BY <1>1 DEF SpawnInv, OneOperation
<1>3. journal[p] \notin Receipt
  BY <1>2 DEF Exists, Receipt
<1>4. world[p] = Untouched
  BY <1>3 DEF SpawnInv, Journals, Traced
<1> QED BY <1>4 DEF Untouched

\* In any number of operations, requests, sessions, retries and crashes a prompt is handed to
\* a provider for the first time, or by the repeated launch of a command that carries it,
\* which is not committed and whose session is over; and by one operation only
\* (control-plane/src/agent_spawn_apply.rs, hmux-runtime/src/managed_create_advance.rs).
THEOREM PromptsAreNotReplayed == Spec => PromptNotReplayed
<1>1. SpawnInv /\ [Next]_vars =>
        [\A o \in Operation : world'[o].handed # world[o].handed =>
           /\ world'[o].handed = world[o].handed + 1
           /\ \A p \in Operation \ {o} : world[p].handed = 0
           /\ \/ world[o].handed = 0
              \/ journal[o].plan.carries /\ journal[o].completed = 1 /\ ~Running(o)]_vars
  <2> SUFFICES ASSUME SpawnInv, [Next]_vars, NEW o \in Operation,
                      world'[o].handed # world[o].handed
               PROVE  /\ world'[o].handed = world[o].handed + 1
                      /\ \A p \in Operation \ {o} : world[p].handed = 0
                      /\ \/ world[o].handed = 0
                         \/ /\ journal[o].plan.carries /\ journal[o].completed = 1
                            /\ ~Running(o)
    OBVIOUS
  <2>1. PICK c \in Caller :
          LaunchRuntime(c) \/ LaunchStructured(c) \/ DeliverPrompt(c) \/ DeliverTurn(c)
    BY QuietHands
  <2>2. CASE LaunchRuntime(c) \/ LaunchStructured(c)
    BY <2>2, LaunchHands, OthersUnhanded
  <2>3. CASE DeliverPrompt(c) \/ DeliverTurn(c)
    BY <2>3, DeliveryHands, OthersUnhanded
  <2> QED BY <2>1, <2>2, <2>3
<1> QED BY <1>1, SpawnInvAlways, PTL DEF Spec, PromptNotReplayed

\* What the journal says was done was done, and a prompt that may have been written is never
\* offered for a retry.
THEOREM CommittedStagesDidHappen == Spec => []CommittedStagesHappened
<1>1. SpawnInv => CommittedStagesHappened
  <2> SUFFICES ASSUME SpawnInv, NEW o \in Operation, Exists(o), NEW r, r = journal[o]
               PROVE  /\ r.completed >= 1 => world[o].workspace # "none"
                      /\ r.completed >= 2 => /\ world[o].session # "none"
                                             /\ world[o].bound = world[o].started
                      /\ r.completed = 3 => \/ world[o].handed = 1
                                            \/ r.plan.carries /\ world[o].handed > 1
                      /\ r.failure = "certain" /\ Stage(r) = "PromptDelivery" =>
                           world[o].handed = 0
    BY DEF CommittedStagesHappened
  <2>1. journal[o] # NoReceipt
    BY DEF Exists, NoReceipt
  <2>2. r \in Receipt /\ WellFormed(r) /\ Evidenced(r, world[o])
    BY <2>1 DEF SpawnInv, Journals, Traced
  <2>3. ASSUME r.failure = "certain", Stage(r) = "PromptDelivery"
        PROVE  world[o].handed = 0
    <3>1. r.completed \in 0 .. 3 /\ r.plan \in Plans
      BY <2>2, SpawnAssumption DEF Receipt
    <3>2. r.completed < IF r.plan.prompt THEN 3 ELSE 2
      BY <2>2, <2>3 DEF WellFormed
    <3>3. r.completed = 2 /\ r.plan.native /\ r.plan.prompt
      <4>1. CASE r.completed = 0
        BY <2>2, <2>3, <3>1, <4>1, StageIs
      <4>2. CASE r.completed = 1
        BY <2>2, <2>3, <3>1, <4>2, StageIs
      <4>3. CASE r.completed = 2 /\ r.plan.prompt
        BY <2>2, <2>3, <3>1, <4>3, StageIs
      <4> QED BY <3>1, <3>2, <4>1, <4>2, <4>3
    <3>4. IsTyped(r.plan)
      BY <2>2, <2>3, <3>3 DEF WellFormed, IsTyped
    <3>5. r.failure # "uncertain" /\ ~r.inFlight
      BY <2>2, <2>3 DEF WellFormed
    <3> QED BY <2>2, <3>3, <3>4, <3>5 DEF Evidenced
  <2>4. r.completed = 3 => world[o].handed = 1 \/ (r.plan.carries /\ world[o].handed > 1)
    <3>1. world[o].handed \in Nat
      BY DEF SpawnInv, Types, World
    <3> QED BY <2>2, <3>1 DEF Evidenced
  <2> QED BY <2>2, <2>3, <2>4 DEF Evidenced
<1> QED BY <1>1, SpawnInvAlways, PTL
=============================================================================
