--------------------------- MODULE AgentStopProofs ---------------------------
(***************************************************************************)
(* Proofs about AgentStop.                                                 *)
(*                                                                         *)
(* Why a stop reports what happened although it can be interrupted after   *)
(* every step and taken up by somebody else: the rows it leaves behind say *)
(* how far it came.  A close becomes "Stopped" only after the session it   *)
(* names is over, a stop ends and a checkout goes only for a close that    *)
(* has, and the driver of a stop holds the agent's lock, so what it found  *)
(* stays true until it has recorded it.  A close that stopped holds the    *)
(* runtime for good, so no later close names another session.              *)
(***************************************************************************)
EXTENDS AgentSpawnProofs

\* What outcome says of stop a, whose record is s, is true of the world w of its operation.
OutcomeHolds(s, a, outcome, w) ==
    /\ outcome \in Terminal \ {"SourceRetained"} => NamedIsOver(w)
    /\ outcome = "Succeeded" => w.workspace = "removed" /\ s.remove
    /\ outcome = "WorkspaceReplaced" => w.workspace = "replaced" /\ s.remove
    /\ outcome = "WorkspacePreserved" => ~s.remove
    /\ outcome = "SourceRetained" => w.permit # a

\* A driver of a stop knows that it is authorized, and its admission suits the checkout.
ParentFits(m, s, w) ==
    /\ s.operation = m.operation /\ s.state = "Authorized" /\ s.child = m.close
    /\ m.at \in {"closing", "advancing", "closed"} =>
         /\ m.admission \in {"Preserve", "Replaced", "Remove"}
         /\ m.admission = "Preserve" => ~s.remove
         /\ m.admission \in {"Replaced", "Remove"} => s.remove
         /\ m.admission = "Replaced" => w.workspace = "replaced" /\ w.permit # m.stop
    /\ m.at = "terminalizing" => OutcomeHolds(s, m.stop, m.outcome, w)

\* The close is where its driver left it.
ChildFits(m, close, w) ==
    /\ m.stop = None => m.at \in {"closing", "advancing"}
    /\ m.stop = None /\ m.at = "closing" => close = "Admitted"
    /\ m.at = "advancing" =>
         close = "Admitted" /\ (m.outcome = "Stopped" => NamedIsOver(w))
    /\ m.at = "closed" => close = m.outcome /\ m.outcome \in {"Stopped", "SourceRetained"}
    /\ m.at = "terminalizing" =>
         close = IF m.outcome = "SourceRetained" THEN "SourceRetained" ELSE "Stopped"

DriverFits(m) ==
    /\ m.stop # None => ParentFits(m, stops[m.stop], world[m.operation])
    /\ ChildFits(m, closes[m.operation][m.close], world[m.operation])

Drivers == \A c \in Caller : calls[c] # None /\ calls[c].at \in Closing => DriverFits(calls[c])

\* A stop that has come to an outcome reports it truthfully.
OutcomesFit(o) ==
    \A a \in Attempt : stops[a] # None /\ stops[a].operation = o /\ stops[a].state \in Terminal =>
        OutcomeHolds(stops[a], a, stops[a].state, world[o])

\* The close of a stop that ended the agent has stopped.
EndsFit(o) ==
    \A a \in Attempt :
        /\ stops[a] # None /\ stops[a].operation = o
        /\ stops[a].state \in Terminal \ {"SourceRetained"}
        => stops[a].child \in Closes /\ closes[o][stops[a].child] = "Stopped"

\* A close names a session, which is over once the close has stopped; and a stop's own close
\* was admitted with it.
ClosesFit(o) ==
    /\ \A k \in Closes : closes[o][k] # "none" => world[o].closing # 0
    /\ \A k \in Closes : closes[o][k] = "Stopped" => NamedIsOver(world[o])
    /\ \A a \in Attempt : closes[o][a] # "none" =>
         /\ stops[a] # None /\ stops[a].operation = o
         /\ stops[a].state \notin {"Planned", "Superseded"}

\* Who holds the permit to remove the checkout was asked to.
PermitFits(o) ==
    \A a \in Attempt : world[o].permit = a =>
        stops[a] # None /\ stops[a].operation = o /\ stops[a].remove

\* The stop that a checkout went for: its close has stopped the session.
Remover(a, o) ==
    /\ stops[a] # None /\ stops[a].operation = o /\ stops[a].remove
    /\ stops[a].state \in {"Authorized", "Succeeded"}
    /\ stops[a].child \in Closes /\ closes[o][stops[a].child] = "Stopped"

RemovalFits(o) == world[o].workspace = "removed" => \E a \in Attempt : Remover(a, o)

StopFits(o) ==
    OutcomesFit(o) /\ EndsFit(o) /\ ClosesFit(o) /\ PermitFits(o) /\ RemovalFits(o)

\* Nobody applies an operation whose agent is being stopped.
Frozen ==
    \A c \in Caller : calls[c] # None /\ calls[c].at \in Applying =>
        ~StopInProgress(calls[c].operation)

StopInv == Drivers /\ Frozen /\ \A o \in Operation : StopFits(o)

-----------------------------------------------------------------------------
(* What stays true                                                         *)

\* A world in which what a stop has done, or found replaced, is as it was.
Lasts(old, w) ==
    /\ old.closing # 0 => w.closing # 0
    /\ NamedIsOver(old) => NamedIsOver(w)
    /\ old.workspace \in {"removed", "replaced"} => w.workspace = old.workspace

\* An outcome stays true.
LEMMA OutcomeLasts ==
    ASSUME NEW s, NEW a, NEW outcome, NEW old, NEW w, OutcomeHolds(s, a, outcome, old),
           Lasts(old, w), w.permit = old.permit \/ w.permit # a
    PROVE  OutcomeHolds(s, a, outcome, w)
BY DEF OutcomeHolds, Lasts

\* What a driver knows stays true.
LEMMA DriverLasts ==
    ASSUME NEW m, DriverFits(m), m.stop # None => stops'[m.stop] = stops[m.stop],
           closes'[m.operation][m.close] = closes[m.operation][m.close],
           Lasts(world[m.operation], world'[m.operation]),
           world'[m.operation].permit = world[m.operation].permit
    PROVE  DriverFits(m)'
<1>1. PICK o, old, w, s, x : /\ o = m.operation /\ old = world[o] /\ w = world'[o]
                             /\ s = stops[m.stop] /\ x = closes[o][m.close]
  OBVIOUS
<1>2. /\ m.stop # None => ParentFits(m, s, old)
      /\ ChildFits(m, x, old) /\ Lasts(old, w) /\ w.permit = old.permit
  BY <1>1 DEF DriverFits
<1>3. m.stop # None => ParentFits(m, s, w)
  <2> SUFFICES ASSUME m.stop # None PROVE ParentFits(m, s, w)
    OBVIOUS
  <2>1. m.at = "terminalizing" => OutcomeHolds(s, m.stop, m.outcome, w)
    BY <1>2, OutcomeLasts DEF ParentFits
  <2> QED BY <1>2, <2>1 DEF ParentFits, Lasts
<1>4. ChildFits(m, x, w)
  BY <1>2 DEF ChildFits, Lasts
<1> QED BY <1>1, <1>3, <1>4 DEF DriverFits

\* The rows of an operation stay true when only its world changes, for the stop a that it
\* changes for.
LEMMA WorldFits ==
    ASSUME NEW o \in Operation, StopFits(o), UNCHANGED <<stops, closes>>,
           NEW old, old = world[o], NEW w, world'[o] = w, NEW a,
           Lasts(old, w),
           w.workspace = "removed" /\ old.workspace # "removed" => a \in Attempt /\ Remover(a, o),
           \/ w.permit = old.permit \/ w.permit = None
           \/ /\ w.permit = a /\ a \in Attempt /\ stops[a] # None /\ stops[a].operation = o
              /\ stops[a].state \notin Terminal /\ stops[a].remove
    PROVE  StopFits(o)'
<1>1. OutcomesFit(o)'
  <2> SUFFICES ASSUME NEW b \in Attempt, stops[b] # None, stops[b].operation = o,
                      stops[b].state \in Terminal
               PROVE  OutcomeHolds(stops[b], b, stops[b].state, w)
    BY DEF OutcomesFit, OutcomeHolds
  <2>1. OutcomeHolds(stops[b], b, stops[b].state, old)
    BY DEF StopFits, OutcomesFit
  <2>2. w.permit = old.permit \/ w.permit # b
    BY StopAssumption
  <2>3. PICK s, x : s = stops[b] /\ x = stops[b].state
    OBVIOUS
  <2> QED BY <2>1, <2>2, <2>3, OutcomeLasts
<1>2. ClosesFit(o)' /\ EndsFit(o)'
  <2>1. ClosesFit(o) /\ EndsFit(o) /\ (old.closing # 0 => w.closing # 0)
        /\ (NamedIsOver(old) => NamedIsOver(w))
    BY DEF StopFits, Lasts
  <2>2. \A k \in Closes : closes[o][k] = "Stopped" => NamedIsOver(world[o])'
    BY <2>1 DEF ClosesFit, NamedIsOver
  <2> QED BY <2>1, <2>2 DEF ClosesFit, EndsFit
<1>3. PermitFits(o)'
  BY StopAssumption DEF StopFits, PermitFits
<1>4. RemovalFits(o)'
  <2>1. \A b \in Attempt : Remover(b, o) => Remover(b, o)'
    BY DEF Remover
  <2> QED BY <2>1 DEF StopFits, RemovalFits
<1> QED BY <1>1, <1>2, <1>3, <1>4 DEF StopFits

\* A step that touches one operation, with its stops and its closes, under its lock.
LEMMA StopLocal ==
    ASSUME SpawnInv, SpawnInv', StopInv, NEW o \in Operation,
           \A d \in Caller :
             \/ calls'[d] = None
             \/ calls'[d] = calls[d] /\ (Holds(d) => calls[d].operation # o)
             \/ calls'[d].at \in Closing /\ DriverFits(calls[d])',
           \A p \in Operation : p # o => world'[p] = world[p] /\ closes'[p] = closes[p],
           \A b \in Attempt :
             \/ stops'[b] = stops[b]
             \/ /\ stops'[b] # None /\ stops'[b].operation = o
                /\ stops[b] = None \/ stops[b].operation = o,
           StopFits(o)'
    PROVE  StopInv'
<1>1. Drivers'
  <2> SUFFICES ASSUME NEW d \in Caller, calls'[d] # None, calls'[d].at \in Closing
               PROVE  DriverFits(calls[d])'
    BY DEF Drivers
  <2>1. CASE calls'[d] = calls[d] /\ (Holds(d) => calls[d].operation # o)
    <3>1. PICK m : m = calls[d]
      OBVIOUS
    <3>2. /\ m # None /\ m.at \in Closing /\ DriverFits(m) /\ Holds(d)
      BY <2>1, <3>1 DEF StopInv, Drivers, Holds, Closing
    <3>3. m.operation \in Operation /\ m.operation # o /\ m.stop \in Attempt \cup {None}
          /\ (m.stop # None => stops[m.stop] # None)
      BY <2>1, <3>1, <3>2, DriverReads
    <3>4. m.stop # None => stops'[m.stop] = stops[m.stop]
      BY <3>2, <3>3 DEF DriverFits, ParentFits
    <3>5. /\ closes'[m.operation][m.close] = closes[m.operation][m.close]
          /\ world'[m.operation] = world[m.operation]
      BY <3>3
    <3>6. DriverFits(m)'
      BY <3>2, <3>4, <3>5, DriverLasts DEF Lasts
    <3>7. calls'[d] = m
      BY <2>1, <3>1
    <3> QED BY <3>6, <3>7 DEF DriverFits
  <2> QED BY <2>1
<1>2. Frozen'
  <2> SUFFICES ASSUME NEW d \in Caller, calls'[d] # None, calls'[d].at \in Applying
               PROVE  ~StopInProgress(calls[d].operation)'
    BY DEF Frozen
  <2>1. /\ calls'[d] = calls[d] /\ calls[d].at \notin {"previewing", "observed"}
        /\ calls[d].operation # o
    BY DEF Applying, Recording, Closing, Holds
  <2>2. ~StopInProgress(calls[d].operation)
    BY <2>1 DEF StopInv, Frozen
  <2> QED BY <2>1, <2>2 DEF StopInProgress
<1>3. ASSUME NEW p \in Operation PROVE StopFits(p)'
  <2>1. CASE p = o
    BY <2>1
  <2>2. CASE p # o
    <3>1. StopFits(p) /\ world'[p] = world[p] /\ closes'[p] = closes[p]
      BY <2>2 DEF StopInv
    <3>2. \A b \in Attempt : /\ stops[b] # None /\ stops[b].operation = p => stops'[b] = stops[b]
                             /\ stops'[b] # None /\ stops'[b].operation = p => stops'[b] = stops[b]
      BY <2>2
    <3>3. OutcomesFit(p)'
      <4>1. ASSUME NEW b \in Attempt, stops'[b] # None, stops'[b].operation = p,
                   stops'[b].state \in Terminal
            PROVE  OutcomeHolds(stops'[b], b, stops'[b].state, world'[p])
        BY <3>1, <3>2, <4>1 DEF StopFits, OutcomesFit
      <4> QED BY <4>1 DEF OutcomesFit, OutcomeHolds, NamedIsOver
    <3>4. ClosesFit(p)' /\ EndsFit(p)'
      <4>1. \A k \in Closes : closes'[p][k] = "Stopped" => NamedIsOver(world'[p])
        BY <3>1 DEF StopFits, ClosesFit
      <4>2. EndsFit(p)'
        BY <3>1, <3>2 DEF StopFits, EndsFit
      <4> QED BY <3>1, <3>2, <4>1, <4>2 DEF StopFits, ClosesFit, NamedIsOver
    <3>5. PermitFits(p)'
      BY <3>1, <3>2 DEF StopFits, PermitFits
    <3>6. RemovalFits(p)'
      <4>1. \A b \in Attempt : Remover(b, p) => Remover(b, p)'
        BY <3>1, <3>2 DEF Remover
      <4> QED BY <3>1, <4>1 DEF StopFits, RemovalFits
    <3> QED BY <3>3, <3>4, <3>5, <3>6 DEF StopFits
  <2> QED BY <2>1, <2>2
<1> QED BY <1>1, <1>2, <1>3 DEF StopInv

-----------------------------------------------------------------------------
(* The steps of a stop                                                     *)

\* The other requests, when the one that moves is the only one with the lock.
LEMMA MoverAlone ==
    ASSUME Types, NEW c \in Caller, NEW o \in Operation, Alone(c, o), NEW n,
           calls' = [calls EXCEPT ![c] = n],
           n = None \/ (n.at \in Closing /\ DriverFits(n)')
    PROVE  \A d \in Caller :
             \/ calls'[d] = None
             \/ calls'[d] = calls[d] /\ (Holds(d) => calls[d].operation # o)
             \/ calls'[d].at \in Closing /\ DriverFits(calls[d])'
<1> SUFFICES ASSUME NEW d \in Caller
             PROVE  \/ calls'[d] = None
                    \/ calls'[d] = calls[d] /\ (Holds(d) => calls[d].operation # o)
                    \/ calls'[d].at \in Closing /\ DriverFits(calls[d])'
  OBVIOUS
<1>1. CASE d = c
  <2>1. calls'[d] = n
    BY <1>1 DEF Types
  <2> QED BY <2>1 DEF DriverFits
<1>2. CASE d # c
  BY <1>2 DEF Types, Alone
<1> QED BY <1>1, <1>2

\* A stop is planned.
LEMMA PlanStopKeeps ==
    ASSUME SpawnInv, SpawnInv', StopInv, NEW a \in Attempt, NEW o \in Operation,
           NEW remove \in BOOLEAN, PlanStop(a, o, remove)
    PROVE  StopInv'
<1>1. /\ UNCHANGED <<journal, world, calls, closes>> /\ stops[a] = None /\ LockFree(o)
      /\ stops'[a] # None /\ stops'[a].operation = o /\ stops'[a].state = "Planned"
  BY PlanStopIs
<1>2. \A b \in Attempt : b # a =>
        \/ stops'[b] = stops[b]
        \/ Superseded(stops[b], stops'[b]) /\ stops[b].operation = o
  BY PlanStopIs
<1>3. StopFits(o) /\ "Planned" \notin Terminal /\ "Superseded" \notin Terminal
  BY DEF StopInv, Terminal
<1>4. StopFits(o)'
  <2>1. OutcomesFit(o)'
    <3>1. ASSUME NEW b \in Attempt, stops'[b] # None, stops'[b].operation = o,
                 stops'[b].state \in Terminal
          PROVE  OutcomeHolds(stops'[b], b, stops'[b].state, world'[o])
      BY <1>1, <1>2, <1>3, <3>1 DEF StopFits, OutcomesFit, Superseded
    <3> QED BY <3>1 DEF OutcomesFit, OutcomeHolds, NamedIsOver
  <2>2. ClosesFit(o)' /\ EndsFit(o)'
    <3>1. \A k \in Closes : closes'[o][k] = "Stopped" => NamedIsOver(world'[o])
      BY <1>1, <1>3 DEF StopFits, ClosesFit
    <3>2. EndsFit(o)'
      BY <1>1, <1>2, <1>3 DEF StopFits, EndsFit, Superseded
    <3> QED BY <1>1, <1>2, <1>3, <3>1, <3>2 DEF StopFits, ClosesFit, Superseded, NamedIsOver
  <2>3. PermitFits(o)'
    BY <1>1, <1>2, <1>3 DEF StopFits, PermitFits, Superseded
  <2>4. RemovalFits(o)'
    <3>1. \A b \in Attempt : Remover(b, o) => Remover(b, o)'
      BY <1>1, <1>2 DEF Remover, Superseded
    <3> QED BY <1>1, <1>3, <3>1 DEF StopFits, RemovalFits
  <2> QED BY <2>1, <2>2, <2>3, <2>4 DEF StopFits
<1>5. \A b \in Attempt :
        \/ stops'[b] = stops[b]
        \/ /\ stops'[b] # None /\ stops'[b].operation = o
           /\ stops[b] = None \/ stops[b].operation = o
  BY <1>1, <1>2 DEF Superseded
<1>6. \A d \in Caller : calls'[d] = calls[d] /\ (Holds(d) => calls[d].operation # o)
  BY <1>1 DEF LockFree
<1> QED BY <1>1, <1>4, <1>5, <1>6, StopLocal

\* A close that names another session than the last one did finds no stop that ended the
\* agent, and no close that stopped.
LEMMA RenameFits ==
    ASSUME NEW o \in Operation, StopFits(o), NEW old, old = world[o],
           NEW w, w.permit = old.permit, Lasts(old, w) \/ Effective(o) = {}
    PROVE  /\ \A k \in Closes : closes[o][k] = "Stopped" => NamedIsOver(w)
           /\ \A b \in Attempt :
                stops[b] # None /\ stops[b].operation = o /\ stops[b].state \in Terminal =>
                  OutcomeHolds(stops[b], b, stops[b].state, w)
<1>1. \A k \in Closes : closes[o][k] = "Stopped" => k \in Effective(o)
  BY DEF Effective, Closes
<1>2. \A k \in Closes : closes[o][k] = "Stopped" => NamedIsOver(w)
  BY <1>1 DEF StopFits, ClosesFit, Lasts
<1>3. ASSUME NEW b \in Attempt, stops[b] # None, stops[b].operation = o,
             stops[b].state \in Terminal
      PROVE  OutcomeHolds(stops[b], b, stops[b].state, w)
  <2>1. PICK s, x : s = stops[b] /\ x = s.state
    OBVIOUS
  <2>2. OutcomeHolds(s, b, x, old)
    BY <1>3, <2>1 DEF StopFits, OutcomesFit
  <2>3. CASE Lasts(old, w)
    BY <2>1, <2>2, <2>3, OutcomeLasts
  <2>4. CASE Effective(o) = {}
    <3>1. x = "SourceRetained"
      BY <1>1, <1>3, <2>1, <2>4 DEF StopFits, EndsFit
    <3> QED BY <2>1, <2>2, <3>1 DEF OutcomeHolds
  <2> QED BY <2>3, <2>4
<1> QED BY <1>2, <1>3

\* A stop is authorized, and its close admitted.
LEMMA AuthorizeStopKeeps ==
    ASSUME SpawnInv, SpawnInv', StopInv, NEW c \in Caller, NEW a \in Attempt,
           AuthorizeStop(c, a)
    PROVE  StopInv'
<1>1. PICK s, o, k : s = stops[a] /\ o = s.operation /\ k = Child(a)
  OBVIOUS
<1>2. /\ LockFree(o) /\ o \in Operation /\ k \in Closes
      /\ s.state = "Planned" /\ world[o].bound # 0
      /\ k = a \/ (k # a /\ closes[o][k] # "none")
      /\ \A b \in Attempt : b # a => stops'[b] = stops[b]
      /\ stops'[a] # None /\ stops'[a].operation = o /\ (stops'[a].remove <=> s.remove)
      /\ stops'[a].child = k /\ stops'[a].state = "Authorized"
  BY <1>1, AuthorizeStopIs
<1>3. /\ \A p \in Operation, j \in Closes : p # o \/ j # k => closes'[p][j] = closes[p][j]
      /\ closes'[o][k] = IF closes[o][k] = "none" THEN "Admitted" ELSE closes[o][k]
      /\ closes' \in [Operation -> [Closes -> {"none", "Admitted", "Stopped", "SourceRetained"}]]
  BY <1>1, AuthorizeStopIs
<1>4. PICK n \in DriveCall :
        /\ calls' = [calls EXCEPT ![c] = n] /\ n.at = "driving" /\ n.operation = o
        /\ n.stop = a /\ n.close = k
  BY <1>1, AuthorizeStopIs
<1>5. StopFits(o) /\ "Authorized" \notin Terminal /\ Types
  BY <1>2 DEF StopInv, Terminal, SpawnInv
<1>6. \A b \in Attempt : b \in Closes
  BY DEF Closes
<1>7. PICK w \in World : world' = [world EXCEPT ![o] = w] /\ NamedBy(a, o, k, w)
  BY <1>1, AuthorizeStopIs
<1>8. /\ w.permit = world[o].permit /\ w.workspace = world[o].workspace /\ w.closing # 0
      /\ Lasts(world[o], w) \/ Effective(o) = {}
  <2>1. CASE w = world[o] /\ closes[o][k] # "none"
    BY <1>2, <1>5, <2>1 DEF StopFits, ClosesFit, Lasts
  <2>2. CASE Renamed(world[o], w) /\ Effective(o) = {}
    BY <1>2, <2>2 DEF Renamed
  <2> QED BY <1>7, <2>1, <2>2 DEF NamedBy
<1>9. world'[o] = w /\ \A p \in Operation : p # o => world'[p] = world[p]
  BY <1>2, <1>5, <1>7 DEF Types
<1>10. /\ \A j \in Closes : closes[o][j] = "Stopped" => NamedIsOver(w)
       /\ \A b \in Attempt :
            stops[b] # None /\ stops[b].operation = o /\ stops[b].state \in Terminal =>
              OutcomeHolds(stops[b], b, stops[b].state, w)
  BY <1>2, <1>5, <1>8, RenameFits
<1>11. StopFits(o)'
  <2>1. OutcomesFit(o)'
    <3>1. ASSUME NEW b \in Attempt, stops'[b] # None, stops'[b].operation = o,
                 stops'[b].state \in Terminal
          PROVE  OutcomeHolds(stops'[b], b, stops'[b].state, w)
      BY <1>2, <1>5, <1>10, <3>1
    <3> QED BY <1>9, <3>1 DEF OutcomesFit, OutcomeHolds, NamedIsOver
  <2>2. ClosesFit(o)'
    <3>1. ASSUME NEW j \in Closes, closes'[o][j] = "Stopped" PROVE NamedIsOver(w)
      BY <1>2, <1>3, <1>10, <3>1
    <3>2. ASSUME NEW b \in Attempt, closes'[o][b] # "none"
          PROVE  /\ stops'[b] # None /\ stops'[b].operation = o
                 /\ stops'[b].state \notin {"Planned", "Superseded"}
      <4>1. CASE b = a
        BY <1>2, <4>1
      <4>2. CASE b # a
        BY <1>2, <1>3, <1>5, <1>6, <3>2, <4>2 DEF StopFits, ClosesFit
      <4> QED BY <4>1, <4>2
    <3> QED BY <1>8, <1>9, <3>1, <3>2 DEF ClosesFit, NamedIsOver
  <2>3. PermitFits(o)'
    BY <1>1, <1>2, <1>5, <1>8, <1>9 DEF StopFits, PermitFits
  <2>4. RemovalFits(o)'
    <3>1. \A b \in Attempt : Remover(b, o) => Remover(b, o)'
      BY <1>1, <1>2, <1>3 DEF Remover
    <3> QED BY <1>5, <1>8, <1>9, <3>1 DEF StopFits, RemovalFits
  <2>5. EndsFit(o)'
    BY <1>2, <1>3, <1>5 DEF StopFits, EndsFit
  <2> QED BY <2>1, <2>2, <2>3, <2>4, <2>5 DEF StopFits
<1>12. DriverFits(n)'
  <2>1. n.stop # None
    BY <1>4, StopAssumption
  <2>2. ParentFits(n, stops'[n.stop], world'[n.operation])
    BY <1>2, <1>4 DEF ParentFits
  <2>3. ChildFits(n, closes'[n.operation][n.close], world'[n.operation])
    BY <1>4, <2>1 DEF ChildFits
  <2> QED BY <2>2, <2>3 DEF DriverFits
<1>13. \A d \in Caller :
        \/ calls'[d] = None
        \/ calls'[d] = calls[d] /\ (Holds(d) => calls[d].operation # o)
        \/ calls'[d].at \in Closing /\ DriverFits(calls[d])'
  <2>1. Alone(c, o) /\ n.at \in Closing
    BY <1>2, <1>4, FreeAlone DEF Closing
  <2> QED BY <1>2, <1>4, <1>5, <1>12, <2>1, MoverAlone
<1>14. \A p \in Operation : p # o => world'[p] = world[p] /\ closes'[p] = closes[p]
  <2>1. \A p \in Operation :
          /\ closes'[p] \in [Closes -> {"none", "Admitted", "Stopped", "SourceRetained"}]
          /\ closes[p] \in [Closes -> {"none", "Admitted", "Stopped", "SourceRetained"}]
    BY <1>3, <1>5 DEF Types
  <2> QED BY <1>2, <1>3, <1>9, <2>1
<1>15. \A b \in Attempt :
         \/ stops'[b] = stops[b]
         \/ /\ stops'[b] # None /\ stops'[b].operation = o
            /\ stops[b] = None \/ stops[b].operation = o
  BY <1>1, <1>2
<1> QED BY <1>2, <1>11, <1>13, <1>14, <1>15, StopLocal

\* A step under the lock that changes the world for stop a, and no row.
LEMMA WorldKeeps ==
    ASSUME SpawnInv, SpawnInv', StopInv, NEW c \in Caller, NEW o \in Operation, Alone(c, o),
           UNCHANGED <<stops, closes>>, NEW old, old = world[o], NEW w,
           world' = [world EXCEPT ![o] = w], NEW a, Lasts(old, w),
           w.workspace = "removed" /\ old.workspace # "removed" => a \in Attempt /\ Remover(a, o),
           \/ w.permit = old.permit \/ w.permit = None
           \/ /\ w.permit = a /\ a \in Attempt /\ stops[a] # None /\ stops[a].operation = o
              /\ stops[a].state \notin Terminal /\ stops[a].remove,
           NEW n \in DriveCall, calls' = [calls EXCEPT ![c] = n], DriverFits(n)'
    PROVE  StopInv'
<1>1. Types
  BY DEF SpawnInv
<1>2. world'[o] = w /\ \A p \in Operation : p # o => world'[p] = world[p]
  BY <1>1 DEF Types
<1>3. StopFits(o)'
  <2>1. StopFits(o) /\ world'[o] = w /\ UNCHANGED <<stops, closes>>
    BY <1>2 DEF StopInv
  <2> QED BY <2>1, WorldFits
<1>4. n.at \in Closing
  BY DEF DriveCall
<1>5. \A d \in Caller :
        \/ calls'[d] = None
        \/ calls'[d] = calls[d] /\ (Holds(d) => calls[d].operation # o)
        \/ calls'[d].at \in Closing /\ DriverFits(calls[d])'
  BY <1>1, <1>4, MoverAlone
<1>6. /\ \A p \in Operation : p # o => world'[p] = world[p] /\ closes'[p] = closes[p]
      /\ \A b \in Attempt : stops'[b] = stops[b]
  BY <1>2
<1> QED BY <1>3, <1>5, <1>6, StopLocal

\* A stop that is taken up is authorized, and a plain close admitted.
LEMMA TakeUpKeeps ==
    ASSUME SpawnInv, SpawnInv', StopInv, NEW c \in Caller,
           \/ \E a \in Attempt : DriveStop(c, a)
           \/ \E o \in Operation : DriveClose(c, o)
    PROVE  StopInv'
<1>1. ASSUME NEW o \in Operation, LockFree(o), UNCHANGED <<world, stops, closes>>,
             NEW n \in DriveCall, calls' = [calls EXCEPT ![c] = n], DriverFits(n)'
      PROVE  StopInv'
  <2>1. PICK old : old = world[o]
    OBVIOUS
  <2>2. world' = [world EXCEPT ![o] = old] /\ Alone(c, o) /\ Lasts(old, old)
    BY <1>1, <2>1, WorldStays, FreeAlone DEF Lasts, SpawnInv
  <2>3. UNCHANGED <<stops, closes>>
    BY <1>1
  <2> QED BY <1>1, <2>1, <2>2, <2>3, WorldKeeps
<1>2. ASSUME NEW a \in Attempt, DriveStop(c, a) PROVE StopInv'
  <2>1. PICK s, o : s = stops[a] /\ o = s.operation
    OBVIOUS
  <2>2. /\ UNCHANGED <<journal, world, stops, closes>> /\ LockFree(o) /\ o \in Operation
        /\ s.state = "Authorized"
    BY <1>2, <2>1, DriveStopIs
  <2>3. PICK n \in DriveCall :
          /\ calls' = [calls EXCEPT ![c] = n] /\ n.at = "driving" /\ n.operation = o
          /\ n.stop = a /\ n.close = s.child
    BY <1>2, <2>1, DriveStopIs
  <2>4. n.stop # None
    BY <2>3, StopAssumption
  <2>5. ParentFits(n, stops'[n.stop], world'[n.operation])
    BY <2>1, <2>2, <2>3 DEF ParentFits
  <2>6. ChildFits(n, closes'[n.operation][n.close], world'[n.operation])
    BY <2>3, <2>4 DEF ChildFits
  <2>7. DriverFits(n)'
    BY <2>5, <2>6 DEF DriverFits
  <2> QED BY <1>1, <2>2, <2>3, <2>7
<1>3. ASSUME NEW o \in Operation, DriveClose(c, o) PROVE StopInv'
  <2>1. UNCHANGED <<journal, world, stops, closes>> /\ LockFree(o)
    BY <1>3, DriveCloseIs
  <2>2. PICK n \in DriveCall :
          /\ calls' = [calls EXCEPT ![c] = n] /\ n.at = "closing" /\ n.operation = o
          /\ n.stop = None /\ closes[o][n.close] = "Admitted"
    BY <1>3, DriveCloseIs
  <2>3. ChildFits(n, closes'[n.operation][n.close], world'[n.operation])
    BY <2>1, <2>2 DEF ChildFits
  <2>4. DriverFits(n)'
    BY <2>2, <2>3 DEF DriverFits
  <2> QED BY <1>1, <2>1, <2>2, <2>4
<1> QED BY <1>2, <1>3

\* A plain close is admitted; it is no stop's own.
LEMMA AdmitCloseKeeps ==
    ASSUME SpawnInv, SpawnInv', StopInv, NEW c \in Caller, NEW o \in Operation,
           AdmitClose(c, o)
    PROVE  StopInv'
<1>1. /\ UNCHANGED <<journal, stops>> /\ LockFree(o) /\ closes[o][Plain] = "none"
      /\ world[o].bound # 0 /\ Effective(o) = {}
      /\ closes'[o][Plain] = "Admitted"
      /\ \A p \in Operation, k \in Closes : p # o \/ k # Plain => closes'[p][k] = closes[p][k]
  BY AdmitCloseIs
<1>2. PICK n \in DriveCall :
        /\ calls' = [calls EXCEPT ![c] = n] /\ n.at = "closing" /\ n.operation = o
        /\ n.stop = None /\ n.close = Plain
  BY AdmitCloseIs
<1>3. StopFits(o) /\ Types /\ Types'
  BY DEF StopInv, SpawnInv
<1>4. \A b \in Attempt : b \in Closes /\ b # Plain
  BY StopAssumption DEF Closes
<1>5. PICK w \in World : world' = [world EXCEPT ![o] = w] /\ Renamed(world[o], w)
  BY AdmitCloseIs
<1>6. /\ w.permit = world[o].permit /\ w.workspace = world[o].workspace /\ w.closing # 0
      /\ world'[o] = w /\ \A p \in Operation : p # o => world'[p] = world[p]
  BY <1>1, <1>3, <1>5 DEF Renamed, Types
<1>7. /\ \A k \in Closes : closes[o][k] = "Stopped" => NamedIsOver(w)
      /\ \A b \in Attempt :
           stops[b] # None /\ stops[b].operation = o /\ stops[b].state \in Terminal =>
             OutcomeHolds(stops[b], b, stops[b].state, w)
  BY <1>1, <1>3, <1>6, RenameFits
<1>8. StopFits(o)'
  <2>1. OutcomesFit(o)' /\ PermitFits(o)'
    <3>1. PermitFits(o)'
      BY <1>1, <1>3, <1>6 DEF StopFits, PermitFits
    <3> QED BY <1>1, <1>6, <1>7, <3>1 DEF OutcomesFit, OutcomeHolds, NamedIsOver
  <2>2. ClosesFit(o)' /\ EndsFit(o)'
    <3>1. ASSUME NEW k \in Closes, closes'[o][k] = "Stopped" PROVE NamedIsOver(w)
      BY <1>1, <1>7, <3>1
    <3>2. EndsFit(o)'
      BY <1>1, <1>3 DEF StopFits, EndsFit
    <3> QED BY <1>1, <1>3, <1>4, <1>6, <3>1, <3>2 DEF StopFits, ClosesFit, NamedIsOver
  <2>3. RemovalFits(o)'
    <3>1. \A b \in Attempt : Remover(b, o) => Remover(b, o)'
      BY <1>1 DEF Remover
    <3> QED BY <1>3, <1>6, <3>1 DEF StopFits, RemovalFits
  <2> QED BY <2>1, <2>2, <2>3 DEF StopFits
<1>9. DriverFits(n)'
  <2>1. ChildFits(n, closes'[n.operation][n.close], world'[n.operation])
    BY <1>1, <1>2 DEF ChildFits
  <2> QED BY <1>2, <2>1 DEF DriverFits
<1>10. \A d \in Caller :
        \/ calls'[d] = None
        \/ calls'[d] = calls[d] /\ (Holds(d) => calls[d].operation # o)
        \/ calls'[d].at \in Closing /\ DriverFits(calls[d])'
  <2>1. Alone(c, o) /\ n.at \in Closing
    BY <1>1, <1>2, FreeAlone DEF Closing
  <2> QED BY <1>2, <1>3, <1>9, <2>1, MoverAlone
<1>11. \A p \in Operation : p # o => world'[p] = world[p] /\ closes'[p] = closes[p]
  <2>1. \A p \in Operation :
          /\ closes[p] \in [Closes -> {"none", "Admitted", "Stopped", "SourceRetained"}]
          /\ closes'[p] \in [Closes -> {"none", "Admitted", "Stopped", "SourceRetained"}]
    BY <1>3 DEF Types
  <2> QED BY <1>1, <1>6, <2>1
<1>12. \A b \in Attempt : stops'[b] = stops[b]
  BY <1>1
<1> QED BY <1>8, <1>10, <1>11, <1>12, StopLocal

\* What the driver of a stop knows.
LEMMA DriverKnows ==
    ASSUME SpawnInv, StopInv, NEW c \in Caller, calls[c] # None, calls[c].at \in Closing,
           NEW m, m = calls[c], NEW o, o = m.operation, NEW a, a = m.stop
    PROVE  /\ o \in Operation /\ Alone(c, o) /\ StopFits(o)
           /\ m.close \in Closes /\ world[o] \in World /\ m \in DriveCall
           /\ a # None => a \in Attempt /\ stops[a] # None /\ ParentFits(m, stops[a], world[o])
           /\ ChildFits(m, closes[o][m.close], world[o])
<1>1. /\ o \in Operation /\ Alone(c, o) /\ m.close \in Closes /\ m \in DriveCall
      /\ a \in Attempt \cup {None} /\ (a # None => stops[a] # None)
  BY DriverReads
<1>2. StopFits(o) /\ world[o] \in World
  BY <1>1 DEF StopInv, SpawnInv, Types
<1>3. DriverFits(m)
  BY DEF StopInv, Drivers
<1> QED BY <1>1, <1>2, <1>3 DEF DriverFits

\* A driver that takes, reuses or releases the permit.
LEMMA AdmitRemovalKeeps ==
    ASSUME SpawnInv, SpawnInv', StopInv, NEW c \in Caller, AdmitRemoval(c)
    PROVE  StopInv'
<1>1. PICK m, o, old, a, s : /\ m = calls[c] /\ o = m.operation /\ old = world[o]
                             /\ a = m.stop /\ s = stops[a]
  OBVIOUS
<1>2. UNCHANGED <<journal, stops, closes>> /\ m # None /\ m.at = "driving"
  BY <1>1, AdmitRemovalIs
<1>3. PICK n \in DriveCall, w \in World :
        /\ calls' = [calls EXCEPT ![c] = n] /\ world' = [world EXCEPT ![o] = w]
        /\ n.operation = o /\ n.stop = a /\ n.close = m.close
        /\ Repermitted(old, w)
        /\ \/ /\ n.at = "terminalizing" /\ n.outcome = "SourceRetained"
              /\ closes[o][m.close] = "SourceRetained"
              /\ w.permit = IF old.permit = a THEN None ELSE old.permit
           \/ /\ n.at = "closing" /\ n.admission = "Preserve"
              /\ ~stops[a].remove /\ w = old
           \/ /\ n.at = "closing" /\ n.admission = "Replaced" /\ stops[a].remove
              /\ old.workspace = "replaced" /\ old.permit # a /\ w = old
           \/ /\ n.at = "closing" /\ n.admission = "Remove" /\ stops[a].remove
              /\ w.permit \in {old.permit, a}
  BY <1>1, AdmitRemovalIs
<1>4. m.at \in Closing
  BY <1>2 DEF Closing
<1>5. /\ o \in Operation /\ Alone(c, o)
      /\ a # None => a \in Attempt /\ s # None /\ ParentFits(m, s, old)
      /\ ChildFits(m, closes[o][m.close], old)
  BY <1>1, <1>2, <1>4, DriverKnows
<1>6. /\ a # None /\ a \in Attempt /\ s # None /\ s.operation = o /\ s.state = "Authorized"
      /\ s.child = m.close
  BY <1>1, <1>2, <1>5 DEF ChildFits, ParentFits
<1>7. world'[o] = w
  BY <1>3, <1>5 DEF SpawnInv, Types
<1>8. ParentFits(n, s, w)
  <2>1. n.at = "terminalizing" => OutcomeHolds(s, a, n.outcome, w)
    BY <1>3, <1>6 DEF OutcomeHolds, Terminal
  <2>2. n.at \in {"closing", "advancing", "closed"} =>
         /\ n.admission \in {"Preserve", "Replaced", "Remove"}
         /\ n.admission = "Preserve" => ~s.remove
         /\ n.admission \in {"Replaced", "Remove"} => s.remove
         /\ n.admission = "Replaced" => w.workspace = "replaced" /\ w.permit # a
    BY <1>1, <1>3
  <2> QED BY <1>3, <1>6, <2>1, <2>2 DEF ParentFits
<1>9. ChildFits(n, closes[o][m.close], w)
  BY <1>3, <1>6 DEF ChildFits
<1>10. DriverFits(n)'
  <2>1. stops'[n.stop] = s /\ world'[n.operation] = w
        /\ closes'[n.operation][n.close] = closes[o][m.close]
    BY <1>1, <1>2, <1>3, <1>7
  <2> QED BY <1>8, <1>9, <2>1 DEF DriverFits
<1>11. /\ Lasts(old, w) /\ (w.workspace = "removed" => old.workspace = "removed")
       /\ \/ w.permit = old.permit \/ w.permit = None
          \/ /\ w.permit = a /\ a \in Attempt /\ stops[a] # None /\ stops[a].operation = o
             /\ stops[a].state \notin Terminal /\ stops[a].remove
  BY <1>1, <1>3, <1>6 DEF Lasts, Repermitted, Terminal, NamedIsOver
<1>12. UNCHANGED <<stops, closes>>
  BY <1>2
<1> QED BY <1>1, <1>3, <1>5, <1>10, <1>11, <1>12, WorldKeeps

\* The session is stopped, or kept.
LEMMA StopSessionKeeps ==
    ASSUME SpawnInv, SpawnInv', StopInv, NEW c \in Caller, StopSession(c)
    PROVE  StopInv'
<1>1. PICK m, o, old, a, s : /\ m = calls[c] /\ o = m.operation /\ old = world[o]
                             /\ a = m.stop /\ s = stops[a]
  OBVIOUS
<1>2. UNCHANGED <<journal, stops, closes>> /\ m # None /\ m.at = "closing"
  BY <1>1, StopSessionIs
<1>3. PICK n \in DriveCall, w \in World :
        /\ calls' = [calls EXCEPT ![c] = n] /\ world' = [world EXCEPT ![o] = w]
        /\ n.operation = o /\ n.stop = m.stop /\ n.close = m.close
        /\ n.admission = m.admission
        /\ w.workspace = old.workspace /\ w.session \in {old.session, "stopped"}
        /\ w.started = old.started /\ w.bound = old.bound /\ w.closing = old.closing
        /\ w.handed = old.handed /\ w.permit = old.permit
        /\ \/ n.at = "closed" /\ closes[o][m.close] = "Stopped" /\ n.outcome = "Stopped"
           \/ /\ n.at = "advancing" /\ closes[o][m.close] = "Admitted"
              /\ n.outcome \in {"Stopped", "SourceRetained"}
              /\ n.outcome = "Stopped" =>
                   w.session = "stopped" \/ w.closing # w.started
  BY <1>1, StopSessionIs
<1>4. m.at \in Closing
  BY <1>2 DEF Closing
<1>5. /\ o \in Operation /\ Alone(c, o) /\ StopFits(o) /\ m.close \in Closes
      /\ a # None => a \in Attempt /\ s # None /\ ParentFits(m, s, old)
      /\ ChildFits(m, closes[o][m.close], old)
  BY <1>1, <1>2, <1>4, DriverKnows
<1>6. world'[o] = w
  BY <1>3, <1>5 DEF SpawnInv, Types
<1>7. a # None => ParentFits(n, s, w)
  BY <1>1, <1>2, <1>3, <1>5 DEF ParentFits
<1>8. w.session = "stopped" \/ w.closing # w.started => NamedIsOver(w)
  <2>1. world[o].bound # 0 /\ closes[o][m.close] # "none"
    BY <1>1, <1>2, <1>4, DriverReads
  <2>2. Evidenced(journal[o], old)
    BY <1>1, <1>5, <2>1, SelectedReads
  <2>3. w.closing # 0 /\ w.closing <= w.started
    BY <1>1, <1>3, <1>5, <2>1, <2>2 DEF StopFits, ClosesFit, Evidenced
  <2> QED BY <2>3 DEF NamedIsOver, World
<1>9. ChildFits(n, closes[o][m.close], w)
  BY <1>1, <1>2, <1>3, <1>5, <1>8 DEF ChildFits
<1>10. DriverFits(n)'
  <2>1. stops'[n.stop] = s /\ world'[n.operation] = w
        /\ closes'[n.operation][n.close] = closes[o][m.close]
    BY <1>1, <1>2, <1>3, <1>6
  <2> QED BY <1>1, <1>3, <1>7, <1>9, <2>1 DEF DriverFits
<1>11. /\ Lasts(old, w) /\ (w.workspace = "removed" => old.workspace = "removed")
       /\ UNCHANGED <<stops, closes>>
  BY <1>2, <1>3 DEF Lasts, NamedIsOver
<1> QED BY <1>1, <1>3, <1>5, <1>10, <1>11, WorldKeeps

\* The session was kept: the permit is released.
LEMMA KeepSourceKeeps ==
    ASSUME SpawnInv, SpawnInv', StopInv, NEW c \in Caller, KeepSource(c)
    PROVE  StopInv'
<1>1. PICK m, o, old, a, s : /\ m = calls[c] /\ o = m.operation /\ old = world[o]
                             /\ a = m.stop /\ s = stops[a]
  OBVIOUS
<1>2. /\ UNCHANGED <<journal, stops, closes>> /\ m # None
      /\ m.at = "closed" /\ m.outcome = "SourceRetained"
  BY <1>1, KeepSourceIs
<1>3. PICK n \in DriveCall, w \in World :
        /\ calls' = [calls EXCEPT ![c] = n] /\ world' = [world EXCEPT ![o] = w]
        /\ n.operation = o /\ n.stop = m.stop /\ n.close = m.close
        /\ n.at = "terminalizing" /\ n.outcome = "SourceRetained"
        /\ Repermitted(old, w)
        /\ w.permit = IF m.admission = "Remove" THEN None ELSE old.permit
  BY <1>1, KeepSourceIs
<1>4. m.at \in Closing
  BY <1>2 DEF Closing
<1>5. /\ o \in Operation /\ Alone(c, o) /\ StopFits(o)
      /\ a # None => a \in Attempt /\ s # None /\ ParentFits(m, s, old)
      /\ ChildFits(m, closes[o][m.close], old)
  BY <1>1, <1>2, <1>4, DriverKnows
<1>6. a # None /\ a \in Attempt /\ ParentFits(m, s, old) /\ closes[o][m.close] = "SourceRetained"
  BY <1>1, <1>2, <1>5 DEF ChildFits
<1>7. w.permit # a
  <2>1. CASE m.admission = "Remove"
    BY <1>3, <1>6, <2>1
  <2>2. CASE m.admission = "Preserve"
    <3>1. ~s.remove /\ old.permit # a
      BY <1>1, <1>2, <1>5, <1>6, <2>2 DEF ParentFits, StopFits, PermitFits
    <3> QED BY <1>3, <1>6, <3>1
  <2>3. CASE m.admission = "Replaced"
    BY <1>1, <1>2, <1>3, <1>6, <2>3 DEF ParentFits
  <2> QED BY <1>2, <1>6, <2>1, <2>2, <2>3 DEF ParentFits
<1>8. world'[o] = w
  BY <1>3, <1>5 DEF SpawnInv, Types
<1>9. ParentFits(n, s, w)
  <2>1. OutcomeHolds(s, a, "SourceRetained", w)
    BY <1>7 DEF OutcomeHolds
  <2> QED BY <1>1, <1>3, <1>6, <2>1 DEF ParentFits
<1>10. ChildFits(n, closes[o][m.close], w)
  BY <1>1, <1>3, <1>6 DEF ChildFits
<1>11. DriverFits(n)'
  <2>1. stops'[n.stop] = s /\ world'[n.operation] = w
        /\ closes'[n.operation][n.close] = closes[o][m.close]
    BY <1>1, <1>2, <1>3, <1>8
  <2> QED BY <1>9, <1>10, <2>1 DEF DriverFits
<1>12. /\ Lasts(old, w) /\ (w.workspace = "removed" => old.workspace = "removed")
       /\ w.permit = old.permit \/ w.permit = None
       /\ UNCHANGED <<stops, closes>>
  BY <1>2, <1>3 DEF Lasts, Repermitted, NamedIsOver
<1> QED BY <1>1, <1>3, <1>5, <1>11, <1>12, WorldKeeps

\* The checkout is left, found replaced or removed.
LEMMA SettleCheckoutKeeps ==
    ASSUME SpawnInv, SpawnInv', StopInv, NEW c \in Caller, SettleCheckout(c)
    PROVE  StopInv'
<1>1. PICK m, o, old, a, s : /\ m = calls[c] /\ o = m.operation /\ old = world[o]
                             /\ a = m.stop /\ s = stops[a]
  OBVIOUS
<1>2. /\ UNCHANGED <<journal, stops, closes>> /\ m # None
      /\ m.at = "closed" /\ m.outcome = "Stopped"
  BY <1>1, SettleCheckoutIs
<1>3. PICK n \in DriveCall, w \in World :
        /\ calls' = [calls EXCEPT ![c] = n] /\ world' = [world EXCEPT ![o] = w]
        /\ n.operation = o /\ n.stop = m.stop /\ n.close = m.close
        /\ n.at = "terminalizing"
        /\ w.session = old.session /\ w.started = old.started
        /\ w.bound = old.bound /\ w.closing = old.closing /\ w.handed = old.handed
        /\ \/ n.outcome = "WorkspacePreserved" /\ m.admission = "Preserve" /\ w = old
           \/ /\ n.outcome = "WorkspaceReplaced" /\ w = old
              /\ \/ m.admission = "Replaced"
                 \/ m.admission = "Remove" /\ old.workspace = "replaced"
           \/ /\ n.outcome = "Succeeded" /\ m.admission = "Remove"
              /\ old.workspace # "replaced"
              /\ w.workspace = "removed" /\ w.permit = None
  BY <1>1, SettleCheckoutIs
<1>4. m.at \in Closing
  BY <1>2 DEF Closing
<1>5. /\ o \in Operation /\ Alone(c, o) /\ StopFits(o) /\ m.close \in Closes
      /\ a # None => a \in Attempt /\ s # None /\ ParentFits(m, s, old)
      /\ ChildFits(m, closes[o][m.close], old)
  BY <1>1, <1>2, <1>4, DriverKnows
<1>6. /\ a # None /\ a \in Attempt /\ s # None /\ ParentFits(m, s, old)
      /\ closes[o][m.close] = "Stopped"
  BY <1>1, <1>2, <1>5 DEF ChildFits
<1>7. NamedIsOver(old) /\ NamedIsOver(w)
  <2>1. NamedIsOver(old)
    BY <1>1, <1>5, <1>6 DEF StopFits, ClosesFit
  <2> QED BY <1>3, <2>1 DEF NamedIsOver
<1>8. world'[o] = w
  BY <1>3, <1>5 DEF SpawnInv, Types
<1>9. ParentFits(n, s, w)
  <2>1. OutcomeHolds(s, a, n.outcome, w)
    BY <1>1, <1>2, <1>3, <1>6, <1>7 DEF OutcomeHolds, ParentFits, Terminal
  <2> QED BY <1>1, <1>3, <1>6, <2>1 DEF ParentFits
<1>10. ChildFits(n, closes[o][m.close], w)
  BY <1>1, <1>3, <1>6 DEF ChildFits
<1>11. DriverFits(n)'
  <2>1. stops'[n.stop] = s /\ world'[n.operation] = w
        /\ closes'[n.operation][n.close] = closes[o][m.close]
    BY <1>1, <1>2, <1>3, <1>8
  <2> QED BY <1>9, <1>10, <2>1 DEF DriverFits
<1>12. /\ Lasts(old, w) /\ UNCHANGED <<stops, closes>>
       /\ w.permit = old.permit \/ w.permit = None
  BY <1>2, <1>3, <1>7 DEF Lasts
<1>13. w.workspace = "removed" /\ old.workspace # "removed" => a \in Attempt /\ Remover(a, o)
  BY <1>1, <1>2, <1>3, <1>5, <1>6 DEF Remover, ParentFits
<1> QED BY <1>1, <1>3, <1>5, <1>11, <1>12, <1>13, WorldKeeps

\* A close is advanced.
LEMMA AdvanceCloseKeeps ==
    ASSUME SpawnInv, SpawnInv', StopInv, NEW c \in Caller, AdvanceClose(c)
    PROVE  StopInv'
<1>1. PICK m, o : m = calls[c] /\ o = m.operation
  OBVIOUS
<1>2. \E n \in DriveCall \cup {None} :
        /\ calls' = [calls EXCEPT ![c] = n]
        /\ m.stop = None => n = None
        /\ n # None =>
             /\ n.operation = o /\ n.stop = m.stop /\ n.close = m.close
             /\ n.at = "closed" /\ n.admission = m.admission /\ n.outcome = m.outcome
  BY <1>1, AdvanceCloseIs
<1>3. PICK w, a, s, k : w = world[o] /\ a = m.stop /\ s = stops[a] /\ k = m.close
  OBVIOUS
<1>4. /\ UNCHANGED <<journal, world, stops>> /\ m # None /\ m.at = "advancing"
      /\ m.outcome \in {"Stopped", "SourceRetained"}
      /\ closes' \in [Operation -> [Closes -> {"none", "Admitted", "Stopped", "SourceRetained"}]]
      /\ closes'[o][k] = m.outcome
      /\ \A p \in Operation, j \in Closes : p # o \/ j # k => closes'[p][j] = closes[p][j]
  BY <1>1, <1>3, AdvanceCloseIs
<1>5. PICK n \in DriveCall \cup {None} :
        /\ calls' = [calls EXCEPT ![c] = n]
        /\ m.stop = None => n = None
        /\ n # None =>
             /\ n.operation = o /\ n.stop = m.stop /\ n.close = m.close
             /\ n.at = "closed" /\ n.admission = m.admission /\ n.outcome = m.outcome
  BY <1>2, Zenon
<1>6. m.at \in Closing
  BY <1>4 DEF Closing
<1>7. /\ o \in Operation /\ Alone(c, o) /\ StopFits(o) /\ k \in Closes
      /\ a # None => a \in Attempt /\ s # None /\ ParentFits(m, s, w)
      /\ ChildFits(m, closes[o][k], w)
  BY <1>1, <1>3, <1>4, <1>6, DriverKnows
<1>8. closes[o][k] = "Admitted" /\ (m.outcome = "Stopped" => NamedIsOver(w))
  BY <1>4, <1>7 DEF ChildFits
<1>9. \A b \in Attempt : b \in Closes
  BY DEF Closes
<1>10. StopFits(o)'
  <2>1. OutcomesFit(o)' /\ PermitFits(o)'
    BY <1>4, <1>7 DEF StopFits, OutcomesFit, OutcomeHolds, NamedIsOver, PermitFits
  <2>2. ClosesFit(o)'
    <3>1. ASSUME NEW j \in Closes, closes'[o][j] = "Stopped" PROVE NamedIsOver(w)
      <4>1. CASE j = k
        BY <1>1, <1>3, <1>4, <1>8, <3>1, <4>1
      <4>2. CASE j # k
        BY <1>1, <1>3, <1>4, <1>7, <3>1, <4>2 DEF StopFits, ClosesFit
      <4> QED BY <4>1, <4>2
    <3>2. ASSUME NEW b \in Attempt, closes'[o][b] # "none"
          PROVE  /\ stops'[b] # None /\ stops'[b].operation = o
                 /\ stops'[b].state \notin {"Planned", "Superseded"}
      <4>1. closes[o][b] # "none"
        BY <1>4, <1>7, <1>8, <1>9, <3>2
      <4> QED BY <1>4, <1>7, <4>1 DEF StopFits, ClosesFit
    <3>3. ASSUME NEW j \in Closes, closes'[o][j] # "none" PROVE closes[o][j] # "none"
      BY <1>4, <1>7, <1>8, <3>3
    <3> QED BY <1>3, <1>4, <1>7, <3>1, <3>2, <3>3 DEF StopFits, ClosesFit, NamedIsOver
  <2>3. RemovalFits(o)'
    <3>1. \A b \in Attempt : Remover(b, o) => Remover(b, o)'
      BY <1>4, <1>7, <1>8 DEF Remover
    <3> QED BY <1>4, <1>7, <3>1 DEF StopFits, RemovalFits
  <2>4. EndsFit(o)'
    BY <1>4, <1>7, <1>8 DEF StopFits, EndsFit
  <2> QED BY <2>1, <2>2, <2>3, <2>4 DEF StopFits
<1>11. n # None => n.at \in Closing /\ DriverFits(n)'
  <2> SUFFICES ASSUME n # None PROVE n.at \in Closing /\ DriverFits(n)'
    OBVIOUS
  <2>1. a # None /\ ParentFits(m, s, w)
    BY <1>1, <1>3, <1>5, <1>7
  <2>2. ParentFits(n, s, w)
    BY <1>1, <1>3, <1>4, <1>5, <2>1 DEF ParentFits
  <2>3. ChildFits(n, m.outcome, w)
    BY <1>1, <1>3, <1>4, <1>5, <2>1 DEF ChildFits
  <2>4. stops'[n.stop] = s /\ world'[n.operation] = w /\ closes'[n.operation][n.close] = m.outcome
    BY <1>1, <1>3, <1>4, <1>5
  <2> QED BY <1>5, <2>2, <2>3, <2>4 DEF DriverFits, Closing
<1>12. \A d \in Caller :
         \/ calls'[d] = None
         \/ calls'[d] = calls[d] /\ (Holds(d) => calls[d].operation # o)
         \/ calls'[d].at \in Closing /\ DriverFits(calls[d])'
  <2>1. Types
    BY DEF SpawnInv
  <2> QED BY <1>5, <1>7, <1>11, <2>1, MoverAlone
<1>13. \A p \in Operation : p # o => world'[p] = world[p] /\ closes'[p] = closes[p]
  <2>1. \A p \in Operation :
          /\ closes[p] \in [Closes -> {"none", "Admitted", "Stopped", "SourceRetained"}]
          /\ closes'[p] \in [Closes -> {"none", "Admitted", "Stopped", "SourceRetained"}]
    BY <1>4 DEF SpawnInv, Types
  <2> QED BY <1>4, <2>1
<1>14. \A b \in Attempt : stops'[b] = stops[b]
  BY <1>4
<1> QED BY <1>7, <1>10, <1>12, <1>13, <1>14, StopLocal

\* A stop is given its outcome.
LEMMA TerminalizeKeeps ==
    ASSUME SpawnInv, SpawnInv', StopInv, NEW c \in Caller, Terminalize(c)
    PROVE  StopInv'
<1>1. PICK m, o, w, a, s : /\ m = calls[c] /\ o = m.operation /\ w = world[o]
                           /\ a = m.stop /\ s = stops[a]
  OBVIOUS
<1>2. /\ UNCHANGED <<journal, world, closes>> /\ m # None /\ m.at = "terminalizing"
      /\ calls' = [calls EXCEPT ![c] = None]
      /\ \A b \in Attempt : b # a => stops'[b] = stops[b]
      /\ a # None =>
           /\ s # None /\ stops'[a] # None /\ stops'[a].operation = s.operation
           /\ (stops'[a].remove <=> s.remove) /\ stops'[a].child = s.child
           /\ stops'[a].state = IF s.state = "Authorized" THEN m.outcome ELSE s.state
  BY <1>1, TerminalizeIs
<1>3. m.at \in Closing
  BY <1>2 DEF Closing
<1>4. /\ o \in Operation /\ Alone(c, o) /\ StopFits(o) /\ OutcomeFits(m) /\ m.close \in Closes
      /\ a # None => a \in Attempt /\ s # None /\ ParentFits(m, s, w)
      /\ ChildFits(m, closes[o][m.close], w)
  BY <1>1, <1>2, <1>3, DriverKnows, DriverReads
<1>5. /\ a # None /\ a \in Attempt /\ s.operation = o /\ s.state = "Authorized"
      /\ s.child = m.close /\ OutcomeHolds(s, a, m.outcome, w) /\ m.outcome \in Terminal
      /\ closes[o][m.close] = IF m.outcome = "SourceRetained" THEN "SourceRetained" ELSE "Stopped"
  BY <1>1, <1>2, <1>4 DEF ChildFits, ParentFits, OutcomeFits
<1>6. PICK x, t : x = m.outcome /\ t = stops'[a]
  OBVIOUS
<1>7. /\ t # None /\ t.operation = o /\ (t.remove <=> s.remove) /\ t.child = m.close /\ t.state = x
      /\ OutcomeHolds(s, a, x, w) /\ x \in Terminal
      /\ closes[o][m.close] = IF x = "SourceRetained" THEN "SourceRetained" ELSE "Stopped"
  BY <1>2, <1>5, <1>6
<1>8. StopFits(o)'
  <2>1. OutcomesFit(o)'
    <3>1. OutcomeHolds(t, a, x, w)
      BY <1>7 DEF OutcomeHolds
    <3>2. ASSUME NEW b \in Attempt, stops'[b] # None, stops'[b].operation = o,
                 stops'[b].state \in Terminal
          PROVE  OutcomeHolds(stops'[b], b, stops'[b].state, w)
      <4>1. CASE b = a
        BY <1>6, <1>7, <3>1, <4>1
      <4>2. CASE b # a
        BY <1>1, <1>2, <1>4, <3>2, <4>2 DEF StopFits, OutcomesFit
      <4> QED BY <4>1, <4>2
    <3>3. world'[o] = w
      BY <1>1, <1>2
    <3> QED BY <3>2, <3>3 DEF OutcomesFit, OutcomeHolds, NamedIsOver
  <2>2. ClosesFit(o)' /\ EndsFit(o)'
    <3>1. EndsFit(o)'
      BY <1>2, <1>4, <1>6, <1>7 DEF StopFits, EndsFit
    <3> QED BY <1>2, <1>4, <1>6, <1>7, <3>1 DEF StopFits, ClosesFit, NamedIsOver, Terminal
  <2>3. PermitFits(o)'
    BY <1>1, <1>2, <1>4, <1>6, <1>7 DEF StopFits, PermitFits
  <2>4. RemovalFits(o)'
    <3> SUFFICES ASSUME w.workspace = "removed" PROVE \E b \in Attempt : Remover(b, o)'
      BY <1>1, <1>2 DEF RemovalFits
    <3>1. PICK b \in Attempt : Remover(b, o)
      BY <1>1, <1>4 DEF StopFits, RemovalFits
    <3>2. Remover(b, o)'
      <4>1. CASE b = a
        <5>1. s.remove /\ closes[o][m.close] = "Stopped"
          BY <1>1, <1>5, <3>1, <4>1 DEF Remover
        <5>2. x = "Succeeded"
          BY <1>7, <5>1 DEF OutcomeHolds, Terminal
        <5>3. /\ t # None /\ t.operation = o /\ t.remove /\ t.state = "Succeeded"
              /\ t.child = m.close /\ m.close \in Closes
          BY <1>1, <1>5, <1>7, <3>1, <4>1, <5>1, <5>2 DEF Remover
        <5>4. stops'[b] = t /\ closes' = closes
          BY <1>2, <1>6, <4>1
        <5> QED BY <5>1, <5>3, <5>4 DEF Remover
      <4>2. CASE b # a
        BY <1>2, <3>1, <4>2 DEF Remover
      <4> QED BY <4>1, <4>2
    <3> QED BY <3>2
  <2> QED BY <2>1, <2>2, <2>3, <2>4 DEF StopFits
<1>9. \A d \in Caller :
        \/ calls'[d] = None
        \/ calls'[d] = calls[d] /\ (Holds(d) => calls[d].operation # o)
        \/ calls'[d].at \in Closing /\ DriverFits(calls[d])'
  <2>1. Types
    BY DEF SpawnInv
  <2>2. PICK n : n = None
    OBVIOUS
  <2>3. calls' = [calls EXCEPT ![c] = n]
    BY <1>2, <2>2
  <2> QED BY <1>4, <2>1, <2>2, <2>3, MoverAlone
<1>10. \A p \in Operation : p # o => world'[p] = world[p] /\ closes'[p] = closes[p]
  BY <1>2
<1>11. \A b \in Attempt :
         \/ stops'[b] = stops[b]
         \/ /\ stops'[b] # None /\ stops'[b].operation = o
            /\ stops[b] = None \/ stops[b].operation = o
  BY <1>1, <1>2, <1>5
<1> QED BY <1>4, <1>8, <1>9, <1>10, <1>11, StopLocal

-----------------------------------------------------------------------------
(* The steps of a spawn                                                    *)

\* A step that leaves the rows alone, and the world where a stop could be concerned.
LEMMA SpawnKeeps ==
    ASSUME SpawnInv, StopInv, UNCHANGED <<stops, closes>>,
           \A o \in Operation :
             /\ world'[o].permit = world[o].permit
             /\ world'[o].workspace = "removed" => world[o].workspace = "removed"
             /\ world[o].bound # 0 => Lasts(world[o], world'[o]),
           \A d \in Caller :
             \/ calls'[d] = None \/ calls'[d] = calls[d]
             \/ /\ calls'[d].at \notin Closing
                /\ calls'[d].at \in Applying => ~StopInProgress(calls'[d].operation)
    PROVE  StopInv'
<1>1. Drivers'
  <2> SUFFICES ASSUME NEW d \in Caller, calls'[d] # None, calls'[d].at \in Closing
               PROVE  DriverFits(calls[d])'
    BY DEF Drivers
  <2>1. PICK m : m = calls[d]
    OBVIOUS
  <2>2. calls'[d] = m /\ calls[d] # None /\ calls[d].at \in Closing
    BY <2>1
  <2>3. DriverFits(m) /\ m.operation \in Operation /\ world[m.operation].bound # 0
    BY <2>1, <2>2, DriverReads DEF StopInv, Drivers
  <2>4. /\ m.stop # None => stops'[m.stop] = stops[m.stop]
        /\ closes'[m.operation][m.close] = closes[m.operation][m.close]
        /\ Lasts(world[m.operation], world'[m.operation])
        /\ world'[m.operation].permit = world[m.operation].permit
    BY <2>3
  <2>5. DriverFits(m)'
    BY <2>3, <2>4, DriverLasts
  <2> QED BY <2>2, <2>5 DEF DriverFits
<1>2. Frozen'
  BY DEF StopInv, Frozen, StopInProgress
<1>3. ASSUME NEW o \in Operation PROVE StopFits(o)'
  <2>1. PICK old, w : old = world[o] /\ w = world'[o]
    OBVIOUS
  <2>2. StopFits(o) /\ UNCHANGED <<stops, closes>>
    BY DEF StopInv
  <2>3. CASE old.bound # 0
    <3>1. /\ Lasts(old, w) /\ world'[o] = w /\ w.permit = old.permit
          /\ ~(w.workspace = "removed" /\ old.workspace # "removed")
      BY <2>1, <2>3
    <3> QED BY <2>1, <2>2, <3>1, WorldFits
  <2>4. CASE old.bound = 0
    <3>1. /\ \A k \in Closes : closes[o][k] = "none"
          /\ \A a \in Attempt : stops[a] # None => stops[a].operation # o
      BY <2>1, <2>4 DEF SpawnInv, SelectedFirst
    <3>2. \A a \in Attempt : a \in Closes
      BY DEF Closes
    <3>3. OutcomesFit(o)' /\ EndsFit(o)' /\ ClosesFit(o)' /\ PermitFits(o)'
      BY <2>2, <3>1, <3>2 DEF OutcomesFit, EndsFit, ClosesFit, PermitFits, StopFits
    <3>4. RemovalFits(o)'
      BY <2>2, <3>1 DEF RemovalFits, StopFits, Remover
    <3> QED BY <3>3, <3>4 DEF StopFits
  <2> QED BY <2>3, <2>4
<1> QED BY <1>1, <1>2, <1>3 DEF StopInv

\* Somebody replaces a checkout that nobody had removed or found replaced, or a session exits
\* that runs and so was not stopped.
LEMMA OutsideKeeps ==
    ASSUME SpawnInv, StopInv, NEW o \in Operation, ReplaceCheckout(o) \/ SessionExits(o)
    PROVE  StopInv'
<1>1. PICK old : old = world[o]
  OBVIOUS
<1>2. UNCHANGED <<journal, calls, stops, closes>>
  BY <1>1, ReplaceCheckoutIs, SessionExitsIs
<1>3. PICK w \in World :
        /\ world' = [world EXCEPT ![o] = w] /\ Alike(old, w)
        /\ \/ /\ old.workspace = "kept" /\ w.workspace = "replaced" /\ w.session = old.session
           \/ /\ old.session = "running" /\ w.session = "exited" /\ w.workspace = old.workspace
  <2>1. CASE ReplaceCheckout(o)
    BY <1>1, <2>1, ReplaceCheckoutIs
  <2>2. CASE SessionExits(o)
    BY <1>1, <2>2, SessionExitsIs
  <2> QED BY <2>1, <2>2
<1>4. world'[o] = w /\ \A p \in Operation : p # o => world'[p] = world[p]
  BY <1>3 DEF SpawnInv, Types
<1>5. /\ Lasts(old, w) /\ w.permit = old.permit
      /\ w.workspace = "removed" => old.workspace = "removed"
  BY <1>3 DEF Lasts, Alike, NamedIsOver
<1>6. \A p \in Operation :
        /\ world'[p].permit = world[p].permit
        /\ world'[p].workspace = "removed" => world[p].workspace = "removed"
        /\ world[p].bound # 0 => Lasts(world[p], world'[p])
  <2> SUFFICES ASSUME NEW p \in Operation
               PROVE  /\ world'[p].permit = world[p].permit
                      /\ world'[p].workspace = "removed" => world[p].workspace = "removed"
                      /\ Lasts(world[p], world'[p])
    OBVIOUS
  <2>1. CASE p = o
    BY <1>1, <1>4, <1>5, <2>1
  <2>2. CASE p # o
    BY <1>4, <2>2 DEF Lasts
  <2> QED BY <2>1, <2>2
<1> QED BY <1>2, <1>6, SpawnKeeps

\* A request that goes on applying, or ends; w is the world of its operation afterwards.
LEMMA ApplierKeeps ==
    ASSUME SpawnInv, StopInv, NEW c \in Caller, calls[c] # None, calls[c].at \in Applying,
           NEW o, o = calls[c].operation, UNCHANGED <<stops, closes>>,
           NEW old, old = world[o], NEW w, world' = [world EXCEPT ![o] = w],
           w.permit = old.permit,
           w.workspace = "removed" => old.workspace = "removed",
           old.bound # 0 => Lasts(old, w),
           NEW n, calls' = [calls EXCEPT ![c] = n],
           n = None \/ (n.operation = o /\ n.at \notin Closing)
    PROVE  StopInv'
<1>1. o \in Operation
  BY HolderReads
<1>2. world'[o] = w /\ \A p \in Operation : p # o => world'[p] = world[p]
  BY <1>1 DEF SpawnInv, Types
<1>3. \A p \in Operation :
        /\ world'[p].permit = world[p].permit
        /\ world'[p].workspace = "removed" => world[p].workspace = "removed"
        /\ world[p].bound # 0 => Lasts(world[p], world'[p])
  <2> SUFFICES ASSUME NEW p \in Operation
               PROVE  /\ world'[p].permit = world[p].permit
                      /\ world'[p].workspace = "removed" => world[p].workspace = "removed"
                      /\ world[p].bound # 0 => Lasts(world[p], world'[p])
    OBVIOUS
  <2>1. CASE p = o
    BY <1>2, <2>1
  <2>2. CASE p # o
    BY <1>2, <2>2 DEF Lasts
  <2> QED BY <2>1, <2>2
<1>4. ~StopInProgress(o)
  BY DEF StopInv, Frozen
<1>5. \A d \in Caller :
        \/ calls'[d] = None \/ calls'[d] = calls[d]
        \/ /\ calls'[d].at \notin Closing
           /\ calls'[d].at \in Applying => ~StopInProgress(calls'[d].operation)
  <2> SUFFICES ASSUME NEW d \in Caller
               PROVE  \/ calls'[d] = None \/ calls'[d] = calls[d]
                      \/ /\ calls'[d].at \notin Closing
                         /\ calls'[d].at \in Applying => ~StopInProgress(calls'[d].operation)
    OBVIOUS
  <2>1. CASE d = c
    <3>1. calls'[d] = n
      BY <2>1 DEF SpawnInv, Types
    <3> QED BY <1>4, <3>1
  <2>2. CASE d # c
    BY <2>2 DEF SpawnInv, Types
  <2> QED BY <2>1, <2>2
<1> QED BY <1>3, <1>5, SpawnKeeps

\* The request ends, or goes on with its operation.
Proceeds(c) ==
    \E n : /\ calls' = [calls EXCEPT ![c] = n]
           /\ n = None \/ (n.operation = calls[c].operation /\ n.at \notin Closing)

\* How a request proceeds.
LEMMA ProceedsWhen ==
    ASSUME SpawnInv, NEW c \in Caller, calls[c] # None, calls[c].at \in Applying
    PROVE  /\ Return(c) => Proceeds(c)
           /\ \A at : at \notin Closing /\ Goes(c, at) => Proceeds(c)
           /\ \A at, e : at \notin Closing /\ Records(c, at, e) => Proceeds(c)
<1>1. PICK m : m = calls[c]
  OBVIOUS
<1>2. m \in SpawnCall
  BY <1>1, HolderReads
<1>3. Return(c) => Proceeds(c)
  BY DEF Return, Proceeds
<1>4. ASSUME NEW at, at \notin Closing, Goes(c, at) PROVE Proceeds(c)
  <2>1. PICK n : n = [m EXCEPT !.at = at]
    OBVIOUS
  <2>2. n.at = at /\ n.operation = m.operation
    BY <1>2, <2>1 DEF SpawnCall
  <2>3. calls' = [calls EXCEPT ![c] = n]
    BY <1>1, <1>4, <2>1 DEF Goes
  <2> QED BY <1>1, <1>4, <2>2, <2>3 DEF Proceeds
<1>5. ASSUME NEW at, NEW e, at \notin Closing, Records(c, at, e) PROVE Proceeds(c)
  <2>1. PICK n : n = [m EXCEPT !.at = at, !.event = e]
    OBVIOUS
  <2>2. n.at = at /\ n.operation = m.operation
    BY <1>2, <2>1 DEF SpawnCall
  <2>3. calls' = [calls EXCEPT ![c] = n]
    <3>1. calls' = [calls EXCEPT ![c] = [calls[c] EXCEPT !.at = at, !.event = e]]
      BY <1>5, Zenon DEF Records
    <3> QED BY <1>1, <2>1, <3>1
  <2> QED BY <1>1, <1>5, <2>2, <2>3 DEF Proceeds
<1> QED BY <1>3, <1>4, <1>5

\* A request that proceeds, with the world of its operation; its session stays once it is
\* there, and its checkout once the runtime is selected.
LEMMA ProceedsKeeps ==
    ASSUME SpawnInv, StopInv, NEW c \in Caller, calls[c] # None, calls[c].at \in Applying,
           NEW o, o = calls[c].operation, UNCHANGED <<stops, closes>>, Proceeds(c),
           NEW old, old = world[o],
           \/ UNCHANGED world
           \/ \E w : /\ world' = [world EXCEPT ![o] = w] /\ w.permit = old.permit
                     /\ w.workspace = "removed" => old.workspace = "removed"
                     /\ old.bound # 0 => Lasts(old, w)
    PROVE  StopInv'
<1>1. o \in Operation
  BY HolderReads
<1>2. PICK n : /\ calls' = [calls EXCEPT ![c] = n]
               /\ n = None \/ (n.operation = o /\ n.at \notin Closing)
  BY DEF Proceeds
<1>3. PICK w : /\ world' = [world EXCEPT ![o] = w] /\ w.permit = old.permit
               /\ w.workspace = "removed" => old.workspace = "removed"
               /\ old.bound # 0 => Lasts(old, w)
  <2>1. CASE UNCHANGED world
    <3>1. world' = [world EXCEPT ![o] = old]
      BY <1>1, <2>1, WorldStays DEF SpawnInv
    <3> QED BY <3>1 DEF Lasts
  <2> QED BY <2>1
<1> QED BY <1>2, <1>3, ApplierKeeps

\* The steps of an apply that leave the world alone.
LEMMA ApplyKeeps ==
    ASSUME SpawnInv, StopInv, NEW c \in Caller, FollowDirective(c) \/ AppendEvent(c)
    PROVE  StopInv'
<1>1. /\ calls[c] # None /\ calls[c].at \in Applying /\ UNCHANGED <<world, stops, closes>>
  BY DEF FollowDirective, AppendEvent, Applying, Recording, Keeps
<1>2. /\ "looping" \notin Closing /\ "preparing" \notin Closing /\ "executing" \notin Closing
      /\ "applying" \notin Closing /\ "committing" \notin Closing
  BY DEF Closing
<1>3. CASE FollowDirective(c)
  <2>1. Directs(c)
    BY <1>3 DEF FollowDirective
  <2>2. \/ Return(c) \/ Goes(c, "executing")
        \/ Records(c, "looping", Event("Succeeded"))
        \/ Records(c, "preparing", Event("StagePrepared"))
        \/ Records(c, "looping", Event("RetryAuthorized"))
    BY <2>1 DEF Directs, Recovery
  <2>3. Proceeds(c)
    BY <1>1, <1>2, <2>2, ProceedsWhen
  <2> QED BY <1>1, <2>3, ProceedsKeeps
<1>4. CASE AppendEvent(c)
  <2>1. PICK m : m = calls[c]
    OBVIOUS
  <2>2. m \in SpawnCall
    BY <1>1, <2>1, HolderReads
  <2>3. ASSUME NEW r, calls' = [calls EXCEPT ![c] = After(c, r)] PROVE Proceeds(c)
    <3>1. PICK n : n = After(c, r)
      OBVIOUS
    <3>2. n = None \/ (n.operation = m.operation /\ n.at \notin Closing)
      <4>1. CASE m.at = "looping"
        <5>1. n = [m EXCEPT !.at = "applying", !.receipt = r]
          BY <2>1, <3>1, <4>1 DEF After
        <5> QED BY <1>2, <2>2, <5>1 DEF SpawnCall
      <4>2. CASE m.at = "preparing"
        <5>1. n = [m EXCEPT !.at = "executing", !.receipt = r]
          BY <2>1, <3>1, <4>2 DEF After
        <5> QED BY <1>2, <2>2, <5>1 DEF SpawnCall
      <4>3. CASE m.at = "claiming"
        <5>1. PICK e : e = Event("StageCommitted")
          OBVIOUS
        <5>2. n = [m EXCEPT !.at = "committing", !.receipt = r, !.event = e]
          BY <2>1, <3>1, <4>3, <5>1 DEF After
        <5> QED BY <1>2, <2>2, <5>2 DEF SpawnCall
      <4>4. CASE m.at = "committing"
        <5>1. n = None \/ n = [m EXCEPT !.at = "applying", !.receipt = r]
          BY <2>1, <3>1, <4>4 DEF After
        <5> QED BY <1>2, <2>2, <5>1 DEF SpawnCall
      <4> QED BY <1>4, <2>1, <4>1, <4>2, <4>3, <4>4 DEF AppendEvent
    <3> QED BY <2>1, <2>3, <3>1, <3>2 DEF Proceeds
  <2>4. Return(c) \/ \E r : calls' = [calls EXCEPT ![c] = After(c, r)]
    BY <1>4 DEF AppendEvent
  <2>5. Proceeds(c)
    BY <1>1, <2>3, <2>4, ProceedsWhen
  <2> QED BY <1>1, <2>5, ProceedsKeeps
<1> QED BY <1>3, <1>4

\* The worktree is made before anything is selected.
LEMMA AcquireWorktreeKeeps ==
    ASSUME SpawnInv, StopInv, NEW c \in Caller, AcquireWorktree(c)
    PROVE  StopInv'
<1>1. PICK m, o, old : m = calls[c] /\ o = m.operation /\ old = world[o]
  OBVIOUS
<1>2. /\ m # None /\ m.at \in Applying /\ o \in Operation /\ old \in World
      /\ Evidenced(journal[o], old) /\ journal[o].completed = 0
  BY <1>1, ExecutorReads DEF AcquireWorktree
<1>3. UNCHANGED <<stops, closes>>
  BY DEF AcquireWorktree, Answered, Keeps, Failed
<1>4. old.bound = 0
  BY <1>2 DEF Evidenced
<1>5. "claiming" \notin Closing /\ "committing" \notin Closing
  BY DEF Closing
<1>6. Proceeds(c)
  <2>1. \/ Records(c, "claiming", Event("CheckoutClaimed"))
        \/ Records(c, "committing", Event("StageCommitted"))
        \/ Records(c, "committing", StageFailed("unknown"))
    BY DEF AcquireWorktree
  <2> QED BY <1>1, <1>2, <1>5, <2>1, ProceedsWhen
<1>7. \/ UNCHANGED world
      \/ \E w : /\ world' = [world EXCEPT ![o] = w] /\ w.permit = old.permit
                /\ w.workspace = "removed" => old.workspace = "removed"
                /\ old.bound # 0 => Lasts(old, w)
  <2>1. UNCHANGED world \/ world' = [world EXCEPT ![o].workspace = "kept"]
    BY <1>1 DEF AcquireWorktree
  <2>2. PICK w : w = [old EXCEPT !.workspace = "kept"]
    OBVIOUS
  <2>3. w.workspace = "kept" /\ w.permit = old.permit
    BY <1>2, <2>2 DEF World
  <2>4. [world EXCEPT ![o].workspace = "kept"] = [world EXCEPT ![o] = w]
    BY <1>1, <2>2
  <2> QED BY <1>4, <2>1, <2>3, <2>4
<1> QED BY <1>1, <1>2, <1>3, <1>6, <1>7, ProceedsKeeps

\* A session that a launch starts is a later one than any close has named.
LEMMA LaunchKeeps ==
    ASSUME SpawnInv, StopInv, NEW c \in Caller, LaunchRuntime(c) \/ LaunchStructured(c)
    PROVE  StopInv'
<1>1. PICK m, o, old, plan : /\ m = calls[c] /\ o = m.operation /\ old = world[o]
                             /\ plan = m.receipt.plan
  OBVIOUS
<1>2. PICK stage \in {"RuntimeLaunch", "StructuredLaunch"} : Executes(c, stage)
  BY DEF LaunchRuntime, LaunchStructured
<1>3. /\ m # None /\ m.at \in Applying /\ o \in Operation /\ old \in World
      /\ Evidenced(journal[o], old)
  BY <1>1, <1>2, ExecutorReads
<1>4. UNCHANGED <<stops, closes>>
  BY DEF LaunchRuntime, LaunchStructured, LaunchFails, Answered, Keeps, Failed
<1>5. "launched" \notin Closing /\ "committing" \notin Closing
  BY DEF Closing
<1>6. Proceeds(c)
  <2>1. \E e : Records(c, "launched", e) \/ Records(c, "committing", e)
    <3>1. CASE LaunchRuntime(c)
      BY <3>1 DEF LaunchRuntime, LaunchFails
    <3>2. CASE LaunchStructured(c)
      BY <3>2 DEF LaunchStructured, LaunchFails
    <3> QED BY <3>1, <3>2
  <2> QED BY <1>1, <1>3, <1>5, <2>1, ProceedsWhen
<1>7. \/ UNCHANGED world
      \/ \E w : /\ world' = [world EXCEPT ![o] = w] /\ w.permit = old.permit
                /\ w.workspace = "removed" => old.workspace = "removed"
                /\ old.bound # 0 => Lasts(old, w)
  <2>1. UNCHANGED world \/ world' = SessionStarted(o, plan)
    BY <1>1 DEF LaunchRuntime, LaunchStructured, LaunchFails
  <2>2. PICK w \in World : /\ SessionStarted(o, plan) = [world EXCEPT ![o] = w]
                           /\ StartedFrom(o, plan, w)
    BY <1>1, <1>3, SessionStartedIs DEF SpawnInv
  <2>3. w.permit = old.permit /\ w.workspace = old.workspace /\ w.closing = old.closing
    BY <1>1, <2>2 DEF StartedFrom
  <2>4. NamedIsOver(old) => NamedIsOver(w)
    <3>1. CASE w = old
      BY <3>1
    <3>2. CASE w.started = old.started + 1
      <4>1. old.closing <= old.started /\ old.closing \in Nat /\ old.started \in Nat
        BY <1>3 DEF Evidenced, World
      <4> QED BY <2>3, <3>2, <4>1 DEF NamedIsOver
    <3> QED BY <1>1, <2>2, <3>1, <3>2 DEF StartedFrom
  <2>5. Lasts(old, w)
    BY <2>3, <2>4 DEF Lasts
  <2> QED BY <2>1, <2>2, <2>3, <2>5
<1> QED BY <1>1, <1>3, <1>4, <1>6, <1>7, ProceedsKeeps

\* The selection and the prompt are no matter of a stop.
LEMMA PersistAndDeliverKeep ==
    ASSUME SpawnInv, StopInv, NEW c \in Caller,
           PersistSelection(c) \/ DeliverPrompt(c) \/ DeliverTurn(c)
    PROVE  StopInv'
<1>1. PICK m, o, old : m = calls[c] /\ o = m.operation /\ old = world[o]
  OBVIOUS
<1>2. m # None /\ m.at \in Applying
  BY <1>1 DEF PersistSelection, DeliverPrompt, DeliverTurn, Executes, Applying
<1>3. o \in Operation /\ old \in World
  BY <1>1, <1>2, HolderReads
<1>4. UNCHANGED <<stops, closes>>
  BY DEF PersistSelection, DeliverPrompt, DeliverTurn, Answered, Keeps, Failed
<1>5. "committing" \notin Closing
  BY DEF Closing
<1>6. Proceeds(c)
  <2>1. Goes(c, "committing") \/ \E e : Records(c, "committing", e)
    <3>1. CASE PersistSelection(c)
      BY <3>1 DEF PersistSelection
    <3>2. CASE DeliverPrompt(c)
      BY <3>2 DEF DeliverPrompt
    <3>3. CASE DeliverTurn(c)
      BY <3>3 DEF DeliverTurn
    <3> QED BY <3>1, <3>2, <3>3
  <2> QED BY <1>1, <1>2, <1>5, <2>1, ProceedsWhen
<1>7. \/ UNCHANGED world
      \/ \E w : /\ world' = [world EXCEPT ![o] = w] /\ w.permit = old.permit
                /\ w.workspace = "removed" => old.workspace = "removed"
                /\ old.bound # 0 => Lasts(old, w)
  <2>1. ASSUME NEW w, world' = [world EXCEPT ![o] = w], w.permit = old.permit,
               w.workspace = old.workspace, w.session = old.session,
               w.started = old.started, w.closing = old.closing
        PROVE  \E v : /\ world' = [world EXCEPT ![o] = v] /\ v.permit = old.permit
                      /\ v.workspace = "removed" => old.workspace = "removed"
                      /\ old.bound # 0 => Lasts(old, v)
    BY <2>1 DEF Lasts, NamedIsOver
  <2>2. CASE PersistSelection(c)
    <3>1. PICK k : k = old.started
      OBVIOUS
    <3>2. UNCHANGED world \/ world' = [world EXCEPT ![o].bound = k]
      BY <1>1, <2>2, <3>1 DEF PersistSelection
    <3>3. PICK w : w = [old EXCEPT !.bound = k]
      OBVIOUS
    <3>4. [world EXCEPT ![o].bound = k] = [world EXCEPT ![o] = w]
      BY <1>1, <3>3
    <3>5. /\ w.permit = old.permit /\ w.workspace = old.workspace /\ w.session = old.session
          /\ w.started = old.started /\ w.closing = old.closing
      BY <1>3, <3>3 DEF World
    <3> QED BY <2>1, <3>2, <3>4, <3>5
  <2>3. CASE DeliverPrompt(c)
    <3>1. UNCHANGED world \/ world' = [world EXCEPT ![o].handed = @ + 1]
      BY <1>1, <2>3 DEF DeliverPrompt
    <3>2. PICK h, w : h = old.handed + 1 /\ w = [old EXCEPT !.handed = h]
      OBVIOUS
    <3>3. [world EXCEPT ![o].handed = @ + 1] = [world EXCEPT ![o] = w]
      <4>1. [world EXCEPT ![o].handed = @ + 1] =
            [world EXCEPT ![o] = [world[o] EXCEPT !.handed = world[o].handed + 1]]
        BY Zenon
      <4> QED BY <1>1, <3>2, <4>1
    <3>4. /\ w.permit = old.permit /\ w.workspace = old.workspace /\ w.session = old.session
          /\ w.started = old.started /\ w.closing = old.closing
      BY <1>3, <3>2 DEF World
    <3> QED BY <2>1, <3>1, <3>3, <3>4
  <2>4. CASE DeliverTurn(c)
    <3>1. UNCHANGED world \/ world' = [world EXCEPT ![o].handed = 1]
      BY <1>1, <2>4 DEF DeliverTurn
    <3>2. PICK w : w = [old EXCEPT !.handed = 1]
      OBVIOUS
    <3>3. [world EXCEPT ![o].handed = 1] = [world EXCEPT ![o] = w]
      BY <1>1, <3>2
    <3>4. /\ w.permit = old.permit /\ w.workspace = old.workspace /\ w.session = old.session
          /\ w.started = old.started /\ w.closing = old.closing
      BY <1>3, <3>2 DEF World
    <3> QED BY <2>1, <3>1, <3>3, <3>4
  <2> QED BY <2>2, <2>3, <2>4
<1> QED BY <1>1, <1>2, <1>3, <1>4, <1>6, <1>7, ProceedsKeeps

\* Requests that begin, wait or end, and the environment.
LEMMA WaitingKeeps ==
    ASSUME SpawnInv, StopInv,
           \/ \E c \in Caller, o \in Operation : Observe(c, o)
           \/ \E c \in Caller : \/ Preview(c) \/ (\E plan \in Plan : AppendPlan(c, plan))
                                \/ Authorize(c) \/ GiveUp(c) \/ StopFails(c)
           \/ Crash \/ AnswerGate
    PROVE  StopInv'
<1>1. UNCHANGED <<world, stops, closes>>
  BY DEF Observe, Preview, AppendPlan, Authorize, GiveUp, StopFails, Crash, AnswerGate, Keeps
<1>2. \A o \in Operation :
        /\ world'[o].permit = world[o].permit
        /\ world'[o].workspace = "removed" => world[o].workspace = "removed"
        /\ world[o].bound # 0 => Lasts(world[o], world'[o])
  BY <1>1 DEF Lasts
<1>3. Types
  BY DEF SpawnInv
<1>4. ASSUME NEW c \in Caller, NEW n, calls' = [calls EXCEPT ![c] = n],
             \/ n = None
             \/ /\ n.at \notin Closing
                /\ n.at \in Applying => ~StopInProgress(n.operation)
      PROVE  StopInv'
  <2>1. \A d \in Caller :
          \/ calls'[d] = None \/ calls'[d] = calls[d]
          \/ /\ calls'[d].at \notin Closing
             /\ calls'[d].at \in Applying => ~StopInProgress(calls'[d].operation)
    BY <1>3, <1>4 DEF Types
  <2> QED BY <1>1, <1>2, <2>1, SpawnKeeps
<1>5. /\ "previewing" \notin Closing /\ "previewing" \notin Applying
      /\ "observed" \notin Closing /\ "observed" \notin Applying /\ "applying" \notin Closing
  BY DEF Closing, Applying, Recording
<1>6. ASSUME NEW c \in Caller, NEW o \in Operation, Observe(c, o) PROVE StopInv'
  <2>1. PICK n : n = Call("observed", o, journal[o])
    OBVIOUS
  <2>2. calls' = [calls EXCEPT ![c] = n] /\ n.at = "observed"
    BY <1>6, <2>1 DEF Observe, Call
  <2> QED BY <1>4, <1>5, <2>2
<1>7. ASSUME NEW c \in Caller, Preview(c) PROVE StopInv'
  <2>1. PICK n : n = Call("previewing", None, NoReceipt)
    OBVIOUS
  <2>2. calls' = [calls EXCEPT ![c] = n] /\ n.at = "previewing"
    BY <1>7, <2>1 DEF Preview, Call
  <2> QED BY <1>4, <1>5, <2>2
<1>8. ASSUME NEW c \in Caller, Return(c) PROVE StopInv'
  BY <1>4, <1>8 DEF Return
<1>9. ASSUME NEW c \in Caller, Authorize(c) PROVE StopInv'
  <2>1. PICK m : m = calls[c]
    OBVIOUS
  <2>2. CASE Return(c)
    BY <1>8, <2>2
  <2>3. CASE ~StopInProgress(m.operation) /\ Goes(c, "applying")
    <3>1. m # None /\ m.at = "observed" /\ m \in SpawnCall \cup DriveCall
      BY <1>3, <1>9, <2>1 DEF Authorize, Types
    <3>2. m \in SpawnCall
      BY <1>5, <3>1 DEF DriveCall
    <3>3. PICK n : n = [m EXCEPT !.at = "applying"]
      OBVIOUS
    <3>4. n.at = "applying" /\ n.operation = m.operation
      BY <3>2, <3>3 DEF SpawnCall
    <3>5. calls' = [calls EXCEPT ![c] = n]
      BY <2>1, <2>3, <3>3 DEF Goes
    <3> QED BY <1>4, <1>5, <2>3, <3>4, <3>5
  <2> QED BY <1>9, <2>1, <2>2, <2>3 DEF Authorize
<1>10. CASE Crash
  <2>1. \A d \in Caller : calls'[d] = None
    BY <1>10 DEF Crash
  <2> QED BY <1>1, <1>2, <2>1, SpawnKeeps
<1>11. CASE AnswerGate
  <2>1. \A d \in Caller : calls'[d] = calls[d]
    BY <1>11 DEF AnswerGate
  <2> QED BY <1>1, <1>2, <2>1, SpawnKeeps
<1> QED BY <1>6, <1>7, <1>8, <1>9, <1>10, <1>11 DEF AppendPlan, GiveUp, StopFails

-----------------------------------------------------------------------------
(* The invariant                                                           *)

\* Nothing is stopped at first.
LEMMA StopInvInit == SpawnInit => StopInv
<1> SUFFICES ASSUME SpawnInit PROVE StopInv
  OBVIOUS
<1>1. /\ \A c \in Caller : calls[c] = None
      /\ \A a \in Attempt : stops[a] = None
      /\ \A o \in Operation, k \in Closes : closes[o][k] = "none"
      /\ \A o \in Operation : world[o] = Untouched
  BY DEF SpawnInit, Closes
<1>2. Drivers /\ Frozen
  BY <1>1 DEF Drivers, Frozen
<1>3. ASSUME NEW o \in Operation PROVE StopFits(o)
  <2>1. world[o].permit = None /\ world[o].workspace = "none"
    BY <1>1 DEF Untouched
  <2>2. \A a \in Attempt : a \in Closes /\ a # None
    BY StopAssumption DEF Closes
  <2>3. OutcomesFit(o) /\ EndsFit(o) /\ ClosesFit(o) /\ PermitFits(o) /\ RemovalFits(o)
    BY <1>1, <2>1, <2>2 DEF OutcomesFit, EndsFit, ClosesFit, PermitFits, RemovalFits
  <2> QED BY <2>3 DEF StopFits
<1> QED BY <1>2, <1>3 DEF StopInv

\* Every step keeps the invariant.
LEMMA StopInvNext == SpawnInv /\ SpawnInv' /\ StopInv /\ [Next]_vars => StopInv'
<1> SUFFICES ASSUME SpawnInv, SpawnInv', StopInv, [Next]_vars PROVE StopInv'
  OBVIOUS
<1>1. CASE UNCHANGED vars
  <2>1. UNCHANGED <<world, calls, stops, closes>>
    BY <1>1 DEF vars
  <2>2. /\ \A o \in Operation :
             /\ world'[o].permit = world[o].permit
             /\ world'[o].workspace = "removed" => world[o].workspace = "removed"
             /\ world[o].bound # 0 => Lasts(world[o], world'[o])
        /\ \A d \in Caller : calls'[d] = calls[d]
    BY <2>1 DEF Lasts
  <2> QED BY <2>1, <2>2, SpawnKeeps
<1>2. CASE SpawnNext
  <2>1. ASSUME NEW c \in Caller, Spawning(c) PROVE StopInv'
    <3>1. CASE \/ FollowDirective(c) \/ AppendEvent(c)
      BY <3>1, ApplyKeeps
    <3>2. CASE AcquireWorktree(c)
      BY <3>2, AcquireWorktreeKeeps
    <3>3. CASE LaunchRuntime(c) \/ LaunchStructured(c)
      BY <3>3, LaunchKeeps
    <3>4. CASE PersistSelection(c) \/ DeliverPrompt(c) \/ DeliverTurn(c)
      BY <3>4, PersistAndDeliverKeep
    <3>5. CASE (\E plan \in Plan : AppendPlan(c, plan)) \/ Authorize(c)
      BY <3>5, WaitingKeeps
    <3> QED BY <2>1, <3>1, <3>2, <3>3, <3>4, <3>5 DEF Spawning
  <2> QED BY <1>2, <2>1, WaitingKeeps, OutsideKeeps DEF SpawnNext
<1>3. ASSUME NEW a \in Attempt, NEW o \in Operation, NEW remove \in BOOLEAN,
             PlanStop(a, o, remove)
      PROVE  StopInv'
  BY <1>3, PlanStopKeeps
<1>4. ASSUME NEW c \in Caller, NEW a \in Attempt, AuthorizeStop(c, a) \/ DriveStop(c, a)
      PROVE  StopInv'
  BY <1>4, AuthorizeStopKeeps, TakeUpKeeps
<1>5. ASSUME NEW c \in Caller, NEW o \in Operation, AdmitClose(c, o) \/ DriveClose(c, o)
      PROVE  StopInv'
  BY <1>5, AdmitCloseKeeps, TakeUpKeeps
<1>6. ASSUME NEW c \in Caller, Driving(c) PROVE StopInv'
  BY <1>6, AdmitRemovalKeeps, StopSessionKeeps, AdvanceCloseKeeps, KeepSourceKeeps,
     SettleCheckoutKeeps, TerminalizeKeeps DEF Driving
<1>7. ASSUME NEW c \in Caller, StopFails(c) PROVE StopInv'
  BY <1>7, WaitingKeeps
<1>8. ASSUME NEW o \in Operation, ReplaceCheckout(o) PROVE StopInv'
  BY <1>8, OutsideKeeps
<1> QED BY <1>1, <1>2, <1>3, <1>4, <1>5, <1>6, <1>7, <1>8 DEF Next

\* The invariant of stops holds always.
LEMMA StopInvAlways == Spec => []StopInv
<1>1. SpawnInit => StopInv
  BY StopInvInit
<1>2. SpawnInv /\ SpawnInv' /\ StopInv /\ [Next]_vars => StopInv'
  BY StopInvNext
<1> QED BY <1>1, <1>2, SpawnInvAlways, PTL DEF Spec

-----------------------------------------------------------------------------
(* The properties                                                          *)

\* Of every behaviour, for any operations, requests and stops: a stop reports what happened
\* to the session its close named and to the checkout, a superseded stop never admitted a
\* close, and a checkout goes only after that session and for a stop that was asked to
\* remove it
\* (control-plane/src/agent_dispatch_stop_apply.rs, agent_dispatch_stop/checkout.rs).
THEOREM StopsAreTruthful == Spec => []StopIsTruthful
<1>1. SpawnInv /\ StopInv => StopIsTruthful
  <2> SUFFICES ASSUME SpawnInv, StopInv PROVE StopIsTruthful
    OBVIOUS
  <2>1. ASSUME NEW a \in Attempt, stops[a] # None, NEW s, s = stops[a],
               NEW w, w = world[s.operation]
        PROVE  /\ s.state \in Terminal \ {"SourceRetained"} => NamedIsOver(w)
               /\ s.state = "Succeeded" => w.workspace = "removed" /\ s.remove
               /\ s.state = "WorkspaceReplaced" => w.workspace = "replaced" /\ s.remove
               /\ s.state = "SourceRetained" => w.permit # a
               /\ s.state = "Superseded" => closes[s.operation][a] = "none"
    <3>1. s.operation \in Operation
      BY <2>1 DEF SpawnInv, Types, StopRecord
    <3>2. OutcomesFit(s.operation) /\ ClosesFit(s.operation)
      BY <3>1 DEF StopInv, StopFits
    <3>3. s.state \in Terminal => OutcomeHolds(s, a, s.state, w)
      BY <2>1, <3>2 DEF OutcomesFit
    <3>4. s.state = "Superseded" => closes[s.operation][a] = "none"
      BY <2>1, <3>2 DEF ClosesFit
    <3> QED BY <3>3, <3>4 DEF OutcomeHolds, Terminal
  <2>2. ASSUME NEW o \in Operation, world[o].workspace = "removed"
        PROVE  /\ NamedIsOver(world[o])
               /\ \E a \in Attempt : /\ stops[a] # None /\ stops[a].operation = o
                                     /\ stops[a].remove
                                     /\ stops[a].state \in {"Authorized", "Succeeded"}
    <3>1. RemovalFits(o) /\ ClosesFit(o)
      BY DEF StopInv, StopFits
    <3>2. PICK a \in Attempt : Remover(a, o)
      BY <2>2, <3>1 DEF RemovalFits
    <3> QED BY <3>1, <3>2 DEF Remover, ClosesFit
  <2> QED BY <2>1, <2>2 DEF StopIsTruthful
<1> QED BY <1>1, SpawnInvAlways, StopInvAlways, PTL

\* From the moment a stop of the agent is recorded no step adds to the journal of its spawn:
\* an apply that read the store before is refused under the lock, and the key is taken, so
\* no preview plans it anew (agent_spawn_apply.rs, authorize under the agent's lock).
THEOREM StopsFreezeSpawns == Spec => FrozenByStop
<1>1. SpawnInv /\ StopInv /\ [Next]_vars =>
        [\A o \in Operation : StopInProgress(o) => journal'[o] = journal[o]]_<<journal, stops>>
  <2> SUFFICES ASSUME SpawnInv, StopInv, [Next]_vars, NEW o \in Operation, StopInProgress(o)
               PROVE  journal'[o] = journal[o]
    OBVIOUS
  <2>1. CASE UNCHANGED journal
    BY <2>1
  <2>2. ASSUME NEW c \in Caller, AppendEvent(c) PROVE journal'[o] = journal[o]
    <3>1. PICK m, p : m = calls[c] /\ p = m.operation
      OBVIOUS
    <3>2. m # None /\ m.at \in Applying
      BY <2>2, <3>1 DEF AppendEvent, Applying, Recording
    <3>3. ~StopInProgress(p)
      BY <3>1, <3>2 DEF StopInv, Frozen
    <3>4. p # o
      BY <3>3
    <3>5. UNCHANGED journal \/ \E r : journal' = [journal EXCEPT ![p] = r]
      BY <2>2, <3>1 DEF AppendEvent
    <3> QED BY <3>4, <3>5 DEF SpawnInv, Types
  <2>3. ASSUME NEW c \in Caller, NEW plan \in Plan, AppendPlan(c, plan)
        PROVE  journal'[o] = journal[o]
    <3>1. PICK a \in Attempt : stops[a] # None /\ stops[a].operation = o
      BY DEF StopInProgress
    <3>2. world[o].bound # 0
      BY <3>1 DEF SpawnInv, SelectedFirst
    <3>3. Exists(o)
      BY <3>2, SelectedReads DEF Exists, Receipt
    <3> QED BY <2>3, <3>3 DEF AppendPlan, KeyIsFree
  <2> QED
    BY <2>1, <2>2, <2>3 DEF Next, vars, SpawnNext, Spawning, Observe, Preview, Authorize,
       FollowDirective, AcquireWorktree, LaunchRuntime, LaunchStructured, PersistSelection,
       DeliverPrompt, DeliverTurn, GiveUp, Crash, AnswerGate, PlanStop, AuthorizeStop,
       DriveStop, AdmitClose, DriveClose, Driving, AdmitRemoval, StopSession, AdvanceClose,
       KeepSource, SettleCheckout, Terminalize, StopFails, ReplaceCheckout, SessionExits, Keeps
<1> QED BY <1>1, SpawnInvAlways, StopInvAlways, PTL DEF Spec, FrozenByStop
=============================================================================
