------------------------- MODULE AgentControlProofs -------------------------
(***************************************************************************)
(* Proofs about AgentControl, for any numbers of callers, agents and paths  *)
(* and any limit, in V1 and V2 sessions.                                    *)
(*                                                                         *)
(* Inv is inductive: Calls says which calls can be at which step, so that a *)
(* step knows what its call holds; Tables and PathsAgree are about the two  *)
(* maps of the registry, PendingIsHeld about the slots, and Counts adds to  *)
(* NeverUndercounted that the count of a V1 session is within the limit,    *)
(* from which KnownWithinLimit follows.  Every step changes one call; the   *)
(* lemmas ...Effect say how, the lemmas ...Kept, ...Taken and ...Given what *)
(* that means for the sets that are counted.                                *)
(***************************************************************************)
EXTENDS AgentControl, FiniteSetTheorems, TLAPS

Fields == {"pc", "op", "agent", "key", "cand", "left"}

\* call is a function from the callers to records.
Shape ==
    /\ call = [c \in Callers |-> call[c]]
    /\ \A c \in Callers : call[c] = [f \in Fields |-> call[c][f]]

\* What a call may be at each of its steps.
Where(c) ==
    /\ call[c].op = "resume" => ~v2
    /\ call[c].pc \in {"slot", "unload", "scan", "inspect", "stop", "drop", "settle"}
         => v2 /\ call[c].op \in {"spawn", "send"}
    /\ call[c].pc = "prepare" => v2 /\ call[c].op = "spawn"
    /\ call[c].pc \in {"count", "commit"} => call[c].op \in {"spawn", "resume"}
    /\ call[c].pc \in {"create", "finalize"}
         => call[c].op \in {"spawn", "resume"} \/ (v2 /\ call[c].op = "send")
    /\ call[c].pc = "load" => call[c].op = "send"
    /\ call[c].pc # "idle" => call[c].agent \in Agents
    /\ call[c].op \in {"spawn", "resume"} => call[c].key \in Keys

Calls == Shape /\ \A c \in Callers : Where(c)

\* The other calls stay as they are.
Others(c) == \A d \in Callers \ {c} : call'[d] = call[d]

\* The call is about the same operation, agent and key.
Same(c) == call'[c].op = call[c].op /\ call'[c].agent = call[c].agent /\ call'[c].key = call[c].key

\* What the steps do to the table of calls.
LEMMA GotoEffect ==
  ASSUME Shape, NEW c \in Callers, NEW s, Goto(c, s)
  PROVE  Shape' /\ Others(c) /\ Same(c) /\ call'[c].pc = s
  BY DEF Shape, Goto, Others, Same, Fields

LEMMA ReturnEffect ==
  ASSUME Shape, NEW c \in Callers, Return(c)
  PROVE  Shape' /\ Others(c) /\ call'[c].pc = "idle" /\ call'[c].op = "none"
<1>1. Idle = [f \in Fields |-> Idle[f]] /\ Idle.pc = "idle" /\ Idle.op = "none"
  BY DEF Idle, Fields
<1>2. call'[c] = Idle /\ Others(c) /\ call' = [d \in Callers |-> call'[d]]
  BY DEF Shape, Return, Others
<1> QED BY <1>1, <1>2 DEF Shape, Others

LEMMA ScanEffect ==
  ASSUME Shape, NEW c \in Callers, CountResidents(c) \/ PopCandidate(c)
  PROVE  Shape' /\ Others(c) /\ Same(c) /\ call[c].pc \in {"unload", "scan"}
         /\ call'[c].pc \in {"scan", "inspect"}
<1>1. CASE CountResidents(c)
  BY <1>1 DEF CountResidents, Shape, Others, Same, Fields, At
<1>2. CASE PopCandidate(c)
  <2>1. PICK x, y : call' = [call EXCEPT ![c].pc = "inspect", ![c].cand = x, ![c].left = y]
    BY <1>2 DEF PopCandidate
  <2>2. call[c].pc = "scan"
    BY <1>2 DEF PopCandidate, At
  <2> QED BY <2>1, <2>2 DEF Shape, Others, Same, Fields
<1> QED BY <1>1, <1>2

LEMMA BeginEffect ==
  ASSUME Shape, NEW c \in Callers, NEW op, NEW agent, NEW key, NEW step, Begin(c, op, agent, key, step)
  PROVE  /\ Shape' /\ Others(c) /\ call[c].pc = "idle" /\ call'[c].pc = step
         /\ call'[c].op = op /\ call'[c].agent = agent /\ call'[c].key = key
<1> DEFINE new == [pc |-> step, op |-> op, agent |-> agent, key |-> key, cand |-> NoAgent, left |-> 0]
<1>1. new = [f \in Fields |-> new[f]] /\ new.pc = step /\ new.op = op /\ new.agent = agent /\ new.key = key
  BY DEF Fields
<1>2. call' = [call EXCEPT ![c] = new] /\ call[c].pc = "idle"
  BY DEF Begin, At
<1> HIDE DEF new
<1>3. call'[c] = new /\ Others(c) /\ call' = [d \in Callers |-> call'[d]]
  BY <1>2 DEF Shape, Others
<1> QED BY <1>1, <1>2, <1>3 DEF Shape, Others

-----------------------------------------------------------------------------

\* The calls that hold a slot.
Slots == {c \in Callers : HoldsSlot(c)}

\* In a V1 session the count stays within the limit.
CountWithinLimit == total \in Int /\ (~v2 => total <= Cap)

\* What is known of total_count.
Counts == NeverUndercounted /\ CountWithinLimit

\* The types of agent_tree and thread_paths.
Tables == tree \in [Keys -> Agents \cup {Held, NoAgent}] /\ pathOf \in [Agents -> Keys \cup {NoAgent}]

\* The inductive invariant.
Inv == Calls /\ Tables /\ PathsAgree /\ PendingIsHeld /\ Counts

\* The sets that are counted are finite.
LEMMA Finite ==
  /\ IsFiniteSet(Known) /\ IsFiniteSet(Reserving) /\ IsFiniteSet(Releasing) /\ IsFiniteSet(Slots)
  /\ Cardinality(Known) \in Nat /\ Cardinality(Reserving) \in Nat
  /\ Cardinality(Releasing) \in Nat /\ Cardinality(Slots) \in Nat
<1>1. Known \in SUBSET Agents /\ Reserving \in SUBSET Callers /\ Releasing \in SUBSET Callers
      /\ Slots \in SUBSET Callers
  BY DEF Known, Reserving, Releasing, Slots
<1>2. IsFiniteSet(Known) /\ IsFiniteSet(Reserving) /\ IsFiniteSet(Releasing) /\ IsFiniteSet(Slots)
  BY <1>1, AgentAssumption, FS_Subset
<1> QED BY <1>2, FS_CardinalityType

\* The same after a step.
LEMMA FinitePrimed ==
  /\ IsFiniteSet(Known') /\ IsFiniteSet(Reserving') /\ IsFiniteSet(Releasing')
  /\ Cardinality(Known') \in Nat /\ Cardinality(Reserving') \in Nat
  /\ Cardinality(Releasing') \in Nat
<1>1. Known' \in SUBSET Agents /\ Reserving' \in SUBSET Callers /\ Releasing' \in SUBSET Callers
  BY DEF Known, Reserving, Releasing
<1>2. IsFiniteSet(Known') /\ IsFiniteSet(Reserving') /\ IsFiniteSet(Releasing')
  BY <1>1, AgentAssumption, FS_Subset
<1> QED BY <1>2, FS_CardinalityType

\* A set that grows by at most one element, and one that loses one.
LEMMA AtMostOneMore ==
  ASSUME NEW S, NEW T, NEW x, IsFiniteSet(S), T \subseteq S \cup {x}
  PROVE  Cardinality(T) <= Cardinality(S) + 1
<1>1. /\ IsFiniteSet(S \cup {x}) /\ Cardinality(S) \in Nat
      /\ Cardinality(S \cup {x}) = IF x \in S THEN Cardinality(S) ELSE Cardinality(S) + 1
  BY FS_AddElement, FS_CardinalityType
<1>2. T \in SUBSET (S \cup {x})
  OBVIOUS
<1>3. Cardinality(T) <= Cardinality(S \cup {x}) /\ IsFiniteSet(T)
  BY <1>1, <1>2, FS_Subset
<1> QED BY <1>1, <1>3, FS_CardinalityType

LEMMA OneLess ==
  ASSUME NEW S, NEW T, NEW x \in S, IsFiniteSet(S), T \subseteq S \ {x}
  PROVE  Cardinality(T) <= Cardinality(S) - 1
<1>1. IsFiniteSet(S \ {x}) /\ Cardinality(S \ {x}) = Cardinality(S) - 1
  BY FS_RemoveElement
<1>2. Cardinality(T) <= Cardinality(S \ {x}) /\ IsFiniteSet(T)
  BY <1>1, FS_Subset
<1> QED BY <1>1, <1>2, FS_CardinalityType

\* The pending slots are counted: kept, taken, or given back.
LEMMA SlotKept ==
  ASSUME Inv, NEW c \in Callers, Others(c), UNCHANGED <<v2, pending>>, HoldsSlot(c)' <=> HoldsSlot(c)
  PROVE  PendingIsHeld'
<1>1. \A d \in Callers : HoldsSlot(d)' <=> HoldsSlot(d)
  BY DEF Others, HoldsSlot
<1> QED BY <1>1 DEF Inv, PendingIsHeld

LEMMA SlotTaken ==
  ASSUME Inv, NEW c \in Callers, Others(c), v2' = v2, pending' = pending + 1,
         ~HoldsSlot(c), HoldsSlot(c)'
  PROVE  PendingIsHeld'
<1>1. \A d \in Callers \ {c} : HoldsSlot(d)' <=> HoldsSlot(d)
  BY DEF Others, HoldsSlot
<1>2. Slots' = Slots \cup {c} /\ c \notin Slots
  BY <1>1 DEF Slots
<1>3. Cardinality(Slots') = Cardinality(Slots) + 1
  BY <1>2, Finite, FS_AddElement
<1> QED BY <1>3 DEF Inv, PendingIsHeld, Slots

LEMMA SlotGiven ==
  ASSUME Inv, NEW c \in Callers, Others(c), v2' = v2, pending' = pending - 1,
         HoldsSlot(c), ~HoldsSlot(c)'
  PROVE  PendingIsHeld'
<1>1. \A d \in Callers \ {c} : HoldsSlot(d)' <=> HoldsSlot(d)
  BY DEF Others, HoldsSlot
<1>2. Slots' = Slots \ {c} /\ c \in Slots
  BY <1>1 DEF Slots
<1>3. Cardinality(Slots') = Cardinality(Slots) - 1
  BY <1>2, Finite, FS_RemoveElement
<1> QED BY <1>3 DEF Inv, PendingIsHeld, Slots

\* The registry is left alone, and no path is reserved or given back.
LEMMA PathsKept ==
  ASSUME Inv, NEW c \in Callers, Others(c), UNCHANGED <<v2, tree, pathOf>>,
         HoldsPath(c)' <=> HoldsPath(c), HoldsPath(c) => call'[c].key = call[c].key
  PROVE  Tables' /\ PathsAgree'
<1>1. \A d \in Callers : HoldsPath(d)' <=> HoldsPath(d)
  BY DEF Others, HoldsPath
<1>2. \A d \in Callers : HoldsPath(d) => call'[d].key = call[d].key
  BY DEF Others
<1> QED BY <1>1, <1>2 DEF Inv, Tables, PathsAgree

\* The count is left alone, and no more is to be counted.
LEMMA CountsKept ==
  ASSUME Inv, NEW c \in Callers, Others(c), UNCHANGED <<v2, total, pathOf>>,
         HoldsReservation(c)' => HoldsReservation(c),
         At(c, "uncount")' => At(c, "uncount")
  PROVE  Counts'
<1>1. \A d \in Callers : (HoldsReservation(d)' => HoldsReservation(d))
                         /\ (At(d, "uncount")' => At(d, "uncount"))
  BY DEF Others, HoldsReservation, At
<1>2. Known' = Known /\ Reserving' \in SUBSET Reserving /\ Releasing' \in SUBSET Releasing
  BY <1>1 DEF Known, Reserving, Releasing
<1>3. Cardinality(Reserving') <= Cardinality(Reserving) /\ Cardinality(Releasing') <= Cardinality(Releasing)
  BY <1>2, Finite, FS_Subset
<1> QED BY <1>2, <1>3, Finite, FinitePrimed DEF Inv, Counts, NeverUndercounted, CountWithinLimit

\* The other calls are where they were.
LEMMA CallsMove ==
  ASSUME Calls, NEW c \in Callers, Shape', Others(c), v2' = v2, Where(c)'
  PROVE  Calls'
<1>1. \A d \in Callers \ {c} : Where(d)'
  BY DEF Others, Calls, Where
<1> QED BY <1>1 DEF Calls

\* A call that keeps what it holds, and the tables and counts as they are.
LEMMA QuietMove ==
  ASSUME Inv, NEW c \in Callers, Shape', Others(c), Where(c)',
         UNCHANGED <<v2, tree, pathOf, total, pending>>,
         HoldsSlot(c)' <=> HoldsSlot(c),
         HoldsReservation(c)' => HoldsReservation(c),
         HoldsPath(c)' <=> HoldsPath(c), HoldsPath(c) => call'[c].key = call[c].key,
         At(c, "uncount")' => At(c, "uncount")
  PROVE  Inv'
  BY SlotKept, PathsKept, CountsKept, CallsMove DEF Inv

-----------------------------------------------------------------------------

\* A new call holds nothing.
LEMMA BeginStep ==
  ASSUME Inv, NEW c \in Callers, NEW a \in Agents,
         (\E k \in Keys : Spawn(c, a, k)) \/ Send(c, a) \/ Resume(c, a) \/ Close(c, a)
  PROVE  Inv'
<1>1. PICK op, key, step :
        /\ Begin(c, op, a, key, step)
        /\ \/ op = "spawn" /\ key \in Keys /\ step = IF v2 THEN "slot" ELSE "count"
           \/ op = "send" /\ step \in {"load", "check"}
           \/ op = "resume" /\ ~v2 /\ key \in Keys /\ step = "count"
           \/ op = "close" /\ step = "close"
  BY DEF Spawn, Send, Resume, Close, Keys
<1>2. /\ Shape' /\ Others(c) /\ call[c].pc = "idle" /\ call'[c].pc = step
      /\ call'[c].op = op /\ call'[c].agent = a /\ call'[c].key = key
  BY <1>1, BeginEffect DEF Inv, Calls
<1>3. UNCHANGED <<v2, tree, pathOf, total, pending>>
  BY <1>1 DEF Begin, registry, residency
<1>4. Where(c)'
  BY <1>1, <1>2, <1>3 DEF Where
<1>5. /\ ~HoldsSlot(c) /\ ~HoldsReservation(c) /\ ~HoldsPath(c)
      /\ ~HoldsReservation(c)' /\ ~HoldsPath(c)' /\ ~At(c, "uncount")'
  BY <1>1, <1>2 DEF HoldsSlot, HoldsReservation, HoldsPath, At
<1>6. ~HoldsSlot(c)'
  BY <1>1, <1>2, <1>3 DEF HoldsSlot
<1> QED BY <1>2, <1>3, <1>4, <1>5, <1>6, QuietMove

\* Steps that neither take nor give anything back.
QuietStep(c) ==
    \/ CountResidents(c) \/ PopCandidate(c) \/ Inspect(c) \/ StopCandidate(c) \/ StopFails(c)
    \/ DropCandidate(c) \/ CreateThread(c) \/ FinalizeThread(c) \/ CheckCapacity(c) \/ Deliver(c) \/ CloseSession(c)
    \/ Bury(c) \/ Forget(c)

\* Such a step leaves registry, count and slots alone.
LEMMA Quiet ==
  ASSUME Inv, NEW c \in Callers, QuietStep(c)
  PROVE  Inv'
<1>1. UNCHANGED <<v2, tree, pathOf, total, pending>>
  BY DEF QuietStep, CountResidents, PopCandidate, Inspect, StopCandidate, StopFails, DropCandidate,
     CreateThread, FinalizeThread, CheckCapacity, Deliver, CloseSession, Bury, Forget, registry, residency
<1>2. Where(c) /\ Shape
  BY DEF Inv, Calls
<1>3. ASSUME NEW from, NEW to, At(c, from), Goto(c, to),
             \/ from \in {"unload", "scan", "inspect", "stop", "drop"}
                /\ to \in {"slot", "scan", "inspect", "stop", "drop"}
             \/ from = "create" /\ to = "finalize"
             \/ from \in {"create", "finalize"} /\ to = IF call[c].op = "send" THEN "settle" ELSE "commit"
             \/ from \in {"check", "deliver", "close", "bury", "forget"}
                /\ to \in {"deliver", "bury", "forget", "release"}
      PROVE  Inv'
  <2>1. Shape' /\ Others(c) /\ Same(c) /\ call'[c].pc = to /\ call[c].pc = from
    BY <1>2, <1>3, GotoEffect DEF At
  <2>2. Where(c)'
    BY <1>1, <1>2, <1>3, <2>1 DEF Where, Same
  <2>3. HoldsSlot(c)' <=> HoldsSlot(c)
    BY <1>1, <1>2, <1>3, <2>1 DEF HoldsSlot, Where, Same
  <2>4. HoldsReservation(c)' => HoldsReservation(c)
    BY <1>1, <1>2, <1>3, <2>1 DEF HoldsReservation, Where, Same
  <2>5. (HoldsPath(c)' <=> HoldsPath(c)) /\ call'[c].key = call[c].key /\ ~At(c, "uncount")'
    BY <1>1, <1>2, <1>3, <2>1 DEF HoldsPath, Where, Same, At
  <2> QED BY <1>1, <2>1, <2>2, <2>3, <2>4, <2>5, QuietMove
<1>4. ASSUME CountResidents(c) \/ PopCandidate(c) PROVE Inv'
  <2>1. Shape' /\ Others(c) /\ Same(c) /\ call[c].pc \in {"unload", "scan"}
        /\ call'[c].pc \in {"scan", "inspect"}
    BY <1>2, <1>4, ScanEffect
  <2>2. Where(c)'
    BY <1>1, <1>2, <2>1 DEF Where, Same
  <2>3. ~HoldsSlot(c) /\ ~HoldsSlot(c)' /\ ~HoldsReservation(c)' /\ ~HoldsPath(c) /\ ~HoldsPath(c)'
        /\ ~At(c, "uncount")'
    BY <2>1 DEF HoldsSlot, HoldsReservation, HoldsPath, At
  <2> QED BY <1>1, <2>1, <2>2, <2>3, QuietMove
<1>5. ASSUME Return(c), call[c].pc \in {"check", "deliver"} PROVE Inv'
  <2>1. Shape' /\ Others(c) /\ call'[c].pc = "idle" /\ call'[c].op = "none"
    BY <1>2, <1>5, ReturnEffect
  <2>2. Where(c)'
    BY <2>1 DEF Where
  <2>3. ~HoldsSlot(c) /\ ~HoldsSlot(c)' /\ ~HoldsReservation(c)' /\ ~HoldsPath(c) /\ ~HoldsPath(c)'
        /\ ~At(c, "uncount")'
    BY <1>5, <2>1 DEF HoldsSlot, HoldsReservation, HoldsPath, At
  <2> QED BY <1>1, <2>1, <2>2, <2>3, QuietMove
<1>6. CASE Inspect(c) \/ StopCandidate(c) \/ StopFails(c) \/ DropCandidate(c)
  BY <1>3, <1>6 DEF Inspect, StopCandidate, StopFails, DropCandidate
<1>7. CASE CreateThread(c) \/ FinalizeThread(c)
  BY <1>3, <1>7 DEF CreateThread, FinalizeThread
<1>8. CASE CheckCapacity(c) \/ Deliver(c)
  BY <1>3, <1>5, <1>8 DEF CheckCapacity, Deliver, At
<1>9. CASE CloseSession(c) \/ Bury(c) \/ Forget(c)
  BY <1>3, <1>9 DEF CloseSession, Bury, Forget
<1> QED BY <1>4, <1>6, <1>7, <1>8, <1>9 DEF QuietStep

\* An error gives back exactly what the call held.
LEMMA AbandonStep ==
  ASSUME Inv, NEW c \in Callers, Abandon(c), v2' = v2
  PROVE  Inv'
<1>1. Shape' /\ Others(c) /\ call'[c].pc = "idle" /\ call'[c].op = "none"
  BY ReturnEffect DEF Inv, Calls, Abandon
<1>2. Where(c)'
  BY <1>1 DEF Where
<1>3. ~HoldsSlot(c)' /\ ~HoldsReservation(c)' /\ ~HoldsPath(c)' /\ ~At(c, "uncount")'
  BY <1>1 DEF HoldsSlot, HoldsReservation, HoldsPath, At
<1>4. PendingIsHeld'
  BY <1>1, <1>3, SlotKept, SlotGiven DEF Abandon
<1>5. Tables' /\ PathsAgree'
  <2>1. ASSUME ~HoldsPath(c) PROVE Tables' /\ PathsAgree'
    BY <1>1, <1>3, <2>1, PathsKept DEF Abandon
  <2>2. ASSUME HoldsPath(c) PROVE Tables' /\ PathsAgree'
    <3>1. call[c].key \in Keys /\ tree[call[c].key] = Held
      BY <2>2 DEF Inv, Calls, Where, HoldsPath, PathsAgree
    <3>2. tree' = [tree EXCEPT ![call[c].key] = NoAgent] /\ pathOf' = pathOf
      BY <2>2, <3>1 DEF Abandon
    <3>3. Tables'
      BY <3>1, <3>2 DEF Inv, Tables
    <3>4. \A d \in Callers \ {c} : HoldsPath(d)' = HoldsPath(d) /\ call'[d] = call[d]
      BY <1>1 DEF Others, HoldsPath
    <3>5. \A a \in Agents : pathOf'[a] # NoAgent => tree'[pathOf'[a]] = a
      BY <3>1, <3>2, AgentAssumption DEF Inv, PathsAgree, Tables
    <3>6. \A k \in Keys : tree'[k] \in Agents => pathOf'[tree'[k]] = k
      BY <3>1, <3>2, AgentAssumption DEF Inv, PathsAgree, Tables
    <3>7. \A k \in Keys : tree'[k] = Held => \E d \in Callers : HoldsPath(d)' /\ call'[d].key = k
      BY <3>1, <3>2, <3>4, AgentAssumption DEF Inv, PathsAgree, Tables
    <3>8. \A d, e \in Callers : HoldsPath(d)' => /\ tree'[call'[d].key] = Held
                                                 /\ d # e /\ HoldsPath(e)' => call'[d].key # call'[e].key
      BY <1>3, <2>2, <3>1, <3>2, <3>4 DEF Inv, PathsAgree, Tables
    <3> QED BY <3>3, <3>5, <3>6, <3>7, <3>8 DEF PathsAgree
  <2> QED BY <2>1, <2>2
<1>6. Counts'
  <2>1. ASSUME ~HoldsReservation(c) PROVE Counts'
    BY <1>1, <1>3, <2>1, CountsKept DEF Abandon
  <2>2. ASSUME HoldsReservation(c) PROVE Counts'
    <3>1. total' = total - 1 /\ pathOf' = pathOf
      BY <2>2 DEF Abandon
    <3>2. Known' = Known /\ c \in Reserving /\ Reserving' \subseteq Reserving \ {c}
          /\ Releasing' \in SUBSET Releasing
      BY <1>1, <1>3, <2>2, <3>1 DEF Known, Reserving, Releasing, Others, HoldsReservation, At
    <3>3. Cardinality(Reserving') <= Cardinality(Reserving) - 1
          /\ Cardinality(Releasing') <= Cardinality(Releasing)
      BY <3>2, Finite, OneLess, FS_Subset
    <3> QED BY <3>1, <3>2, <3>3, Finite, FinitePrimed, AgentAssumption
            DEF Inv, Counts, NeverUndercounted, CountWithinLimit
  <2> QED BY <2>1, <2>2
<1> QED BY <1>1, <1>2, <1>4, <1>5, <1>6, CallsMove DEF Inv

\* try_reserve_pending_slot takes a slot, or starts to look for a resident.
LEMMA TryReserveStep ==
  ASSUME Inv, NEW c \in Callers, TryReserve(c)
  PROVE  Inv'
<1>1. Where(c) /\ Shape /\ call[c].pc = "slot" /\ v2 /\ call[c].op \in {"spawn", "send"}
  BY DEF Inv, Calls, Where, TryReserve, At
<1>2. PICK to : Goto(c, to) /\ \/ to = "unload" /\ pending' = pending
                               \/ to = (IF call[c].op = "spawn" THEN "count" ELSE "create")
                                  /\ pending' = pending + 1
  BY DEF TryReserve
<1>3. UNCHANGED <<v2, tree, pathOf, total>>
  BY DEF TryReserve, registry
<1>4. Shape' /\ Others(c) /\ Same(c) /\ call'[c].pc = to
  BY <1>1, <1>2, GotoEffect
<1>5. Where(c)'
  BY <1>1, <1>2, <1>3, <1>4 DEF Where, Same
<1>6. /\ ~HoldsSlot(c) /\ ~HoldsReservation(c)' /\ ~HoldsPath(c) /\ ~HoldsPath(c)'
      /\ ~At(c, "uncount")'
  BY <1>1, <1>2, <1>4 DEF HoldsSlot, HoldsReservation, HoldsPath, At, Same
<1>7. PendingIsHeld'
  <2>1. CASE to = "unload" /\ pending' = pending
    <3>1. ~HoldsSlot(c)'
      BY <1>4, <2>1 DEF HoldsSlot
    <3> QED BY <1>3, <1>4, <1>6, <2>1, <3>1, SlotKept
  <2>2. CASE to = (IF call[c].op = "spawn" THEN "count" ELSE "create") /\ pending' = pending + 1
    <3>1. HoldsSlot(c)'
      BY <1>1, <1>3, <1>4, <2>2 DEF HoldsSlot, Same
    <3> QED BY <1>3, <1>4, <1>6, <2>2, <3>1, SlotTaken
  <2> QED BY <1>2, <2>1, <2>2
<1>8. Calls' /\ Tables' /\ PathsAgree' /\ Counts'
  BY <1>3, <1>4, <1>5, <1>6, CallsMove, PathsKept, CountsKept DEF Inv
<1> QED BY <1>7, <1>8 DEF Inv

\* reserve_spawn_slot counts the agent to come.
LEMMA CountSpawnStep ==
  ASSUME Inv, NEW c \in Callers, CountSpawn(c)
  PROVE  Inv'
<1>1. Where(c) /\ Shape /\ call[c].pc = "count" /\ (v2 \/ total < Cap)
  BY DEF Inv, Calls, CountSpawn, At
<1>2. UNCHANGED <<v2, tree, pathOf, pending>> /\ total' = total + 1
      /\ Goto(c, IF v2 THEN "prepare" ELSE "create")
  BY DEF CountSpawn, residency
<1>3. Shape' /\ Others(c) /\ Same(c) /\ call'[c].pc = IF v2 THEN "prepare" ELSE "create"
  BY <1>1, <1>2, GotoEffect
<1>4. Where(c)'
  BY <1>1, <1>2, <1>3 DEF Where, Same
<1>5. HoldsSlot(c)' <=> HoldsSlot(c)
  BY <1>1, <1>2, <1>3 DEF HoldsSlot, Same
<1>6. ~HoldsPath(c) /\ ~HoldsPath(c)'
  BY <1>1, <1>2, <1>3 DEF HoldsPath
<1>7. Known' = Known /\ Reserving' \subseteq Reserving \cup {c} /\ Releasing' \in SUBSET Releasing
  BY <1>2, <1>3 DEF Known, Reserving, Releasing, Others, HoldsReservation, At
<1>8. Cardinality(Reserving') <= Cardinality(Reserving) + 1
      /\ Cardinality(Releasing') <= Cardinality(Releasing)
  BY <1>7, Finite, AtMostOneMore, FS_Subset
<1>9. Counts'
  BY <1>1, <1>2, <1>7, <1>8, Finite, FinitePrimed, AgentAssumption
     DEF Inv, Counts, NeverUndercounted, CountWithinLimit
<1> QED BY <1>2, <1>3, <1>4, <1>5, <1>6, <1>9, CallsMove, SlotKept, PathsKept DEF Inv

\* reserve_agent_path holds a vacant path for one spawn.
LEMMA ReservePathStep ==
  ASSUME Inv, NEW c \in Callers, ReservePath(c)
  PROVE  Inv'
<1>1. Where(c) /\ Shape /\ call[c].pc = "prepare" /\ tree[call[c].key] = NoAgent
  BY DEF Inv, Calls, ReservePath, At
<1>2. v2 /\ call[c].op = "spawn" /\ call[c].key \in Keys
  BY <1>1 DEF Where
<1>3. UNCHANGED <<v2, pathOf, total, pending>> /\ tree' = [tree EXCEPT ![call[c].key] = Held]
      /\ Goto(c, "create")
  BY DEF ReservePath, residency
<1>4. Shape' /\ Others(c) /\ Same(c) /\ call'[c].pc = "create"
  BY <1>1, <1>3, GotoEffect
<1>5. Where(c)'
  BY <1>1, <1>3, <1>4 DEF Where, Same
<1>6. HoldsSlot(c)' /\ HoldsSlot(c) /\ HoldsReservation(c) /\ HoldsPath(c)' /\ ~At(c, "uncount")'
  BY <1>1, <1>2, <1>3, <1>4 DEF HoldsSlot, HoldsReservation, HoldsPath, At, Same
<1>7. Tables'
  BY <1>2, <1>3 DEF Inv, Tables
<1>8. \A d \in Callers \ {c} : HoldsPath(d)' = HoldsPath(d) /\ call'[d] = call[d]
  BY <1>3, <1>4 DEF Others, HoldsPath
<1>9. \A a \in Agents : pathOf'[a] # NoAgent => tree'[pathOf'[a]] = a
  BY <1>1, <1>2, <1>3, AgentAssumption DEF Inv, PathsAgree, Tables
<1>10. \A k \in Keys : tree'[k] \in Agents => pathOf'[tree'[k]] = k
  BY <1>1, <1>2, <1>3, AgentAssumption DEF Inv, PathsAgree, Tables
<1>11. \A k \in Keys : tree'[k] = Held => \E d \in Callers : HoldsPath(d)' /\ call'[d].key = k
  <2> SUFFICES ASSUME NEW k \in Keys, tree'[k] = Held
               PROVE  \E d \in Callers : HoldsPath(d)' /\ call'[d].key = k
    OBVIOUS
  <2>1. CASE k = call[c].key
    BY <1>4, <1>6, <2>1 DEF Same
  <2>2. CASE k # call[c].key
    <3>1. tree[k] = Held
      BY <1>3, <2>2 DEF Inv, Tables
    <3>2. PICK d \in Callers : HoldsPath(d) /\ call[d].key = k
      BY <3>1 DEF Inv, PathsAgree
    <3>3. d # c
      BY <1>1, <3>2 DEF HoldsPath
    <3> QED BY <1>8, <3>2, <3>3
  <2> QED BY <2>1, <2>2
<1>12. \A d \in Callers \ {c} : HoldsPath(d) => call[d].key \in Keys /\ call[d].key # call[c].key
  BY <1>1, AgentAssumption DEF Inv, PathsAgree, Calls, Where, HoldsPath
<1>13. \A d, e \in Callers : HoldsPath(d)' => /\ tree'[call'[d].key] = Held
                                              /\ d # e /\ HoldsPath(e)' => call'[d].key # call'[e].key
  BY <1>2, <1>3, <1>4, <1>8, <1>12 DEF Inv, PathsAgree, Tables, Same
<1>14. PathsAgree'
  BY <1>9, <1>10, <1>11, <1>13 DEF PathsAgree
<1> QED BY <1>3, <1>4, <1>5, <1>6, <1>7, <1>14, CallsMove, SlotKept, CountsKept DEF Inv

\* V2ResidencySlot::commit, and the slot dropped because the thread is there.
LEMMA SettleStep ==
  ASSUME Inv, NEW c \in Callers, NEW to \in {"deliver", "check"}, Goto(c, to),
         HoldsSlot(c), call[c].pc = "settle" \/ call[c].op = "send",
         pending' = pending - 1, UNCHANGED <<v2, tree, pathOf, total>>
  PROVE  Inv'
<1>1. Where(c) /\ Shape
  BY DEF Inv, Calls
<1>2. Shape' /\ Others(c) /\ Same(c) /\ call'[c].pc = to
  BY <1>1, GotoEffect
<1>3. Where(c)'
  BY <1>1, <1>2 DEF Where, Same, HoldsSlot
<1>4. ~HoldsSlot(c)' /\ ~HoldsReservation(c)' /\ ~HoldsPath(c) /\ ~HoldsPath(c)' /\ ~At(c, "uncount")'
  BY <1>2 DEF HoldsSlot, HoldsReservation, HoldsPath, At
<1> QED BY <1>2, <1>3, <1>4, CallsMove, SlotGiven, PathsKept, CountsKept DEF Inv

\* ensure_v2_agent_loaded goes on, asks for a slot, or gives up.
LEMMA EnsureLoadedStep ==
  ASSUME Inv, NEW c \in Callers, EnsureLoaded(c)
  PROVE  Inv'
<1>1. Where(c) /\ Shape /\ call[c].pc = "load" /\ call[c].op = "send" /\ v2' = v2
  BY DEF Inv, Calls, Where, EnsureLoaded, At
<1>2. CASE Abandon(c)
  BY <1>1, <1>2, AbandonStep
<1>3. ASSUME NEW to \in {"check", "slot"}, Goto(c, to), to = "slot" => v2,
             UNCHANGED <<tree, pathOf, total, pending>>
      PROVE  Inv'
  <2>1. Shape' /\ Others(c) /\ Same(c) /\ call'[c].pc = to
    BY <1>1, <1>3, GotoEffect
  <2>2. Where(c)'
    BY <1>1, <1>3, <2>1 DEF Where, Same
  <2>3. ~HoldsSlot(c) /\ ~HoldsSlot(c)' /\ ~HoldsReservation(c)' /\ ~HoldsPath(c) /\ ~HoldsPath(c)'
        /\ ~At(c, "uncount")'
    BY <1>1, <1>3, <2>1 DEF HoldsSlot, HoldsReservation, HoldsPath, At
  <2> QED BY <1>1, <1>3, <2>1, <2>2, <2>3, QuietMove
<1>4. ASSUME Goto(c, "check"), UNCHANGED <<registry, pending>> PROVE Inv'
  <2>1. UNCHANGED <<tree, pathOf, total, pending>>
    BY <1>4 DEF registry
  <2> QED BY <1>3, <1>4, <2>1
<1>5. ASSUME Goto(c, "slot"), v2, UNCHANGED <<registry, residency>> PROVE Inv'
  BY <1>3, <1>5 DEF registry, residency
<1> QED BY <1>2, <1>4, <1>5 DEF EnsureLoaded

\* register_spawned_thread: the tables stay inverse to each other.
LEMMA Registered ==
  ASSUME Inv, NEW a \in Agents, NEW k \in Keys, Register(a, k)
  PROVE  /\ Tables'
         /\ \A b \in Agents : pathOf'[b] # NoAgent => tree'[pathOf'[b]] = b
         /\ \A j \in Keys : tree'[j] \in Agents => pathOf'[tree'[j]] = j
         /\ \A j \in Keys : j # k => (tree'[j] = Held <=> tree[j] = Held)
         /\ tree'[k] = a
<1> USE AgentAssumption
<1>1. /\ \A j \in Keys : tree'[j] = IF j = k THEN a ELSE IF j = pathOf[a] THEN NoAgent ELSE tree[j]
      /\ \A b \in Agents : pathOf'[b] = IF b = a THEN k ELSE IF b = tree[k] THEN NoAgent ELSE pathOf[b]
  BY DEF Register
<1>2. Tables'
  BY DEF Register, Inv, Tables
<1>3. \A b \in Agents : pathOf[b] # NoAgent => pathOf[b] \in Keys /\ tree[pathOf[b]] = b
  BY DEF Inv, Tables, PathsAgree
<1>4. \A j \in Keys : tree[j] \in Agents => pathOf[tree[j]] = j
  BY DEF Inv, PathsAgree
<1>5. NoAgent \notin Keys /\ NoAgent \notin Agents /\ Held \notin Agents /\ NoAgent # Held
  BY DEF Keys
<1>6. \A b \in Agents : pathOf'[b] # NoAgent => tree'[pathOf'[b]] = b
  BY <1>1, <1>3, <1>5
<1>7. \A j \in Keys : tree'[j] \in Agents => pathOf'[tree'[j]] = j
  BY <1>1, <1>3, <1>4, <1>5
<1>8. \A j \in Keys : j # k => (tree'[j] = Held <=> tree[j] = Held)
  BY <1>1, <1>3, <1>5
<1> QED BY <1>1, <1>2, <1>6, <1>7, <1>8

\* commit: a reservation becomes a known agent.
LEMMA CommitSpawnStep ==
  ASSUME Inv, NEW c \in Callers, CommitSpawn(c)
  PROVE  Inv'
<1> DEFINE a == call[c].agent
           k == call[c].key
<1>1. Where(c) /\ Shape /\ call[c].pc = "commit" /\ Register(a, k)
  BY DEF Inv, Calls, CommitSpawn, At
<1>2. a \in Agents /\ k \in Keys /\ call[c].op \in {"spawn", "resume"} /\ (call[c].op = "resume" => ~v2)
  BY <1>1 DEF Where
<1>3. UNCHANGED <<v2, total, pending>>
  BY DEF CommitSpawn, residency
<1>4. /\ Shape' /\ Others(c)
      /\ \/ v2 /\ call'[c].pc = "settle" /\ Same(c)
         \/ ~v2 /\ call'[c].pc = "deliver" /\ Same(c)
         \/ ~v2 /\ call'[c].pc = "idle" /\ call'[c].op = "none"
  BY <1>1, GotoEffect, ReturnEffect DEF CommitSpawn
<1>5. Where(c)'
  BY <1>1, <1>2, <1>3, <1>4 DEF Where, Same
<1>6. HoldsReservation(c) /\ ~HoldsReservation(c)' /\ ~HoldsPath(c)' /\ ~At(c, "uncount")'
  BY <1>1, <1>2, <1>4 DEF HoldsReservation, HoldsPath, At
<1>7. HoldsSlot(c)' <=> HoldsSlot(c)
  BY <1>1, <1>2, <1>3, <1>4 DEF HoldsSlot, Same
<1>8. /\ Tables'
      /\ \A b \in Agents : pathOf'[b] # NoAgent => tree'[pathOf'[b]] = b
      /\ \A j \in Keys : tree'[j] \in Agents => pathOf'[tree'[j]] = j
      /\ \A j \in Keys : j # k => (tree'[j] = Held <=> tree[j] = Held)
      /\ tree'[k] = a
  BY <1>1, <1>2, Registered
<1>9. \A d \in Callers \ {c} : HoldsPath(d)' = HoldsPath(d) /\ call'[d] = call[d]
  BY <1>3, <1>4 DEF Others, HoldsPath
<1>10. \A d \in Callers \ {c} : HoldsPath(d) => call[d].key \in Keys /\ call[d].key # k
  <2> SUFFICES ASSUME NEW d \in Callers \ {c}, HoldsPath(d) PROVE call[d].key \in Keys /\ call[d].key # k
    OBVIOUS
  <2>1. v2 /\ call[d].op = "spawn" /\ Where(d)
    BY DEF HoldsPath, Inv, Calls
  <2>2. call[d].key \in Keys
    BY <2>1 DEF Where
  <2>3. HoldsPath(c)
    BY <1>1, <1>2, <2>1 DEF HoldsPath
  <2> QED BY <2>2, <2>3 DEF Inv, PathsAgree
<1>11. \A j \in Keys : tree'[j] = Held => \E d \in Callers : HoldsPath(d)' /\ call'[d].key = j
  <2> SUFFICES ASSUME NEW j \in Keys, tree'[j] = Held
               PROVE  \E d \in Callers : HoldsPath(d)' /\ call'[d].key = j
    OBVIOUS
  <2>1. j # k /\ tree[j] = Held
    BY <1>2, <1>8, AgentAssumption
  <2>2. PICK d \in Callers : HoldsPath(d) /\ call[d].key = j
    BY <2>1 DEF Inv, PathsAgree
  <2>3. d # c
    BY <2>1, <2>2
  <2> QED BY <1>9, <2>2, <2>3
<1>12. \A d, e \in Callers : HoldsPath(d)' => /\ tree'[call'[d].key] = Held
                                              /\ d # e /\ HoldsPath(e)' => call'[d].key # call'[e].key
  BY <1>6, <1>8, <1>9, <1>10 DEF Inv, PathsAgree
<1>13. PathsAgree'
  BY <1>8, <1>11, <1>12 DEF PathsAgree
<1>14. Known' \subseteq Known \cup {a}
  BY <1>1, <1>2 DEF Known, Register
<1>15. c \in Reserving /\ Reserving' \subseteq Reserving \ {c} /\ Releasing' \in SUBSET Releasing
  BY <1>3, <1>4, <1>6 DEF Reserving, Releasing, Others, HoldsReservation, At
<1>16. /\ Cardinality(Known') <= Cardinality(Known) + 1
       /\ Cardinality(Reserving') <= Cardinality(Reserving) - 1
       /\ Cardinality(Releasing') <= Cardinality(Releasing)
  BY <1>14, <1>15, Finite, AtMostOneMore, OneLess, FS_Subset
<1>17. Counts'
  BY <1>3, <1>16, Finite, FinitePrimed DEF Inv, Counts, NeverUndercounted, CountWithinLimit
<1>18. Calls' /\ PendingIsHeld'
  BY <1>3, <1>4, <1>5, <1>7, CallsMove, SlotKept DEF Inv
<1> QED BY <1>8, <1>13, <1>17, <1>18 DEF Inv

\* release_spawned_thread: the entry goes, the count follows in a later step.
LEMMA ReleaseStep ==
  ASSUME Inv, NEW c \in Callers, Release(c)
  PROVE  Inv'
<1> DEFINE a == call[c].agent
<1>1. Where(c) /\ Shape /\ call[c].pc = "release" /\ a \in Agents
      /\ UNCHANGED <<v2, total, pending>>
  BY DEF Inv, Calls, Release, At, Where, residency
<1>2. ASSUME Return(c), UNCHANGED <<tree, pathOf>> PROVE Inv'
  <2>1. Shape' /\ Others(c) /\ call'[c].pc = "idle" /\ call'[c].op = "none"
    BY <1>1, <1>2, ReturnEffect
  <2>2. Where(c)'
    BY <2>1 DEF Where
  <2>3. ~HoldsSlot(c) /\ ~HoldsSlot(c)' /\ ~HoldsReservation(c)' /\ ~HoldsPath(c) /\ ~HoldsPath(c)'
        /\ ~At(c, "uncount")'
    BY <1>1, <2>1 DEF HoldsSlot, HoldsReservation, HoldsPath, At
  <2> QED BY <1>1, <1>2, <2>1, <2>2, <2>3, QuietMove
<1>3. ASSUME pathOf[a] # NoAgent, Goto(c, "uncount"),
             tree' = [tree EXCEPT ![pathOf[a]] = NoAgent], pathOf' = [pathOf EXCEPT ![a] = NoAgent]
      PROVE  Inv'
  <2>1. Shape' /\ Others(c) /\ Same(c) /\ call'[c].pc = "uncount"
    BY <1>1, <1>3, GotoEffect
  <2>2. Where(c)'
    BY <1>1, <2>1 DEF Where, Same
  <2>3. ~HoldsSlot(c) /\ ~HoldsSlot(c)' /\ ~HoldsReservation(c)' /\ ~HoldsPath(c) /\ ~HoldsPath(c)'
    BY <1>1, <2>1 DEF HoldsSlot, HoldsReservation, HoldsPath
  <2>4. pathOf[a] \in Keys /\ tree[pathOf[a]] = a
    BY <1>1, <1>3 DEF Inv, Tables, PathsAgree
  <2>5. Tables'
    BY <1>3, <2>4 DEF Inv, Tables
  <2>6. \A d \in Callers : HoldsPath(d)' = HoldsPath(d) /\ (HoldsPath(d) => call'[d] = call[d])
    BY <1>1, <2>1, <2>3 DEF Others, HoldsPath
  <2>7. \A b \in Agents : pathOf'[b] # NoAgent => tree'[pathOf'[b]] = b
    BY <1>1, <1>3, <2>4, AgentAssumption DEF Inv, PathsAgree, Tables
  <2>8. \A k \in Keys : tree'[k] \in Agents => pathOf'[tree'[k]] = k
    BY <1>1, <1>3, <2>4, AgentAssumption DEF Inv, PathsAgree, Tables
  <2>9. \A k \in Keys : tree'[k] = Held <=> tree[k] = Held
    BY <1>1, <1>3, <2>4, AgentAssumption DEF Inv, Tables
  <2>10. \A d \in Callers : HoldsPath(d) => call[d].key \in Keys
    BY DEF Inv, Calls, Where, HoldsPath
  <2>11. PathsAgree'
    BY <2>6, <2>7, <2>8, <2>9, <2>10 DEF Inv, PathsAgree
  <2>12. a \in Known /\ Known' \subseteq Known \ {a}
    BY <1>1, <1>3 DEF Known, Inv, Tables
  <2>13. Reserving' \in SUBSET Reserving /\ Releasing' \subseteq Releasing \cup {c}
    BY <1>1, <2>1, <2>3 DEF Reserving, Releasing, Others, HoldsReservation, At
  <2>14. /\ Cardinality(Known') <= Cardinality(Known) - 1
         /\ Cardinality(Reserving') <= Cardinality(Reserving)
         /\ Cardinality(Releasing') <= Cardinality(Releasing) + 1
    BY <2>12, <2>13, Finite, AtMostOneMore, OneLess, FS_Subset
  <2>15. Counts'
    BY <1>1, <2>14, Finite, FinitePrimed DEF Inv, Counts, NeverUndercounted, CountWithinLimit
  <2>16. Calls' /\ PendingIsHeld'
    BY <1>1, <2>1, <2>2, <2>3, CallsMove, SlotKept DEF Inv
  <2> QED BY <2>5, <2>11, <2>15, <2>16 DEF Inv
<1> QED BY <1>2, <1>3 DEF Release

\* The agent that was released is counted down.
LEMMA UncountStep ==
  ASSUME Inv, NEW c \in Callers, Uncount(c)
  PROVE  Inv'
<1>1. Shape /\ call[c].pc = "uncount" /\ UNCHANGED <<v2, tree, pathOf, pending>> /\ total' = total - 1
  BY DEF Inv, Calls, Uncount, At, residency
<1>2. Shape' /\ Others(c) /\ call'[c].pc = "idle" /\ call'[c].op = "none"
  BY <1>1, ReturnEffect DEF Uncount
<1>3. Where(c)'
  BY <1>2 DEF Where
<1>4. ~HoldsSlot(c) /\ ~HoldsSlot(c)' /\ ~HoldsReservation(c)' /\ ~HoldsPath(c) /\ ~HoldsPath(c)'
      /\ ~At(c, "uncount")'
  BY <1>1, <1>2 DEF HoldsSlot, HoldsReservation, HoldsPath, At
<1>5. Known' = Known /\ Reserving' \in SUBSET Reserving /\ c \in Releasing /\ Releasing' \subseteq Releasing \ {c}
  BY <1>1, <1>2, <1>4 DEF Known, Reserving, Releasing, Others, HoldsReservation, At
<1>6. Cardinality(Reserving') <= Cardinality(Reserving) /\ Cardinality(Releasing') <= Cardinality(Releasing) - 1
  BY <1>5, Finite, OneLess, FS_Subset
<1>7. Counts'
  BY <1>1, <1>5, <1>6, Finite, FinitePrimed, AgentAssumption
     DEF Inv, Counts, NeverUndercounted, CountWithinLimit
<1> QED BY <1>1, <1>2, <1>3, <1>4, <1>7, CallsMove, SlotKept, PathsKept DEF Inv

\* A spawn that fails gives everything back; a reload may find the thread.
LEMMA CreateFailsStep ==
  ASSUME Inv, NEW c \in Callers, CreateFails(c)
  PROVE  Inv'
<1>1. Where(c) /\ call[c].pc = "finalize" /\ v2' = v2
  BY DEF Inv, Calls, CreateFails, At
<1>2. CASE Abandon(c)
  BY <1>1, <1>2, AbandonStep
<1>3. ASSUME call[c].op = "send", pending' = pending - 1, Goto(c, "check"), UNCHANGED registry
      PROVE  Inv'
  <2>1. HoldsSlot(c)
    BY <1>1, <1>3 DEF HoldsSlot, Where
  <2> QED BY <1>1, <1>3, <2>1, SettleStep DEF registry
<1> QED BY <1>2, <1>3 DEF CreateFails

\* The pending slot becomes a resident.
LEMMA CommitSlotStep ==
  ASSUME Inv, NEW c \in Callers, CommitSlot(c)
  PROVE  Inv'
<1>1. Where(c) /\ call[c].pc = "settle" /\ UNCHANGED <<v2, tree, pathOf, total>> /\ pending' = pending - 1
  BY DEF Inv, Calls, CommitSlot, At, registry
<1>2. HoldsSlot(c)
  BY <1>1 DEF HoldsSlot, Where
<1>3. PICK to \in {"deliver", "check"} : Goto(c, to)
  BY DEF CommitSlot
<1> QED BY <1>1, <1>2, <1>3, SettleStep

-----------------------------------------------------------------------------

\* A session without agents.
LEMMA InvInit == Init => Inv
<1> SUFFICES ASSUME Init PROVE Inv
  OBVIOUS
<1>1. /\ tree = [k \in Keys |-> NoAgent] /\ pathOf = [a \in Agents |-> NoAgent]
      /\ total = 0 /\ pending = 0 /\ call = [c \in Callers |-> Idle]
  BY DEF Init
<1>2. Idle = [f \in Fields |-> Idle[f]] /\ Idle.pc = "idle" /\ Idle.op = "none"
  BY DEF Idle, Fields
<1>3. Calls
  BY <1>1, <1>2 DEF Calls, Shape, Where
<1>4. Tables
  BY <1>1 DEF Tables
<1>5. \A c \in Callers : ~HoldsSlot(c) /\ ~HoldsReservation(c) /\ ~HoldsPath(c) /\ ~At(c, "uncount")
  BY <1>1, <1>2 DEF HoldsSlot, HoldsReservation, HoldsPath, At
<1>6. PathsAgree
  BY <1>1, <1>5, AgentAssumption DEF PathsAgree
<1>7. Known = {} /\ Reserving = {} /\ Releasing = {} /\ {c \in Callers : HoldsSlot(c)} = {}
  BY <1>1, <1>5 DEF Known, Reserving, Releasing
<1>8. PendingIsHeld /\ Counts
  BY <1>1, <1>7, FS_EmptySet, AgentAssumption DEF PendingIsHeld, Counts, NeverUndercounted, CountWithinLimit
<1> QED BY <1>3, <1>4, <1>6, <1>8 DEF Inv

\* Every step of a call and of a thread preserves Inv.
LEMMA InvNext == Inv /\ [Next]_vars => Inv'
<1> SUFFICES ASSUME Inv, [Next]_vars PROVE Inv'
  OBVIOUS
<1>1. ASSUME NEW c \in Callers, NEW a \in Agents,
             (\E k \in Keys : Spawn(c, a, k)) \/ Send(c, a) \/ Resume(c, a) \/ Close(c, a)
      PROVE  Inv'
  BY <1>1, BeginStep
<1>2. ASSUME NEW c \in Callers, Step(c) PROVE Inv'
  <2>1. CASE TryReserve(c) BY <2>1, TryReserveStep
  <2>2. CASE QuietStep(c) BY <2>2, Quiet
  <2>3. CASE LimitReached(c) \/ CountRefused(c) \/ PathTaken(c)
    BY <2>3, AbandonStep DEF LimitReached, CountRefused, PathTaken
  <2>4. CASE CountSpawn(c) BY <2>4, CountSpawnStep
  <2>5. CASE ReservePath(c) BY <2>5, ReservePathStep
  <2>6. CASE CreateFails(c) BY <2>6, CreateFailsStep
  <2>7. CASE CommitSpawn(c) BY <2>7, CommitSpawnStep
  <2>8. CASE CommitSlot(c) BY <2>8, CommitSlotStep
  <2>9. CASE EnsureLoaded(c) BY <2>9, EnsureLoadedStep
  <2>10. CASE Release(c) BY <2>10, ReleaseStep
  <2>11. CASE Uncount(c) BY <2>11, UncountStep
  <2> QED BY <1>2, <2>1, <2>2, <2>3, <2>4, <2>5, <2>6, <2>7, <2>8, <2>9, <2>10, <2>11 DEF Step, QuietStep
<1>3. ASSUME UNCHANGED <<v2, registry, residency, call>> PROVE Inv'
  <2>1. UNCHANGED <<v2, tree, pathOf, total, pending, call>>
    BY <1>3 DEF registry, residency
  <2> QED BY <2>1 DEF Inv, Calls, Shape, Where, Tables, PathsAgree, PendingIsHeld, Counts, NeverUndercounted,
          CountWithinLimit, Known, Reserving, Releasing, HoldsSlot, HoldsReservation, HoldsPath, At
<1>4. ASSUME NEW a \in Agents, StartTurn(a) \/ EndTurn(a) \/ SessionEnds(a) PROVE Inv'
  BY <1>3, <1>4 DEF StartTurn, EndTurn, SessionEnds
<1>5. CASE UNCHANGED vars
  BY <1>3, <1>5 DEF vars, registry, residency
<1> QED BY <1>1, <1>2, <1>4, <1>5 DEF Next

\* SpawnReservation and release_spawned_thread: the count is never below what
\* is known, being spawned or being released.
THEOREM NeverUndercountedHolds == Spec => []NeverUndercounted
<1>1. Inv => NeverUndercounted
  BY DEF Inv, Counts
<1> QED BY InvInit, InvNext, <1>1, PTL DEF Spec

\* reserve_spawn_slot: however many calls overlap, a V1 session knows and
\* spawns at most its limit of agents.
THEOREM KnownWithinLimitHolds == Spec => []KnownWithinLimit
<1>1. Inv => KnownWithinLimit
  BY Finite, AgentAssumption DEF Inv, Counts, NeverUndercounted, CountWithinLimit, KnownWithinLimit
<1> QED BY InvInit, InvNext, <1>1, PTL DEF Spec

\* reserve_agent_path and register_spawned_thread: a path leads to the agent
\* that was given it, and a reserved path belongs to one spawn.
THEOREM PathsAgreeHolds == Spec => []PathsAgree
<1>1. Inv => PathsAgree
  BY DEF Inv
<1> QED BY InvInit, InvNext, <1>1, PTL DEF Spec

\* V2ResidencySlot: a pending slot is always held by a call under way, on
\* every path out of it.
THEOREM PendingIsHeldHolds == Spec => []PendingIsHeld
<1>1. Inv => PendingIsHeld
  BY DEF Inv
<1> QED BY InvInit, InvNext, <1>1, PTL DEF Spec

-----------------------------------------------------------------------------
(* Types.  The counts are natural numbers because of Inv: a call gives back *)
(* what it holds, and that was counted.  The list of residents never holds  *)
(* a thread twice, so the number of residents is the number of threads.     *)

NoDuplicates(s) == \A i, j \in DOMAIN s : s[i] = s[j] => i = j

\* retain takes the thread out and nothing else changes places.
LEMMA WithoutType ==
  ASSUME NEW s \in Seq(Agents), NoDuplicates(s), NEW a
  PROVE  /\ Without(s, a) \in Seq(Agents) /\ NoDuplicates(Without(s, a))
         /\ \A i \in DOMAIN Without(s, a) : Without(s, a)[i] # a
<1>1. CASE ~ \E i \in DOMAIN s : s[i] = a
  BY <1>1 DEF Without
<1>2. CASE \E i \in DOMAIN s : s[i] = a
  <2> DEFINE k == CHOOSE i \in DOMAIN s : s[i] = a
             t == [j \in 1 .. Len(s) - 1 |-> IF j < k THEN s[j] ELSE s[j + 1]]
  <2>1. k \in 1 .. Len(s) /\ s[k] = a
    BY <1>2
  <2>2. Without(s, a) = t
    BY <1>2 DEF Without
  <2> HIDE DEF k
  <2>3. Len(s) - 1 \in Nat /\ \A j \in 1 .. Len(s) - 1 : t[j] \in Agents
    BY <2>1
  <2>4. t \in Seq(Agents) /\ DOMAIN t = 1 .. Len(s) - 1
    BY <2>3
  <2>5. \A i \in 1 .. Len(s) - 1 : t[i] # a
    BY <2>1 DEF NoDuplicates
  <2>6. NoDuplicates(t)
    BY <2>1, <2>4 DEF NoDuplicates
  <2> QED BY <2>2, <2>4, <2>5, <2>6
<1> QED BY <1>1, <1>2

LEMMA AppendType ==
  ASSUME NEW s \in Seq(Agents), NoDuplicates(s), NEW a \in Agents, \A i \in DOMAIN s : s[i] # a
  PROVE  Append(s, a) \in Seq(Agents) /\ NoDuplicates(Append(s, a))
<1>1. /\ Append(s, a) \in Seq(Agents) /\ DOMAIN Append(s, a) = 1 .. Len(s) + 1
      /\ \A i \in 1 .. Len(s) : Append(s, a)[i] = s[i]
      /\ Append(s, a)[Len(s) + 1] = a
  OBVIOUS
<1> QED BY <1>1 DEF NoDuplicates

\* touch_resident puts a thread at the end, once.
LEMMA TouchType ==
  ASSUME NEW s \in Seq(Agents), NoDuplicates(s), NEW a \in Agents
  PROVE  Touch(s, a) \in Seq(Agents) /\ NoDuplicates(Touch(s, a))
  BY WithoutType, AppendType DEF Touch

LEMMA TailType ==
  ASSUME NEW s \in Seq(Agents), Len(s) >= 1
  PROVE  /\ Tail(s) \in Seq(Agents) /\ Len(Tail(s)) = Len(s) - 1
         /\ \A i \in 1 .. Len(s) - 1 : Tail(s)[i] = s[i + 1]
         /\ Head(s) = s[1] /\ s[1] \in Agents
<1>1. s # <<>>
  OBVIOUS
<1> QED BY <1>1

\* pop_lru_candidate takes out the first resident or the second, and then the
\* first goes to the back.
LEMMA PopType ==
  ASSUME TypeOK, NEW c \in Callers, PopCandidate(c)
  PROVE  residents' \in Seq(Agents) /\ NoDuplicates(residents')
<1>1. residents \in Seq(Agents) /\ NoDuplicates(residents) /\ Len(residents) \in Nat
  BY DEF TypeOK, NoDuplicates
<1>2. Len(residents) >= 1
  BY <1>1 DEF PopCandidate, Candidates
<1>3. /\ Tail(residents) \in Seq(Agents) /\ Len(Tail(residents)) = Len(residents) - 1
      /\ \A i \in 1 .. Len(residents) - 1 : Tail(residents)[i] = residents[i + 1]
      /\ Head(residents) = residents[1] /\ residents[1] \in Agents
  BY <1>1, <1>2, TailType
<1>4. NoDuplicates(Tail(residents))
  BY <1>1, <1>3 DEF NoDuplicates
<1>5. CASE 1 \in Candidates(c)
  BY <1>3, <1>4, <1>5 DEF PopCandidate
<1>6. CASE 1 \notin Candidates(c)
  <2>1. Len(residents) >= 2
    BY <1>1, <1>6 DEF PopCandidate, Candidates
  <2> DEFINE t == Tail(Tail(residents))
  <2>2. /\ t \in Seq(Agents) /\ Len(t) = Len(residents) - 2
        /\ \A i \in 1 .. Len(residents) - 2 : t[i] = residents[i + 2]
    <3>1. Len(Tail(residents)) >= 1
      BY <1>1, <1>3, <2>1
    <3>2. /\ t \in Seq(Agents) /\ Len(t) = Len(Tail(residents)) - 1
          /\ \A i \in 1 .. Len(Tail(residents)) - 1 : t[i] = Tail(residents)[i + 1]
      BY <1>3, <3>1, TailType
    <3> QED BY <1>1, <1>3, <3>2
  <2> HIDE DEF t
  <2>3. NoDuplicates(t) /\ \A i \in DOMAIN t : t[i] # residents[1]
    <3>1. DOMAIN t = 1 .. Len(residents) - 2 /\ DOMAIN residents = 1 .. Len(residents)
      BY <1>1, <2>2
    <3>2. ASSUME NEW i \in DOMAIN t PROVE t[i] = residents[i + 2] /\ i + 2 \in DOMAIN residents /\ i \in Nat
      BY <1>1, <2>1, <2>2, <3>1, <3>2
    <3>3. \A i \in DOMAIN t : t[i] # residents[1]
      <4> SUFFICES ASSUME NEW i \in DOMAIN t, t[i] = residents[1] PROVE FALSE
        OBVIOUS
      <4>1. 1 \in DOMAIN residents
        BY <1>1, <2>1, <3>1
      <4>2. i + 2 = 1
        BY <1>1, <3>2, <4>1 DEF NoDuplicates
      <4> QED BY <3>2, <4>2
    <3>4. ASSUME NEW i \in DOMAIN t, NEW j \in DOMAIN t, t[i] = t[j] PROVE i = j
      <4>1. i + 2 = j + 2
        BY <1>1, <3>2, <3>4 DEF NoDuplicates
      <4> QED BY <3>2, <4>1
    <3> QED BY <3>3, <3>4 DEF NoDuplicates
  <2>4. residents' = Append(t, Head(residents))
    BY <1>6 DEF PopCandidate, t
  <2> QED BY <1>3, <2>2, <2>3, <2>4, AppendType
<1> QED BY <1>5, <1>6

\* The entries of the table of calls.
LEMMA CallType ==
  ASSUME TypeOK, NEW c \in Callers
  PROVE  /\ \A s \in Steps : Goto(c, s) => call' \in [Callers -> Call]
         /\ Return(c) => call' \in [Callers -> Call]
<1>1. ASSUME NEW s \in Steps, Goto(c, s) PROVE call' \in [Callers -> Call]
  <2>1. call \in [Callers -> Call]
    BY DEF TypeOK
  <2>2. [call[c] EXCEPT !.pc = s] \in Call
    BY <2>1 DEF Call
  <2> QED BY <1>1, <2>1, <2>2 DEF Goto
<1>2. Idle \in Call
  BY DEF Idle, Call, Steps
<1>3. ASSUME Return(c) PROVE call' \in [Callers -> Call]
  BY <1>2, <1>3 DEF TypeOK, Return
<1> QED BY <1>1, <1>3

\* The counts of Inv.
LEMMA CountType == Inv => total \in Nat /\ pending \in Nat
<1> SUFFICES ASSUME Inv PROVE total \in Nat /\ pending \in Nat
  OBVIOUS
<1>1. total \in Nat
  BY Finite DEF Inv, Counts, NeverUndercounted, CountWithinLimit
<1>2. pending \in Nat
  BY Finite DEF Inv, PendingIsHeld, Slots
<1> QED BY <1>1, <1>2

\* What Inv does not say of the types: it covers the registry and the counts.
Rest ==
    /\ v2 \in BOOLEAN /\ calls \in Nat
    /\ residents \in Seq(Agents) /\ NoDuplicates(residents)
    /\ loaded \subseteq Agents /\ queued \subseteq Agents /\ used \subseteq Agents
    /\ life \in [Agents -> {"none", "init", "busy", "done", "ended"}]
    /\ call \in [Callers -> Call]

LEMMA TypeSplit == Inv => (TypeOK <=> Rest)
  BY CountType DEF Inv, Tables, TypeOK, Rest, NoDuplicates

LEMMA RestBegin ==
  ASSUME Inv, Rest, NEW c \in Callers, NEW a \in Agents,
         (\E k \in Keys : Spawn(c, a, k)) \/ Send(c, a) \/ Resume(c, a) \/ Close(c, a)
  PROVE  Rest'
<1>1. PICK op \in {"spawn", "send", "resume", "close"}, key \in Keys \cup {NoAgent}, step \in Steps :
        Begin(c, op, a, key, step)
  BY DEF Spawn, Send, Resume, Close, Keys, Steps, Inv, Tables
<1>2. used' \subseteq Agents
  BY DEF Spawn, Send, Resume, Close, Rest
<1>3. [pc |-> step, op |-> op, agent |-> a, key |-> key, cand |-> NoAgent, left |-> 0] \in Call
  BY DEF Call
<1>4. call' \in [Callers -> Call] /\ calls' \in Nat
  BY <1>1, <1>3 DEF Begin, Rest
<1> QED BY <1>1, <1>2, <1>4 DEF Begin, Rest, residency, threads

\* The resident that is being stopped was found loaded.
Chosen == \A c \in Callers : At(c, "stop") => call[c].cand \in Agents

\* Only Inspect leads to the stop of a candidate.
LEMMA ChosenNext == Inv /\ Rest /\ Chosen /\ [Next]_vars => Chosen'
<1> SUFFICES ASSUME Inv, Rest, Chosen, [Next]_vars PROVE Chosen'
  OBVIOUS
<1>1. Shape
  BY DEF Inv, Calls
<1>2. ASSUME NEW c \in Callers, Others(c), At(c, "stop")' => call'[c].cand \in Agents PROVE Chosen'
  BY <1>2 DEF Chosen, Others, At
<1>3. ASSUME NEW c \in Callers, NEW s, Goto(c, s), s # "stop" PROVE Chosen'
  BY <1>1, <1>2, <1>3, GotoEffect DEF At
<1>4. ASSUME NEW c \in Callers, Return(c) PROVE Chosen'
  BY <1>1, <1>2, <1>4, ReturnEffect DEF At
<1>5. ASSUME NEW c \in Callers, NEW a \in Agents,
             (\E k \in Keys : Spawn(c, a, k)) \/ Send(c, a) \/ Resume(c, a) \/ Close(c, a)
      PROVE  Chosen'
  <2>1. PICK op, key, step : Begin(c, op, a, key, step) /\ step # "stop"
    BY <1>5 DEF Spawn, Send, Resume, Close
  <2> QED BY <1>1, <1>2, <2>1, BeginEffect DEF At
<1>6. ASSUME NEW c \in Callers, Inspect(c) PROVE Chosen'
  <2>1. CASE call[c].cand \in loaded /\ Unloadable(call[c].cand)
    <3>1. Goto(c, "stop") /\ call[c].cand \in Agents
      BY <1>6, <2>1 DEF Inspect, Rest
    <3>2. Others(c) /\ call'[c].cand = call[c].cand
      BY <1>1, <3>1 DEF Shape, Goto, Others, Fields
    <3> QED BY <1>2, <3>1, <3>2
  <2>2. CASE ~(call[c].cand \in loaded /\ Unloadable(call[c].cand))
    BY <1>3, <1>6, <2>2 DEF Inspect
  <2> QED BY <2>1, <2>2
<1>7. ASSUME NEW c \in Callers, CountResidents(c) \/ PopCandidate(c) PROVE Chosen'
  BY <1>1, <1>2, <1>7, ScanEffect DEF At
<1>8. ASSUME NEW c \in Callers, Step(c) PROVE Chosen'
  <2>1. CASE TryReserve(c) \/ LimitReached(c) \/ StopCandidate(c) \/ StopFails(c) \/ DropCandidate(c)
    BY <1>3, <1>4, <2>1 DEF TryReserve, LimitReached, StopCandidate, StopFails, DropCandidate, Abandon
  <2>2. CASE CountSpawn(c) \/ CountRefused(c) \/ ReservePath(c) \/ PathTaken(c)
    BY <1>3, <1>4, <2>2 DEF CountSpawn, CountRefused, ReservePath, PathTaken, Abandon
  <2>3. CASE CreateThread(c) \/ FinalizeThread(c) \/ CreateFails(c) \/ CommitSpawn(c) \/ CommitSlot(c)
    BY <1>3, <1>4, <2>3 DEF CreateThread, FinalizeThread, CreateFails, CommitSpawn, CommitSlot, Abandon
  <2>4. CASE EnsureLoaded(c) \/ CheckCapacity(c) \/ Deliver(c)
    BY <1>3, <1>4, <2>4 DEF EnsureLoaded, CheckCapacity, Deliver, Abandon
  <2>5. CASE CloseSession(c) \/ Bury(c) \/ Forget(c) \/ Release(c) \/ Uncount(c)
    BY <1>3, <1>4, <2>5 DEF CloseSession, Bury, Forget, Release, Uncount
  <2> QED BY <1>6, <1>7, <1>8, <2>1, <2>2, <2>3, <2>4, <2>5 DEF Step
<1>9. ASSUME UNCHANGED call PROVE Chosen'
  BY <1>9 DEF Chosen, At
<1>10. ASSUME NEW a \in Agents, StartTurn(a) \/ EndTurn(a) \/ SessionEnds(a) PROVE Chosen'
  BY <1>9, <1>10 DEF StartTurn, EndTurn, SessionEnds
<1>11. CASE UNCHANGED vars
  BY <1>9, <1>11 DEF vars
<1> QED BY <1>5, <1>8, <1>10, <1>11 DEF Next

\* The steps of a call, in the order of Step.
LEMMA RestStep ==
  ASSUME Inv, TypeOK, Chosen, NEW c \in Callers, Step(c)
  PROVE  Rest'
<1> USE DEF threads, registry, residency
<1>0. Rest /\ call[c] \in Call
  BY TypeSplit DEF Rest
<1>1. call[c].pc # "idle" => call[c].agent \in Agents
  BY DEF Inv, Calls, Where
<1>2. ASSUME NEW s \in Steps, Goto(c, s) PROVE call' \in [Callers -> Call]
  BY <1>2, CallType
<1>3. ASSUME Return(c) PROVE call' \in [Callers -> Call]
  BY <1>3, CallType
<1>4. ASSUME NEW a \in Agents, residents' = Touch(residents, a)
      PROVE  residents' \in Seq(Agents) /\ NoDuplicates(residents')
  BY <1>0, <1>4, TouchType DEF Rest
<1>5. CASE TryReserve(c)
  BY <1>0, <1>2, <1>5 DEF TryReserve, Rest, Steps
<1>6. CASE CountResidents(c)
  <2>1. Len(residents) \in Nat
    BY <1>0 DEF Rest
  <2>2. call' \in [Callers -> Call]
    BY <1>0, <1>6, <2>1 DEF CountResidents, Rest, Call, Steps
  <2> QED BY <1>0, <1>6, <2>2 DEF CountResidents, Rest
<1>7. CASE PopCandidate(c)
  <2>1. PICK i \in {1, 2} : /\ i \in DOMAIN residents
                            /\ call' = [call EXCEPT ![c].pc = "inspect", ![c].cand = residents[i],
                                                    ![c].left = @ - 1]
    <3>1. 1 \in Candidates(c) \/ 2 \in DOMAIN residents
      BY <1>0, <1>7 DEF PopCandidate, Candidates, Rest
    <3> QED BY <1>7, <3>1 DEF PopCandidate, Candidates
  <2>2. residents[i] \in Agents /\ call[c].left - 1 \in Nat
    BY <1>0, <1>7, <2>1 DEF PopCandidate, Rest, Call
  <2>3. call' \in [Callers -> Call]
    BY <1>0, <2>1, <2>2 DEF Rest, Call, Steps
  <2> QED BY <1>0, <1>7, <2>3, PopType DEF PopCandidate, Rest
<1>8. CASE LimitReached(c) \/ CountRefused(c) \/ PathTaken(c)
  BY <1>0, <1>3, <1>8 DEF LimitReached, CountRefused, PathTaken, Abandon, Rest
<1>9. CASE Inspect(c) \/ StopFails(c)
  <2>1. call' \in [Callers -> Call]
    BY <1>2, <1>9 DEF Inspect, StopFails, Steps
  <2>2. residents' \in Seq(Agents) /\ NoDuplicates(residents')
    BY <1>0, <1>4, <1>9 DEF Inspect, StopFails, Chosen, Rest
  <2> QED BY <1>0, <1>9, <2>1, <2>2 DEF Inspect, StopFails, Rest
<1>10. CASE StopCandidate(c) \/ DropCandidate(c)
  BY <1>0, <1>2, <1>10 DEF StopCandidate, DropCandidate, Rest, Steps
<1>11. CASE CountSpawn(c) \/ ReservePath(c)
  BY <1>0, <1>2, <1>11 DEF CountSpawn, ReservePath, Rest, Steps
<1>12. CASE CreateThread(c)
  BY <1>0, <1>2, <1>12 DEF CreateThread, Rest, Steps
<1>13. CASE FinalizeThread(c)
  BY <1>0, <1>1, <1>2, <1>13 DEF FinalizeThread, At, Rest, Steps
<1>14. CASE CreateFails(c)
  <2>1. CASE Abandon(c)
    BY <1>0, <1>3, <1>14, <2>1 DEF CreateFails, Abandon, Rest
  <2>2. CASE residents' = Touch(residents, call[c].agent) /\ Goto(c, "check")
    BY <1>0, <1>1, <1>2, <1>4, <1>14, <2>2 DEF CreateFails, At, Rest, Steps
  <2> QED BY <1>14, <2>1, <2>2 DEF CreateFails
<1>15. CASE CommitSpawn(c)
  BY <1>0, <1>2, <1>3, <1>15 DEF CommitSpawn, Rest, Steps
<1>16. CASE CommitSlot(c)
  BY <1>0, <1>1, <1>2, <1>4, <1>16 DEF CommitSlot, At, Rest, Steps
<1>17. CASE EnsureLoaded(c)
  <2>1. call' \in [Callers -> Call]
    BY <1>2, <1>3, <1>17 DEF EnsureLoaded, Abandon, Steps
  <2>2. residents' \in Seq(Agents) /\ NoDuplicates(residents')
    BY <1>0, <1>1, <1>4, <1>17 DEF EnsureLoaded, Abandon, At, Rest
  <2> QED BY <1>0, <1>17, <2>1, <2>2 DEF EnsureLoaded, Rest
<1>18. CASE CheckCapacity(c) \/ Deliver(c)
  BY <1>0, <1>2, <1>3, <1>18 DEF CheckCapacity, Deliver, Alive, Rest, Steps
<1>19. CASE CloseSession(c) \/ Bury(c)
  BY <1>0, <1>2, <1>19 DEF CloseSession, Bury, Rest, Steps
<1>20. CASE Forget(c)
  BY <1>0, <1>2, <1>20, WithoutType DEF Forget, Rest, Steps
<1>21. CASE Release(c) \/ Uncount(c)
  BY <1>0, <1>2, <1>3, <1>21 DEF Release, Uncount, Rest, Steps
<1> QED
  BY <1>5, <1>6, <1>7, <1>8, <1>9, <1>10, <1>11, <1>12, <1>13, <1>14, <1>15, <1>16, <1>17, <1>18,
     <1>19, <1>20, <1>21 DEF Step

LEMMA RestInit == Init => Rest
<1>1. Idle \in Call
  BY DEF Idle, Call, Steps
<1> QED BY <1>1, AgentAssumption DEF Init, Rest, NoDuplicates

LEMMA RestNext == Inv /\ Rest /\ Chosen /\ [Next]_vars => Rest'
<1> SUFFICES ASSUME Inv, Rest, Chosen, [Next]_vars PROVE Rest'
  OBVIOUS
<1>1. TypeOK
  BY TypeSplit
<1>2. ASSUME NEW a \in Agents, StartTurn(a) \/ EndTurn(a) \/ SessionEnds(a) PROVE Rest'
  BY <1>2 DEF StartTurn, EndTurn, SessionEnds, residency, Rest
<1>3. CASE UNCHANGED vars
  BY <1>3 DEF vars, Rest
<1> QED BY <1>1, <1>2, <1>3, RestBegin, RestStep DEF Next

\* pending_slots and total_count never go below zero although every path out
\* of a call subtracts, and touch, commit, scan and remove keep each thread at
\* most once among the residents.
THEOREM TypeCorrect == Spec => []TypeOK
<1>1. Init => Inv /\ Rest /\ Chosen
  BY InvInit, RestInit DEF Init, Chosen, Idle, At
<1>2. (Inv /\ Rest /\ Chosen) /\ [Next]_vars => (Inv /\ Rest /\ Chosen)'
  BY InvNext, RestNext, ChosenNext
<1>3. Inv /\ Rest => TypeOK
  BY TypeSplit
<1> QED BY <1>1, <1>2, <1>3, PTL DEF Spec
=============================================================================
