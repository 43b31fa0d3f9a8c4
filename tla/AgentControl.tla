---------------------------- MODULE AgentControl ----------------------------
(***************************************************************************)
(* The limits on the agents of one session: the registry of known agents    *)
(* (agent/registry.rs), the slots of loaded V2 agents                       *)
(* (control/residency.rs) and the limit on running V2 agents                *)
(* (control/execution.rs), as the calls of agents that run at the same time *)
(* meet in them (control.rs, control/spawn.rs, control/legacy.rs).          *)
(*                                                                         *)
(* A call is a task.  Each of its steps is what it does under one lock or   *)
(* with one atomic operation; between two steps the others run.  In a V1    *)
(* session the registry limits the agents and calls spawn, send to, close   *)
(* and resume them; in a V2 session the registry counts without a limit,    *)
(* residency limits the loaded agents, unloading idle ones, and calls spawn *)
(* and send.                                                                *)
(***************************************************************************)
EXTENDS Integers, Sequences, FiniteSets

CONSTANTS
    Callers,    \* tasks that make calls
    Agents,     \* thread ids of agents
    Paths,      \* agent paths a V2 spawn may ask for
    NoAgent,    \* no agent (None)
    Held,       \* an agent_tree entry whose agent_id is None
    Cap,        \* effective_agent_max_threads
    MaxCalls,   \* bound on the calls
    Versions    \* the sessions considered: TRUE for V2, FALSE for V1

ASSUME AgentAssumption ==
    /\ Cap \in Nat /\ MaxCalls \in Nat /\ Versions \subseteq BOOLEAN
    /\ IsFiniteSet(Callers) /\ IsFiniteSet(Agents) /\ IsFiniteSet(Paths)
    /\ Agents \cap Paths = {}
    /\ NoAgent \notin Agents \cup Paths /\ Held \notin Agents
    /\ NoAgent # Held

VARIABLES
    v2,         \* the multi-agent version of the session
    tree,       \* agent_tree: key -> its agent, Held, or NoAgent if vacant
    pathOf,     \* thread_paths: agent -> its key, or NoAgent
    total,      \* total_count
    residents,  \* V2 residency, least recently used first
    pending,    \* pending_slots
    loaded,     \* the threads the thread manager holds
    life,       \* what the session of a thread is doing
    queued,     \* threads with a submitted operation that starts a turn
    used,       \* the thread ids given out
    call,       \* where each caller is
    calls       \* calls made

vars == <<v2, tree, pathOf, total, residents, pending, loaded, life, queued,
          used, call, calls>>

registry == <<tree, pathOf, total>>
residency == <<residents, pending>>
threads == <<loaded, life, queued>>

Keys == Paths \cup Agents

Steps == {"idle", "slot", "unload", "scan", "inspect", "stop", "drop",
          "count", "prepare", "create", "finalize", "commit", "settle",
          "load", "check", "deliver", "close", "bury", "forget", "release",
          "uncount"}

Idle == [pc |-> "idle", op |-> "none", agent |-> NoAgent, key |-> NoAgent,
         cand |-> NoAgent, left |-> 0]

Call == [pc : Steps, op : {"none", "spawn", "send", "resume", "close"},
         agent : Agents \cup {NoAgent}, key : Keys \cup {NoAgent},
         cand : Agents \cup {NoAgent}, left : Nat]

(* The type invariant; residents has no duplicates.                         *)
TypeOK ==
    /\ v2 \in BOOLEAN
    /\ tree \in [Keys -> Agents \cup {Held, NoAgent}]
    /\ pathOf \in [Agents -> Keys \cup {NoAgent}]
    /\ total \in Nat /\ pending \in Nat /\ calls \in Nat
    /\ residents \in Seq(Agents)
    /\ \A i, j \in DOMAIN residents : residents[i] = residents[j] => i = j
    /\ loaded \subseteq Agents /\ queued \subseteq Agents /\ used \subseteq Agents
    /\ life \in [Agents -> {"none", "init", "busy", "done", "ended"}]
    /\ call \in [Callers -> Call]

Init ==
    /\ v2 \in Versions
    /\ tree = [k \in Keys |-> NoAgent]
    /\ pathOf = [a \in Agents |-> NoAgent]
    /\ total = 0 /\ pending = 0 /\ calls = 0
    /\ residents = <<>>
    /\ loaded = {} /\ queued = {} /\ used = {}
    /\ life = [a \in Agents |-> "none"]
    /\ call = [c \in Callers |-> Idle]

-----------------------------------------------------------------------------
(* What a call holds while it is under way.                                 *)

(* A V2ResidencySlot that is not committed yet.                             *)
HoldsSlot(c) ==
    /\ v2 /\ call[c].op \in {"spawn", "send"}
    /\ call[c].pc \in {"count", "prepare", "create", "finalize", "commit", "settle"}

(* A SpawnReservation that is not committed yet.                            *)
HoldsReservation(c) ==
    /\ call[c].op \in {"spawn", "resume"}
    /\ call[c].pc \in {"prepare", "create", "finalize", "commit"}

(* The reserved_agent_path of its reservation.                              *)
HoldsPath(c) ==
    /\ v2 /\ call[c].op = "spawn"
    /\ call[c].pc \in {"create", "finalize", "commit"}

At(c, step) == call[c].pc = step
Goto(c, step) == call' = [call EXCEPT ![c].pc = step]
Return(c) == call' = [call EXCEPT ![c] = Idle]

(* Mutant of Abandon: the slot has no Drop.                                 *)
AbandonKeepingSlot(c) ==
    /\ Return(c)
    /\ tree' = IF HoldsPath(c) /\ tree[call[c].key] = Held
               THEN [tree EXCEPT ![call[c].key] = NoAgent] ELSE tree
    /\ total' = IF HoldsReservation(c) THEN total - 1 ELSE total
    /\ UNCHANGED <<pathOf, residents, pending>>

(* A call returns an error: its reservation and its slot are dropped.       *)
Abandon(c) ==
    /\ Return(c)
    /\ tree' = IF HoldsPath(c) /\ tree[call[c].key] = Held
               THEN [tree EXCEPT ![call[c].key] = NoAgent] ELSE tree
    /\ total' = IF HoldsReservation(c) THEN total - 1 ELSE total
    /\ pending' = IF HoldsSlot(c) THEN pending - 1 ELSE pending
    /\ UNCHANGED <<pathOf, residents>>

(* retain(|r| r != a): residents has no duplicates, so at most one goes.    *)
Without(s, a) ==
    IF \E i \in DOMAIN s : s[i] = a
    THEN LET i == CHOOSE i \in DOMAIN s : s[i] = a
         IN [j \in 1 .. Len(s) - 1 |-> IF j < i THEN s[j] ELSE s[j + 1]]
    ELSE s

(* Mutant of Touch: the old entry stays.                                    *)
TouchKeepingOld(s, a) == Append(s, a)

(* touch_resident                                                           *)
Touch(s, a) == Append(Without(s, a), a)

-----------------------------------------------------------------------------
(* The sessions of the threads.                                             *)

Running == {a \in Agents : life[a] = "busy"}

(* has_capacity: V1 agents are not limited.                                 *)
HasCapacity == ~v2 \/ Cardinality(Running) < Cap

Alive(a) == a \in loaded /\ life[a] # "ended"

(* The session takes the submitted operation: a turn starts, which makes    *)
(* its execution guard, or the running turn gets the input.                 *)
StartTurn(a) ==
    /\ a \in queued /\ life[a] \in {"init", "done", "busy"}
    /\ queued' = queued \ {a}
    /\ life' = [life EXCEPT ![a] = "busy"]
    /\ UNCHANGED <<v2, registry, residency, loaded, used, call, calls>>

EndTurn(a) ==
    /\ life[a] = "busy"
    /\ life' = [life EXCEPT ![a] = "done"]
    /\ UNCHANGED <<v2, registry, residency, loaded, queued, used, call, calls>>

(* The session of a thread ends without a call, as when a client shuts the  *)
(* thread down; the manager still holds it.                                 *)
SessionEnds(a) ==
    /\ Alive(a)
    /\ life' = [life EXCEPT ![a] = "ended"]
    /\ UNCHANGED <<v2, registry, residency, loaded, queued, used, call, calls>>

-----------------------------------------------------------------------------
(* The beginning of a call.                                                 *)

Begin(c, op, agent, key, step) ==
    /\ At(c, "idle") /\ calls < MaxCalls
    /\ calls' = calls + 1
    /\ call' = [call EXCEPT ![c] = [pc |-> step, op |-> op, agent |-> agent,
                                    key |-> key, cand |-> NoAgent, left |-> 0]]
    /\ UNCHANGED <<v2, registry, residency, threads>>

(* spawn_agent_internal; a V1 agent is registered under its thread id.      *)
Spawn(c, a, k) ==
    /\ a \notin used /\ used' = used \cup {a}
    /\ k \in IF v2 THEN Paths ELSE {a}
    /\ HasCapacity
    /\ Begin(c, "spawn", a, k, IF v2 THEN "slot" ELSE "count")

(* send_input and the message tools: a V2 call refuses an unknown agent, a  *)
(* V1 call only does not try to load it.                                    *)
Send(c, a) ==
    /\ a \in used /\ (v2 => pathOf[a] # NoAgent)
    /\ Begin(c, "send", a, pathOf[a], IF pathOf[a] # NoAgent THEN "load" ELSE "check")
    /\ UNCHANGED used

(* resume_agent: the thread is not found.                                   *)
Resume(c, a) ==
    /\ ~v2 /\ a \in used /\ a \notin loaded
    /\ Begin(c, "resume", a, a, "count") /\ UNCHANGED used

(* close_agent -> shutdown_live_agent                                       *)
Close(c, a) ==
    /\ ~v2 /\ a \in used
    /\ Begin(c, "close", a, NoAgent, "close") /\ UNCHANGED used

-----------------------------------------------------------------------------
(* V2 residency: reserve_slot.                                              *)

(* try_reserve_pending_slot                                                 *)
TryReserve(c) ==
    /\ At(c, "slot")
    /\ IF Len(residents) + pending >= Cap
       THEN Goto(c, "unload") /\ UNCHANGED pending
       ELSE /\ pending' = pending + 1
            /\ Goto(c, IF call[c].op = "spawn" THEN "count" ELSE "create")
    /\ UNCHANGED <<v2, registry, residents, threads, used, calls>>

(* try_unload_one_resident: how many candidates to look at.                 *)
CountResidents(c) ==
    /\ At(c, "unload")
    /\ call' = [call EXCEPT ![c].pc = "scan", ![c].left = Len(residents)]
    /\ UNCHANGED <<v2, registry, residency, threads, used, calls>>

(* pop_lru_candidate: the first resident that is not the thread the call    *)
(* itself loads, which is moved to the back.                                *)
Protected(c) == IF call[c].op = "send" THEN call[c].agent ELSE NoAgent

Candidates(c) == {i \in DOMAIN residents : residents[i] # Protected(c)}

(* Mutant of PopCandidate: the scan is not limited to one round.            *)
PopCandidateAgain(c) ==
    /\ At(c, "scan") /\ call[c].left > 0 /\ Candidates(c) # {}
    /\ LET i == IF 1 \in Candidates(c) THEN 1 ELSE 2 IN
       /\ residents' = IF i = 1 THEN Tail(residents)
                                ELSE Append(Tail(Tail(residents)), Head(residents))
       /\ call' = [call EXCEPT ![c].pc = "inspect", ![c].cand = residents[i]]
    /\ UNCHANGED <<v2, registry, pending, threads, used, calls>>

PopCandidate(c) ==
    /\ At(c, "scan") /\ call[c].left > 0 /\ Candidates(c) # {}
    /\ LET i == IF 1 \in Candidates(c) THEN 1 ELSE 2 IN
       /\ residents' = IF i = 1 THEN Tail(residents)
                                ELSE Append(Tail(Tail(residents)), Head(residents))
       /\ call' = [call EXCEPT ![c].pc = "inspect", ![c].cand = residents[i],
                               ![c].left = @ - 1]
    /\ UNCHANGED <<v2, registry, pending, threads, used, calls>>

(* All candidates were looked at, or there is none: AgentLimitReached.      *)
LimitReached(c) ==
    /\ At(c, "scan")
    /\ call[c].left = 0 \/ Candidates(c) = {}
    /\ Abandon(c)
    /\ UNCHANGED <<v2, threads, used, calls>>

(* get_thread and is_unloadable: a candidate that is gone is skipped, one   *)
(* that is not idle after a turn is put back.                               *)
Unloadable(a) == life[a] = "done"

Inspect(c) ==
    /\ At(c, "inspect")
    /\ LET a == call[c].cand IN
       /\ Goto(c, IF a \in loaded /\ Unloadable(a) THEN "stop" ELSE "scan")
       /\ residents' = IF a \in loaded /\ ~Unloadable(a) THEN Touch(residents, a)
                                                         ELSE residents
    /\ UNCHANGED <<v2, registry, pending, threads, used, calls>>

(* shutdown_and_wait                                                        *)
StopCandidate(c) ==
    /\ At(c, "stop")
    /\ life' = [life EXCEPT ![call[c].cand] = "ended"]
    /\ Goto(c, "drop")
    /\ UNCHANGED <<v2, registry, residency, loaded, queued, used, calls>>

(* ... or it fails, and the candidate is put back.                          *)
StopFails(c) ==
    /\ At(c, "stop")
    /\ residents' = Touch(residents, call[c].cand)
    /\ Goto(c, "scan")
    /\ UNCHANGED <<v2, registry, pending, threads, used, calls>>

(* manager.remove_thread, and the next round of reserve_slot.               *)
DropCandidate(c) ==
    /\ At(c, "drop")
    /\ loaded' = loaded \ {call[c].cand}
    /\ Goto(c, "slot")
    /\ UNCHANGED <<v2, registry, residency, life, queued, used, calls>>

-----------------------------------------------------------------------------
(* The registry: reserve_spawn_slot, reserve_agent_path, commit.            *)

(* Mutant of CountSpawn: one agent too many is admitted.                    *)
CountSpawnUpTo(c) ==
    /\ At(c, "count") /\ (v2 \/ total <= Cap)
    /\ total' = total + 1
    /\ Goto(c, IF v2 THEN "prepare" ELSE "create")
    /\ UNCHANGED <<v2, tree, pathOf, residency, threads, used, calls>>

(* reserve_spawn_slot: only a V1 call has a limit.                          *)
CountSpawn(c) ==
    /\ At(c, "count") /\ (v2 \/ total < Cap)
    /\ total' = total + 1
    /\ Goto(c, IF v2 THEN "prepare" ELSE "create")
    /\ UNCHANGED <<v2, tree, pathOf, residency, threads, used, calls>>

CountRefused(c) ==
    /\ At(c, "count") /\ ~v2 /\ total >= Cap
    /\ Abandon(c)
    /\ UNCHANGED <<v2, threads, used, calls>>

(* Mutant of ReservePath: an occupied entry is overwritten.                 *)
ReservePathBlindly(c) ==
    /\ At(c, "prepare")
    /\ tree' = [tree EXCEPT ![call[c].key] = Held]
    /\ Goto(c, "create")
    /\ UNCHANGED <<v2, pathOf, total, residency, threads, used, calls>>

(* reserve_agent_path                                                       *)
ReservePath(c) ==
    /\ At(c, "prepare") /\ tree[call[c].key] = NoAgent
    /\ tree' = [tree EXCEPT ![call[c].key] = Held]
    /\ Goto(c, "create")
    /\ UNCHANGED <<v2, pathOf, total, residency, threads, used, calls>>

PathTaken(c) ==
    /\ At(c, "prepare") /\ tree[call[c].key] # NoAgent
    /\ Abandon(c)
    /\ UNCHANGED <<v2, threads, used, calls>>

(* spawn_thread_with_source: a resumed thread that runs is returned, one    *)
(* that has ended is taken out of the manager first.                        *)
CreateThread(c) ==
    /\ At(c, "create")
    /\ LET a == call[c].agent IN
       \/ Alive(a) /\ Goto(c, IF call[c].op = "send" THEN "settle" ELSE "commit")
                   /\ UNCHANGED loaded
       \/ ~Alive(a) /\ Goto(c, "finalize") /\ loaded' = loaded \ {a}
    /\ UNCHANGED <<v2, registry, residency, life, queued, used, calls>>

(* finalize_thread_spawn                                                    *)
FinalizeThread(c) ==
    /\ At(c, "finalize")
    /\ LET a == call[c].agent IN
       /\ a \notin loaded
       /\ loaded' = loaded \cup {a}
       /\ life' = [life EXCEPT ![a] = "init"]
       /\ queued' = queued \ {a}
       /\ Goto(c, IF call[c].op = "send" THEN "settle" ELSE "commit")
    /\ UNCHANGED <<v2, registry, residency, used, calls>>

(* The thread could not be created, or another call has loaded it: the      *)
(* slot and the reservation are dropped.  ensure_v2_agent_loaded goes on    *)
(* with a thread that is there.                                             *)
CreateFails(c) ==
    /\ At(c, "finalize")
    /\ IF call[c].op = "send" /\ call[c].agent \in loaded
       THEN /\ pending' = pending - 1 /\ residents' = Touch(residents, call[c].agent)
            /\ Goto(c, "check") /\ UNCHANGED registry
       ELSE Abandon(c)
    /\ UNCHANGED <<v2, threads, used, calls>>

(* SpawnReservation::commit -> register_spawned_thread                      *)
Register(a, k) ==
    /\ tree' = [j \in Keys |-> IF j = k THEN a
                               ELSE IF j = pathOf[a] THEN NoAgent ELSE tree[j]]
    /\ pathOf' = [b \in Agents |-> IF b = a THEN k
                                   ELSE IF b = tree[k] THEN NoAgent ELSE pathOf[b]]

CommitSpawn(c) ==
    /\ At(c, "commit")
    /\ Register(call[c].agent, call[c].key)
    /\ \/ v2 /\ Goto(c, "settle")
       \/ ~v2 /\ call[c].op = "spawn" /\ Goto(c, "deliver")
       \/ ~v2 /\ call[c].op = "resume" /\ Return(c)
    /\ UNCHANGED <<v2, total, residency, threads, used, calls>>

(* V2ResidencySlot::commit                                                  *)
CommitSlot(c) ==
    /\ At(c, "settle")
    /\ pending' = pending - 1
    /\ residents' = Touch(residents, call[c].agent)
    /\ Goto(c, IF call[c].op = "spawn" THEN "deliver" ELSE "check")
    /\ UNCHANGED <<v2, registry, threads, used, calls>>

-----------------------------------------------------------------------------
(* Messages.                                                                *)

(* ensure_v2_agent_loaded: a loaded thread is touched; one that is not is   *)
(* reloaded if it is a V2 agent that is still known.                        *)
EnsureLoaded(c) ==
    /\ At(c, "load")
    /\ LET a == call[c].agent IN
       \/ /\ a \in loaded /\ Goto(c, "check")
          /\ residents' = IF v2 THEN Touch(residents, a) ELSE residents
          /\ UNCHANGED <<registry, pending>>
       \/ /\ a \notin loaded /\ v2 /\ pathOf[a] # NoAgent
          /\ Goto(c, "slot") /\ UNCHANGED <<registry, residency>>
       \/ /\ a \notin loaded /\ (~v2 \/ pathOf[a] = NoAgent)
          /\ Abandon(c)
    /\ UNCHANGED <<v2, threads, used, calls>>

(* ensure_execution_capacity_for_turn_start: a thread with an active turn   *)
(* needs no capacity.                                                       *)
CheckCapacity(c) ==
    /\ At(c, "check")
    /\ LET a == call[c].agent
           ok == a \in loaded /\ (life[a] = "busy" \/ HasCapacity)
       IN IF ok THEN Goto(c, "deliver") ELSE Return(c)
    /\ UNCHANGED <<v2, registry, residency, threads, used, calls>>

(* send_op; a session that has ended is InternalAgentDied.                  *)
Deliver(c) ==
    /\ At(c, "deliver")
    /\ LET a == call[c].agent IN
       /\ queued' = IF Alive(a) THEN queued \cup {a} ELSE queued
       /\ IF a \in loaded /\ ~Alive(a) THEN Goto(c, "bury") ELSE Return(c)
    /\ UNCHANGED <<v2, registry, residency, loaded, life, used, calls>>

(* shutdown_live_agent waits until the session has terminated.              *)
CloseSession(c) ==
    /\ At(c, "close")
    /\ life' = IF call[c].agent \in loaded THEN [life EXCEPT ![call[c].agent] = "ended"]
                                           ELSE life
    /\ Goto(c, "bury")
    /\ UNCHANGED <<v2, registry, residency, loaded, queued, used, calls>>

(* handle_thread_request_result and shutdown_live_agent: remove_thread,     *)
(* forget_v2_residency, release_spawned_thread.                             *)
Bury(c) ==
    /\ At(c, "bury")
    /\ loaded' = loaded \ {call[c].agent}
    /\ Goto(c, "forget")
    /\ UNCHANGED <<v2, registry, residency, life, queued, used, calls>>

Forget(c) ==
    /\ At(c, "forget")
    /\ residents' = Without(residents, call[c].agent)
    /\ Goto(c, "release")
    /\ UNCHANGED <<v2, registry, pending, threads, used, calls>>

(* Mutant of Release: counted down whether or not an agent was removed.     *)
ReleaseAlways(c) ==
    /\ At(c, "release")
    /\ LET a == call[c].agent IN
       /\ tree' = IF pathOf[a] = NoAgent THEN tree
                  ELSE [tree EXCEPT ![pathOf[a]] = NoAgent]
       /\ pathOf' = [pathOf EXCEPT ![a] = NoAgent]
       /\ Goto(c, "uncount")
    /\ UNCHANGED <<v2, total, residency, threads, used, calls>>

Release(c) ==
    /\ At(c, "release")
    /\ LET a == call[c].agent IN
       \/ /\ pathOf[a] # NoAgent
          /\ tree' = [tree EXCEPT ![pathOf[a]] = NoAgent]
          /\ pathOf' = [pathOf EXCEPT ![a] = NoAgent]
          /\ Goto(c, "uncount")
       \/ /\ pathOf[a] = NoAgent
          /\ Return(c) /\ UNCHANGED <<tree, pathOf>>
    /\ UNCHANGED <<v2, total, residency, threads, used, calls>>

Uncount(c) ==
    /\ At(c, "uncount")
    /\ total' = total - 1
    /\ Return(c)
    /\ UNCHANGED <<v2, tree, pathOf, residency, threads, used, calls>>

-----------------------------------------------------------------------------
Step(c) ==
    \/ TryReserve(c) \/ CountResidents(c) \/ PopCandidate(c) \/ LimitReached(c)
    \/ Inspect(c) \/ StopCandidate(c) \/ StopFails(c) \/ DropCandidate(c)
    \/ CountSpawn(c) \/ CountRefused(c) \/ ReservePath(c) \/ PathTaken(c)
    \/ CreateThread(c) \/ FinalizeThread(c) \/ CreateFails(c)
    \/ CommitSpawn(c) \/ CommitSlot(c)
    \/ EnsureLoaded(c) \/ CheckCapacity(c) \/ Deliver(c) \/ CloseSession(c)
    \/ Bury(c) \/ Forget(c) \/ Release(c) \/ Uncount(c)

Next ==
    \/ \E c \in Callers, a \in Agents :
           \/ \E k \in Keys : Spawn(c, a, k)
           \/ Send(c, a) \/ Resume(c, a) \/ Close(c, a)
    \/ \E c \in Callers : Step(c)
    \/ \E a \in Agents : StartTurn(a) \/ EndTurn(a) \/ SessionEnds(a)

Spec == Init /\ [][Next]_vars

(* A task that is not waiting goes on.                                      *)
FairSpec == Spec /\ \A c \in Callers : WF_vars(Step(c))

-----------------------------------------------------------------------------
Known == {a \in Agents : pathOf[a] # NoAgent}

Reserving == {c \in Callers : HoldsReservation(c)}
Releasing == {c \in Callers : At(c, "uncount")}

(* Every agent the registry knows, and every one being spawned or released, *)
(* is in total_count, whatever calls overlap: the count may be too high for *)
(* a while or for good, but never admits an agent too many.                 *)
NeverUndercounted ==
    Cardinality(Known) + Cardinality(Reserving) + Cardinality(Releasing) <= total

(* A V1 session never knows more agents than it may have.                   *)
KnownWithinLimit == ~v2 => Cardinality(Known) + Cardinality(Reserving) <= Cap

(* agent_tree and thread_paths are each other's inverse, and a path that is *)
(* reserved belongs to exactly one spawn: a name never leads to an agent    *)
(* other than the one that was given it.                                    *)
PathsAgree ==
    /\ \A a \in Agents : pathOf[a] # NoAgent => tree[pathOf[a]] = a
    /\ \A k \in Keys : tree[k] \in Agents => pathOf[tree[k]] = k
    /\ \A k \in Keys : tree[k] = Held =>
           \E c \in Callers : HoldsPath(c) /\ call[c].key = k
    /\ \A c, d \in Callers : HoldsPath(c) =>
           /\ tree[call[c].key] = Held
           /\ c # d /\ HoldsPath(d) => call[c].key # call[d].key

(* Every pending slot is in the hands of one call: a slot that leaked would *)
(* be lost to the session for good.                                         *)
PendingIsHeld == pending = Cardinality({c \in Callers : HoldsSlot(c)})

(* No call looks for a resident to unload for ever: every call returns,     *)
(* also when all residents are busy and others take the slots it frees.     *)
EveryCallReturns == \A c \in Callers : ~At(c, "idle") ~> At(c, "idle")

=============================================================================
