----------------------------- MODULE ServerTable ----------------------------
(***************************************************************************)
(* The process-wide table of servers (registry.zig, instance.zig), shared  *)
(* by the main threads of every Node environment of the process: the main  *)
(* one and its workers.  Each thread runs one operation at a time, step by *)
(* step over the atomics of the table: create claims and publishes a slot, *)
(* every exported operation looks a handle up, and finalize or the cleanup *)
(* hook of the environment retires the slot and frees the instance.        *)
(*                                                                         *)
(* JavaScript may hand any handle that was ever returned to any            *)
(* environment.  What a lookup returns is dereferenced.                    *)
(***************************************************************************)
EXTENDS Integers, Sequences

CONSTANTS Env,           \* Node environments, one main thread each
          Capacity,      \* slots of the table
          GenerationMod, \* values of a generation, 2^32
          NoEnv,         \* the null environment
          MaxServers,    \* bound: how many instances are built
          MaxClaims      \* bound: no create starts once a slot saw so many

ASSUME CapacityAssumption == Capacity \in 1 .. 32
ASSUME EnvAssumption == NoEnv \notin Env
ASSUME GenerationAssumption ==
    /\ MaxServers \in Nat
    /\ MaxClaims \in Nat
    /\ GenerationMod \in Nat \ {0}

Slot   == 0 .. Capacity - 1
Handle == [slot : Slot, generation : 0 .. GenerationMod - 1]
NoItem == 0
Item   == 1 .. MaxServers

VARIABLES items,       \* slot -> instance or NoItem
          envs,        \* slot -> owning environment or NoEnv
          generations, \* slot -> generation of its last claim
          claimed,     \* the set of claimed slots
          instances,   \* every instance built: its owner, handle, and life
          issued,      \* handles JavaScript was given
          pc,          \* environment -> where its thread is
          current,     \* environment -> `claimed` as claim loaded it
          handle,      \* environment -> handle of its operation
          target       \* environment -> instance of its operation

tableVars  == <<items, envs, generations, claimed>>
threadVars == <<pc, current, handle, target>>
vars       == <<tableVars, instances, issued, threadVars>>

NoHandle == [slot |-> 0, generation |-> 0]

Init == /\ items = [s \in Slot |-> NoItem]
        /\ envs = [s \in Slot |-> NoEnv]
        /\ generations = [s \in Slot |-> 0]
        /\ claimed = {}
        /\ instances = <<>>
        /\ issued = {}
        /\ pc = [e \in Env |-> "idle"]
        /\ current = [e \in Env |-> {}]
        /\ handle = [e \in Env |-> NoHandle]
        /\ target = [e \in Env |-> NoItem]

\* The thread of e goes from one step to the next.
Goto(e, from, to) == /\ pc[e] = from
                     /\ pc' = [pc EXCEPT ![e] = to]

\* The operation of e returns, its locals are gone.
Return(e, from) == /\ Goto(e, from, "idle")
                   /\ current' = [current EXCEPT ![e] = {}]
                   /\ handle' = [handle EXCEPT ![e] = NoHandle]
                   /\ target' = [target EXCEPT ![e] = NoItem]

-----------------------------------------------------------------------------
(* create: claim, build, publish *)

Create(e) == /\ \A s \in Slot : generations[s] < MaxClaims
             /\ Goto(e, "idle", "claim")
             /\ current' = [current EXCEPT ![e] = claimed]
             /\ UNCHANGED <<tableVars, instances, issued, handle, target>>

ClaimExhausted(e) == /\ Return(e, "claim")
                     /\ current[e] = Slot
                     /\ UNCHANGED <<tableVars, instances, issued>>

LowestFree(taken) == {s \in Slot \ taken : \A t \in Slot \ taken : s <= t}

\* Mutant: the claim is a plain store of the bits loaded before.
Claim_PlainStore(e) ==
    /\ Goto(e, "claim", "bump")
    /\ current[e] # Slot
    /\ \E s \in LowestFree(current[e]) :
           /\ claimed' = current[e] \cup {s}
           /\ handle' = [handle EXCEPT ![e].slot = s]
    /\ current' = [current EXCEPT ![e] = {}]
    /\ UNCHANGED <<items, envs, generations, instances, issued, target>>

Claim(e) == /\ Goto(e, "claim", "bump")
            /\ current[e] # Slot
            /\ claimed = current[e]
            /\ \E s \in LowestFree(current[e]) :
                   /\ claimed' = claimed \cup {s}
                   /\ handle' = [handle EXCEPT ![e].slot = s]
            /\ current' = [current EXCEPT ![e] = {}]
            /\ UNCHANGED <<items, envs, generations, instances, issued,
                           target>>

\* The swap failed: another environment claimed or retired a slot.
ClaimRetried(e) == /\ pc[e] = "claim"
                   /\ current[e] # Slot
                   /\ claimed # current[e]
                   /\ current' = [current EXCEPT ![e] = claimed]
                   /\ UNCHANGED <<tableVars, instances, issued, pc, handle,
                                  target>>

Bump(e) == /\ Goto(e, "bump", "build")
           /\ LET s == handle[e].slot
                  g == (generations[s] + 1) % GenerationMod
              IN  /\ generations' = [generations EXCEPT ![s] = g]
                  /\ handle' = [handle EXCEPT ![e].generation = g]
           /\ UNCHANGED <<items, envs, claimed, instances, issued, current,
                          target>>

Build(e) == /\ Goto(e, "build", "publish_env")
            /\ Len(instances) < MaxServers
            /\ instances' = Append(instances, [owner  |-> e,
                                               handle |-> handle[e],
                                               stage  |-> "building"])
            /\ target' = [target EXCEPT ![e] = Len(instances) + 1]
            /\ UNCHANGED <<tableVars, issued, current, handle>>

\* Any of the fallible steps of create: the slot is retired again.
BuildFails(e) == /\ Goto(e, "build", "retire_check")
                 /\ UNCHANGED <<tableVars, instances, issued, current, handle,
                                target>>

PublishEnv(e) == /\ Goto(e, "publish_env", "publish_item")
                 /\ envs' = [envs EXCEPT ![handle[e].slot] = e]
                 /\ UNCHANGED <<items, generations, claimed, instances,
                                issued, current, handle, target>>

PublishItem(e) ==
    /\ Return(e, "publish_item")
    /\ items' = [items EXCEPT ![handle[e].slot] = target[e]]
    /\ instances' = [instances EXCEPT ![target[e]].stage = "published"]
    /\ issued' = issued \cup {handle[e]}
    /\ UNCHANGED <<envs, generations, claimed>>

-----------------------------------------------------------------------------
(* lookup, with any handle, and what the operations do with its result *)

\* The generation check fails: null, and nothing changes.
LookupStale(e, h) == /\ pc[e] = "idle"
                     /\ generations[h.slot] # h.generation
                     /\ UNCHANGED vars

Lookup(e, h) == /\ Goto(e, "idle", "lookup_env")
                /\ generations[h.slot] = h.generation
                /\ handle' = [handle EXCEPT ![e] = h]
                /\ UNCHANGED <<tableVars, instances, issued, current, target>>

\* Mutant: the owning environment is not compared.
LookupEnv_Unchecked(e) ==
    /\ Goto(e, "lookup_env", "lookup_item")
    /\ UNCHANGED <<tableVars, instances, issued, current, handle, target>>

LookupEnv(e) == /\ Goto(e, "lookup_env", "lookup_item")
                /\ envs[handle[e].slot] = e
                /\ UNCHANGED <<tableVars, instances, issued, current, handle,
                               target>>

LookupRefused(e) == /\ Return(e, "lookup_env")
                    /\ envs[handle[e].slot] # e
                    /\ UNCHANGED <<tableVars, instances, issued>>

LookupItem(e) == /\ Goto(e, "lookup_item", "use")
                 /\ target' = [target EXCEPT ![e] = items[handle[e].slot]]
                 /\ UNCHANGED <<tableVars, instances, issued, current, handle>>

\* listen, close, a refused finalize, a socket operation; or a null result.
Use(e) == /\ Return(e, "use")
          /\ UNCHANGED <<tableVars, instances, issued>>

\* finalize, allowed by the lifecycle.
Finalize(e) == /\ target[e] # NoItem
               /\ Goto(e, "use", "retire_check")
               /\ UNCHANGED <<tableVars, instances, issued, current, handle,
                              target>>

\* The cleanup hook destroys an instance of its environment, without a lookup.
Cleanup(e, i) == /\ Goto(e, "idle", "retire_check")
                 /\ instances[i].owner = e
                 /\ instances[i].stage = "published"
                 /\ handle' = [handle EXCEPT ![e] = instances[i].handle]
                 /\ target' = [target EXCEPT ![e] = i]
                 /\ UNCHANGED <<tableVars, instances, issued, current>>

-----------------------------------------------------------------------------
(* retire, and the release of the memory after it *)

\* Mutant: retire clears the claim bit before the slot.
RetireCheck_BitFirst(e) ==
    /\ generations[handle[e].slot] = handle[e].generation
    /\ Goto(e, "retire_check", "retire_env")
    /\ claimed' = claimed \ {handle[e].slot}
    /\ UNCHANGED <<items, envs, generations, instances, issued, current,
                   handle, target>>

\* The early return for a stale handle is never taken: see SlotIsHeld.
RetireCheck(e) == /\ generations[handle[e].slot] = handle[e].generation
                  /\ Goto(e, "retire_check", "retire_env")
                  /\ UNCHANGED <<tableVars, instances, issued, current, handle,
                                 target>>

RetireEnv(e) == /\ Goto(e, "retire_env", "retire_item")
                /\ envs' = [envs EXCEPT ![handle[e].slot] = NoEnv]
                /\ UNCHANGED <<items, generations, claimed, instances, issued,
                               current, handle, target>>

RetireItem(e) == /\ Goto(e, "retire_item", "retire_bit")
                 /\ items' = [items EXCEPT ![handle[e].slot] = NoItem]
                 /\ UNCHANGED <<envs, generations, claimed, instances, issued,
                                current, handle, target>>

RetireBit(e) == /\ Goto(e, "retire_bit", "free")
                /\ claimed' = claimed \ {handle[e].slot}
                /\ UNCHANGED <<items, envs, generations, instances, issued,
                               current, handle, target>>

Free(e) == /\ Return(e, "free")
           /\ instances' = IF target[e] = NoItem THEN instances
                           ELSE [instances EXCEPT ![target[e]].stage = "freed"]
           /\ UNCHANGED <<tableVars, issued>>

-----------------------------------------------------------------------------

CreateStep(e) == \/ Create(e) \/ ClaimExhausted(e) \/ Claim(e)
                 \/ ClaimRetried(e) \/ Bump(e) \/ Build(e) \/ BuildFails(e)
                 \/ PublishEnv(e) \/ PublishItem(e)

\* NoHandle stands for the numbers JavaScript was never given.
LookupStep(e) == \/ \E h \in issued \cup {NoHandle} :
                        Lookup(e, h) \/ LookupStale(e, h)
                 \/ LookupEnv(e) \/ LookupRefused(e) \/ LookupItem(e)
                 \/ Use(e) \/ Finalize(e)

RetireStep(e) == \/ \E i \in 1 .. Len(instances) : Cleanup(e, i)
                 \/ RetireCheck(e) \/ RetireEnv(e) \/ RetireItem(e)
                 \/ RetireBit(e) \/ Free(e)

Next == \E e \in Env : CreateStep(e) \/ LookupStep(e) \/ RetireStep(e)

Spec == Init /\ [][Next]_vars

-----------------------------------------------------------------------------
(* Properties *)

Steps == {"idle", "claim", "bump", "build", "publish_env", "publish_item",
          "lookup_env", "lookup_item", "use", "retire_check", "retire_env",
          "retire_item", "retire_bit", "free"}

TypeOK ==
    /\ items \in [Slot -> Item \cup {NoItem}]
    /\ envs \in [Slot -> Env \cup {NoEnv}]
    /\ generations \in [Slot -> 0 .. GenerationMod - 1]
    /\ claimed \subseteq Slot
    /\ instances \in Seq([owner : Env, handle : Handle,
                          stage : {"building", "published", "freed"}])
    /\ Len(instances) <= MaxServers
    /\ issued \subseteq Handle
    /\ pc \in [Env -> Steps]
    /\ current \in [Env -> SUBSET Slot]
    /\ handle \in [Env -> Handle]
    /\ target \in [Env -> Item \cup {NoItem}]

\* A lookup never returns an instance of another environment, a freed one, or
\* one that is not the one the handle was issued for, however the loads of the
\* table interleave with the claims and retires of other workers
\* (registry.zig:6-9, instance.zig:69-73).
LookupIsOwnAndAlive ==
    \A e \in Env :
        pc[e] = "use" /\ target[e] # NoItem =>
            instances[target[e]] =
                [owner |-> e, handle |-> handle[e], stage |-> "published"]

\* e is destroying instance i and may already have cleared its slot.
Retiring(e, i) == /\ pc[e] \in {"retire_check", "retire_env", "retire_item",
                                "retire_bit", "free"}
                  /\ target[e] = i

\* The engine thread of a server, which looks its slot up with no check at
\* all, finds exactly that server until its own environment retires it: no
\* other environment overwrites or clears the slot (registry.zig:90-92).
EngineFindsServer ==
    \A i \in 1 .. Len(instances) :
        /\ instances[i].stage = "published"
        /\ ~\E e \in Env : Retiring(e, i)
        => /\ items[instances[i].handle.slot] = i
           /\ envs[instances[i].handle.slot] = instances[i].owner
           /\ generations[instances[i].handle.slot] =
                  instances[i].handle.generation

\* The slots a thread holds in the middle of create or retire.
HeldBy(e) == IF pc[e] \in {"bump", "build", "publish_env", "publish_item",
                           "retire_check", "retire_env", "retire_item",
                           "retire_bit"}
             THEN {handle[e].slot} ELSE {}

\* A thread that retires a slot still holds its generation, so the stale check
\* of retire never leaves a slot claimed for ever; and no two threads hold the
\* same slot.
SlotIsHeld ==
    \A e \in Env :
        /\ pc[e] = "retire_check" =>
               generations[handle[e].slot] = handle[e].generation
        /\ \A f \in Env \ {e} : HeldBy(e) \cap HeldBy(f) = {}

\* A slot is claimed exactly while somebody holds it or a published server
\* lives in it: a failed create gives its slot back, and no slot is given out
\* while its former server is still being cleared (registry.zig:97-105).
ClaimedExact ==
    /\ SlotIsHeld
    /\ claimed = (UNION {HeldBy(e) : e \in Env})
                 \cup {instances[i].handle.slot :
                           i \in {j \in 1 .. Len(instances) :
                                     /\ instances[j].stage = "published"
                                     /\ ~\E e \in Env : Retiring(e, j)}}
=============================================================================
