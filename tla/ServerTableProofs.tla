-------------------------- MODULE ServerTableProofs --------------------------
(***************************************************************************)
(* Theorems about ServerTable, for any number of environments, slots and    *)
(* servers.                                                                 *)
(***************************************************************************)
EXTENDS ServerTable, TLAPS

RetireSteps == {"retire_check", "retire_env", "retire_item", "retire_bit"}
HoldSteps == {"bump", "build", "publish_env", "publish_item"} \cup RetireSteps
PublishSteps == {"publish_env", "publish_item"}

(* Thread e holds the slot of its handle. *)
Holds(e) == pc[e] \in HoldSteps

(* Server i is published and its slot was not touched since.               *)
Live(i) == /\ i \in 1 .. Len(instances)
           /\ instances[i].stage = "published"
           /\ ~\E e \in Env : Retiring(e, i)

(* The server thread e works on is its own, in this stage of its life.     *)
IsOwn(e, stage) ==
    /\ target[e] \in 1 .. Len(instances)
    /\ instances[target[e]].owner = e
    /\ instances[target[e]].handle = handle[e]
    /\ instances[target[e]].stage = stage

(* What a thread finds in the slot it holds.                               *)
HoldInv ==
    \A e \in Env : Holds(e) =>
        /\ handle[e].slot \in claimed
        /\ pc[e] # "bump" => generations[handle[e].slot] = handle[e].generation
        /\ envs[handle[e].slot] =
               IF \/ pc[e] = "publish_item"
                  \/ pc[e] \in {"retire_check", "retire_env"} /\ target[e] # NoItem
               THEN e ELSE NoEnv
        /\ items[handle[e].slot] =
               IF pc[e] \in {"retire_check", "retire_env", "retire_item"}
               THEN target[e] ELSE NoItem

DisjointInv ==
    \A e, f \in Env : Holds(e) /\ Holds(f) /\ e # f => handle[e].slot # handle[f].slot

TargetInv ==
    \A e \in Env :
        /\ pc[e] \in PublishSteps => IsOwn(e, "building")
        /\ pc[e] \in RetireSteps \cup {"use", "free"} /\ target[e] # NoItem =>
               IsOwn(e, "published")
        /\ pc[e] \in {"idle", "claim", "bump", "build", "lookup_env", "lookup_item"} =>
               target[e] = NoItem

(* A live server is in its slot.                                           *)
LiveInv ==
    \A i \in 1 .. Len(instances) : Live(i) =>
        /\ instances[i].handle.slot \in claimed
        /\ items[instances[i].handle.slot] = i
        /\ envs[instances[i].handle.slot] = instances[i].owner
        /\ generations[instances[i].handle.slot] = instances[i].handle.generation

(* A slot that is not claimed is empty, one that is has somebody.          *)
FreeInv == \A s \in Slot \ claimed : items[s] = NoItem /\ envs[s] = NoEnv

Busy(s) ==
    \/ \E e \in Env : Holds(e) /\ handle[e].slot = s
    \/ \E i \in 1 .. Len(instances) : Live(i) /\ instances[i].handle.slot = s

ClaimInv == \A s \in claimed : Busy(s)

(* While e looks a handle up, a slot of its own is not given to another.   *)
LookupInv ==
    \A e \in Env :
        /\ pc[e] = "lookup_env" /\ envs[handle[e].slot] = e =>
               generations[handle[e].slot] = handle[e].generation
        /\ pc[e] = "lookup_item" =>
               /\ envs[handle[e].slot] = e
               /\ generations[handle[e].slot] = handle[e].generation

IInv == /\ TypeOK
        /\ HoldInv /\ DisjointInv /\ TargetInv
        /\ LiveInv /\ FreeInv /\ ClaimInv /\ LookupInv
-----------------------------------------------------------------------------
(* Types.                                                                  *)

Instance == [owner : Env, handle : Handle, stage : {"building", "published", "freed"}]

LEMMA ConstantTypes ==
    /\ Capacity \in Nat \ {0} /\ Slot \subseteq Nat /\ 0 \in Slot
    /\ GenerationMod \in Nat \ {0} /\ 0 \in 0 .. GenerationMod - 1
    /\ NoItem \notin Item /\ NoHandle \in Handle
BY CapacityAssumption, GenerationAssumption DEF Slot, NoHandle, Handle, NoItem, Item

LEMMA NextGeneration ==
    \A g \in 0 .. GenerationMod - 1 : (g + 1) % GenerationMod \in 0 .. GenerationMod - 1
BY GenerationAssumption

LEMMA HandleTypes ==
    ASSUME NEW h \in Handle
    PROVE  /\ h.slot \in Slot /\ h.generation \in 0 .. GenerationMod - 1
           /\ \A s \in Slot : [h EXCEPT !.slot = s] \in Handle
           /\ \A g \in 0 .. GenerationMod - 1 : [h EXCEPT !.generation = g] \in Handle
BY DEF Handle

(* An instance that changes its stage stays an instance.                   *)
LEMMA StageTypes ==
    ASSUME NEW s \in Seq(Instance), NEW i \in 1 .. Len(s),
           NEW stage \in {"building", "published", "freed"}
    PROVE  /\ [s EXCEPT ![i].stage = stage] \in Seq(Instance)
           /\ Len([s EXCEPT ![i].stage = stage]) = Len(s)
<1>0. s[i] \in Instance
  OBVIOUS
<1>1. [s[i] EXCEPT !.stage = stage] \in Instance
  BY <1>0 DEF Instance
<1>2. [s EXCEPT ![i].stage = stage] = [s EXCEPT ![i] = [s[i] EXCEPT !.stage = stage]]
  OBVIOUS
<1> HIDE DEF Instance
<1> QED BY <1>1, <1>2

(* A thread keeps the types of its variables.                              *)
ThreadTypes == /\ pc \in [Env -> Steps] /\ current \in [Env -> SUBSET Slot]
               /\ handle \in [Env -> Handle] /\ target \in [Env -> Item \cup {NoItem}]

(* So does the table.                                                      *)
TableTypes == /\ items \in [Slot -> Item \cup {NoItem}]
              /\ envs \in [Slot -> Env \cup {NoEnv}]
              /\ generations \in [Slot -> 0 .. GenerationMod - 1]
              /\ claimed \subseteq Slot

InstanceTypes == /\ instances \in Seq(Instance)
                 /\ Len(instances) <= MaxServers
                 /\ issued \subseteq Handle

LEMMA TypeParts == TypeOK <=> ThreadTypes /\ TableTypes /\ InstanceTypes
BY Zenon DEF TypeOK, ThreadTypes, TableTypes, InstanceTypes, Instance

LEMMA TypePartsPrimed == TypeOK' <=> ThreadTypes' /\ TableTypes' /\ InstanceTypes'
BY Zenon DEF TypeOK, ThreadTypes, TableTypes, InstanceTypes, Instance

LEMMA InitTypes == Init => TypeOK
<1> SUFFICES ASSUME Init PROVE TypeOK
  OBVIOUS
<1>1. ThreadTypes
  BY ConstantTypes DEF Init
<1>2. TableTypes
  BY ConstantTypes DEF Init, TableTypes
<1>3. InstanceTypes
  BY GenerationAssumption DEF Init, InstanceTypes
<1> QED BY <1>1, <1>2, <1>3, TypeParts

LEMMA ReturnTypes ==
    ASSUME ThreadTypes, NEW e \in Env, NEW from, Return(e, from)
    PROVE  ThreadTypes'
BY ConstantTypes DEF ThreadTypes, Return, Goto, Steps

LEMMA CreateTypes ==
    ASSUME TypeOK, TargetInv, NEW e \in Env, CreateStep(e)  PROVE  TypeOK'
<1>0. ThreadTypes /\ TableTypes /\ InstanceTypes
  BY TypeParts
<1>a. handle[e] \in Handle /\ handle[e].slot \in Slot
  BY <1>0, HandleTypes DEF ThreadTypes
<1> SUFFICES ThreadTypes' /\ TableTypes' /\ InstanceTypes'
  BY TypePartsPrimed
<1>1. CASE Create(e)
  BY <1>0, <1>1 DEF Create, Goto, Steps, tableVars, ThreadTypes, TableTypes, InstanceTypes
<1>2. CASE ClaimExhausted(e)
  BY <1>0, <1>2, ReturnTypes DEF ClaimExhausted, tableVars, TableTypes, InstanceTypes
<1>3. CASE Claim(e)
  <2>1. PICK s \in Slot : /\ claimed' = claimed \cup {s}
                          /\ handle' = [handle EXCEPT ![e].slot = s]
    BY <1>3 DEF Claim, LowestFree
  <2>2. [handle[e] EXCEPT !.slot = s] \in Handle
    BY <1>a, HandleTypes
  <2>3. handle' \in [Env -> Handle]
    BY <1>0, <2>1, <2>2 DEF ThreadTypes
  <2> QED BY <1>0, <1>3, <2>1, <2>3 DEF Claim, Goto, Steps, ThreadTypes, TableTypes,
             InstanceTypes
<1>4. CASE ClaimRetried(e)
  BY <1>0, <1>4 DEF ClaimRetried, tableVars, ThreadTypes, TableTypes, InstanceTypes
<1>5. CASE Bump(e)
  <2> DEFINE g == (generations[handle[e].slot] + 1) % GenerationMod
  <2>1. g \in 0 .. GenerationMod - 1
    BY <1>0, <1>a, NextGeneration DEF TableTypes
  <2>2. [handle[e] EXCEPT !.generation = g] \in Handle
    BY <1>a, <2>1, HandleTypes
  <2>3. /\ handle' = [handle EXCEPT ![e] = [handle[e] EXCEPT !.generation = g]]
        /\ generations' = [generations EXCEPT ![handle[e].slot] = g]
    BY <1>5 DEF Bump
  <2> HIDE DEF g
  <2>4. handle' \in [Env -> Handle] /\ generations' \in [Slot -> 0 .. GenerationMod - 1]
    BY <1>0, <1>a, <2>1, <2>2, <2>3 DEF ThreadTypes, TableTypes
  <2> QED BY <1>0, <1>5, <2>4 DEF Bump, Goto, Steps, ThreadTypes, TableTypes,
             InstanceTypes
<1>6. CASE Build(e)
  <2>1. [owner |-> e, handle |-> handle[e], stage |-> "building"] \in Instance
    BY <1>a DEF Instance
  <2>2. instances' \in Seq(Instance) /\ Len(instances') = Len(instances) + 1
    BY <1>0, <1>6, <2>1 DEF Build, InstanceTypes
  <2>3. Len(instances') <= MaxServers /\ Len(instances) + 1 \in Item
    BY <1>6, GenerationAssumption DEF Build, Item
  <2> QED BY <1>0, <1>6, <2>2, <2>3 DEF Build, Goto, Steps, tableVars, ThreadTypes,
             TableTypes, InstanceTypes
<1>7. CASE BuildFails(e)
  BY <1>0, <1>7 DEF BuildFails, Goto, Steps, tableVars, ThreadTypes, TableTypes,
     InstanceTypes
<1>8. CASE PublishEnv(e)
  BY <1>0, <1>8 DEF PublishEnv, Goto, Steps, ThreadTypes, TableTypes, InstanceTypes
<1>9. CASE PublishItem(e)
  <2>1. target[e] \in 1 .. Len(instances)
    BY <1>9 DEF PublishItem, Return, Goto, TargetInv, PublishSteps, IsOwn
  <2>2. instances' \in Seq(Instance) /\ Len(instances') = Len(instances)
    BY <1>0, <1>9, <2>1, StageTypes DEF PublishItem, InstanceTypes
  <2>3. ThreadTypes'
    BY <1>0, <1>9, ReturnTypes DEF PublishItem
  <2>4. TableTypes'
    BY <1>0, <1>9 DEF PublishItem, TableTypes, ThreadTypes
  <2> QED BY <1>0, <1>a, <1>9, <2>2, <2>3, <2>4 DEF PublishItem, InstanceTypes
<1> QED BY <1>1, <1>2, <1>3, <1>4, <1>5, <1>6, <1>7, <1>8, <1>9 DEF CreateStep

LEMMA LookupTypes ==
    ASSUME TypeOK, NEW e \in Env, LookupStep(e)  PROVE  TypeOK'
<1>0. ThreadTypes /\ TableTypes /\ InstanceTypes
  BY TypeParts
<1> SUFFICES ThreadTypes' /\ TableTypes' /\ InstanceTypes'
  BY TypePartsPrimed
<1>1. ASSUME NEW h \in issued \cup {NoHandle}, Lookup(e, h)
      PROVE  ThreadTypes' /\ TableTypes' /\ InstanceTypes'
  <2>1. h \in Handle
    BY <1>0, ConstantTypes DEF InstanceTypes
  <2> QED BY <1>0, <1>1, <2>1 DEF Lookup, Goto, Steps, tableVars, ThreadTypes,
             TableTypes, InstanceTypes
<1>2. CASE UNCHANGED vars
  BY <1>0, <1>2 DEF vars, tableVars, threadVars, ThreadTypes, TableTypes, InstanceTypes
<1>3. CASE LookupEnv(e) \/ Finalize(e)
  BY <1>0, <1>3 DEF LookupEnv, Finalize, Goto, Steps, tableVars, ThreadTypes,
     TableTypes, InstanceTypes
<1>4. CASE LookupRefused(e) \/ Use(e)
  <2>1. PICK from : Return(e, from)
    BY <1>4 DEF LookupRefused, Use
  <2> QED BY <1>0, <1>4, ReturnTypes DEF LookupRefused, Use, tableVars, TableTypes,
             InstanceTypes
<1>5. CASE LookupItem(e)
  <2>1. items[handle[e].slot] \in Item \cup {NoItem}
    BY <1>0, HandleTypes DEF ThreadTypes, TableTypes
  <2> QED BY <1>0, <1>5, <2>1 DEF LookupItem, Goto, Steps, tableVars, ThreadTypes,
             TableTypes, InstanceTypes
<1> QED BY <1>1, <1>2, <1>3, <1>4, <1>5 DEF LookupStep, LookupStale

LEMMA RetireTypes ==
    ASSUME TypeOK, TargetInv, NEW e \in Env, RetireStep(e)  PROVE  TypeOK'
<1>0. ThreadTypes /\ TableTypes /\ InstanceTypes
  BY TypeParts
<1> SUFFICES ThreadTypes' /\ TableTypes' /\ InstanceTypes'
  BY TypePartsPrimed
<1>1. ASSUME NEW i \in 1 .. Len(instances), Cleanup(e, i)
      PROVE  ThreadTypes' /\ TableTypes' /\ InstanceTypes'
  <2>1. instances[i] \in Instance /\ i \in Item
    BY <1>0, GenerationAssumption DEF InstanceTypes, Item
  <2>2. instances[i].handle \in Handle
    BY <2>1 DEF Instance
  <2> QED BY <1>0, <1>1, <2>1, <2>2 DEF Cleanup, Goto, Steps, tableVars, ThreadTypes,
             TableTypes, InstanceTypes
<1>2. CASE RetireCheck(e) \/ RetireEnv(e) \/ RetireItem(e) \/ RetireBit(e)
  <2>1. ThreadTypes'
    BY <1>0, <1>2 DEF RetireCheck, RetireEnv, RetireItem, RetireBit, Goto, Steps,
       ThreadTypes
  <2>2. TableTypes'
    BY <1>0, <1>2 DEF RetireCheck, RetireEnv, RetireItem, RetireBit, TableTypes, tableVars
  <2> QED BY <1>0, <1>2, <2>1, <2>2 DEF RetireCheck, RetireEnv, RetireItem, RetireBit,
             InstanceTypes
<1>3. CASE Free(e)
  <2>1. ThreadTypes'
    BY <1>0, <1>3, ReturnTypes DEF Free
  <2>2. InstanceTypes'
    <3>1. CASE target[e] = NoItem
      BY <1>0, <1>3, <3>1 DEF Free, InstanceTypes
    <3>2. CASE target[e] # NoItem
      <4>1. target[e] \in 1 .. Len(instances)
        BY <1>3, <3>2 DEF Free, Return, Goto, TargetInv, IsOwn
      <4> QED BY <1>0, <1>3, <3>2, <4>1, StageTypes DEF Free, InstanceTypes
    <3> QED BY <3>1, <3>2
  <2> QED BY <1>0, <1>3, <2>1, <2>2 DEF Free, tableVars, TableTypes
<1> QED BY <1>1, <1>2, <1>3 DEF RetireStep

LEMMA StepTypes ==
    ASSUME TypeOK, TargetInv, [Next]_vars  PROVE  TypeOK'
<1>1. CASE UNCHANGED vars
  <2>1. ThreadTypes' /\ TableTypes' /\ InstanceTypes'
    BY <1>1, TypeParts DEF vars, tableVars, threadVars, ThreadTypes, TableTypes,
       InstanceTypes
  <2> QED BY <2>1, TypePartsPrimed
<1> QED BY <1>1, CreateTypes, LookupTypes, RetireTypes DEF Next

-----------------------------------------------------------------------------
(* Who has a slot.                                                         *)

(* A server that runs is retired by its own environment only.              *)
LEMMA OwnIsLive ==
    ASSUME IInv, NEW e \in Env, NEW i \in 1 .. Len(instances),
           instances[i].owner = e, instances[i].stage = "published", ~Retiring(e, i)
    PROVE  Live(i)
BY DEF IInv, TargetInv, IsOwn, Live, Retiring, RetireSteps, NoItem

(* A slot that is held is not the slot of a live server.                   *)
LEMMA HeldIsNotLive ==
    ASSUME IInv, NEW e \in Env, Holds(e), NEW i \in 1 .. Len(instances), Live(i)
    PROVE  handle[e].slot # instances[i].handle.slot
BY DEF IInv, HoldInv, LiveInv, Live, Retiring, Holds, HoldSteps, RetireSteps, NoItem

(* Who has a slot and does not leave it has it after the step.             *)
LEMMA StaysBusy ==
    ASSUME ClaimInv, NEW s \in claimed,
           \A f \in Env : Holds(f) /\ handle[f].slot = s => Holds(f)' /\ handle'[f].slot = s,
           \A i \in 1 .. Len(instances) :
               Live(i) /\ instances[i].handle.slot = s => Live(i)' /\ instances'[i].handle.slot = s
    PROVE  Busy(s)'
<1>1. CASE \E e \in Env : Holds(e) /\ handle[e].slot = s
  BY <1>1 DEF Busy
<1>2. CASE \E i \in 1 .. Len(instances) : Live(i) /\ instances[i].handle.slot = s
  <2>1. PICK i \in 1 .. Len(instances) : Live(i)' /\ instances'[i].handle.slot = s
    BY <1>2
  <2>2. i \in 1 .. Len(instances')
    BY <2>1 DEF Live
  <2> QED BY <2>1, <2>2 DEF Busy
<1> QED BY <1>2 DEF ClaimInv, Busy

(* A step of a thread that holds nothing and frees nothing, before it and  *)
(* after it, and that leaves the table alone.                              *)
LEMMA LookingKeeps ==
    ASSUME IInv, NEW e \in Env, UNCHANGED <<tableVars, instances>>,
           pc[e] \notin HoldSteps \cup {"free"}, pc'[e] \notin HoldSteps \cup {"free"},
           \A f \in Env \ {e} : /\ pc'[f] = pc[f] /\ handle'[f] = handle[f]
                                /\ target'[f] = target[f]
    PROVE  HoldInv' /\ DisjointInv' /\ LiveInv' /\ FreeInv' /\ ClaimInv'
<1>1. \A f \in Env : /\ Holds(f)' <=> Holds(f)
                     /\ Holds(f) => /\ pc'[f] = pc[f] /\ handle'[f] = handle[f]
                                    /\ target'[f] = target[f]
  BY DEF Holds
<1>2. \A i \in 1 .. Len(instances) : Live(i)' <=> Live(i)
  BY DEF Live, Retiring, HoldSteps, RetireSteps
<1>3. HoldInv'
  BY <1>1 DEF IInv, HoldInv, tableVars
<1>4. DisjointInv'
  BY <1>1 DEF IInv, DisjointInv
<1>5. LiveInv'
  BY <1>2 DEF IInv, LiveInv, tableVars
<1>6. FreeInv'
  BY DEF IInv, FreeInv, tableVars
<1>7. ClaimInv'
  <2>1. \A s \in claimed : Busy(s)'
    BY <1>1, <1>2, StaysBusy DEF IInv
  <2> QED BY <2>1 DEF ClaimInv, tableVars
<1> QED BY <1>3, <1>4, <1>5, <1>6, <1>7

LEMMA ClaimKeeps ==
    ASSUME IInv, NEW e \in Env, Claim(e)
    PROVE  HoldInv' /\ DisjointInv' /\ TargetInv' /\ LiveInv' /\ FreeInv' /\ ClaimInv' /\ LookupInv'
<1>0. ThreadTypes /\ TableTypes /\ InstanceTypes
  BY TypeParts DEF IInv
<1>1. HoldInv'
  BY <1>0 DEF Claim, LowestFree, Goto, IInv, HoldInv, FreeInv, Holds, ThreadTypes
<1>2. DisjointInv'
  BY <1>0 DEF Claim, LowestFree, Goto, IInv, DisjointInv, HoldInv, Holds, ThreadTypes
<1>3. TargetInv'
  BY DEF Claim, Goto, IInv, TargetInv, IsOwn, PublishSteps
<1>4. LiveInv'
  BY DEF Claim, Goto, IInv, LiveInv, Live, Retiring, ThreadTypes, NoItem
<1>5. FreeInv'
  BY DEF Claim, IInv, FreeInv
<1>6. LookupInv'
  BY DEF Claim, Goto, IInv, LookupInv
<1>7. ClaimInv'
  <2>1. PICK s : claimed' = claimed \cup {s} /\ handle' = [handle EXCEPT ![e].slot = s]
    BY DEF Claim
  <2>2. Holds(e)' /\ handle'[e].slot = s
    BY <1>0, <2>1 DEF Claim, Goto, Holds, HoldSteps, ThreadTypes, Handle
  <2>3. \A f \in Env : Holds(f) => Holds(f)' /\ handle'[f].slot = handle[f].slot
    BY DEF Claim, Goto, Holds, HoldSteps, RetireSteps
  <2>4. \A i \in 1 .. Len(instances) : Live(i) => Live(i)' /\ instances'[i].handle = instances[i].handle
    BY DEF Claim, Goto, Live, Retiring
  <2>5. \A t \in claimed : Busy(t)'
    BY <2>3, <2>4, StaysBusy DEF IInv
  <2> QED BY <2>1, <2>2, <2>5 DEF ClaimInv, Busy
<1> QED BY <1>1, <1>2, <1>3, <1>4, <1>5, <1>6, <1>7

LEMMA BumpKeeps ==
    ASSUME IInv, NEW e \in Env, Bump(e)
    PROVE  HoldInv' /\ DisjointInv' /\ TargetInv' /\ LiveInv' /\ FreeInv' /\ ClaimInv' /\ LookupInv'
<1>0. ThreadTypes /\ TableTypes /\ InstanceTypes
  BY TypeParts DEF IInv
<1>1. HoldInv'
  BY <1>0 DEF Bump, Goto, IInv, HoldInv, DisjointInv, Holds, HoldSteps, ThreadTypes,
     TableTypes
<1>2. DisjointInv'
  BY DEF Bump, Goto, IInv, DisjointInv, Holds, HoldSteps
<1>3. TargetInv'
  BY DEF Bump, Goto, IInv, TargetInv, IsOwn, PublishSteps
<1>4. LiveInv'
  <2>1. \A i \in 1 .. Len(instances) :
            Live(i) => handle[e].slot # instances[i].handle.slot
    BY HeldIsNotLive DEF Bump, Goto, Holds, HoldSteps
  <2>2. \A i \in 1 .. Len(instances) : Live(i)' => Live(i)
    BY DEF Bump, Goto, Live, Retiring, RetireSteps, tableVars
  <2> QED BY <2>1, <2>2 DEF Bump, IInv, LiveInv
<1>5. FreeInv'
  BY DEF Bump, IInv, FreeInv
<1>6. LookupInv'
  BY EnvAssumption DEF Bump, Goto, IInv, LookupInv, HoldInv, Holds, HoldSteps
<1>7. ClaimInv'
  <2>1. \A f \in Env : Holds(f) => Holds(f)' /\ handle'[f].slot = handle[f].slot
    BY DEF Bump, Goto, Holds, HoldSteps
  <2>2. \A i \in 1 .. Len(instances) : Live(i) => Live(i)' /\ instances'[i].handle = instances[i].handle
    BY DEF Bump, Goto, Live, Retiring
  <2>3. \A s \in claimed : Busy(s)'
    BY <2>1, <2>2, StaysBusy DEF IInv
  <2> QED BY <2>3 DEF Bump, ClaimInv
<1> QED BY <1>1, <1>2, <1>3, <1>4, <1>5, <1>6, <1>7

LEMMA BuildKeeps ==
    ASSUME IInv, NEW e \in Env, Build(e)
    PROVE  HoldInv' /\ DisjointInv' /\ TargetInv' /\ LiveInv' /\ FreeInv' /\ ClaimInv' /\ LookupInv'
<1>0. ThreadTypes /\ TableTypes /\ InstanceTypes
  BY TypeParts DEF IInv
<1>1. HoldInv'
  BY DEF Build, Goto, IInv, HoldInv, Holds, HoldSteps, tableVars
<1>2. DisjointInv'
  BY DEF Build, Goto, IInv, DisjointInv, Holds, HoldSteps
<1>3. TargetInv'
  BY <1>0 DEF Build, Goto, IInv, TargetInv, IsOwn, RetireSteps, ThreadTypes
<1>4. LiveInv'
  BY DEF Build, Goto, IInv, LiveInv, Live, Retiring, ThreadTypes, tableVars, NoItem
<1>5. FreeInv'
  BY DEF Build, IInv, FreeInv, tableVars
<1>6. LookupInv'
  BY DEF Build, Goto, IInv, LookupInv, tableVars
<1>7. ClaimInv'
  <2>1. \A f \in Env : Holds(f) => Holds(f)' /\ handle'[f].slot = handle[f].slot
    BY DEF Build, Goto, Holds, HoldSteps
  <2>2. \A i \in 1 .. Len(instances) : Live(i) => Live(i)' /\ instances'[i].handle = instances[i].handle
    BY DEF Build, Goto, Live, Retiring
  <2>3. \A s \in claimed : Busy(s)'
    BY <2>1, <2>2, StaysBusy DEF IInv
  <2> QED BY <2>3 DEF Build, ClaimInv, tableVars
<1> QED BY <1>1, <1>2, <1>3, <1>4, <1>5, <1>6, <1>7

LEMMA BuildFailsKeeps ==
    ASSUME IInv, NEW e \in Env, BuildFails(e)
    PROVE  HoldInv' /\ DisjointInv' /\ TargetInv' /\ LiveInv' /\ FreeInv' /\ ClaimInv' /\ LookupInv'
<1>0. ThreadTypes /\ TableTypes /\ InstanceTypes
  BY TypeParts DEF IInv
<1>1. HoldInv'
  BY DEF BuildFails, Goto, IInv, HoldInv, TargetInv, Holds, HoldSteps, tableVars
<1>2. DisjointInv'
  BY DEF BuildFails, Goto, IInv, DisjointInv, Holds, HoldSteps
<1>3. TargetInv'
  BY DEF BuildFails, Goto, IInv, TargetInv, IsOwn, PublishSteps
<1>4. LiveInv'
  BY DEF BuildFails, Goto, IInv, LiveInv, Live, Retiring, tableVars
<1>5. FreeInv'
  BY DEF BuildFails, IInv, FreeInv, tableVars
<1>6. LookupInv'
  BY DEF BuildFails, Goto, IInv, LookupInv, tableVars
<1>7. ClaimInv'
  <2>1. \A f \in Env : Holds(f) => Holds(f)' /\ handle'[f].slot = handle[f].slot
    BY DEF BuildFails, Goto, Holds, HoldSteps, RetireSteps
  <2>2. \A i \in 1 .. Len(instances) : Live(i) => Live(i)' /\ instances'[i].handle = instances[i].handle
    BY DEF BuildFails, Goto, IInv, TargetInv, Live, Retiring, NoItem
  <2>3. \A s \in claimed : Busy(s)'
    BY <2>1, <2>2, StaysBusy DEF IInv
  <2> QED BY <2>3 DEF BuildFails, ClaimInv, tableVars
<1> QED BY <1>1, <1>2, <1>3, <1>4, <1>5, <1>6, <1>7

LEMMA PublishEnvKeeps ==
    ASSUME IInv, NEW e \in Env, PublishEnv(e)
    PROVE  HoldInv' /\ DisjointInv' /\ TargetInv' /\ LiveInv' /\ FreeInv' /\ ClaimInv' /\ LookupInv'
<1>0. ThreadTypes /\ TableTypes /\ InstanceTypes
  BY TypeParts DEF IInv
<1>1. HoldInv'
  BY <1>0 DEF PublishEnv, Goto, IInv, HoldInv, DisjointInv, Holds, HoldSteps,
     ThreadTypes, TableTypes
<1>2. DisjointInv'
  BY DEF PublishEnv, Goto, IInv, DisjointInv, Holds, HoldSteps
<1>3. TargetInv'
  BY DEF PublishEnv, Goto, IInv, TargetInv, IsOwn, PublishSteps, RetireSteps
<1>4. LiveInv'
  <2>1. \A i \in 1 .. Len(instances) :
            Live(i) => handle[e].slot # instances[i].handle.slot
    BY HeldIsNotLive DEF PublishEnv, Goto, Holds, HoldSteps
  <2>2. \A i \in 1 .. Len(instances) : Live(i)' => Live(i)
    BY DEF PublishEnv, Goto, Live, Retiring, RetireSteps, tableVars
  <2> QED BY <2>1, <2>2 DEF PublishEnv, IInv, LiveInv
<1>5. FreeInv'
  BY DEF PublishEnv, Goto, IInv, FreeInv, HoldInv, Holds, HoldSteps
<1>6. LookupInv'
  BY EnvAssumption DEF PublishEnv, Goto, IInv, LookupInv, HoldInv, Holds, HoldSteps
<1>7. ClaimInv'
  <2>1. \A f \in Env : Holds(f) => Holds(f)' /\ handle'[f].slot = handle[f].slot
    BY DEF PublishEnv, Goto, Holds, HoldSteps
  <2>2. \A i \in 1 .. Len(instances) : Live(i) => Live(i)' /\ instances'[i].handle = instances[i].handle
    BY DEF PublishEnv, Goto, Live, Retiring
  <2>3. \A s \in claimed : Busy(s)'
    BY <2>1, <2>2, StaysBusy DEF IInv
  <2> QED BY <2>3 DEF PublishEnv, ClaimInv
<1> QED BY <1>1, <1>2, <1>3, <1>4, <1>5, <1>6, <1>7

LEMMA PublishItemKeeps ==
    ASSUME IInv, NEW e \in Env, PublishItem(e)
    PROVE  HoldInv' /\ DisjointInv' /\ TargetInv' /\ LiveInv' /\ FreeInv' /\ ClaimInv' /\ LookupInv'
<1>0. ThreadTypes /\ TableTypes /\ InstanceTypes
  BY TypeParts DEF IInv
<1>1. HoldInv'
  BY <1>0 DEF PublishItem, Return, Goto, IInv, HoldInv, DisjointInv, Holds, HoldSteps,
     RetireSteps, ThreadTypes
<1>2. DisjointInv'
  BY <1>0 DEF PublishItem, Return, Goto, IInv, DisjointInv, Holds, HoldSteps,
     RetireSteps, ThreadTypes
<1>3. TargetInv'
  BY <1>0 DEF PublishItem, Return, Goto, IInv, TargetInv, IsOwn, PublishSteps, ThreadTypes
<1>4. LiveInv'
  <2>1. \A i \in 1 .. Len(instances) :
            Live(i) => handle[e].slot # instances[i].handle.slot
    BY HeldIsNotLive DEF PublishItem, Return, Goto, Holds, HoldSteps
  <2>2. IsOwn(e, "building") /\ Holds(e) /\ pc[e] = "publish_item"
    BY DEF PublishItem, Return, Goto, IInv, TargetInv, PublishSteps, Holds, HoldSteps
  <2>3. /\ Len(instances') = Len(instances)
        /\ \A i \in 1 .. Len(instances) : /\ instances'[i].handle = instances[i].handle
                                          /\ instances'[i].owner = instances[i].owner
                                          /\ i # target[e] => instances'[i] = instances[i]
    BY DEF PublishItem
  <2> SUFFICES ASSUME NEW i \in 1 .. Len(instances), Live(i)'
               PROVE  /\ instances[i].handle.slot \in claimed
                      /\ items'[instances[i].handle.slot] = i
                      /\ envs[instances[i].handle.slot] = instances[i].owner
                      /\ generations[instances[i].handle.slot] = instances[i].handle.generation
    BY <2>3 DEF LiveInv, PublishItem
  <2>4. CASE i = target[e]
    BY <1>0, <2>2, <2>4, HandleTypes DEF PublishItem, IInv, HoldInv, IsOwn, RetireSteps,
       ThreadTypes, TableTypes
  <2>5. CASE i # target[e]
    <3>1. Live(i)
      BY <2>5 DEF PublishItem, Return, Goto, Live, Retiring
    <3> QED BY <2>1, <3>1 DEF PublishItem, IInv, LiveInv
  <2> QED BY <2>4, <2>5
<1>5. FreeInv'
  BY DEF PublishItem, Return, Goto, IInv, FreeInv, HoldInv, Holds, HoldSteps
<1>6. LookupInv'
  BY DEF PublishItem, Return, Goto, IInv, LookupInv
<1>7. ClaimInv'
  <2>1. IsOwn(e, "building")
    BY DEF PublishItem, Return, Goto, IInv, TargetInv, PublishSteps
  <2>2. PICK s, i : s = handle[e].slot /\ i = target[e]
    OBVIOUS
  <2>3. /\ i \in 1 .. Len(instances') /\ instances'[i].stage = "published"
        /\ instances'[i].handle.slot = s
    BY <2>1, <2>2 DEF PublishItem, IsOwn
  <2>4. \A f \in Env : ~Retiring(f, i)'
    BY <2>1, <2>2 DEF PublishItem, Return, Goto, IInv, TargetInv, Retiring, RetireSteps,
       IsOwn, NoItem
  <2>5. Busy(s)'
    BY <2>3, <2>4 DEF Busy, Live
  <2>6. \A f \in Env \ {e} : Holds(f) => Holds(f)' /\ handle'[f].slot = handle[f].slot
    BY DEF PublishItem, Return, Goto, Holds
  <2>7. \A j \in 1 .. Len(instances) : Live(j) => Live(j)' /\ instances'[j].handle = instances[j].handle
    BY DEF PublishItem, Return, Goto, Live, Retiring
  <2>8. \A t \in claimed \ {s} : Busy(t)'
    BY <2>2, <2>6, <2>7, StaysBusy DEF IInv
  <2> QED BY <2>5, <2>8 DEF ClaimInv, PublishItem
<1> QED BY <1>1, <1>2, <1>3, <1>4, <1>5, <1>6, <1>7

LEMMA FinalizeKeeps ==
    ASSUME IInv, NEW e \in Env, Finalize(e)
    PROVE  HoldInv' /\ DisjointInv' /\ TargetInv' /\ LiveInv' /\ FreeInv' /\ ClaimInv' /\ LookupInv'
<1>0. ThreadTypes /\ TableTypes /\ InstanceTypes
  BY TypeParts DEF IInv
<1>a. /\ IsOwn(e, "published") /\ Live(target[e])
      /\ pc'[e] = "retire_check" /\ handle'[e] = handle[e] /\ target'[e] = target[e]
  BY <1>0, OwnIsLive DEF Finalize, Goto, IInv, TargetInv, IsOwn, Retiring, ThreadTypes
<1>b. \A f \in Env \ {e} : /\ pc'[f] = pc[f] /\ handle'[f] = handle[f]
                            /\ target'[f] = target[f]
  BY DEF Finalize, Goto
<1>c. ~Holds(e)
  BY DEF Finalize, Goto, Holds, HoldSteps, RetireSteps
<1>1. HoldInv'
  BY <1>a, <1>b DEF Finalize, IInv, HoldInv, LiveInv, IsOwn, Holds, tableVars
<1>2. DisjointInv'
  <2>1. \A f \in Env : Holds(f) => handle[f].slot # instances[target[e]].handle.slot
    BY <1>a, HeldIsNotLive DEF Live
  <2> QED BY <1>a, <1>b, <2>1 DEF IInv, DisjointInv, Holds, IsOwn
<1>3. TargetInv'
  BY DEF Finalize, Goto, IInv, TargetInv, IsOwn, PublishSteps
<1>4. LiveInv'
  <2>1. \A j \in 1 .. Len(instances) : Live(j)' => Live(j)
    BY DEF Finalize, Goto, Live, Retiring
  <2> QED BY <2>1 DEF Finalize, IInv, LiveInv, tableVars
<1>5. FreeInv'
  BY DEF Finalize, IInv, FreeInv, tableVars
<1>6. LookupInv'
  BY DEF Finalize, Goto, IInv, LookupInv, tableVars
<1>7. ClaimInv'
  <2>1. PICK s : s = instances[target[e]].handle.slot
    OBVIOUS
  <2>2. \A f \in Env : Holds(f) => Holds(f)' /\ handle'[f] = handle[f]
    BY <1>b, <1>c DEF Holds
  <2>3. \A j \in 1 .. Len(instances) : Live(j) /\ j # target[e] => Live(j)'
    BY <1>b DEF Finalize, Live, Retiring
  <2>4. \A t \in claimed \ {s} : Busy(t)'
    BY <2>1, <2>2, <2>3, StaysBusy DEF IInv, Finalize
  <2>5. Busy(s)'
    BY <1>a, <2>1 DEF Busy, Holds, HoldSteps, RetireSteps, IsOwn
  <2> QED BY <2>4, <2>5 DEF ClaimInv, Finalize, tableVars
<1> QED BY <1>1, <1>2, <1>3, <1>4, <1>5, <1>6, <1>7

LEMMA CleanupKeeps ==
    ASSUME IInv, NEW e \in Env, NEW i \in 1 .. Len(instances), Cleanup(e, i)
    PROVE  HoldInv' /\ DisjointInv' /\ TargetInv' /\ LiveInv' /\ FreeInv' /\ ClaimInv' /\ LookupInv'
<1>0. ThreadTypes /\ TableTypes /\ InstanceTypes
  BY TypeParts DEF IInv
<1>a. /\ instances[i].owner = e /\ Live(i)
      /\ pc'[e] = "retire_check" /\ handle'[e] = instances[i].handle /\ target'[e] = i
  BY <1>0, OwnIsLive DEF Cleanup, Goto, Retiring, ThreadTypes
<1>b. \A f \in Env \ {e} : /\ pc'[f] = pc[f] /\ handle'[f] = handle[f]
                            /\ target'[f] = target[f]
  BY DEF Cleanup, Goto
<1>c. ~Holds(e)
  BY DEF Cleanup, Goto, Holds, HoldSteps, RetireSteps
<1>1. HoldInv'
  BY <1>a, <1>b DEF Cleanup, IInv, HoldInv, LiveInv, Holds, tableVars, NoItem
<1>2. DisjointInv'
  <2>1. \A f \in Env : Holds(f) => handle[f].slot # instances[i].handle.slot
    BY <1>a, HeldIsNotLive
  <2> QED BY <1>a, <1>b, <2>1 DEF IInv, DisjointInv, Holds
<1>3. TargetInv'
  BY <1>0 DEF Cleanup, Goto, IInv, TargetInv, IsOwn, PublishSteps, ThreadTypes
<1>4. LiveInv'
  <2>1. \A j \in 1 .. Len(instances) : Live(j)' => Live(j)
    BY DEF Cleanup, Goto, Live, Retiring
  <2> QED BY <2>1 DEF Cleanup, IInv, LiveInv, tableVars
<1>5. FreeInv'
  BY DEF Cleanup, IInv, FreeInv, tableVars
<1>6. LookupInv'
  BY DEF Cleanup, Goto, IInv, LookupInv, tableVars
<1>7. ClaimInv'
  <2>1. PICK s : s = instances[i].handle.slot
    OBVIOUS
  <2>2. \A f \in Env : Holds(f) => Holds(f)' /\ handle'[f] = handle[f]
    BY <1>b, <1>c DEF Holds
  <2>3. \A j \in 1 .. Len(instances) : Live(j) /\ j # i => Live(j)'
    BY <1>a, <1>b DEF Cleanup, Live, Retiring
  <2>4. \A t \in claimed \ {s} : Busy(t)'
    BY <2>1, <2>2, <2>3, StaysBusy DEF IInv, Cleanup
  <2>5. Busy(s)'
    BY <1>a, <2>1 DEF Busy, Holds, HoldSteps, RetireSteps
  <2> QED BY <2>4, <2>5 DEF ClaimInv, Cleanup, tableVars
<1> QED BY <1>1, <1>2, <1>3, <1>4, <1>5, <1>6, <1>7

LEMMA RetireCheckKeeps ==
    ASSUME IInv, NEW e \in Env, RetireCheck(e)
    PROVE  HoldInv' /\ DisjointInv' /\ TargetInv' /\ LiveInv' /\ FreeInv' /\ ClaimInv' /\ LookupInv'
<1>0. ThreadTypes /\ TableTypes /\ InstanceTypes
  BY TypeParts DEF IInv
<1>1. HoldInv'
  BY DEF RetireCheck, Goto, IInv, HoldInv, Holds, HoldSteps, RetireSteps, tableVars
<1>2. DisjointInv'
  BY DEF RetireCheck, Goto, IInv, DisjointInv, Holds, HoldSteps, RetireSteps
<1>3. TargetInv'
  BY DEF RetireCheck, Goto, IInv, TargetInv, IsOwn, PublishSteps, RetireSteps
<1>4. LiveInv'
  BY DEF RetireCheck, Goto, IInv, LiveInv, Live, Retiring, tableVars
<1>5. FreeInv'
  BY DEF RetireCheck, IInv, FreeInv, tableVars
<1>6. LookupInv'
  BY DEF RetireCheck, Goto, IInv, LookupInv, tableVars
<1>7. ClaimInv'
  <2>1. \A f \in Env : Holds(f) => Holds(f)' /\ handle'[f].slot = handle[f].slot
    BY DEF RetireCheck, Goto, Holds, HoldSteps, RetireSteps
  <2>2. \A i \in 1 .. Len(instances) : Live(i) => Live(i)' /\ instances'[i].handle = instances[i].handle
    BY DEF RetireCheck, Goto, Live, Retiring
  <2>3. \A s \in claimed : Busy(s)'
    BY <2>1, <2>2, StaysBusy DEF IInv
  <2> QED BY <2>3 DEF RetireCheck, ClaimInv, tableVars
<1> QED BY <1>1, <1>2, <1>3, <1>4, <1>5, <1>6, <1>7

LEMMA RetireEnvKeeps ==
    ASSUME IInv, NEW e \in Env, RetireEnv(e)
    PROVE  HoldInv' /\ DisjointInv' /\ TargetInv' /\ LiveInv' /\ FreeInv' /\ ClaimInv' /\ LookupInv'
<1>0. ThreadTypes /\ TableTypes /\ InstanceTypes
  BY TypeParts DEF IInv
<1>1. HoldInv'
  BY <1>0 DEF RetireEnv, Goto, IInv, HoldInv, Holds, HoldSteps, RetireSteps,
     ThreadTypes, TableTypes
<1>2. DisjointInv'
  BY DEF RetireEnv, Goto, IInv, DisjointInv, Holds, HoldSteps, RetireSteps
<1>3. TargetInv'
  BY DEF RetireEnv, Goto, IInv, TargetInv, IsOwn, PublishSteps, RetireSteps
<1>4. LiveInv'
  BY DEF RetireEnv, Goto, IInv, LiveInv, HoldInv, Live, Retiring, Holds, HoldSteps,
     RetireSteps, ThreadTypes
<1>5. FreeInv'
  BY DEF RetireEnv, IInv, FreeInv
<1>6. LookupInv'
  BY EnvAssumption DEF RetireEnv, Goto, IInv, LookupInv, HoldInv, Holds, HoldSteps,
     RetireSteps
<1>7. ClaimInv'
  <2>1. \A f \in Env : Holds(f) => Holds(f)' /\ handle'[f].slot = handle[f].slot
    BY DEF RetireEnv, Goto, Holds, HoldSteps, RetireSteps
  <2>2. \A i \in 1 .. Len(instances) : Live(i) => Live(i)' /\ instances'[i].handle = instances[i].handle
    BY DEF RetireEnv, Goto, Live, Retiring
  <2>3. \A s \in claimed : Busy(s)'
    BY <2>1, <2>2, StaysBusy DEF IInv
  <2> QED BY <2>3 DEF RetireEnv, ClaimInv
<1> QED BY <1>1, <1>2, <1>3, <1>4, <1>5, <1>6, <1>7

LEMMA RetireItemKeeps ==
    ASSUME IInv, NEW e \in Env, RetireItem(e)
    PROVE  HoldInv' /\ DisjointInv' /\ TargetInv' /\ LiveInv' /\ FreeInv' /\ ClaimInv' /\ LookupInv'
<1>0. ThreadTypes /\ TableTypes /\ InstanceTypes
  BY TypeParts DEF IInv
<1>1. HoldInv'
  BY <1>0 DEF RetireItem, Goto, IInv, HoldInv, DisjointInv, Holds, HoldSteps,
     RetireSteps, ThreadTypes, TableTypes
<1>2. DisjointInv'
  BY DEF RetireItem, Goto, IInv, DisjointInv, Holds, HoldSteps, RetireSteps
<1>3. TargetInv'
  BY DEF RetireItem, Goto, IInv, TargetInv, IsOwn, PublishSteps, RetireSteps
<1>4. LiveInv'
  BY DEF RetireItem, Goto, IInv, LiveInv, HoldInv, Live, Retiring, Holds, HoldSteps,
     RetireSteps, ThreadTypes
<1>5. FreeInv'
  BY DEF RetireItem, IInv, FreeInv
<1>6. LookupInv'
  BY DEF RetireItem, Goto, IInv, LookupInv
<1>7. ClaimInv'
  <2>1. \A f \in Env : Holds(f) => Holds(f)' /\ handle'[f].slot = handle[f].slot
    BY DEF RetireItem, Goto, Holds, HoldSteps, RetireSteps
  <2>2. \A i \in 1 .. Len(instances) : Live(i) => Live(i)' /\ instances'[i].handle = instances[i].handle
    BY DEF RetireItem, Goto, Live, Retiring
  <2>3. \A s \in claimed : Busy(s)'
    BY <2>1, <2>2, StaysBusy DEF IInv
  <2> QED BY <2>3 DEF RetireItem, ClaimInv
<1> QED BY <1>1, <1>2, <1>3, <1>4, <1>5, <1>6, <1>7

LEMMA RetireBitKeeps ==
    ASSUME IInv, NEW e \in Env, RetireBit(e)
    PROVE  HoldInv' /\ DisjointInv' /\ TargetInv' /\ LiveInv' /\ FreeInv' /\ ClaimInv' /\ LookupInv'
<1>0. ThreadTypes /\ TableTypes /\ InstanceTypes
  BY TypeParts DEF IInv
<1>1. HoldInv'
  BY <1>0 DEF RetireBit, Goto, IInv, HoldInv, DisjointInv, Holds, HoldSteps,
     RetireSteps, ThreadTypes
<1>2. DisjointInv'
  BY DEF RetireBit, Goto, IInv, DisjointInv, Holds, HoldSteps, RetireSteps
<1>3. TargetInv'
  BY DEF RetireBit, Goto, IInv, TargetInv, IsOwn, PublishSteps, RetireSteps
<1>4. LiveInv'
  BY DEF RetireBit, Goto, IInv, LiveInv, HoldInv, Live, Retiring, Holds, HoldSteps,
     RetireSteps, NoItem
<1>5. FreeInv'
  <2>1. items[handle[e].slot] = NoItem /\ envs[handle[e].slot] = NoEnv
    BY DEF RetireBit, Goto, IInv, HoldInv, Holds, HoldSteps, RetireSteps
  <2> QED BY <2>1 DEF RetireBit, IInv, FreeInv
<1>6. LookupInv'
  BY DEF RetireBit, Goto, IInv, LookupInv
<1>7. ClaimInv'
  <2>1. \A f \in Env \ {e} : Holds(f) => Holds(f)' /\ handle'[f].slot = handle[f].slot
    BY DEF RetireBit, Goto, Holds
  <2>2. \A i \in 1 .. Len(instances) : Live(i) => Live(i)' /\ instances'[i].handle = instances[i].handle
    BY DEF RetireBit, Goto, Live, Retiring
  <2>3. \A s \in claimed' : Busy(s)'
    BY <2>1, <2>2, StaysBusy DEF RetireBit, IInv
  <2> QED BY <2>3 DEF ClaimInv
<1> QED BY <1>1, <1>2, <1>3, <1>4, <1>5, <1>6, <1>7

LEMMA FreeKeeps ==
    ASSUME IInv, NEW e \in Env, Free(e)
    PROVE  HoldInv' /\ DisjointInv' /\ TargetInv' /\ LiveInv' /\ FreeInv' /\ ClaimInv' /\ LookupInv'
<1>0. ThreadTypes /\ TableTypes /\ InstanceTypes
  BY TypeParts DEF IInv
<1>1. HoldInv'
  BY DEF Free, Return, Goto, IInv, HoldInv, Holds, HoldSteps, RetireSteps, tableVars
<1>2. DisjointInv'
  BY DEF Free, Return, Goto, IInv, DisjointInv, Holds, HoldSteps, RetireSteps
<1>3. TargetInv'
  BY <1>0 DEF Free, Return, Goto, IInv, TargetInv, IsOwn, PublishSteps, ThreadTypes
<1>4. LiveInv'
  BY DEF Free, Return, Goto, IInv, LiveInv, Live, Retiring, tableVars, NoItem
<1>5. FreeInv'
  BY DEF Free, IInv, FreeInv, tableVars
<1>6. LookupInv'
  BY DEF Free, Return, Goto, IInv, LookupInv, tableVars
<1>7. ClaimInv'
  <2>1. \A f \in Env : Holds(f) => Holds(f)' /\ handle'[f].slot = handle[f].slot
    BY DEF Free, Return, Goto, Holds, HoldSteps, RetireSteps
  <2>2. \A i \in 1 .. Len(instances) : Live(i) => Live(i)' /\ instances'[i].handle = instances[i].handle
    BY <1>0 DEF Free, Return, Goto, Live, Retiring, ThreadTypes
  <2>3. \A s \in claimed : Busy(s)'
    BY <2>1, <2>2, StaysBusy DEF IInv
  <2> QED BY <2>3 DEF Free, ClaimInv, tableVars
<1> QED BY <1>1, <1>2, <1>3, <1>4, <1>5, <1>6, <1>7

LEMMA HandleExtensionality ==
    ASSUME NEW h \in Handle, NEW k \in Handle, h.slot = k.slot, h.generation = k.generation
    PROVE  h = k
BY DEF Handle

(* What a thread finds in the slot of a handle that is its own, and that   *)
(* has still its generation, is nothing or the server of that handle.      *)
LEMMA ItemIsOwn ==
    ASSUME IInv, NEW e \in Env, pc[e] = "lookup_item",
           NEW i \in Item, items[handle[e].slot] = i
    PROVE  /\ i \in 1 .. Len(instances)
           /\ instances[i].owner = e /\ instances[i].handle = handle[e]
           /\ instances[i].stage = "published"
<1>0. ThreadTypes /\ TableTypes /\ InstanceTypes
  BY TypeParts DEF IInv
<1>1. handle[e] \in Handle /\ handle[e].slot \in Slot
  BY <1>0, HandleTypes DEF ThreadTypes
<1>2. /\ envs[handle[e].slot] = e
      /\ generations[handle[e].slot] = handle[e].generation
  BY DEF IInv, LookupInv
<1>3. handle[e].slot \in claimed
  BY <1>1, ConstantTypes DEF IInv, FreeInv
<1>4. \A f \in Env : Holds(f) => handle[f].slot # handle[e].slot
  BY <1>2, EnvAssumption DEF IInv, HoldInv
<1>5. PICK j \in 1 .. Len(instances) : Live(j) /\ instances[j].handle.slot = handle[e].slot
  BY <1>3, <1>4 DEF IInv, ClaimInv, Busy
<1>6. /\ items[handle[e].slot] = j /\ instances[j].owner = e
      /\ instances[j].handle.generation = handle[e].generation
  BY <1>2, <1>5 DEF IInv, LiveInv
<1>7. instances[j].handle = handle[e]
  <2>1. instances[j] \in Instance
    BY <1>0 DEF InstanceTypes
  <2>2. instances[j].handle \in Handle
    BY <2>1 DEF Instance
  <2> QED BY <1>1, <1>5, <1>6, <2>2, HandleExtensionality
<1> QED BY <1>5, <1>6, <1>7 DEF Live

LEMMA CreateKeeps ==
    ASSUME IInv, NEW e \in Env, Create(e)
    PROVE  HoldInv' /\ DisjointInv' /\ TargetInv' /\ LiveInv' /\ FreeInv' /\ ClaimInv' /\ LookupInv'
<1>0. ThreadTypes
  BY TypeParts DEF IInv
<1>1. HoldInv' /\ DisjointInv' /\ LiveInv' /\ FreeInv' /\ ClaimInv'
  BY LookingKeeps DEF Create, Goto, HoldSteps, RetireSteps
<1>2. TargetInv'
  BY DEF Create, Goto, IInv, TargetInv, IsOwn, PublishSteps
<1>3. LookupInv'
  BY DEF Create, Goto, IInv, LookupInv, tableVars
<1> QED BY <1>1, <1>2, <1>3

LEMMA ClaimExhaustedKeeps ==
    ASSUME IInv, NEW e \in Env, ClaimExhausted(e)
    PROVE  HoldInv' /\ DisjointInv' /\ TargetInv' /\ LiveInv' /\ FreeInv' /\ ClaimInv' /\ LookupInv'
<1>0. ThreadTypes
  BY TypeParts DEF IInv
<1>1. HoldInv' /\ DisjointInv' /\ LiveInv' /\ FreeInv' /\ ClaimInv'
  BY LookingKeeps DEF ClaimExhausted, Return, Goto, HoldSteps, RetireSteps
<1>2. TargetInv'
  BY DEF ClaimExhausted, Return, Goto, IInv, TargetInv, IsOwn, PublishSteps
<1>3. LookupInv'
  BY DEF ClaimExhausted, Return, Goto, IInv, LookupInv, tableVars
<1> QED BY <1>1, <1>2, <1>3

LEMMA ClaimRetriedKeeps ==
    ASSUME IInv, NEW e \in Env, ClaimRetried(e)
    PROVE  HoldInv' /\ DisjointInv' /\ TargetInv' /\ LiveInv' /\ FreeInv' /\ ClaimInv' /\ LookupInv'
<1>0. ThreadTypes
  BY TypeParts DEF IInv
<1>1. HoldInv' /\ DisjointInv' /\ LiveInv' /\ FreeInv' /\ ClaimInv'
  BY LookingKeeps DEF ClaimRetried, HoldSteps, RetireSteps
<1>2. TargetInv'
  BY DEF ClaimRetried, IInv, TargetInv, IsOwn
<1>3. LookupInv'
  BY DEF ClaimRetried, IInv, LookupInv, tableVars
<1> QED BY <1>1, <1>2, <1>3

LEMMA LookupKeeps ==
    ASSUME IInv, NEW e \in Env, NEW h \in Handle, Lookup(e, h)
    PROVE  HoldInv' /\ DisjointInv' /\ TargetInv' /\ LiveInv' /\ FreeInv' /\ ClaimInv' /\ LookupInv'
<1>0. ThreadTypes
  BY TypeParts DEF IInv
<1>1. HoldInv' /\ DisjointInv' /\ LiveInv' /\ FreeInv' /\ ClaimInv'
  BY LookingKeeps DEF Lookup, Goto, HoldSteps, RetireSteps
<1>2. TargetInv'
  BY DEF Lookup, Goto, IInv, TargetInv, IsOwn, PublishSteps
<1>3. LookupInv'
  BY <1>0 DEF Lookup, Goto, IInv, LookupInv, ThreadTypes, tableVars
<1> QED BY <1>1, <1>2, <1>3

LEMMA LookupEnvKeeps ==
    ASSUME IInv, NEW e \in Env, LookupEnv(e)
    PROVE  HoldInv' /\ DisjointInv' /\ TargetInv' /\ LiveInv' /\ FreeInv' /\ ClaimInv' /\ LookupInv'
<1>0. ThreadTypes
  BY TypeParts DEF IInv
<1>1. HoldInv' /\ DisjointInv' /\ LiveInv' /\ FreeInv' /\ ClaimInv'
  BY LookingKeeps DEF LookupEnv, Goto, HoldSteps, RetireSteps
<1>2. TargetInv'
  BY DEF LookupEnv, Goto, IInv, TargetInv, IsOwn, PublishSteps
<1>3. LookupInv'
  BY DEF LookupEnv, Goto, IInv, LookupInv, tableVars
<1> QED BY <1>1, <1>2, <1>3

LEMMA LookupRefusedKeeps ==
    ASSUME IInv, NEW e \in Env, LookupRefused(e)
    PROVE  HoldInv' /\ DisjointInv' /\ TargetInv' /\ LiveInv' /\ FreeInv' /\ ClaimInv' /\ LookupInv'
<1>0. ThreadTypes
  BY TypeParts DEF IInv
<1>1. HoldInv' /\ DisjointInv' /\ LiveInv' /\ FreeInv' /\ ClaimInv'
  BY LookingKeeps DEF LookupRefused, Return, Goto, HoldSteps, RetireSteps
<1>2. TargetInv'
  BY DEF LookupRefused, Return, Goto, IInv, TargetInv, IsOwn, PublishSteps
<1>3. LookupInv'
  BY <1>0 DEF LookupRefused, Return, Goto, IInv, LookupInv, ThreadTypes, tableVars
<1> QED BY <1>1, <1>2, <1>3

LEMMA LookupItemKeeps ==
    ASSUME IInv, NEW e \in Env, LookupItem(e)
    PROVE  HoldInv' /\ DisjointInv' /\ TargetInv' /\ LiveInv' /\ FreeInv' /\ ClaimInv' /\ LookupInv'
<1>0. ThreadTypes
  BY TypeParts DEF IInv
<1>1. HoldInv' /\ DisjointInv' /\ LiveInv' /\ FreeInv' /\ ClaimInv'
  BY LookingKeeps DEF LookupItem, Goto, HoldSteps, RetireSteps
<1>2. TargetInv'
  <2>1. items[handle[e].slot] \in Item \cup {NoItem}
    BY TypeParts, HandleTypes DEF IInv, ThreadTypes, TableTypes
  <2>2. target'[e] = items[handle[e].slot] /\ pc[e] = "lookup_item" /\ pc'[e] = "use"
    BY <1>0 DEF LookupItem, Goto, ThreadTypes
  <2>3. target'[e] # NoItem => IsOwn(e, "published")'
    BY <2>1, <2>2, ItemIsOwn DEF LookupItem, IsOwn
  <2>4. \A f \in Env \ {e} : pc'[f] = pc[f] /\ target'[f] = target[f]
    BY DEF LookupItem, Goto
  <2> QED BY <2>2, <2>3, <2>4 DEF LookupItem, IInv, TargetInv, IsOwn, PublishSteps
<1>3. LookupInv'
  BY DEF LookupItem, Goto, IInv, LookupInv, tableVars
<1> QED BY <1>1, <1>2, <1>3

LEMMA UseKeeps ==
    ASSUME IInv, NEW e \in Env, Use(e)
    PROVE  HoldInv' /\ DisjointInv' /\ TargetInv' /\ LiveInv' /\ FreeInv' /\ ClaimInv' /\ LookupInv'
<1>0. ThreadTypes
  BY TypeParts DEF IInv
<1>1. HoldInv' /\ DisjointInv' /\ LiveInv' /\ FreeInv' /\ ClaimInv'
  BY LookingKeeps DEF Use, Return, Goto, HoldSteps, RetireSteps
<1>2. TargetInv'
  BY <1>0 DEF Use, Return, Goto, IInv, TargetInv, IsOwn, PublishSteps, ThreadTypes
<1>3. LookupInv'
  BY DEF Use, Return, Goto, IInv, LookupInv, tableVars
<1> QED BY <1>1, <1>2, <1>3

-----------------------------------------------------------------------------
(* The invariant, and what it says.                                        *)

LEMMA InitKeeps == Init => IInv
<1> SUFFICES ASSUME Init PROVE IInv
  OBVIOUS
<1>1. \A e \in Env : pc[e] = "idle" /\ target[e] = NoItem
  BY DEF Init
<1>2. HoldInv /\ DisjointInv /\ TargetInv /\ LookupInv
  BY <1>1 DEF HoldInv, DisjointInv, TargetInv, LookupInv, Holds, HoldSteps, RetireSteps,
     PublishSteps
<1>3. LiveInv /\ FreeInv /\ ClaimInv
  BY DEF Init, LiveInv, Live, FreeInv, ClaimInv
<1> QED BY <1>2, <1>3, InitTypes DEF IInv

LEMMA StepKeeps == IInv /\ [Next]_vars => IInv'
<1> SUFFICES ASSUME IInv, [Next]_vars PROVE IInv'
  OBVIOUS
<1> DEFINE Kept == /\ HoldInv' /\ DisjointInv' /\ TargetInv' /\ LiveInv' /\ FreeInv'
                   /\ ClaimInv' /\ LookupInv'
<1>1. TypeOK'
  BY StepTypes DEF IInv
<1>2. CASE UNCHANGED vars
  <2> USE <1>2 DEF vars, tableVars, threadVars
  <2>1. \A e \in Env : Holds(e)' <=> Holds(e)
    BY DEF Holds
  <2>2. \A i \in 1 .. Len(instances) : Live(i)' <=> Live(i)
    BY DEF Live, Retiring
  <2>3. HoldInv' /\ DisjointInv'
    BY <2>1 DEF IInv, HoldInv, DisjointInv
  <2>4. TargetInv' /\ LookupInv'
    BY DEF IInv, TargetInv, LookupInv, IsOwn
  <2>5. LiveInv' /\ FreeInv'
    BY <2>2 DEF IInv, LiveInv, FreeInv
  <2>6. ClaimInv'
    <3>1. \A s \in claimed : Busy(s)'
      BY <2>1, <2>2, StaysBusy DEF IInv
    <3> QED BY <3>1 DEF ClaimInv
  <2> QED BY <1>1, <2>3, <2>4, <2>5, <2>6 DEF IInv
<1>3. ASSUME NEW e \in Env, CreateStep(e) PROVE Kept
  BY <1>3, CreateKeeps, ClaimExhaustedKeeps, ClaimKeeps, ClaimRetriedKeeps, BumpKeeps,
     BuildKeeps,
     BuildFailsKeeps, PublishEnvKeeps, PublishItemKeeps DEF CreateStep
<1>4. ASSUME NEW e \in Env, LookupStep(e), ~UNCHANGED vars PROVE Kept
  <2>1. issued \cup {NoHandle} \subseteq Handle
    BY TypeParts, ConstantTypes DEF IInv, InstanceTypes
  <2> QED BY <1>4, <2>1, LookupKeeps, LookupEnvKeeps, LookupRefusedKeeps,
             LookupItemKeeps, UseKeeps,
             FinalizeKeeps DEF LookupStep, LookupStale
<1>5. ASSUME NEW e \in Env, RetireStep(e) PROVE Kept
  BY <1>5, CleanupKeeps, RetireCheckKeeps, RetireEnvKeeps, RetireItemKeeps,
     RetireBitKeeps, FreeKeeps
     DEF RetireStep
<1>6. Kept \/ UNCHANGED vars
  BY <1>3, <1>4, <1>5 DEF Next
<1> QED BY <1>1, <1>2, <1>6 DEF IInv

(* What the threads rely on always holds, whatever the others do.          *)
THEOREM Invariant == Spec => []IInv
<1> QED BY InitKeeps, StepKeeps, PTL DEF Spec

(* Every variable keeps its type: no handle, no slot and no server number  *)
(* leaves its range, whatever the threads do (registry.zig:32-46).         *)
THEOREM TypeCorrect == Spec => []TypeOK
<1>1. IInv => TypeOK
  BY DEF IInv
<1> QED BY <1>1, Invariant, PTL

(* What a lookup returns is the caller's own server, alive and published   *)
(* under the handle that was asked for (registry.zig:81-88).               *)
THEOREM OwnAndAlive == Spec => []LookupIsOwnAndAlive
<1>1. ASSUME IInv, NEW e \in Env, pc[e] = "use", target[e] # NoItem
      PROVE  instances[target[e]] =
                 [owner |-> e, handle |-> handle[e], stage |-> "published"]
  <2>1. IsOwn(e, "published")
    BY <1>1 DEF IInv, TargetInv
  <2>2. instances \in Seq(Instance)
    BY <1>1, TypeParts DEF IInv, InstanceTypes
  <2>3. instances[target[e]] \in Instance
    BY <2>1, <2>2 DEF IsOwn
  <2> QED BY <2>1, <2>3 DEF IsOwn, Instance
<1>2. IInv => LookupIsOwnAndAlive
  BY <1>1 DEF LookupIsOwnAndAlive
<1> QED BY <1>2, Invariant, PTL

(* The engine thread of a server finds it in its slot until its own        *)
(* environment retires it (registry.zig:90-92).                            *)
THEOREM EngineFinds == Spec => []EngineFindsServer
<1>1. IInv => EngineFindsServer
  BY DEF IInv, LiveInv, Live, EngineFindsServer
<1> QED BY <1>1, Invariant, PTL

(* The claimed slots are those some thread holds and those of the servers  *)
(* that live, and no two threads hold the same one (registry.zig:56-69,    *)
(* 97-105).                                                                *)
THEOREM ClaimedProved == Spec => []ClaimedExact
<1>1. ASSUME IInv PROVE SlotIsHeld
  <2>1. \A e \in Env : HeldBy(e) = IF Holds(e) THEN {handle[e].slot} ELSE {}
    BY DEF HeldBy, Holds, HoldSteps, RetireSteps
  <2>2. ASSUME NEW e \in Env, NEW f \in Env \ {e} PROVE HeldBy(e) \cap HeldBy(f) = {}
    BY <1>1, <2>1 DEF IInv, DisjointInv
  <2>3. ASSUME NEW e \in Env, pc[e] = "retire_check"
        PROVE  generations[handle[e].slot] = handle[e].generation
    BY <1>1, <2>3 DEF IInv, HoldInv, Holds, HoldSteps, RetireSteps
  <2> QED BY <2>2, <2>3 DEF SlotIsHeld
<1>2. ASSUME IInv, NEW s
      PROVE  s \in claimed <=>
                 \/ \E e \in Env : s \in HeldBy(e)
                 \/ \E i \in 1 .. Len(instances) : Live(i) /\ s = instances[i].handle.slot
  <2>1. \A e \in Env : HeldBy(e) = IF Holds(e) THEN {handle[e].slot} ELSE {}
    BY DEF HeldBy, Holds, HoldSteps, RetireSteps
  <2> QED BY <1>2, <2>1 DEF IInv, HoldInv, LiveInv, ClaimInv, Busy
<1>3. ASSUME IInv
      PROVE  claimed = (UNION {HeldBy(e) : e \in Env})
                       \cup {instances[i].handle.slot :
                                i \in {j \in 1 .. Len(instances) : Live(j)}}
  <2> DEFINE Held == UNION {HeldBy(e) : e \in Env}
             Lived == {instances[i].handle.slot : i \in {j \in 1 .. Len(instances) : Live(j)}}
  <2>1. \A s : s \in Held <=> \E e \in Env : s \in HeldBy(e)
    OBVIOUS
  <2>2. \A s : s \in Lived <=>
            \E i \in 1 .. Len(instances) : Live(i) /\ s = instances[i].handle.slot
    OBVIOUS
  <2> SUFFICES claimed = Held \cup Lived
    OBVIOUS
  <2> HIDE DEF Held, Lived
  <2>3. \A s : s \in claimed <=> s \in Held \cup Lived
    BY <1>2, <1>3, <2>1, <2>2
  <2> QED BY <2>3
<1>4. \A i \in 1 .. Len(instances) :
          Live(i) <=> /\ instances[i].stage = "published"
                      /\ ~\E e \in Env : Retiring(e, i)
  BY DEF Live
<1>5. IInv => ClaimedExact
  BY <1>1, <1>3, <1>4, Zenon DEF ClaimedExact
<1> QED BY <1>5, Invariant, PTL
=============================================================================
