---------------------------- MODULE RestrictedMode ----------------------------
(***************************************************************************)
(* The restricted mode (GViewCore/src/Security/RestrictedMode.cpp): a      *)
(* policy stored under a mutex and an atomic flag that queries read before *)
(* they take the mutex.  Any number of threads activate, deactivate and    *)
(* ask; what happens between two accesses to shared state is one step.     *)
(***************************************************************************)
EXTENDS Integers

CONSTANTS
    Threads,
    Features,       \* features a policy may disable
    Plugins,
    Watermarks,
    Policies,       \* the policies that may be activated
    NoThread

Policy == [disabledFeatures : SUBSET Features, allowedPlugins : SUBSET Plugins,
           watermark : Watermarks \cup {""}, bestEffortScreenProtect : BOOLEAN]
Queries == [op : {"feature"}, arg : Features] \cup [op : {"plugin"}, arg : Plugins]
               \cup [op : {"watermark"}, arg : {""}]

(* Policy{}, which is what Clear leaves in the storage.                    *)
Erased == [disabledFeatures |-> {}, allowedPlugins |-> {}, watermark |-> "",
           bestEffortScreenProtect |-> TRUE]
NoQuery == [op |-> "watermark", arg |-> ""]

ASSUME NoThreadAssumption == NoThread \notin Threads
ASSUME PoliciesAssumption == Policies \subseteq Policy

VARIABLES
    isActive,   \* g_isActive
    policy,     \* g_policyStorage.policy
    hook,       \* g_keyboardHook is installed
    lock,       \* the thread that holds g_policyMutex, or NoThread
    pc,         \* where each thread is, "idle" outside of this component
    query,      \* what each thread has asked last
    offered,    \* the policy each thread has passed to Activate last
    answer,     \* what the last query of each thread returned
    held,       \* the policy behind the pointer GetCurrentPolicy gave
    seen        \* history: policies in force since each thread's question

vars == <<isActive, policy, hook, lock, pc, query, offered, answer, held, seen>>
shared == <<isActive, policy, hook, lock>>
asked == <<query, answer>>

(* What the policy says, asked as IsFeatureDisabled, IsPluginAllowed and   *)
(* GetWatermark ask.  The answers of the inactive mode are those of the    *)
(* erased policy.                                                          *)
YesIf(b) == IF b THEN "yes" ELSE "no"
Answer(p, q) ==
    CASE q.op = "feature" -> YesIf(q.arg \in p.disabledFeatures)
      [] q.op = "plugin" ->
            YesIf("Plugins" \notin p.disabledFeatures \/ q.arg \in p.allowedPlugins)
      [] q.op = "watermark" -> p.watermark

Protects(p) == "Screenshots" \in p.disabledFeatures /\ p.bestEffortScreenProtect

Governs(active, p) == IF active THEN p ELSE Erased
InForce == Governs(isActive, policy)

-----------------------------------------------------------------------------
Init ==
    /\ isActive = FALSE
    /\ policy = Erased
    /\ hook = FALSE
    /\ lock = NoThread
    /\ pc = [t \in Threads |-> "idle"]
    /\ query = [t \in Threads |-> NoQuery]
    /\ offered = [t \in Threads |-> Erased]
    /\ answer = [t \in Threads |-> ""]
    /\ held = [t \in Threads |-> Erased]
    /\ seen = [t \in Threads |-> {Erased}]

Go(t, from, to) ==
    /\ pc[t] = from
    /\ pc' = [pc EXCEPT ![t] = to]

(* Those who are asking see policy p come into force.                      *)
Witness(p) ==
    seen' = [t \in Threads |-> IF pc[t] \in {"loading", "asking"}
                               THEN seen[t] \cup {p} ELSE seen[t]]

(* std::lock_guard: taken first, given back on every way out.              *)
AcquireAlways(t) == lock' = t
Acquire(t) == lock = NoThread /\ lock' = t
Leave(t) ==
    /\ Go(t, "leaving", "idle")
    /\ lock' = NoThread
    /\ offered' = [offered EXCEPT ![t] = Erased]
    /\ UNCHANGED <<isActive, policy, hook, asked, held, seen>>

-----------------------------------------------------------------------------
(* IsFeatureDisabled, IsPluginAllowed, GetWatermark.                       *)
Ask(t, q) ==
    /\ Go(t, "idle", "loading")
    /\ query' = [query EXCEPT ![t] = q]
    /\ seen' = [seen EXCEPT ![t] = {InForce}]
    /\ UNCHANGED <<shared, offered, answer, held>>

Reply(t, p) == answer' = [answer EXCEPT ![t] = Answer(p, query[t])]

LoadInactive(t) ==
    /\ ~isActive
    /\ Go(t, "loading", "answered")
    /\ Reply(t, Erased)
    /\ UNCHANGED <<shared, query, offered, held, seen>>

LoadActive(t) ==
    /\ isActive
    /\ Go(t, "loading", "asking")
    /\ UNCHANGED <<shared, asked, offered, held, seen>>

(* Nothing else can be seen between the lock and the unlock of a reader.   *)
ReadPolicyUnlocked(t) ==
    /\ Go(t, "asking", "answered")
    /\ Reply(t, policy)
    /\ UNCHANGED <<shared, query, offered, held, seen>>
ReadPolicy(t) ==
    /\ lock = NoThread
    /\ Go(t, "asking", "answered")
    /\ Reply(t, policy)
    /\ UNCHANGED <<shared, query, offered, held, seen>>

(* The caller has its answer; the local state of the call goes.            *)
Return(t) ==
    /\ Go(t, "answered", "idle")
    /\ query' = [query EXCEPT ![t] = NoQuery]
    /\ answer' = [answer EXCEPT ![t] = ""]
    /\ seen' = [seen EXCEPT ![t] = {Erased}]
    /\ UNCHANGED <<shared, offered, held>>

-----------------------------------------------------------------------------
(* Activate.  The policy may be refused for its time window.               *)
CallActivate(t, p) ==
    /\ Go(t, "idle", "activating")
    /\ offered' = [offered EXCEPT ![t] = p]
    /\ UNCHANGED <<shared, asked, held, seen>>

MayActivateTwice(timely) == timely
MayActivate(timely) == ~isActive /\ timely

EnterActivate(t, timely) ==
    /\ Acquire(t)
    /\ Go(t, "activating", IF MayActivate(timely) THEN "erasing" ELSE "leaving")
    /\ UNCHANGED <<isActive, policy, hook, asked, offered, held, seen>>

Erase(t) ==
    /\ Go(t, "erasing", "storing")
    /\ policy' = Erased
    /\ Witness(Erased)
    /\ UNCHANGED <<isActive, hook, lock, asked, offered, held>>

Store(t) ==
    /\ Go(t, "storing", "installing")
    /\ policy' = offered[t]
    /\ Witness(Governs(isActive, offered[t]))
    /\ UNCHANGED <<isActive, hook, lock, asked, offered, held>>

(* InstallScreenProtection, whose failure is not looked at.                *)
Install(t) ==
    /\ Go(t, "installing", "arming")
    /\ \/ Protects(offered[t]) /\ hook' = TRUE
       \/ UNCHANGED hook
    /\ UNCHANGED <<isActive, policy, lock, asked, offered, held, seen>>

Arm(t) ==
    /\ Go(t, "arming", "leaving")
    /\ isActive' = TRUE
    /\ Witness(policy)
    /\ UNCHANGED <<policy, hook, lock, asked, offered, held>>

-----------------------------------------------------------------------------
(* Deactivate.                                                             *)
CallDeactivate(t) ==
    /\ Go(t, "idle", "deactivating")
    /\ UNCHANGED <<shared, asked, offered, held, seen>>

EnterDeactivate(t) ==
    /\ Acquire(t)
    /\ Go(t, "deactivating", IF isActive THEN "unhooking" ELSE "leaving")
    /\ UNCHANGED <<isActive, policy, hook, asked, offered, held, seen>>

KeepHook == UNCHANGED hook
RemoveScreenProtection == hook' = FALSE

Unhook(t) ==
    /\ Go(t, "unhooking", "clearing")
    /\ RemoveScreenProtection
    /\ UNCHANGED <<isActive, policy, lock, asked, offered, held, seen>>

Clear(t) ==
    /\ Go(t, "clearing", "disarming")
    /\ policy' = Erased
    /\ Witness(Erased)
    /\ UNCHANGED <<isActive, hook, lock, asked, offered, held>>

Disarm(t) ==
    /\ Go(t, "disarming", "leaving")
    /\ isActive' = FALSE
    /\ Witness(Erased)
    /\ UNCHANGED <<policy, hook, lock, asked, offered, held>>

-----------------------------------------------------------------------------
(* GetCurrentPolicy: the lock is given back before the pointer is used.    *)
CallGetCurrentPolicy(t) ==
    /\ pc[t] = "idle"
    /\ pc' = [pc EXCEPT ![t] = IF isActive THEN "pointing" ELSE "idle"]
    /\ UNCHANGED <<shared, asked, offered, held, seen>>

GetCurrentPolicy(t) ==
    /\ lock = NoThread
    /\ Go(t, "pointing", "holding")
    /\ held' = [held EXCEPT ![t] = policy]
    /\ UNCHANGED <<shared, asked, offered, seen>>

DropPointer(t) ==
    /\ Go(t, "holding", "idle")
    /\ held' = [held EXCEPT ![t] = Erased]
    /\ UNCHANGED <<shared, asked, offered, seen>>

-----------------------------------------------------------------------------
Asking(t) ==
    \/ \E q \in Queries : Ask(t, q)
    \/ LoadInactive(t)
    \/ LoadActive(t)
    \/ ReadPolicy(t)
    \/ Return(t)

Switching(t) ==
    \/ \E p \in Policies : CallActivate(t, p)
    \/ \E timely \in BOOLEAN : EnterActivate(t, timely)
    \/ Erase(t)
    \/ Store(t)
    \/ Install(t)
    \/ Arm(t)
    \/ CallDeactivate(t)
    \/ EnterDeactivate(t)
    \/ Unhook(t)
    \/ Clear(t)
    \/ Disarm(t)
    \/ Leave(t)

Pointing(t) ==
    \/ CallGetCurrentPolicy(t)
    \/ GetCurrentPolicy(t)
    \/ DropPointer(t)

Next == \E t \in Threads : Asking(t) \/ Switching(t) \/ Pointing(t)

Spec == Init /\ [][Next]_vars

-----------------------------------------------------------------------------
Places == {"idle", "loading", "asking", "answered", "activating", "erasing", "storing", "installing",
           "arming", "deactivating", "unhooking", "clearing", "disarming", "leaving",
           "pointing", "holding"}
Locked == {"erasing", "storing", "installing", "arming", "unhooking", "clearing",
           "disarming", "leaving"}

(* Types, and the lock is held by exactly the thread in a critical section.*)
TypeOK ==
    /\ isActive \in BOOLEAN
    /\ policy \in Policy
    /\ hook \in BOOLEAN
    /\ lock \in Threads \cup {NoThread}
    /\ pc \in [Threads -> Places]
    /\ query \in [Threads -> Queries]
    /\ answer \in [Threads -> Watermarks \cup {"", "yes", "no"}]
    /\ offered \in [Threads -> Policy]
    /\ held \in [Threads -> Policy]
    /\ seen \in [Threads -> SUBSET Policy]
    /\ \A t \in Threads : pc[t] \in Locked <=> lock = t

(* Every answer is the one the policy in force at some moment between the  *)
(* call and the return gives, although the flag is read before the lock is *)
(* taken and the mode may end, and another begin, in between.              *)
AnswersAreCurrent ==
    \A t \in Threads : pc[t] = "answered" =>
        \E p \in seen[t] : answer[t] = Answer(p, query[t])

(* Between critical sections the storage goes with the mode: an inactive   *)
(* mode keeps no policy, and the screen is protected only for a policy in  *)
(* force that asks for it.                                                 *)
StorageFollowsMode ==
    lock = NoThread => /\ ~isActive => policy = Erased
                       /\ hook => isActive /\ Protects(policy)

(* While the mode is active the policy changes only by Deactivate: of two  *)
(* threads that activate one gets the mode, the other an error.            *)
PolicyIsNotReplaced ==
    [][isActive /\ policy' # policy => \E t \in Threads : pc[t] = "clearing"]_vars

(* "Thread-safe global state": the policy a caller has got from            *)
(* GetCurrentPolicy is the one it reads through the pointer.               *)
PointerStaysGood == \A t \in Threads : pc[t] = "holding" => policy = held[t]
===============================================================================
