------------------------ MODULE RestrictedModeProofs ------------------------
(***************************************************************************)
(* Proofs about RestrictedMode, for any number of threads and any set of   *)
(* policies.  The inductive invariant says for each place of a critical    *)
(* section how far flag, storage and hook have got (Stages), and for each  *)
(* thread that is asking that it has seen the policy in force (Watched).   *)
(***************************************************************************)
EXTENDS RestrictedMode, TLAPS

(* What StorageFollowsMode promises between critical sections.             *)
Quiet ==
    /\ ~isActive => policy = Erased
    /\ hook => isActive /\ Protects(policy)

Stage(t) ==
    /\ pc[t] \in {"erasing", "storing", "installing", "arming"} => ~isActive
    /\ pc[t] \in {"unhooking", "clearing", "disarming"} => isActive
    /\ pc[t] \in {"erasing", "leaving"} => Quiet
    /\ pc[t] \in {"erasing", "storing", "installing", "clearing", "disarming"} => ~hook
    /\ pc[t] \in {"storing", "disarming"} => policy = Erased
    /\ pc[t] \in {"installing", "arming"} => policy = offered[t]
    /\ pc[t] = "arming" => (hook => Protects(policy))

Stages ==
    /\ lock = NoThread => Quiet
    /\ \A t \in Threads : Stage(t)

Watched ==
    \A t \in Threads : pc[t] \in {"loading", "asking"} => InForce \in seen[t]

Inv == TypeOK /\ Stages /\ Watched /\ AnswersAreCurrent

-----------------------------------------------------------------------------
LEMMA ErasedIsPolicy == Erased \in Policy
  BY DEF Erased, Policy

LEMMA NoQueryIsQuery == NoQuery \in Queries
  BY DEF NoQuery, Queries

LEMMA AnswerType ==
  ASSUME NEW p \in Policy, NEW q \in Queries
  PROVE  Answer(p, q) \in Watermarks \cup {"", "yes", "no"}
  BY DEF Answer, Policy, Queries, YesIf

LEMMA WitnessType ==
  ASSUME TypeOK, NEW p \in Policy, Witness(p)
  PROVE  seen' \in [Threads -> SUBSET Policy]
  BY DEF TypeOK, Witness

(* What each step does to types and lock.                                  *)
LEMMA TypeStep == TypeOK /\ [Next]_vars => TypeOK'
<1> SUFFICES ASSUME TypeOK, [Next]_vars PROVE TypeOK'
  OBVIOUS
<1> USE ErasedIsPolicy, NoQueryIsQuery, NoThreadAssumption, PoliciesAssumption
        DEF shared, asked
<1>1. ASSUME NEW t \in Threads, Asking(t) PROVE TypeOK'
  <2>1. CASE \E q \in Queries : Ask(t, q)
    <3>1. PICK q \in Queries : Ask(t, q)
      BY <2>1
    <3>2. InForce \in Policy
      BY DEF InForce, Governs, TypeOK
    <3>3. query' \in [Threads -> Queries] /\ seen' \in [Threads -> SUBSET Policy]
      BY <3>1, <3>2 DEF Ask, TypeOK
    <3> QED
      BY <3>1, <3>3 DEF Ask, Go, TypeOK, Places, Locked
  <2>2. CASE LoadInactive(t)
    BY <2>2, AnswerType DEF LoadInactive, Reply, Go, TypeOK, Places, Locked
  <2>3. CASE LoadActive(t)
    BY <2>3 DEF LoadActive, Go, TypeOK, Places, Locked
  <2>4. CASE ReadPolicy(t)
    BY <2>4, AnswerType DEF ReadPolicy, Reply, Go, TypeOK, Places, Locked
  <2>5. CASE Return(t)
    BY <2>5 DEF Return, Go, TypeOK, Places, Locked
  <2> QED
    BY <1>1, <2>1, <2>2, <2>3, <2>4, <2>5 DEF Asking
<1>2. ASSUME NEW t \in Threads, Switching(t) PROVE TypeOK'
  <2>1. CASE \E p \in Policies : CallActivate(t, p)
    BY <2>1 DEF CallActivate, Go, TypeOK, Places, Locked
  <2>2. CASE \E timely \in BOOLEAN : EnterActivate(t, timely)
    BY <2>2 DEF EnterActivate, Acquire, Go, TypeOK, Places, Locked
  <2>3. CASE Erase(t)
    <3>1. seen' \in [Threads -> SUBSET Policy]
      BY <2>3, WitnessType DEF Erase
    <3>2. pc' \in [Threads -> Places] /\ \A u \in Threads : pc'[u] \in Locked <=> lock' = u
      BY <2>3 DEF Erase, Go, TypeOK, Places, Locked
    <3> QED
      BY <2>3, <3>1, <3>2 DEF Erase, TypeOK
  <2>4. CASE Store(t)
    <3>1. offered[t] \in Policy /\ Governs(isActive, offered[t]) \in Policy
      BY DEF Governs, TypeOK
    <3>2. seen' \in [Threads -> SUBSET Policy]
      BY <2>4, <3>1, WitnessType DEF Store
    <3>3. pc' \in [Threads -> Places] /\ \A u \in Threads : pc'[u] \in Locked <=> lock' = u
      BY <2>4 DEF Store, Go, TypeOK, Places, Locked
    <3> QED
      BY <2>4, <3>1, <3>2, <3>3 DEF Store, TypeOK
  <2>5. CASE Install(t)
    BY <2>5 DEF Install, Go, TypeOK, Places, Locked
  <2>6. CASE Arm(t)
    <3>1. policy \in Policy
      BY DEF TypeOK
    <3>2. seen' \in [Threads -> SUBSET Policy]
      BY <2>6, <3>1, WitnessType DEF Arm
    <3>3. pc' \in [Threads -> Places] /\ \A u \in Threads : pc'[u] \in Locked <=> lock' = u
      BY <2>6 DEF Arm, Go, TypeOK, Places, Locked
    <3> QED
      BY <2>6, <3>1, <3>2, <3>3 DEF Arm, TypeOK
  <2>7. CASE CallDeactivate(t)
    BY <2>7 DEF CallDeactivate, Go, TypeOK, Places, Locked
  <2>8. CASE EnterDeactivate(t)
    BY <2>8 DEF EnterDeactivate, Acquire, Go, TypeOK, Places, Locked
  <2>9. CASE Unhook(t)
    BY <2>9 DEF Unhook, RemoveScreenProtection, Go, TypeOK, Places, Locked
  <2>10. CASE Clear(t)
    <3>1. seen' \in [Threads -> SUBSET Policy]
      BY <2>10, WitnessType DEF Clear
    <3>2. pc' \in [Threads -> Places] /\ \A u \in Threads : pc'[u] \in Locked <=> lock' = u
      BY <2>10 DEF Clear, Go, TypeOK, Places, Locked
    <3> QED
      BY <2>10, <3>1, <3>2 DEF Clear, TypeOK
  <2>11. CASE Disarm(t)
    <3>1. seen' \in [Threads -> SUBSET Policy]
      BY <2>11, WitnessType DEF Disarm
    <3>2. pc' \in [Threads -> Places] /\ \A u \in Threads : pc'[u] \in Locked <=> lock' = u
      BY <2>11 DEF Disarm, Go, TypeOK, Places, Locked
    <3> QED
      BY <2>11, <3>1, <3>2 DEF Disarm, TypeOK
  <2>12. CASE Leave(t)
    BY <2>12 DEF Leave, Go, TypeOK, Places, Locked
  <2> QED
    BY <1>2, <2>1, <2>2, <2>3, <2>4, <2>5, <2>6, <2>7, <2>8, <2>9, <2>10, <2>11,
       <2>12 DEF Switching
<1>3. ASSUME NEW t \in Threads, Pointing(t) PROVE TypeOK'
  <2>1. CASE CallGetCurrentPolicy(t)
    BY <2>1 DEF CallGetCurrentPolicy, TypeOK, Places, Locked
  <2>2. CASE GetCurrentPolicy(t)
    BY <2>2 DEF GetCurrentPolicy, Go, TypeOK, Places, Locked
  <2>3. CASE DropPointer(t)
    BY <2>3 DEF DropPointer, Go, TypeOK, Places, Locked
  <2> QED
    BY <1>3, <2>1, <2>2, <2>3 DEF Pointing
<1>4. CASE UNCHANGED vars
  BY <1>4 DEF vars, TypeOK
<1> QED
  BY <1>1, <1>2, <1>3, <1>4 DEF Next

-----------------------------------------------------------------------------
(* A thread outside of a critical section disturbs no stage; one inside is *)
(* the only one there, so that its own stage is all there is to show.      *)
LEMMA StageStep == TypeOK /\ Stages /\ [Next]_vars => Stages'
<1> SUFFICES ASSUME TypeOK, Stages, [Next]_vars PROVE Stages'
  OBVIOUS
<1> USE NoThreadAssumption DEF shared, asked
<1>0. /\ pc \in [Threads -> Places]
      /\ offered \in [Threads -> Policy]
      /\ \A u \in Threads : pc[u] \in Locked <=> lock = u
  BY DEF TypeOK
<1>1. ASSUME NEW t \in Threads, Asking(t) PROVE Stages'
  <2>1. UNCHANGED <<shared, offered>>
    BY <1>1 DEF Asking, Ask, LoadInactive, LoadActive, ReadPolicy, Return
  <2>2. /\ pc' = [pc EXCEPT ![t] = pc'[t]]
        /\ pc'[t] \notin Locked
    BY <1>0, <1>1 DEF Asking, Ask, LoadInactive, LoadActive, ReadPolicy, Return, Go, Locked
  <2> QED
    BY <1>0, <2>1, <2>2 DEF Stages, Stage, Quiet, Locked
<1>2. ASSUME NEW t \in Threads, Switching(t) PROVE Stages'
  <2>1. CASE \E p \in Policies : CallActivate(t, p)
    BY <1>0, <2>1 DEF CallActivate, Go, Stages, Stage, Quiet
  <2>2. CASE \E timely \in BOOLEAN : EnterActivate(t, timely)
    BY <1>0, <2>2 DEF EnterActivate, MayActivate, Acquire, Go, Stages, Stage, Quiet, Locked
  <2>3. CASE Erase(t)
    BY <1>0, <2>3 DEF Erase, Go, Stages, Stage, Quiet, Locked
  <2>4. CASE Store(t)
    BY <1>0, <2>4 DEF Store, Go, Stages, Stage, Quiet, Locked
  <2>5. CASE Install(t)
    BY <1>0, <2>5 DEF Install, Go, Stages, Stage, Quiet, Locked
  <2>6. CASE Arm(t)
    BY <1>0, <2>6 DEF Arm, Go, Stages, Stage, Quiet, Locked
  <2>7. CASE CallDeactivate(t)
    BY <1>0, <2>7 DEF CallDeactivate, Go, Stages, Stage, Quiet
  <2>8. CASE EnterDeactivate(t)
    BY <1>0, <2>8 DEF EnterDeactivate, Acquire, Go, Stages, Stage, Quiet, Locked
  <2>9. CASE Unhook(t)
    BY <1>0, <2>9 DEF Unhook, RemoveScreenProtection, Go, Stages, Stage, Quiet, Locked
  <2>10. CASE Clear(t)
    BY <1>0, <2>10 DEF Clear, Go, Stages, Stage, Quiet, Locked
  <2>11. CASE Disarm(t)
    BY <1>0, <2>11 DEF Disarm, Go, Stages, Stage, Quiet, Locked
  <2>12. CASE Leave(t)
    BY <1>0, <2>12 DEF Leave, Go, Stages, Stage, Quiet, Locked
  <2> QED
    BY <1>2, <2>1, <2>2, <2>3, <2>4, <2>5, <2>6, <2>7, <2>8, <2>9, <2>10, <2>11,
       <2>12 DEF Switching
<1>3. ASSUME NEW t \in Threads, Pointing(t) PROVE Stages'
  BY <1>0, <1>3 DEF Pointing, CallGetCurrentPolicy, GetCurrentPolicy, DropPointer, Go, Stages,
     Stage, Quiet, Locked
<1>4. CASE UNCHANGED vars
  BY <1>4 DEF vars, Stages, Stage, Quiet
<1> QED
  BY <1>1, <1>2, <1>3, <1>4 DEF Next

(* Whoever brings a policy into force shows it to those who are asking.    *)
LEMMA WatchedStep ==
  TypeOK /\ Stages /\ Watched /\ AnswersAreCurrent /\ [Next]_vars
     => Watched' /\ AnswersAreCurrent'
<1> SUFFICES ASSUME TypeOK, Stages, Watched, AnswersAreCurrent, [Next]_vars
             PROVE  Watched' /\ AnswersAreCurrent'
  OBVIOUS
<1> USE NoThreadAssumption DEF shared, asked
<1>1. ASSUME NEW t \in Threads, Asking(t) PROVE Watched' /\ AnswersAreCurrent'
  <2>1. CASE \E q \in Queries : Ask(t, q)
    <3>1. PICK q \in Queries : Ask(t, q)
      BY <2>1
    <3>2. Watched'
      BY <3>1 DEF Ask, Go, InForce, Governs, Watched, TypeOK
    <3>3. AnswersAreCurrent'
      BY <3>1 DEF Ask, Go, AnswersAreCurrent, TypeOK
    <3> QED
      BY <3>2, <3>3
  <2>2. CASE LoadInactive(t)
    BY <2>2 DEF LoadInactive, Reply, Go, InForce, Governs, Watched, AnswersAreCurrent, TypeOK
  <2>3. CASE LoadActive(t)
    BY <2>3 DEF LoadActive, Go, InForce, Governs, Watched, AnswersAreCurrent, TypeOK
  <2>4. CASE ReadPolicy(t)
    <3>1. policy = InForce
      BY <2>4 DEF ReadPolicy, Stages, Quiet, InForce, Governs
    <3>2. policy \in seen[t]
      BY <2>4, <3>1 DEF ReadPolicy, Go, Watched
    <3>3. Watched'
      BY <2>4 DEF ReadPolicy, Go, InForce, Governs, Watched, TypeOK
    <3>4. ASSUME NEW u \in Threads, pc'[u] = "answered"
          PROVE  \E p \in seen[u] : answer'[u] = Answer(p, query[u])
      <4>1. CASE u = t
        BY <2>4, <3>2, <4>1 DEF ReadPolicy, Reply, TypeOK
      <4>2. CASE u # t
        BY <2>4, <3>4, <4>2 DEF ReadPolicy, Reply, Go, AnswersAreCurrent, TypeOK
      <4> QED
        BY <4>1, <4>2
    <3> QED
      BY <2>4, <3>3, <3>4 DEF ReadPolicy, AnswersAreCurrent
  <2>5. CASE Return(t)
    BY <2>5 DEF Return, Go, InForce, Governs, Watched, AnswersAreCurrent, TypeOK
  <2> QED
    BY <1>1, <2>1, <2>2, <2>3, <2>4, <2>5 DEF Asking
<1>2. ASSUME NEW t \in Threads, Switching(t) PROVE Watched' /\ AnswersAreCurrent'
  <2>1. ASSUME UNCHANGED <<isActive, policy, seen, asked>>,
               pc' = [pc EXCEPT ![t] = pc'[t]],
               pc'[t] \notin {"loading", "asking", "answered"}
        PROVE  Watched' /\ AnswersAreCurrent'
    BY <2>1 DEF Watched, AnswersAreCurrent, InForce, Governs, TypeOK
  <2>2. ASSUME NEW p, Witness(p), InForce' = p, UNCHANGED asked,
               pc' = [pc EXCEPT ![t] = pc'[t]],
               pc[t] \notin {"loading", "asking", "answered"},
               pc'[t] \notin {"loading", "asking", "answered"}
        PROVE  Watched' /\ AnswersAreCurrent'
    BY <2>2 DEF Witness, Watched, AnswersAreCurrent, TypeOK
  <2>3. CASE \E p \in Policies : CallActivate(t, p)
    BY <2>1, <2>3 DEF CallActivate, Go, TypeOK
  <2>4. CASE \E timely \in BOOLEAN : EnterActivate(t, timely)
    BY <2>1, <2>4 DEF EnterActivate, Go, TypeOK
  <2>5. CASE Erase(t)
    BY <2>2, <2>5 DEF Erase, Go, InForce, Governs, TypeOK
  <2>6. CASE Store(t)
    BY <2>2, <2>6 DEF Store, Go, InForce, Governs, TypeOK
  <2>7. CASE Install(t)
    BY <2>1, <2>7 DEF Install, Go, TypeOK
  <2>8. CASE Arm(t)
    BY <2>2, <2>8 DEF Arm, Go, InForce, Governs, TypeOK
  <2>9. CASE CallDeactivate(t)
    BY <2>1, <2>9 DEF CallDeactivate, Go, TypeOK
  <2>10. CASE EnterDeactivate(t)
    BY <2>1, <2>10 DEF EnterDeactivate, Go, TypeOK
  <2>11. CASE Unhook(t)
    BY <2>1, <2>11 DEF Unhook, Go, TypeOK
  <2>12. CASE Clear(t)
    BY <2>2, <2>12 DEF Clear, Go, InForce, Governs, TypeOK
  <2>13. CASE Disarm(t)
    BY <2>2, <2>13 DEF Disarm, Go, InForce, Governs, TypeOK
  <2>14. CASE Leave(t)
    BY <2>1, <2>14 DEF Leave, Go, TypeOK
  <2> QED
    BY <1>2, <2>3, <2>4, <2>5, <2>6, <2>7, <2>8, <2>9, <2>10, <2>11, <2>12, <2>13,
       <2>14 DEF Switching
<1>3. ASSUME NEW t \in Threads, Pointing(t) PROVE Watched' /\ AnswersAreCurrent'
  <2>1. /\ UNCHANGED <<isActive, policy, seen, asked>>
        /\ pc \in [Threads -> Places]
        /\ \E place \in Places : /\ pc' = [pc EXCEPT ![t] = place]
                                 /\ place \notin {"loading", "asking", "answered"}
    BY <1>3 DEF Pointing, CallGetCurrentPolicy, GetCurrentPolicy, DropPointer, Go, TypeOK,
       Places
  <2> QED
    BY <2>1 DEF InForce, Governs, Watched, AnswersAreCurrent
<1>4. CASE UNCHANGED vars
  BY <1>4 DEF vars, InForce, Governs, Watched, AnswersAreCurrent
<1> QED
  BY <1>1, <1>2, <1>3, <1>4 DEF Next

-----------------------------------------------------------------------------
LEMMA Initially == Init => Inv
<1> SUFFICES ASSUME Init PROVE Inv
  OBVIOUS
<1>1. TypeOK
  BY ErasedIsPolicy, NoQueryIsQuery, NoThreadAssumption DEF Init, TypeOK, Places, Locked
<1>2. Stages
  BY DEF Init, Stages, Stage, Quiet
<1>3. Watched /\ AnswersAreCurrent
  BY DEF Init, Watched, AnswersAreCurrent
<1> QED
  BY <1>1, <1>2, <1>3 DEF Inv

LEMMA Invariance == Spec => []Inv
<1>1. Inv /\ [Next]_vars => Inv'
  BY TypeStep, StageStep, WatchedStep DEF Inv
<1> QED
  BY <1>1, Initially, PTL DEF Spec

(* Types, and one thread at most in the critical sections of the four      *)
(* operations that take g_policyMutex.                                     *)
THEOREM TypeCorrect == Spec => []TypeOK
<1>1. Inv => TypeOK
  BY DEF Inv
<1> QED
  BY <1>1, Invariance, PTL

(* However calls interleave, an answer is one that a policy in force since *)
(* the call gives, or that of the inactive mode if it was inactive.        *)
THEOREM AnswersCurrent == Spec => []AnswersAreCurrent
<1>1. Inv => AnswersAreCurrent
  BY DEF Inv
<1> QED
  BY <1>1, Invariance, PTL

(* Outside of critical sections storage, hook and flag go together.        *)
THEOREM StorageFollows == Spec => []StorageFollowsMode
<1>1. Inv => StorageFollowsMode
  BY DEF Inv, Stages, Quiet, StorageFollowsMode
<1> QED
  BY <1>1, Invariance, PTL

(* A policy in force is replaced by no other before it is deactivated.     *)
THEOREM NotReplaced == Spec => PolicyIsNotReplaced
<1>1. Inv /\ [Next]_vars
         => [isActive /\ policy' # policy => \E t \in Threads : pc[t] = "clearing"]_vars
  <2> SUFFICES ASSUME Inv, Next, isActive, policy' # policy
               PROVE  \E t \in Threads : pc[t] = "clearing"
    BY DEF vars
  <2>1. PICK t \in Threads : Asking(t) \/ Switching(t) \/ Pointing(t)
    BY DEF Next
  <2>2. Erase(t) \/ Store(t) \/ Clear(t)
    BY <2>1 DEF Asking, Switching, Pointing, Ask, LoadInactive, LoadActive, ReadPolicy,
       Return, CallActivate, EnterActivate, Install, Arm, CallDeactivate, EnterDeactivate,
       Unhook, Disarm, Leave, CallGetCurrentPolicy, GetCurrentPolicy, DropPointer, shared
  <2>3. ~Erase(t) /\ ~Store(t)
    BY DEF Inv, Stages, Stage, Erase, Store, Go
  <2> QED
    BY <2>2, <2>3 DEF Clear, Go
<1> QED
  BY <1>1, Invariance, PTL DEF Spec, PolicyIsNotReplaced
=============================================================================
