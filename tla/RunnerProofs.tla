---------------------------- MODULE RunnerProofs ----------------------------
(***************************************************************************)
(* Proofs about Runner, for every set of calls and every bound: its types, *)
(* one open session of a host, fresh capabilities, honest mutations.       *)
(***************************************************************************)
EXTENDS Runner, FiniteSetTheorems, WellFoundedInduction, TLAPS

-----------------------------------------------------------------------------
(* The inductive invariant *)

(* Where a call has the initializer lock, and where it has a lease. *)
Locked == {"resolve", "cache", "probe", "told", "follow", "tools", "session", "connect"}
Leasing == {"send", "remote", "capture", "forwarding", "leave", "unslot"}

LockHeld == \A c \in Call : holder = c <=> pc[c] \in Locked
LeaseHeld == \A c \in Call : lease[c] # None <=> pc[c] \in Leasing

(* The count of a slot is the number of the calls that have yet to drop it. *)
Holders(s) == {c \in Call : lease[c] = s /\ pc[c] # "unslot"}
Counted ==
  \A s \in Session : IsFiniteSet(Holders(s)) /\ leases[s] = Cardinality(Holders(s))

(* Nobody connects while a session is open, and what a slot or a lease     *)
(* refers to is there.                                                     *)
Pooled ==
  /\ \A s \in Session : session[s] # "retired" /\ (session[s] = "open" => s \in pool)
  /\ \A s, t \in Session : session[s] = "open" /\ session[t] = "open" => s = t
  /\ \A c \in Call : pc[c] = "connect" => \A s \in Session : session[s] # "open"
  /\ \A s \in pool : session[s] # "none"
  /\ \A c \in Call : lease[c] # None => session[lease[c]] # "none"

(* Probes are started in the order of their numbers. *)
Begun == {p \in Probe : state[p] # "unused"}
Probing == {"probe", "told", "follow", "tools", "session", "connect"}

ProbesInOrder ==
  /\ Begun = 1 .. NextProbe - 1
  /\ old < NextProbe
  /\ entry # None => entry \in Begun /\ entry > old
  /\ flight # None => flight \in Begun /\ flight > old
  /\ \A c \in Call : began[c] <= old
  /\ \A c \in Call : pc[c] \in Probing => used[c] \in Begun /\ used[c] > began[c]

(* What a mutation knows of itself, wherever it is. *)
MutationKnows(c) ==
  /\ pc[c] # "forwarding"
  /\ pc[c] \in Locked \cup {"lock", "send"} => result[c] = "none" /\ did[c] = "no"
  /\ pc[c] = "remote" => result[c] = "none"
  /\ pc[c] = "capture" => result[c] = "none" /\ did[c] # "no"
  /\ pc[c] = "mismatch" => result[c] = "none"
  /\ pc[c] \in {"leave", "unslot", "mismatch", "done"} =>
       /\ result[c] = "ok" => did[c] = "done"
       /\ result[c] \in {"error", "missing", "none"} => did[c] # "done"

MutationsKnow == \A c \in Call : kind[c] = "mutation" => MutationKnows(c)

IInv ==
  TypeOK /\ LockHeld /\ LeaseHeld /\ Counted /\ Pooled /\ ProbesInOrder /\ MutationsKnow

-----------------------------------------------------------------------------
(* Counting probes and leases *)

LEMMA Bounds ==
  /\ Probes \in Nat \ {0} /\ Sessions \in Nat \ {0} /\ None = 0 /\ None \notin Call
  /\ \A p \in Probe : p \in Nat /\ p # None
  /\ \A n \in 0 .. Probes : n \in Nat /\ (n = None \/ n \in Probe)
<1>1. Probes \in Nat \ {0} /\ Sessions \in Nat \ {0} /\ None \notin Call
  BY RunnerAssumption DEF RunnerAssumption
<1> QED
  BY <1>1 DEF None, Probe

(* NextProbe numbers the probes without gaps: when the first n are begun,  *)
(* the next is n + 1.                                                      *)
LEMMA BegunCounted ==
  ASSUME NEW n \in Nat, Begun = 1 .. n
  PROVE  NextProbe = n + 1
<1>1. Cardinality(1 .. n) = n
  BY FS_Interval
<1>2. NextProbe = 1 + Cardinality(Begun)
  BY DEF NextProbe, Begun
<1> QED
  BY <1>1, <1>2

(* The probes that are begun are an initial segment of Probe. *)
LEMMA BegunSegment ==
  ASSUME ProbesInOrder
  PROVE  \E n \in 0 .. Probes : NextProbe = n + 1 /\ Begun = 1 .. n
<1>1. IsFiniteSet(Probe) /\ Cardinality(Probe) = Probes
  BY RunnerAssumption, FS_Interval DEF RunnerAssumption, Probe
<1>2. Begun \in SUBSET Probe
  BY DEF Begun
<1>3. IsFiniteSet(Begun) /\ Cardinality(Begun) <= Probes
  BY <1>1, <1>2, FS_Subset
<1>4. Cardinality(Begun) \in Nat
  BY <1>3, FS_CardinalityType
<1>5. NextProbe = Cardinality(Begun) + 1
  BY <1>4 DEF NextProbe, Begun
<1> QED
  BY <1>3, <1>4, <1>5, RunnerAssumption DEF ProbesInOrder, RunnerAssumption

(* A slot that a call has yet to drop is counted at least once. *)
LEMMA HolderCounted ==
  ASSUME TypeOK, Counted, NEW c \in Call, lease[c] \in Session, pc[c] # "unslot"
  PROVE  leases[lease[c]] >= 1
<1>1. c \in Holders(lease[c])
  BY DEF Holders
<1>2. IsFiniteSet(Holders(lease[c])) /\ leases[lease[c]] = Cardinality(Holders(lease[c]))
  BY DEF Counted
<1>3. Cardinality(Holders(lease[c])) # 0 /\ Cardinality(Holders(lease[c])) \in Nat
  BY <1>1, <1>2, FS_EmptySet, FS_CardinalityType
<1> QED
  BY <1>2, <1>3

-----------------------------------------------------------------------------
(* Types *)

LEMMA InitIInv == Init => IInv
<1> SUFFICES ASSUME Init PROVE IInv
  OBVIOUS
<1>1. TypeOK
  BY RunnerAssumption DEF Init, TypeOK, Result, None
<1>2. LockHeld /\ LeaseHeld
  BY RunnerAssumption DEF Init, LockHeld, LeaseHeld, Locked, Leasing,
     RunnerAssumption
<1>3. Counted
  <2>1. \A s \in Session : Holders(s) = {} /\ leases[s] = 0
    BY DEF Init, Holders, Session, None
  <2> QED
    BY <2>1, FS_EmptySet DEF Counted
<1>4. Pooled
  BY DEF Init, Pooled
<1>5. ProbesInOrder
  <2>1. Begun = 1 .. 0
    BY DEF Init, Begun
  <2>2. NextProbe = 1
    BY <2>1, BegunCounted
  <2> QED
    BY <2>1, <2>2 DEF Init, ProbesInOrder, Probing, None
<1>6. MutationsKnow
  BY DEF Init, MutationsKnow, MutationKnows, Locked
<1> QED
  BY <1>1, <1>2, <1>3, <1>4, <1>5, <1>6 DEF IInv

-----------------------------------------------------------------------------
(* The sessions a call can get *)

(* The slot that lease_reusable takes is one of the reusable ones. *)
LEMMA ReusableChosen ==
  ASSUME TypeOK, Reusable # {}
  PROVE  (CHOOSE s \in Reusable : TRUE) \in Reusable
OBVIOUS

LEMMA ReusableSessions ==
  ASSUME TypeOK
  PROVE  Reusable \subseteq Session
BY DEF TypeOK, Reusable

(* The name that a new session gets is free. *)
LEMMA FreeChosen ==
  ASSUME Free # {}
  PROVE  (CHOOSE s \in Free : \A t \in Free : s <= t) \in Free
<1>1. Free \in SUBSET Nat
  BY DEF Free, Session
<1>2. PICK s \in Free : \A t \in Free : ~ (<<t, s>> \in OpToRel(<, Nat))
  BY <1>1, NatLessThanWellFounded, WFMin
<1>3. ASSUME NEW t \in Free PROVE s <= t
  <2>1. t < s => <<t, s>> \in OpToRel(<, Nat)
    BY <1>1 DEF OpToRel
  <2>2. ~ (t < s)
    BY <1>2, <2>1, Zenon
  <2> QED
    BY <1>1, <2>2
<1> QED
  BY <1>3

(* session_for_host leases a reusable slot, or finds none. *)
LEMMA ReusableLeased ==
  ASSUME TypeOK, NEW c \in Call, lease_reusable(c)
  PROVE  \/ Reusable = {} /\ Goes(c, "connect") /\ UNCHANGED <<lease, leases, used, holder>>
         \/ \E s \in Reusable : Leased(c, s) /\ leases' = [leases EXCEPT ![s] = @ + 1]
<1>1. CASE Reusable = {}
  BY <1>1 DEF lease_reusable
<1>2. CASE Reusable # {}
  BY <1>2, ReusableChosen DEF lease_reusable
<1> QED
  BY <1>1, <1>2

(* insert_leased, when it finds the host without a session, as it does. *)
LEMMA NewLeased ==
  ASSUME TypeOK, Pooled, NEW c \in Call, Connected(c)
  PROVE  \E new \in Session :
           /\ pc[c] = "connect" /\ session[new] = "none" /\ Leased(c, new)
           /\ leases' = [leases EXCEPT ![new] = 1] /\ pool' = {new}
           /\ Dropped([session EXCEPT ![new] = "open"], pool', lease')
<1> DEFINE new == CHOOSE s \in Free : \A t \in Free : s <= t
<1>1. new \in Free
  BY FreeChosen DEF Connected
<1>2. new \in Session /\ session[new] = "none"
  BY <1>1 DEF Free
<1>3. Reusable = {}
  BY ReusableSessions DEF Connected, Pooled, Reusable, is_reusable
<1>4. /\ Leased(c, new)
      /\ leases' = [leases EXCEPT ![new] = 1] /\ pool' = {new}
      /\ Dropped([session EXCEPT ![new] = "open"], pool', lease')
  BY <1>3 DEF Connected
<1>5. pc[c] = "connect"
  BY DEF Connected
<1> QED
  BY <1>2, <1>4, <1>5

-----------------------------------------------------------------------------
(* The lock and the leases *)

(* A call has the lock exactly while it sets up, and a lease exactly from  *)
(* when it has a session until it has given it back.                       *)
LEMMA LockStep ==
  ASSUME TypeOK, LockHeld, LeaseHeld, Pooled, NEW c \in Call, Step(c)
  PROVE  LockHeld' /\ LeaseHeld'
<1> DEFINE Place == {"lock", "resolve", "cache", "probe", "told", "follow",
                     "tools", "session", "connect", "send", "remote", "capture", "forwarding",
                     "leave", "unslot", "mismatch", "done"}
<1>t. /\ pc \in [Call -> Place] /\ lease \in [Call -> Session \cup {None}] /\ holder \in Call \cup {None}
  BY DEF TypeOK
<1>s. None \notin Session /\ None \notin Call
  BY RunnerAssumption DEF RunnerAssumption, None, Session
<1> HIDE DEF Place
<1> USE <1>t, <1>s DEF LockHeld, LeaseHeld, Locked, Leasing
<1>1. CASE TakeLock(c)
  BY <1>1 DEF TakeLock, Goes, vars
<1>2. CASE GivesUpSetup(c)
  BY <1>2 DEF GivesUpSetup, Returns, Goes, vars
<1>3. CASE SetupExpires(c)
  BY <1>3 DEF SetupExpires, Returns, Goes, Setup, vars
<1>4. CASE Resolved(c)
  BY <1>4 DEF Resolved, Returns, Goes, vars
<1>5. CASE ResolveFails(c)
  BY <1>5 DEF ResolveFails, Returns, Goes, vars
<1>6. CASE get_or_probe(c)
  BY <1>6 DEF get_or_probe, Goes, vars
<1>7. CASE Probed(c)
  BY <1>7 DEF Probed, Goes, remove_generation, vars
<1>8. CASE ProbeFails(c)
  BY <1>8 DEF ProbeFails, Returns, Goes, remove_generation, vars
<1>9. CASE Tell(c)
  BY <1>9 DEF Tell, Goes, vars
<1>10. CASE wait_for_probe(c)
  BY <1>10 DEF wait_for_probe, Goes, remove_generation, vars
<1>11. CASE Invalidate(c)
  BY <1>11 DEF Invalidate, Goes, vars
<1>12. CASE CheckTools(c)
  <2>1. pc[c] = "tools" /\ UNCHANGED lease
    BY <1>12 DEF CheckTools, slots
  <2>2. \/ Returns(c, "ok") \/ Returns(c, "missing")
        \/ Goes(c, "session") /\ UNCHANGED <<result, holder>>
    BY <1>12, Zenon DEF CheckTools
  <2>3. CASE Returns(c, "ok") \/ Returns(c, "missing")
    BY <2>1, <2>3 DEF Returns, Goes
  <2>4. CASE Goes(c, "session") /\ UNCHANGED <<result, holder>>
    BY <2>1, <2>4 DEF Goes
  <2> QED
    BY <2>2, <2>3, <2>4
<1>13. CASE lease_reusable(c)
  BY <1>13, ReusableLeased, ReusableSessions DEF lease_reusable, Goes, Leased
<1>14. CASE Connected(c)
  <2>1. PICK new \in Session : pc[c] = "connect" /\ Leased(c, new)
    BY <1>14, NewLeased
  <2> QED
    BY <2>1 DEF Goes, Leased
<1>15. CASE ConnectFails(c)
  BY <1>15 DEF ConnectFails, Returns, Goes, vars
<1>16. CASE Release(c)
  BY <1>16 DEF Release, Goes, vars
<1>17. CASE Unslot(c)
  BY <1>17 DEF Unslot, Goes, vars
<1>18. CASE RefuseUnfit(c)
  BY <1>18 DEF RefuseUnfit, Goes, UnchangedButEnd, vars
<1>19. CASE Send(c)
  BY <1>19 DEF Send, Goes, Fails, UnchangedButEnd, vars
<1>20. CASE RemoteRuns(c)
  BY <1>20 DEF RemoteRuns, vars
<1>21. CASE Answered(c)
  BY <1>21 DEF Answered, Goes, UnchangedButEnd, vars
<1>22. CASE AnswersBadly(c)
  BY <1>22 DEF AnswersBadly, Goes, UnchangedButEnd, vars
<1>23. CASE NoAnswer(c)
  BY <1>23 DEF NoAnswer, Goes, Fails, UnchangedButEnd, vars
<1>24. CASE Captured(c)
  BY <1>24 DEF Captured, Goes, UnchangedButEnd, vars
<1>25. CASE CaptureFails(c)
  BY <1>25 DEF CaptureFails, Goes, Fails, UnchangedButEnd, vars
<1>26. CASE CloseForward(c)
  BY <1>26 DEF CloseForward, Goes, UnchangedButEnd, vars
<1> QED
  BY <1>1, <1>2, <1>3, <1>4, <1>5, <1>6, <1>7, <1>8, <1>9, <1>10, <1>11,
     <1>12, <1>13, <1>14, <1>15, <1>16, <1>17, <1>18, <1>19, <1>20, <1>21,
     <1>22, <1>23, <1>24, <1>25, <1>26 DEF Step

-----------------------------------------------------------------------------
(* Types *)

LEMMA CallTypes ==
  ASSUME TypeOK, Pooled, NEW c \in Call, Step(c)
  PROVE  /\ kind' \in Workload
         /\ pc' \in [Call -> {"lock", "resolve", "cache", "probe", "told", "follow",
                      "tools", "session", "connect", "send", "remote", "capture", "forwarding",
                      "leave", "unslot", "mismatch", "done"}]
         /\ result' \in [Call -> Result] /\ second' \in [Call -> BOOLEAN]
         /\ did' \in [Call -> {"no", "lacking", "done"}]
         /\ holder' \in Call \cup {None}
         /\ policy' \in {"none", "known", "cached"}
         /\ tool' \in BOOLEAN
<1>t. /\ kind \in Workload
      /\ pc \in [Call -> {"lock", "resolve", "cache", "probe", "told", "follow",
                   "tools", "session", "connect", "send", "remote", "capture", "forwarding",
                   "leave", "unslot", "mismatch", "done"}]
      /\ result \in [Call -> Result] /\ second \in [Call -> BOOLEAN]
      /\ did \in [Call -> {"no", "lacking", "done"}]
      /\ holder \in Call \cup {None}
      /\ policy \in {"none", "known", "cached"}
      /\ tool \in BOOLEAN
  BY DEF TypeOK
<1>r. {"none", "ok", "shell only", "error", "missing", "unknown"} = Result
  BY DEF Result
<1> USE <1>t, <1>r
<1>1. CASE TakeLock(c)
  BY <1>1 DEF TakeLock, Goes
<1>2. CASE GivesUpSetup(c)
  BY <1>2 DEF GivesUpSetup, Returns, Goes
<1>3. CASE SetupExpires(c)
  BY <1>3 DEF SetupExpires, Returns, Goes, Setup
<1>4. CASE Resolved(c)
  BY <1>4 DEF Resolved, Returns, Goes
<1>5. CASE ResolveFails(c)
  BY <1>5 DEF ResolveFails, Returns, Goes
<1>6. CASE get_or_probe(c)
  BY <1>6 DEF get_or_probe, Goes
<1>7. CASE Probed(c)
  BY <1>7 DEF Probed, Goes, remove_generation
<1>8. CASE ProbeFails(c)
  BY <1>8 DEF ProbeFails, Returns, Goes, remove_generation
<1>9. CASE Tell(c)
  BY <1>9 DEF Tell, Goes
<1>10. CASE wait_for_probe(c)
  BY <1>10 DEF wait_for_probe, Goes, remove_generation
<1>11. CASE Invalidate(c)
  <2>1. UNCHANGED <<kind, holder, policy, tool>>
    BY <1>11 DEF Invalidate
  <2>2. CASE kind[c] = "read" /\ ~second[c]
    BY <1>11, <2>1, <2>2 DEF Invalidate, Goes
  <2>3. CASE ~(kind[c] = "read" /\ ~second[c])
    BY <1>11, <2>1, <2>3 DEF Invalidate, Goes
  <2> QED
    BY <2>2, <2>3
<1>12. CASE CheckTools(c)
  <2>1. UNCHANGED <<kind, second, did, policy, tool>>
    BY <1>12 DEF CheckTools
  <2>2. \/ Returns(c, "ok") \/ Returns(c, "missing")
        \/ Goes(c, "session") /\ UNCHANGED <<result, holder>>
    BY <1>12, Zenon DEF CheckTools
  <2>3. CASE Returns(c, "ok")
    BY <2>1, <2>3 DEF Returns, Goes
  <2>4. CASE Returns(c, "missing")
    BY <2>1, <2>4 DEF Returns, Goes
  <2>5. CASE Goes(c, "session") /\ UNCHANGED <<result, holder>>
    BY <2>1, <2>5 DEF Goes
  <2> QED
    BY <2>2, <2>3, <2>4, <2>5
<1>13. CASE lease_reusable(c)
  BY <1>13, ReusableLeased DEF lease_reusable, Goes, Leased
<1>14. CASE Connected(c)
  <2>1. PICK new \in Session : Leased(c, new)
    BY <1>14, NewLeased
  <2>2. UNCHANGED <<kind, result, second, did, policy, tool>>
    BY <1>14 DEF Connected
  <2> QED
    BY <2>1, <2>2 DEF Goes, Leased
<1>15. CASE ConnectFails(c)
  BY <1>15 DEF ConnectFails, Returns, Goes
<1>16. CASE Release(c)
  BY <1>16 DEF Release, Goes
<1>17. CASE Unslot(c)
  BY <1>17 DEF Unslot, Goes
<1>18. CASE RefuseUnfit(c)
  BY <1>18 DEF RefuseUnfit, Goes, UnchangedButEnd
<1>19. CASE Send(c)
  BY <1>19 DEF Send, Goes, Fails, UnchangedButEnd, after_spawn_error
<1>20. CASE RemoteRuns(c)
  BY <1>20 DEF RemoteRuns
<1>21. CASE Answered(c)
  BY <1>21 DEF Answered, Goes, UnchangedButEnd
<1>22. CASE AnswersBadly(c)
  BY <1>22 DEF AnswersBadly, Goes, UnchangedButEnd, after_spawn_error
<1>23. CASE NoAnswer(c)
  BY <1>23 DEF NoAnswer, Goes, Fails, UnchangedButEnd, after_spawn_error
<1>24. CASE Captured(c)
  BY <1>24 DEF Captured, Goes, UnchangedButEnd
<1>25. CASE CaptureFails(c)
  BY <1>25 DEF CaptureFails, Goes, Fails, UnchangedButEnd, after_spawn_error
<1>26. CASE CloseForward(c)
  BY <1>26 DEF CloseForward, Goes, UnchangedButEnd
<1> QED
  BY <1>1, <1>2, <1>3, <1>4, <1>5, <1>6, <1>7, <1>8, <1>9, <1>10, <1>11,
     <1>12, <1>13, <1>14, <1>15, <1>16, <1>17, <1>18, <1>19, <1>20, <1>21,
     <1>22, <1>23, <1>24, <1>25, <1>26 DEF Step

LEMMA SlotTypes ==
  ASSUME TypeOK, LeaseHeld, Counted, Pooled, NEW c \in Call, Step(c)
  PROVE  /\ lease' \in [Call -> Session \cup {None}]
         /\ session' \in [Session -> {"none", "open", "closed", "retired"}]
         /\ mode' \in [Session -> {"persistent", "shell"}]
         /\ pool' \subseteq Session /\ leases' \in [Session -> Nat]
<1>t. /\ lease \in [Call -> Session \cup {None}]
      /\ session \in [Session -> {"none", "open", "closed", "retired"}]
      /\ mode \in [Session -> {"persistent", "shell"}]
      /\ pool \subseteq Session /\ leases \in [Session -> Nat]
  BY DEF TypeOK
<1> USE <1>t DEF slots
<1>1. CASE TakeLock(c)
  BY <1>1 DEF TakeLock, Goes
<1>2. CASE GivesUpSetup(c)
  BY <1>2 DEF GivesUpSetup, Returns, Goes
<1>3. CASE SetupExpires(c)
  BY <1>3 DEF SetupExpires, Returns, Goes, Setup
<1>4. CASE Resolved(c)
  BY <1>4 DEF Resolved, Returns, Goes
<1>5. CASE ResolveFails(c)
  BY <1>5 DEF ResolveFails, Returns, Goes
<1>6. CASE get_or_probe(c)
  BY <1>6 DEF get_or_probe, Goes
<1>7. CASE Probed(c)
  BY <1>7 DEF Probed, Goes, remove_generation
<1>8. CASE ProbeFails(c)
  BY <1>8 DEF ProbeFails, Returns, Goes, remove_generation
<1>9. CASE Tell(c)
  BY <1>9 DEF Tell, Goes
<1>10. CASE wait_for_probe(c)
  BY <1>10 DEF wait_for_probe, Goes, remove_generation
<1>11. CASE Invalidate(c)
  BY <1>11 DEF Invalidate, Goes
<1>12. CASE CheckTools(c)
  BY <1>12 DEF CheckTools, Returns, Goes
<1>13. CASE lease_reusable(c)
  <2>1. pool' = Reusable /\ Dropped(session, pool', lease') /\ mode' = mode
    BY <1>13 DEF lease_reusable
  <2>2. \/ UNCHANGED <<lease, leases>>
        \/ \E s \in Reusable : Leased(c, s) /\ leases' = [leases EXCEPT ![s] = @ + 1]
    BY <1>13, ReusableLeased
  <2> QED
    BY <2>1, <2>2, ReusableSessions DEF Leased, Dropped
<1>14. CASE Connected(c)
  <2>1. PICK new \in Session :
               /\ Leased(c, new) /\ leases' = [leases EXCEPT ![new] = 1] /\ pool' = {new}
               /\ Dropped([session EXCEPT ![new] = "open"], pool', lease')
    BY <1>14, NewLeased
  <2>2. \E s \in Session, m \in Modes : mode' = [mode EXCEPT ![s] = m]
    BY <1>14, FreeChosen DEF Connected, Free
  <2> QED
    BY <2>1, <2>2 DEF Leased, Dropped, Modes
<1>15. CASE ConnectFails(c)
  BY <1>15 DEF ConnectFails, Returns, Goes
<1>16. CASE Release(c)
  <2>1. pc[c] = "leave" /\ lease[c] \in Session
    BY <1>16 DEF Release, LeaseHeld, Leasing
  <2>2. leases[lease[c]] >= 1
    BY <2>1, HolderCounted
  <2> QED
    BY <1>16, <2>1, <2>2 DEF Release, None
<1>17. CASE Unslot(c)
  BY <1>17 DEF Unslot, Dropped, is_reusable, None
<1>18. CASE RefuseUnfit(c)
  BY <1>18 DEF RefuseUnfit, Goes, UnchangedButEnd
<1>19. CASE Send(c)
  BY <1>19 DEF Send, Goes, Fails, UnchangedButEnd
<1>20. CASE RemoteRuns(c)
  BY <1>20 DEF RemoteRuns
<1>21. CASE Answered(c)
  BY <1>21 DEF Answered, Goes, UnchangedButEnd
<1>22. CASE AnswersBadly(c)
  BY <1>22 DEF AnswersBadly, Goes, UnchangedButEnd
<1>23. CASE NoAnswer(c)
  BY <1>23 DEF NoAnswer, Goes, Fails, UnchangedButEnd
<1>24. CASE Captured(c)
  BY <1>24 DEF Captured, Goes, UnchangedButEnd
<1>25. CASE CaptureFails(c)
  BY <1>25 DEF CaptureFails, Goes, Fails, UnchangedButEnd
<1>26. CASE CloseForward(c)
  BY <1>26 DEF CloseForward, Goes, UnchangedButEnd
<1> QED
  BY <1>1, <1>2, <1>3, <1>4, <1>5, <1>6, <1>7, <1>8, <1>9, <1>10, <1>11,
     <1>12, <1>13, <1>14, <1>15, <1>16, <1>17, <1>18, <1>19, <1>20, <1>21,
     <1>22, <1>23, <1>24, <1>25, <1>26 DEF Step

-----------------------------------------------------------------------------
(* The counts of the slots *)

(* One call more, or one less, that has yet to drop a slot. *)
LEMMA OneMore ==
  ASSUME TypeOK, Counted, NEW s \in Session, NEW c \in Call, c \notin Holders(s),
         Holders(s)' = Holders(s) \cup {c}, leases'[s] = leases[s] + 1
  PROVE  IsFiniteSet(Holders(s)') /\ leases'[s] = Cardinality(Holders(s)')
BY FS_AddElement DEF Counted

LEMMA OneLess ==
  ASSUME TypeOK, Counted, NEW s \in Session, NEW c \in Call, c \in Holders(s),
         Holders(s)' = Holders(s) \ {c}, leases'[s] = leases[s] - 1
  PROVE  IsFiniteSet(Holders(s)') /\ leases'[s] = Cardinality(Holders(s)')
BY FS_RemoveElement DEF Counted

(* A step that moves one call, and neither into nor out of a lease.        *)
LEMMA CountKept ==
  ASSUME TypeOK, Counted, NEW c \in Call,
         \A d \in Call \ {c} : pc'[d] = pc[d],
         pc[c] # "unslot" /\ pc'[c] # "unslot", UNCHANGED <<lease, leases>>
  PROVE  Counted'
<1>1. \A s \in Session : Holders(s)' = Holders(s)
  BY DEF Holders
<1> QED
  BY <1>1 DEF Counted

LEMMA CountedStep ==
  ASSUME TypeOK, LockHeld, LeaseHeld, Counted, Pooled, NEW c \in Call, Step(c)
  PROVE  Counted'
<1>t. /\ lease \in [Call -> Session \cup {None}] /\ leases \in [Session -> Nat]
      /\ DOMAIN pc = Call
  BY DEF TypeOK
<1> USE <1>t
<1>1. CASE lease_reusable(c)
  <2>1. CASE Goes(c, "connect") /\ UNCHANGED <<lease, leases>>
    BY <1>1, <2>1, CountKept DEF lease_reusable, Goes
  <2>2. CASE \E s \in Reusable : Leased(c, s) /\ leases' = [leases EXCEPT ![s] = @ + 1]
    <3>1. PICK s \in Session : Leased(c, s) /\ leases' = [leases EXCEPT ![s] = @ + 1]
      BY <2>2, ReusableSessions
    <3>2. lease[c] = None
      BY <1>1 DEF lease_reusable, LeaseHeld, Leasing
    <3>3. \A t \in Session : Holders(t)' = IF t = s THEN Holders(s) \cup {c} ELSE Holders(t)
      BY <3>1, <3>2 DEF Holders, Leased, Goes, None, Session
    <3>4. c \notin Holders(s)
      BY <3>2 DEF Holders, None, Session
    <3>5. IsFiniteSet(Holders(s)') /\ leases'[s] = Cardinality(Holders(s)')
      BY <3>1, <3>3, <3>4, OneMore
    <3> QED
      BY <3>1, <3>3, <3>5 DEF Counted
  <2> QED
    BY <1>1, <2>1, <2>2, ReusableLeased
<1>2. CASE Connected(c)
  <2>1. PICK new \in Session :
          /\ pc[c] = "connect" /\ session[new] = "none" /\ Leased(c, new)
          /\ leases' = [leases EXCEPT ![new] = 1]
    BY <1>2, NewLeased
  <2>2. lease[c] = None
    BY <2>1 DEF LeaseHeld, Leasing
  <2>3. \A d \in Call : lease[d] # new
    BY <2>1 DEF Pooled, None, Session
  <2>4. Holders(new) = {}
    BY <2>3 DEF Holders
  <2>5. leases[new] = 0
    BY <2>4, FS_EmptySet DEF Counted
  <2>6. \A t \in Session : Holders(t)' = IF t = new THEN Holders(new) \cup {c} ELSE Holders(t)
    BY <2>1, <2>2 DEF Holders, Leased, Goes, None, Session
  <2>7. IsFiniteSet(Holders(new)') /\ leases'[new] = Cardinality(Holders(new)')
    BY <2>1, <2>4, <2>5, <2>6, OneMore
  <2> QED
    BY <2>1, <2>6, <2>7 DEF Counted
<1>3. CASE Release(c)
  <2>1. PICK s \in Session : s = lease[c] /\ pc[c] = "leave"
    BY <1>3 DEF Release, LeaseHeld, Leasing
  <2>2. leases' = [leases EXCEPT ![s] = @ - 1]
    BY <1>3, <2>1 DEF Release
  <2>3. c \in Holders(s)
    BY <2>1 DEF Holders
  <2>4. \A t \in Session : Holders(t)' = IF t = s THEN Holders(s) \ {c} ELSE Holders(t)
    BY <1>3, <2>1 DEF Release, Goes, Holders, None, Session
  <2>5. IsFiniteSet(Holders(s)') /\ leases'[s] = Cardinality(Holders(s)')
    BY <2>2, <2>3, <2>4, OneLess
  <2> QED
    BY <2>2, <2>4, <2>5 DEF Counted
<1>4. CASE Unslot(c)
  <2>1. \A t \in Session : Holders(t)' = Holders(t)
    BY <1>4 DEF Unslot, Goes, Holders, None, Session
  <2>2. leases' = leases
    BY <1>4 DEF Unslot
  <2> QED
    BY <2>1, <2>2 DEF Counted
<1>5. CASE TakeLock(c) \/ GivesUpSetup(c) \/ SetupExpires(c) \/ Resolved(c)
          \/ ResolveFails(c) \/ get_or_probe(c) \/ Probed(c) \/
          ProbeFails(c) \/ Tell(c) \/ wait_for_probe(c) \/ Invalidate(c) \/
          CheckTools(c) \/ ConnectFails(c)
  BY <1>5, CountKept DEF TakeLock, Goes, GivesUpSetup, Returns,
     SetupExpires, Setup, Resolved, ResolveFails, get_or_probe, Probed,
     remove_generation, ProbeFails, Tell, wait_for_probe, Invalidate,
     CheckTools, ConnectFails, LeaseHeld, Leasing, slots
<1>6. CASE RefuseUnfit(c) \/ Send(c) \/ RemoteRuns(c) \/ Answered(c) \/
          AnswersBadly(c) \/ NoAnswer(c) \/ Captured(c) \/ CaptureFails(c)
          \/ CloseForward(c)
  BY <1>6, CountKept DEF RefuseUnfit, Goes, UnchangedButEnd, Send, Fails,
     RemoteRuns, Answered, AnswersBadly, NoAnswer, Captured, CaptureFails,
     CloseForward, LeaseHeld, Leasing, slots
<1> QED
  BY <1>1, <1>2, <1>3, <1>4, <1>5, <1>6 DEF Step

-----------------------------------------------------------------------------
(* The sessions *)

(* A step of the request that keeps every session, or of the setup, keeps  *)
(* the pool sound unless it starts to connect.                             *)
LEMMA PoolKept ==
  ASSUME TypeOK, Pooled, NEW c \in Call,
         \A d \in Call \ {c} : pc'[d] = pc[d] /\ lease'[d] = lease[d],
         pc'[c] # "connect", lease'[c] \in {lease[c], None},
         UNCHANGED session,
         pool' \subseteq pool, \A s \in pool \ pool' : session[s] # "open"
  PROVE  Pooled'
<1>t. lease \in [Call -> Session \cup {None}] /\ pool \subseteq Session
  BY DEF TypeOK
<1>1. \A d \in Call : /\ pc'[d] = "connect" => pc[d] = "connect"
                     /\ lease'[d] # None => lease'[d] = lease[d]
  OBVIOUS
<1>2. session' = session /\ \A s \in Session : session[s] = "open" /\ s \in pool => s \in pool'
  OBVIOUS
<1> QED
  BY <1>t, <1>1, <1>2 DEF Pooled

(* A call that finds no session open may connect; one that leases a slot   *)
(* leaves only those behind that are open.                                 *)
LEMMA LeasePooled ==
  ASSUME TypeOK, Pooled, NEW c \in Call, lease_reusable(c)
  PROVE  Pooled'
<1>t. /\ lease \in [Call -> Session \cup {None}]
      /\ session \in [Session -> {"none", "open", "closed", "retired"}]
      /\ pool \subseteq Session /\ DOMAIN pc = Call
  BY DEF TypeOK
<1>1. pool' = Reusable /\ Dropped(session, pool', lease')
  BY DEF lease_reusable
<1>2. \A s \in Session : session[s] = "open" <=> s \in Reusable
  BY <1>t DEF Pooled, Reusable, is_reusable
<1>3. /\ Reusable # {} => \A d \in Call : pc'[d] = "connect" => pc[d] = "connect"
      /\ \A d \in Call : lease'[d] # None => lease'[d] = lease[d] \/ session[lease'[d]] = "open"
  <2>1. CASE Reusable = {} /\ UNCHANGED lease
    BY <2>1
  <2>2. CASE \E s \in Reusable : Leased(c, s)
    <3>1. PICK s \in Reusable : Leased(c, s)
      BY <2>2
    <3>2. session[s] = "open"
      BY DEF Reusable, is_reusable
    <3>3. /\ pc'[c] # "connect" /\ \A d \in Call \ {c} : pc'[d] = pc[d]
          /\ lease'[c] = s /\ \A d \in Call \ {c} : lease'[d] = lease[d]
      BY <1>t, <3>1 DEF Leased, Goes
    <3> QED
      BY <3>2, <3>3
  <2> QED
    BY <2>1, <2>2, ReusableLeased
<1>4. \A s \in Session : /\ session'[s] = "open" <=> session[s] = "open"
                         /\ session'[s] # "retired"
                         /\ session'[s] = "none" =>
                              session[s] = "none" \/ (s \notin pool' /\ \A d \in Call : lease'[d] # s)
  BY <1>t, <1>1, <1>2 DEF Dropped, Pooled
<1>5. \A d \in Call : lease'[d] \in Session \cup {None}
  BY <1>t, ReusableLeased, ReusableSessions DEF Leased
<1> QED
  BY <1>t, <1>1, <1>2, <1>3, <1>4, <1>5 DEF Pooled, Reusable, is_reusable

(* The session that is made is the only open one, and the pool has it. *)
LEMMA ConnectPooled ==
  ASSUME TypeOK, LockHeld, Pooled, NEW c \in Call, Connected(c)
  PROVE  Pooled'
<1>t. /\ lease \in [Call -> Session \cup {None}]
      /\ session \in [Session -> {"none", "open", "closed", "retired"}]
      /\ pool \subseteq Session /\ DOMAIN pc = Call
  BY DEF TypeOK
<1>n. None \notin Session
  BY DEF None, Session
<1>1. PICK new \in Session :
        /\ pc[c] = "connect" /\ session[new] = "none" /\ Leased(c, new) /\ pool' = {new}
        /\ Dropped([session EXCEPT ![new] = "open"], pool', lease')
  BY NewLeased
<1>2. \A s \in Session : session[s] # "open"
  BY <1>1 DEF Pooled
<1>3. \A s \in Session :
        session'[s] = IF s # new /\ \A d \in Call : lease'[d] # s THEN "none"
                      ELSE IF s = new THEN "open" ELSE session[s]
  BY <1>t, <1>n, <1>1 DEF Dropped
<1>4. \A d \in Call : lease'[d] = IF d = c THEN new ELSE lease[d]
  BY <1>t, <1>n, <1>1 DEF Leased
<1>5. \A d \in Call : pc'[d] # "connect"
  <2>1. \A d \in Call \ {c} : pc[d] # "connect"
    BY <1>1 DEF LockHeld, Locked
  <2> QED
    BY <1>t, <1>n, <1>1, <2>1 DEF Leased, Goes
<1> QED
  BY <1>t, <1>n, <1>1, <1>2, <1>3, <1>4, <1>5 DEF Pooled

(* release_lease never retires a session that is open: there is no other   *)
(* that it could find idle.                                                *)
LEMMA UnslotPooled ==
  ASSUME TypeOK, LeaseHeld, Pooled, NEW c \in Call, Unslot(c)
  PROVE  Pooled'
<1>t. /\ lease \in [Call -> Session \cup {None}]
      /\ session \in [Session -> {"none", "open", "closed", "retired"}]
      /\ pool \subseteq Session /\ DOMAIN pc = Call
  BY DEF TypeOK
<1>n. None \notin Session
  BY DEF None, Session
<1>1. PICK s \in Session : s = lease[c]
  BY <1>t, <1>n DEF Unslot, LeaseHeld, Leasing
<1>2. is_reusable(s) => ~\E o \in pool \ {s} : is_reusable(o) /\ leases[o] = 0
  BY <1>t, <1>n DEF Pooled, is_reusable
<1>3. pool' = {o \in pool : session[o] = "open"} /\ Dropped(session, pool', lease')
  BY <1>t, <1>n, <1>1, <1>2 DEF Unslot, is_reusable
<1>4. \A d \in Call : lease'[d] = IF d = c THEN None ELSE lease[d]
  BY <1>t, <1>n DEF Unslot
<1>5. \A d \in Call : pc'[d] = "connect" => pc[d] = "connect"
  BY <1>t, <1>n DEF Unslot, Goes
<1>6. \A o \in Session :
        session'[o] = IF o \notin pool' /\ \A d \in Call : lease'[d] # o THEN "none" ELSE session[o]
  BY <1>3 DEF Dropped
<1> QED
  BY <1>t, <1>n, <1>3, <1>4, <1>5, <1>6 DEF Pooled

LEMMA PooledStep ==
  ASSUME TypeOK, LockHeld, LeaseHeld, Pooled, NEW c \in Call, Step(c)
  PROVE  Pooled'
<1>t. /\ lease \in [Call -> Session \cup {None}] /\ pool \subseteq Session /\ DOMAIN pc = Call
  BY DEF TypeOK
<1> USE <1>t
<1>1. CASE lease_reusable(c) \/ Connected(c) \/ Unslot(c)
  BY <1>1, LeasePooled, ConnectPooled, UnslotPooled
<1>2. CASE TakeLock(c) \/ GivesUpSetup(c) \/ SetupExpires(c) \/ Resolved(c)
          \/ ResolveFails(c) \/ get_or_probe(c) \/ Probed(c) \/
          ProbeFails(c) \/ Tell(c) \/ wait_for_probe(c) \/ Invalidate(c) \/
          CheckTools(c) \/ ConnectFails(c)
  <2>1. CASE TakeLock(c) \/ GivesUpSetup(c) \/ SetupExpires(c) \/ Resolved(c)
            \/ ResolveFails(c) \/ ConnectFails(c)
    BY <2>1, PoolKept DEF TakeLock, Goes, GivesUpSetup, Returns, SetupExpires, Setup,
       Resolved, ResolveFails, ConnectFails, LeaseHeld, Leasing, slots
  <2>2. CASE get_or_probe(c) \/ Probed(c) \/ ProbeFails(c) \/ Tell(c) \/ wait_for_probe(c)
    BY <2>2, PoolKept DEF Goes, Returns, get_or_probe, Probed, remove_generation,
       ProbeFails, Tell, wait_for_probe, LeaseHeld, Leasing, slots
  <2>3. CASE Invalidate(c) \/ CheckTools(c)
    BY <2>3, PoolKept DEF Goes, Returns, Invalidate, CheckTools, LeaseHeld, Leasing, slots
  <2> QED
    BY <1>2, <2>1, <2>2, <2>3
<1>3. CASE Release(c) \/ RefuseUnfit(c) \/ Send(c) \/ RemoteRuns(c) \/
          Answered(c) \/ AnswersBadly(c) \/ NoAnswer(c) \/ Captured(c) \/
          CaptureFails(c) \/ CloseForward(c)
  <2>1. CASE Release(c) \/ RefuseUnfit(c) \/ Send(c) \/ RemoteRuns(c)
    BY <2>1, PoolKept DEF Release, Goes, RefuseUnfit, UnchangedButEnd, Send, Fails,
       RemoteRuns, is_reusable, slots, None
  <2>2. CASE Answered(c) \/ AnswersBadly(c) \/ NoAnswer(c)
    BY <2>2, PoolKept DEF Goes, UnchangedButEnd, Fails, Answered, AnswersBadly, NoAnswer,
       is_reusable, slots, None
  <2>3. CASE Captured(c) \/ CaptureFails(c) \/ CloseForward(c)
    BY <2>3, PoolKept DEF Goes, UnchangedButEnd, Fails, Captured, CaptureFails, CloseForward,
       is_reusable, slots, None
  <2> QED
    BY <1>3, <2>1, <2>2, <2>3
<1> QED
  BY <1>1, <1>2, <1>3 DEF Step

-----------------------------------------------------------------------------
(* The probes *)

(* What the cache refers to has been begun, and after a step that begins   *)
(* no probe it still has.                                                  *)
LEMMA SameBegun ==
  ASSUME Begun' = Begun
  PROVE  NextProbe' = NextProbe
BY DEF NextProbe, Begun

LEMMA ProbeTypes ==
  ASSUME TypeOK, Pooled, ProbesInOrder, NEW c \in Call, Step(c)
  PROVE  /\ used' \in [Call -> Probe \cup {None}] /\ began' \in [Call -> Probe \cup {None}]
         /\ entry' \in Probe \cup {None} /\ flight' \in Probe \cup {None}
         /\ cell' \in [Probe -> {"empty", "with tool", "without tool"}]
         /\ state' \in [Probe -> {"unused", "leading", "told", "abandoned"}]
         /\ old' \in Probe \cup {None}
<1>t. /\ used \in [Call -> Probe \cup {None}] /\ began \in [Call -> Probe \cup {None}]
      /\ entry \in Probe \cup {None} /\ flight \in Probe \cup {None}
      /\ cell \in [Probe -> {"empty", "with tool", "without tool"}]
      /\ state \in [Probe -> {"unused", "leading", "told", "abandoned"}]
      /\ old \in Probe \cup {None}
  BY DEF TypeOK
<1> USE <1>t
<1>1. CASE Invalidate(c)
  <2>1. PICK n \in 0 .. Probes : NextProbe = n + 1
    BY BegunSegment
  <2>2. n = None \/ n \in Probe
    BY Bounds
  <2>3. NextProbe - 1 = n
    <3> HIDE <1>t
    <3> QED
      BY <2>1
  <2> QED
    BY <1>1, <2>2, <2>3 DEF Invalidate
<1>2. CASE lease_reusable(c) \/ Connected(c)
  <2>1. UNCHANGED <<began, cache>>
    BY <1>2 DEF lease_reusable, Connected
  <2>2. used' \in {used, [used EXCEPT ![c] = None]}
    BY <1>2, ReusableLeased, NewLeased DEF Leased
  <2> QED
    BY <2>1, <2>2 DEF cache
<1>3. CASE TakeLock(c) \/ GivesUpSetup(c) \/ SetupExpires(c) \/ Resolved(c)
          \/ ResolveFails(c) \/ get_or_probe(c) \/ Probed(c) \/
          ProbeFails(c) \/ Tell(c) \/ wait_for_probe(c) \/ CheckTools(c) \/
          ConnectFails(c)
  <2>1. CASE TakeLock(c) \/ GivesUpSetup(c) \/ SetupExpires(c) \/ Resolved(c)
            \/ ResolveFails(c) \/ CheckTools(c) \/ ConnectFails(c)
    BY <2>1 DEF TakeLock, Goes, GivesUpSetup, Returns, SetupExpires, Setup,
       Resolved, ResolveFails, CheckTools, ConnectFails, cache
  <2>2. CASE get_or_probe(c) \/ Probed(c) \/ ProbeFails(c) \/ Tell(c) \/ wait_for_probe(c)
    <3>1. CASE get_or_probe(c)
      <4>1. UNCHANGED <<began, cell, old>>
        BY <3>1 DEF get_or_probe
      <4>2. \/ /\ used' \in {[used EXCEPT ![c] = entry], [used EXCEPT ![c] = flight]}
               /\ UNCHANGED <<entry, flight, state>>
            \/ /\ used' = [used EXCEPT ![c] = NextProbe] /\ NextProbe \in Probe
               /\ entry' \in {entry, NextProbe} /\ flight' = NextProbe
               /\ state' = [state EXCEPT ![NextProbe] = "leading"]
        BY <3>1 DEF get_or_probe
      <4> QED
        BY <4>1, <4>2
    <3>4. CASE Tell(c)
      BY <3>4 DEF Goes, Tell, cache
    <3>5. CASE wait_for_probe(c)
      BY <3>5 DEF Goes, wait_for_probe, remove_generation, cache
    <3>2. CASE Probed(c)
      BY <3>2 DEF Goes, Probed, remove_generation, cache
    <3>3. CASE ProbeFails(c)
      BY <3>3 DEF Goes, Returns, ProbeFails, remove_generation, cache
    <3> QED
      BY <2>2, <3>1, <3>2, <3>3, <3>4, <3>5
  <2> QED
    BY <1>3, <2>1, <2>2
<1>4. CASE Release(c) \/ RefuseUnfit(c) \/ Send(c) \/ RemoteRuns(c) \/
          Answered(c) \/ AnswersBadly(c) \/ NoAnswer(c) \/ Captured(c) \/
          CaptureFails(c) \/ CloseForward(c) \/ Unslot(c)
  BY <1>4 DEF Release, Goes, RefuseUnfit, UnchangedButEnd, Send, Fails,
     RemoteRuns, Answered, AnswersBadly, NoAnswer, Captured, CaptureFails,
     CloseForward, Unslot, cache
<1> QED
  BY <1>1, <1>2, <1>3, <1>4 DEF Step

(* A step that begins no probe and drops nothing but references.           *)
LEMMA OrderKept ==
  ASSUME TypeOK, ProbesInOrder, NEW c \in Call,
         Begun' = Begun, old' = old, began' = began,
         entry' \in {entry, None}, flight' \in {flight, None},
         \A d \in Call \ {c} : pc'[d] = pc[d] /\ used'[d] = used[d],
         pc'[c] \in Probing => used'[c] \in Begun /\ used'[c] > began[c]
  PROVE  ProbesInOrder'
<1>1. NextProbe' = NextProbe
  BY SameBegun
<1> QED
  BY <1>1 DEF ProbesInOrder

LEMMA OrderStep ==
  ASSUME TypeOK, Pooled, ProbesInOrder, NEW c \in Call, Step(c)
  PROVE  ProbesInOrder'
<1>t. /\ used \in [Call -> Probe \cup {None}] /\ began \in [Call -> Probe \cup {None}]
      /\ entry \in Probe \cup {None} /\ flight \in Probe \cup {None}
      /\ DOMAIN cell = Probe /\ DOMAIN state = Probe /\ DOMAIN pc = Call
      /\ old \in Probe \cup {None}
  BY DEF TypeOK
<1>i. None = 0 /\ \A p \in Probe : p \in Nat /\ p # None
  BY Bounds
<1>j. /\ old \in Nat /\ entry \in Nat /\ flight \in Nat
      /\ \A d \in Call : began[d] \in Nat /\ used[d] \in Nat
  BY <1>t, <1>i
<1> USE <1>t, <1>i, <1>j
<1>1. CASE TakeLock(c)
  <2>1. Begun' = Begun
    BY <1>1 DEF TakeLock, Begun, cache
  <2>2. NextProbe' = NextProbe
    BY <2>1, SameBegun
  <2> QED
    BY <1>1, <2>1, <2>2 DEF TakeLock, Goes, ProbesInOrder, Probing, cache
<1>2. CASE get_or_probe(c)
  <2>1. CASE UNCHANGED <<entry, flight, state>>
    <3>1. Begun' = Begun /\ UNCHANGED <<entry, flight, old, began>>
      BY <1>2, <2>1 DEF get_or_probe, Begun
    <3>2. pc'[c] \in Probing => used'[c] \in {entry, flight} \ {None}
      BY <1>2, <2>1, BegunSegment DEF get_or_probe, Goes, Probing, Begun
    <3>3. \A d \in Call \ {c} : pc'[d] = pc[d] /\ used'[d] = used[d]
      BY <1>2 DEF get_or_probe, Goes
    <3>4. pc'[c] \in Probing => used'[c] \in Begun /\ used'[c] > old
      BY <3>2 DEF ProbesInOrder
    <3>5. began[c] <= old
      BY DEF ProbesInOrder
    <3>6. pc'[c] \in Probing => used'[c] > began[c]
      BY <3>2, <3>4, <3>5
    <3> QED
      BY <3>1, <3>3, <3>4, <3>6, OrderKept
  <2>2. CASE /\ NextProbe \in Probe /\ state' = [state EXCEPT ![NextProbe] = "leading"]
             /\ used' = [used EXCEPT ![c] = NextProbe] /\ Goes(c, "probe")
             /\ entry' \in {entry, NextProbe} /\ flight' = NextProbe
    <3>1. PICK n \in 0 .. Probes : NextProbe = n + 1 /\ Begun = 1 .. n
      BY BegunSegment
    <3>2. Begun' = 1 .. n + 1
      BY <2>2, <3>1 DEF Begun
    <3>3. Cardinality(1 .. n + 1) = n + 1
      BY <3>1, FS_Interval
    <3>4. NextProbe' = n + 2
      <4>1. NextProbe' = 1 + Cardinality(Begun')
        BY DEF NextProbe, Begun
      <4> QED
        BY <3>2, <3>3, <4>1
    <3>5. /\ entry' \in {entry, n + 1} /\ flight' = n + 1 /\ old' = old /\ began' = began
          /\ used'[c] = n + 1
          /\ \A d \in Call \ {c} : pc'[d] = pc[d] /\ used'[d] = used[d]
      BY <1>2, <2>2, <3>1 DEF get_or_probe, Goes
    <3>6. old <= n /\ \A d \in Call : began[d] <= n
      BY <3>1 DEF ProbesInOrder
    <3>7. n + 1 \in Begun' /\ n + 1 < NextProbe' /\ Begun \subseteq Begun' /\ NextProbe < NextProbe'
      BY <3>1, <3>2, <3>4
    <3>8. Begun' = 1 .. NextProbe' - 1
      BY <3>2, <3>4
    <3>9. \A d \in Call : pc'[d] \in Probing =>
                          used'[d] \in Begun' /\ used'[d] > began'[d]
      BY <3>1, <3>5, <3>6, <3>7 DEF ProbesInOrder
    <3>10. /\ entry' # None => entry' \in Begun' /\ entry' > old'
           /\ flight' # None => flight' \in Begun' /\ flight' > old'
      BY <3>5, <3>6, <3>7 DEF ProbesInOrder
    <3>11. old' < NextProbe' /\ \A d \in Call : began'[d] <= old'
      BY <3>1, <3>4, <3>5, <3>6 DEF ProbesInOrder
    <3> QED
      BY <3>8, <3>9, <3>10, <3>11 DEF ProbesInOrder
  <2> QED
    BY <1>2, <2>1, <2>2 DEF get_or_probe
<1>3. CASE Invalidate(c)
  <2>1. Begun' = Begun
    BY <1>3 DEF Invalidate, Begun
  <2>2. NextProbe' = NextProbe
    BY <2>1, SameBegun
  <2>3. PICK n \in 0 .. Probes : NextProbe = n + 1
    BY BegunSegment
  <2>4. pc'[c] \notin Probing /\ \A d \in Call \ {c} : pc'[d] = pc[d]
    BY <1>3 DEF Invalidate, Goes, Probing
  <2>5. entry' = None /\ flight' = None /\ old' = n /\ UNCHANGED <<used, began>>
    BY <1>3, <2>3 DEF Invalidate
  <2>6. \A d \in Call : began[d] <= n
    BY <2>3 DEF ProbesInOrder
  <2> QED
    BY <2>1, <2>2, <2>3, <2>4, <2>5, <2>6 DEF ProbesInOrder
<1>4. CASE lease_reusable(c) \/ Connected(c)
  <2>1. Begun' = Begun /\ UNCHANGED <<began, entry, flight, old>>
    BY <1>4 DEF lease_reusable, Connected, Begun, cache
  <2>2. CASE pc[c] = "session" /\ Goes(c, "connect") /\ used' = used
    BY <2>1, <2>2, OrderKept DEF Goes, Probing, ProbesInOrder
  <2>3. CASE \E s : Leased(c, s)
    BY <2>1, <2>3, OrderKept DEF Leased, Goes, Probing
  <2>4. \/ pc[c] = "session" /\ Goes(c, "connect") /\ used' = used
        \/ \E s : Leased(c, s)
    <3>1. CASE lease_reusable(c)
      BY <3>1, ReusableLeased DEF lease_reusable
    <3>2. CASE Connected(c)
      BY <3>2, NewLeased
    <3> QED
      BY <1>4, <3>1, <3>2
  <2> QED
    BY <2>2, <2>3, <2>4
<1>5. CASE GivesUpSetup(c) \/ SetupExpires(c) \/ Resolved(c) \/
          ResolveFails(c) \/ Probed(c) \/ ProbeFails(c) \/ Tell(c) \/
          wait_for_probe(c) \/ CheckTools(c) \/ ConnectFails(c)
  <2>1. Begun' = Begun
    <3>1. \/ state' = state
          \/ /\ pc[c] \in {"probe", "told"}
             /\ \E x \in {"told", "abandoned"} : state' = [state EXCEPT ![used[c]] = x]
      BY <1>5 DEF GivesUpSetup, Returns, Goes, SetupExpires, Setup,
         Resolved, ResolveFails, Probed, remove_generation, ProbeFails, Tell,
         wait_for_probe, CheckTools, ConnectFails, cache
    <3> QED
      BY <3>1 DEF Begun, Probing, ProbesInOrder
  <2>2. /\ old' = old /\ began' = began
        /\ entry' \in {entry, None} /\ flight' \in {flight, None}
    BY <1>5 DEF GivesUpSetup, Returns, Goes, SetupExpires, Setup, Resolved,
       ResolveFails, Probed, remove_generation, ProbeFails, Tell,
       wait_for_probe, CheckTools, ConnectFails, cache
  <2>3. \A d \in Call \ {c} : pc'[d] = pc[d] /\ used'[d] = used[d]
    BY <1>5 DEF GivesUpSetup, Returns, Goes, SetupExpires, Setup, Resolved,
       ResolveFails, Probed, remove_generation, ProbeFails, Tell,
       wait_for_probe, CheckTools, ConnectFails
  <2>4. pc'[c] \in Probing => pc[c] \in Probing /\ used'[c] = used[c]
    BY <1>5 DEF GivesUpSetup, Returns, Goes, SetupExpires, Setup, Resolved,
       ResolveFails, Probed, remove_generation, ProbeFails, Tell,
       wait_for_probe, CheckTools, ConnectFails, Probing
  <2> QED
    BY <2>1, <2>2, <2>3, <2>4, OrderKept DEF ProbesInOrder
<1>6. CASE Release(c) \/ RefuseUnfit(c) \/ Send(c) \/ RemoteRuns(c) \/
          Answered(c) \/ AnswersBadly(c) \/ NoAnswer(c) \/ Captured(c) \/
          CaptureFails(c) \/ CloseForward(c) \/ Unslot(c)
  <2>1. Begun' = Begun /\ UNCHANGED <<entry, flight, old, began, used>>
    BY <1>6 DEF Release, Goes, RefuseUnfit, UnchangedButEnd, Send, Fails,
       RemoteRuns, Answered, AnswersBadly, NoAnswer, Captured, CaptureFails,
       CloseForward, Unslot, cache, Begun
  <2>2. pc'[c] \notin Probing \/ pc'[c] = pc[c]
    BY <1>6 DEF Release, Goes, RefuseUnfit, UnchangedButEnd, Send, Fails,
       RemoteRuns, Answered, AnswersBadly, NoAnswer, Captured, CaptureFails,
       CloseForward, Unslot, Probing
  <2>3. \A d \in Call \ {c} : pc'[d] = pc[d]
    BY <1>6 DEF Release, Goes, RefuseUnfit, UnchangedButEnd, Send, Fails,
       RemoteRuns, Answered, AnswersBadly, NoAnswer, Captured, CaptureFails,
       CloseForward, Unslot
  <2> QED
    BY <2>1, <2>2, <2>3, OrderKept DEF ProbesInOrder
<1> QED
  BY <1>1, <1>2, <1>3, <1>4, <1>5, <1>6 DEF Step

-----------------------------------------------------------------------------
(* The mutations *)

LEMMA KnowsStep ==
  ASSUME TypeOK, LockHeld, LeaseHeld, Pooled, MutationsKnow, NEW c \in Call, Step(c)
  PROVE  MutationsKnow'
<1>t. /\ DOMAIN pc = Call /\ DOMAIN result = Call /\ DOMAIN did = Call
      /\ lease \in [Call -> Session \cup {None}]
  BY DEF TypeOK
<1> USE <1>t
<1>k. /\ pc[c] \in Locked \cup {"lock"} => lease[c] = None
      /\ kind' = kind
  <2>1. pc[c] \in Locked \cup {"lock"} => lease[c] = None
    BY DEF LeaseHeld, Locked, Leasing
  <2>2. kind' = kind
    BY DEF TakeLock, GivesUpSetup, SetupExpires, Resolved, ResolveFails,
       get_or_probe, Probed, ProbeFails, Tell, wait_for_probe, Invalidate,
       CheckTools, lease_reusable, Connected, ConnectFails, Release, Unslot,
       RefuseUnfit, UnchangedButEnd, Send, RemoteRuns, Answered, AnswersBadly,
       NoAnswer, Captured, CaptureFails, CloseForward, Step
  <2> QED
    BY <2>1, <2>2
<1>o. \A d \in Call \ {c} : pc'[d] = pc[d] /\ result'[d] = result[d] /\ did'[d] = did[d]
  <2>1. CASE lease_reusable(c) \/ Connected(c)
    <3>1. UNCHANGED <<result, did>>
      BY <2>1 DEF lease_reusable, Connected
    <3>2. Goes(c, "connect") \/ \E s : Leased(c, s)
      BY <2>1, ReusableLeased, NewLeased
    <3> QED
      BY <3>1, <3>2 DEF Leased, Goes
  <2>2. CASE TakeLock(c) \/ GivesUpSetup(c) \/ SetupExpires(c) \/
             Resolved(c) \/ ResolveFails(c) \/ get_or_probe(c) \/ Probed(c)
             \/ ProbeFails(c) \/ Tell(c) \/ wait_for_probe(c) \/
             Invalidate(c) \/ CheckTools(c) \/ ConnectFails(c)
    BY <2>2 DEF TakeLock, Goes, GivesUpSetup, Returns, SetupExpires, Setup,
       Resolved, ResolveFails, get_or_probe, Probed, remove_generation,
       ProbeFails, Tell, wait_for_probe, Invalidate, CheckTools, ConnectFails
  <2>3. CASE Release(c) \/ RefuseUnfit(c) \/ Send(c) \/ RemoteRuns(c) \/
             Answered(c) \/ AnswersBadly(c) \/ NoAnswer(c) \/ Captured(c)
             \/ CaptureFails(c) \/ CloseForward(c) \/ Unslot(c)
    BY <2>3 DEF Release, Goes, RefuseUnfit, UnchangedButEnd, Send, Fails,
       RemoteRuns, Answered, AnswersBadly, NoAnswer, Captured, CaptureFails,
       CloseForward, Unslot
  <2> QED
    BY <2>1, <2>2, <2>3 DEF Step
<1> SUFFICES ASSUME kind[c] = "mutation" PROVE MutationKnows(c)'
  BY <1>k, <1>o DEF MutationsKnow, MutationKnows
<1>m. MutationKnows(c)
  BY DEF MutationsKnow
<1> USE <1>k, <1>m DEF MutationKnows, Locked
<1>1. CASE TakeLock(c)
  BY <1>1 DEF TakeLock, Goes
<1>2. CASE GivesUpSetup(c)
  BY <1>2 DEF GivesUpSetup, Returns, Goes
<1>3. CASE SetupExpires(c)
  BY <1>3 DEF SetupExpires, Returns, Goes, Setup
<1>4. CASE Resolved(c)
  BY <1>4 DEF Resolved, Returns, Goes
<1>5. CASE ResolveFails(c)
  BY <1>5 DEF ResolveFails, Returns, Goes
<1>6. CASE get_or_probe(c)
  BY <1>6 DEF get_or_probe, Goes
<1>7. CASE Probed(c)
  BY <1>7 DEF Probed, Goes, remove_generation
<1>8. CASE ProbeFails(c)
  BY <1>8 DEF ProbeFails, Returns, Goes, remove_generation
<1>9. CASE Tell(c)
  BY <1>9 DEF Tell, Goes
<1>10. CASE wait_for_probe(c)
  BY <1>10 DEF wait_for_probe, Goes, remove_generation
<1>11. CASE Invalidate(c)
  BY <1>11 DEF Invalidate, Goes
<1>12. CASE CheckTools(c)
  BY <1>12 DEF CheckTools, Returns, Goes
<1>13. CASE lease_reusable(c)
  <2>1. pc[c] = "session" /\ UNCHANGED <<result, did>>
    BY <1>13 DEF lease_reusable
  <2>2. pc'[c] \in {"connect", "send"}
    BY <1>13, <2>1, ReusableLeased DEF Leased, Goes
  <2> QED
    BY <2>1, <2>2
<1>14. CASE Connected(c)
  <2>1. UNCHANGED <<result, did>>
    BY <1>14 DEF Connected
  <2>2. PICK new \in Session : pc[c] = "connect" /\ Leased(c, new)
    BY <1>14, NewLeased
  <2>3. pc'[c] = "send"
    BY <2>2 DEF Leased, Goes
  <2> QED
    BY <2>1, <2>2, <2>3
<1>15. CASE ConnectFails(c)
  BY <1>15 DEF ConnectFails, Returns, Goes
<1>16. CASE Release(c)
  BY <1>16 DEF Release, Goes
<1>17. CASE Unslot(c)
  BY <1>17 DEF Unslot, Goes
<1>18. CASE RefuseUnfit(c)
  BY <1>18 DEF RefuseUnfit, Goes, UnchangedButEnd, Unfit
<1>19. CASE Send(c)
  BY <1>19 DEF Send, Goes, Fails, UnchangedButEnd, after_spawn_error
<1>20. CASE RemoteRuns(c)
  BY <1>20 DEF RemoteRuns
<1>21. CASE Answered(c)
  BY <1>21 DEF Answered, Goes, UnchangedButEnd, Captures, Fixed
<1>22. CASE AnswersBadly(c)
  BY <1>22 DEF AnswersBadly, Goes, UnchangedButEnd, after_spawn_error
<1>23. CASE NoAnswer(c)
  BY <1>23 DEF NoAnswer, Goes, Fails, UnchangedButEnd, after_spawn_error
<1>24. CASE Captured(c)
  BY <1>24 DEF Captured, Goes, UnchangedButEnd
<1>25. CASE CaptureFails(c)
  <2>1. pc[c] = "capture" /\ Goes(c, "leave")
    BY <1>25 DEF CaptureFails
  <2>2. result' = [result EXCEPT ![c] = "unknown"] /\ UNCHANGED did
    BY <1>25 DEF CaptureFails, after_spawn_error
  <2>3. pc'[c] = "leave" /\ result'[c] = "unknown"
    BY <2>1, <2>2 DEF Goes
  <2> QED
    BY <2>3
<1>26. CASE CloseForward(c)
  BY <1>26 DEF CloseForward, Goes, UnchangedButEnd
<1> QED
  BY <1>1, <1>2, <1>3, <1>4, <1>5, <1>6, <1>7, <1>8, <1>9, <1>10, <1>11,
     <1>12, <1>13, <1>14, <1>15, <1>16, <1>17, <1>18, <1>19, <1>20, <1>21,
     <1>22, <1>23, <1>24, <1>25, <1>26 DEF Step

-----------------------------------------------------------------------------
(* Steps of nobody's *)

LEMMA DeathIInv ==
  ASSUME IInv, NEW s \in Session, SessionDies(s)
  PROVE  IInv'
<1>1. /\ session[s] = "open" /\ session' = [session EXCEPT ![s] = "closed"]
      /\ UNCHANGED <<kind, pc, result, second, used, lease, did, began, holder, policy,
                     entry, flight, cell, state, old, mode, pool, leases, tool>>
  BY DEF SessionDies, call, cache
<1>2. TypeOK'
  BY <1>1 DEF IInv, TypeOK
<1>3. LockHeld' /\ LeaseHeld' /\ MutationsKnow'
  BY <1>1 DEF IInv, LockHeld, LeaseHeld, MutationsKnow, MutationKnows
<1>4. Counted'
  <2>1. \A t \in Session : Holders(t)' = Holders(t)
    BY <1>1 DEF Holders
  <2> QED
    BY <1>1, <2>1 DEF IInv, Counted
<1>5. Pooled'
  <2>1. /\ session \in [Session -> {"none", "open", "closed", "retired"}]
        /\ pool \subseteq Session /\ lease \in [Call -> Session \cup {None}]
    BY DEF IInv, TypeOK
  <2> QED
    BY <1>1, <2>1 DEF IInv, Pooled
<1>6. ProbesInOrder'
  <2>1. Begun' = Begun
    BY <1>1 DEF Begun
  <2>2. NextProbe' = NextProbe
    BY <2>1, SameBegun
  <2> QED
    BY <1>1, <2>1, <2>2 DEF IInv, ProbesInOrder
<1> QED
  BY <1>2, <1>3, <1>4, <1>5, <1>6 DEF IInv

(* A step that changes nothing that the invariant speaks of but the tool. *)
LEMMA QuietIInv ==
  ASSUME IInv, tool' \in BOOLEAN, UNCHANGED <<call, holder, policy, cache, slots>>
  PROVE  IInv'
<1>1. UNCHANGED <<kind, pc, result, second, used, lease, did, began, holder, policy,
                  entry, flight, cell, state, old, session, mode, pool, leases>>
  BY DEF call, cache, slots
<1>2. TypeOK'
  BY <1>1 DEF IInv, TypeOK
<1>3. LockHeld' /\ LeaseHeld' /\ MutationsKnow' /\ Pooled'
  BY <1>1 DEF IInv, LockHeld, LeaseHeld, MutationsKnow, MutationKnows, Pooled
<1>4. Counted'
  <2>1. \A t \in Session : Holders(t)' = Holders(t)
    BY <1>1 DEF Holders
  <2> QED
    BY <1>1, <2>1 DEF IInv, Counted
<1>5. ProbesInOrder'
  <2>1. Begun' = Begun
    BY <1>1 DEF Begun
  <2>2. NextProbe' = NextProbe
    BY <2>1, SameBegun
  <2> QED
    BY <1>1, <2>1, <2>2 DEF IInv, ProbesInOrder
<1> QED
  BY <1>2, <1>3, <1>4, <1>5 DEF IInv

-----------------------------------------------------------------------------
(* The theorems *)

LEMMA StepIInv ==
  ASSUME IInv, NEW c \in Call, Step(c)
  PROVE  IInv'
<1> USE DEF IInv
<1>1. TypeOK'
  BY CallTypes, SlotTypes, ProbeTypes DEF TypeOK
<1> QED
  BY <1>1, LockStep, CountedStep, PooledStep, OrderStep, KnowsStep

LEMMA NextIInv ==
  ASSUME IInv, [Next]_vars
  PROVE  IInv'
<1>1. CASE \E c \in Call : Step(c)
  BY <1>1, StepIInv
<1>2. CASE \E s \in Session : SessionDies(s)
  BY <1>2, DeathIInv
<1>3. CASE ToolGoes
  BY <1>3, QuietIInv DEF ToolGoes
<1>4. CASE UNCHANGED vars
  <2>1. tool' \in BOOLEAN /\ UNCHANGED <<call, holder, policy, cache, slots>>
    BY <1>4 DEF vars, IInv, TypeOK
  <2> QED
    BY <2>1, QuietIInv
<1> QED
  BY <1>1, <1>2, <1>3, <1>4 DEF Next

(* The state of the runner is always of its types: in particular the count *)
(* of a slot is never taken below zero, and every lease is of a session.   *)
THEOREM RunnerTypes == Spec => []TypeOK
<1>1. Spec => []IInv
  BY InitIInv, NextIInv, PTL DEF Spec
<1> QED
  BY <1>1, PTL DEF IInv

(* The inductive invariant of the runner. *)
THEOREM RunnerInvariant == Spec => []IInv
BY InitIInv, NextIInv, PTL DEF Spec

(* One open session of a host, which is in the pool; none is ever retired  *)
(* under a call (session_for_host, insert_leased, release_lease).          *)
THEOREM OneSessionHolds == Spec => []OneSession
<1>1. ASSUME IInv PROVE OneSession
  <2> DEFINE Open == {s \in Session : session[s] = "open"}
  <2>1. \A s, t \in Open : s = t
    BY <1>1 DEF IInv, Pooled
  <2>2. Cardinality(Open) <= 1
    <3>1. CASE Open = {}
      BY <3>1, FS_EmptySet
    <3>2. CASE Open # {}
      <4>1. PICK s \in Open : Open = {s}
        BY <2>1, <3>2
      <4> QED
        BY <4>1, FS_Singleton
    <3> QED
      BY <3>1, <3>2
  <2> QED
    BY <1>1, <2>2 DEF OneSession, IInv, Pooled
<1> QED
  BY <1>1, RunnerInvariant, PTL

(* No attempt uses a capability of a probe from before the invalidation    *)
(* that it began after (CapabilityCache::invalidate, get_or_probe).        *)
THEOREM CapabilityIsFresh == Spec => []CapabilityFresh
<1>1. IInv => CapabilityFresh
  BY DEF IInv, ProbesInOrder, CapabilityFresh, Probing
<1> QED
  BY <1>1, RunnerInvariant, PTL

(* What a mutation reports is true of the remote host (after_spawn_error). *)
THEOREM MutationsAreHonest == Spec => []MutationHonest
<1>1. IInv => MutationHonest
  BY DEF IInv, MutationsKnow, MutationKnows, MutationHonest
<1> QED
  BY <1>1, RunnerInvariant, PTL

=============================================================================
