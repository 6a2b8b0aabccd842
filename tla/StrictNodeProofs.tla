--------------------------- MODULE StrictNodeProofs ---------------------------
(***************************************************************************)
(* Theorems about StrictNode for every number of sessions, calls and       *)
(* lengths: the node drives the pool and the HBM books only as they        *)
(* require, so what is proved of them alone holds of them here, and the    *)
(* books always say what the calls need.                                   *)
(***************************************************************************)
EXTENDS StrictNode, LedgerProofs

\* The pool and the books with what is proved of them.
PP == INSTANCE PDPoolProofs WITH MaxFresh <- MaxContext, MaxHolds <- 0
HB == INSTANCE PDHBMProofs WITH
    PCap <- Capacity, DCap <- Capacity,
    MaxAdmissions <- MaxCalls * Cardinality(Session), LateCancel <- FALSE

\* What the node keeps beside the pool and the books is well typed.
NodeTypes ==
    /\ callState \in [Req -> CallState]
    /\ input \in [Req -> Inputs \cup {0}] /\ reuse \in [Req -> 0..MaxContext]
    /\ hit \in [Req -> 0..MaxContext]
    /\ pendingCalls \in Seq(Req) /\ readyCalls \in Seq(Req)
    /\ activeCall \in [Session -> (1..MaxCalls) \cup {NoCall}]
    /\ materialized \in [Session -> 0..MaxContext]
    /\ resident \in [Session -> BOOLEAN] /\ ended \in [Session -> BOOLEAN]

\* The call its session works for.
IsCurrent(r) == activeCall[r[1]] = r[2]

\* Where a call stands, in the node, in the pool and among its notifications.
Phase(r) ==
    /\ state[r] = "waiting_p" <=> callState[r] \in {"unreleased", "pending", "preparing"}
    /\ callState[r] \in {"preparing", "executing", "user_complete"} => IsCurrent(r)
    /\ IsCurrent(r) => callState[r] \in {"pending", "preparing", "executing", "user_complete"}
    /\ callState[r] # "unreleased" => input[r] \in Inputs
    /\ r \in completed <=> callState[r] = "executing" /\ state[r] = "complete"
    /\ r \in handedOff => handoffDone[r] /\ callState[r] \in {"executing", "user_complete"}
    /\ callState[r] = "user_complete" => /\ state[r] = "complete" /\ NeedsD(r)
                                         /\ handoffDone[r] => r \in handedOff
    /\ callState[r] = "internal_complete" => /\ state[r] = "complete"
                                             /\ NeedsD(r) => handoffDone[r]

\* A call that is admitted and not yet submitted is being copied for or ready,
\* once; one that waits for its session is pending, once.
QueuedOnce(r) ==
    /\ Occurrences(<<"prepare", r>>, fabric) + Occurrences(r, readyCalls)
           = (IF IsCurrent(r) /\ callState[r] \in {"pending", "preparing"} THEN 1 ELSE 0)
    /\ Occurrences(r, pendingCalls)
           = (IF ~IsCurrent(r) /\ callState[r] = "pending" THEN 1 ELSE 0)

\* The live admission of a session is its current call's: P holds the prompt
\* until the node has seen the handoff, and D has what the copy needs.
Admission(r) ==
    /\ IsCurrent(r) =>
           /\ active[r[1]].p = HBM!KVBytes(input[r])
           /\ active[r[1]].target = (IF NeedsD(r) THEN HBM!KVBytes(Materialized(r)) ELSE 0)
           /\ hit[r] < input[r]
           /\ p[r[1]] = (IF handoffDone[r] /\ r \notin handedOff THEN 0 ELSE active[r[1]].p)
    /\ Occurrences(<<"prepare", r>>, fabric) > 0
           => /\ d[r[1]] = active[r[1]].held
              /\ d[r[1]] >= HBM!KVBytes(materialized[r[1]])

\* A session without a current call has no admission, and D holds its lineage.
Idle(s) ==
    /\ active[s] = HBM!NoAdmission <=> activeCall[s] = NoCall
    /\ activeCall[s] = NoCall
           => d[s] = IF resident[s] THEN HBM!KVBytes(materialized[s]) ELSE 0

CallsInOrder ==
    /\ \A r \in Req : Phase(r) /\ QueuedOnce(r) /\ Admission(r)
    /\ \A s \in Session : Idle(s)

\* The inductive invariant.
NodeInv == NodeTypes /\ PP!PoolInv /\ HB!IInv /\ HB!DCapacity /\ CallsInOrder

-----------------------------------------------------------------------------
(* The parameters of the node satisfy those of its parts.                  *)

\* The parts speak of finite sets, sequences and sums as the node does.
LEMMA SameSets ==
    /\ \A S : /\ PP!IsFiniteSet(S) = IsFiniteSet(S) /\ HB!IsFiniteSet(S) = IsFiniteSet(S)
             /\ PP!Cardinality(S) = Cardinality(S) /\ Pool!Cardinality(S) = Cardinality(S)
BY DEF IsFiniteSet, Cardinality, PP!IsFiniteSet, PP!Cardinality, Pool!IsFiniteSet,
       Pool!Cardinality, HB!IsFiniteSet

LEMMA PoolParameters == PP!PoolAssumption
<1>1. 0 \in Nat
    OBVIOUS
<1> QED
    BY <1>1, NodeAssumption, SameSets DEF PP!PoolAssumption

LEMMA BooksParameters ==
    /\ HB!SessionAssumption /\ HB!CapAssumption /\ HB!BlockAssumption
    /\ HB!TokenAssumption /\ HB!BoundAssumption /\ HB!LateCancelAssumption
<1> DEFINE n == Cardinality(Session)
<1>1. n \in Nat /\ n # 0
    BY NodeAssumption, FS_CardinalityType, FS_EmptySet
<1>2. MaxContext + BlockSize \in Nat \ {0} /\ MaxCalls \in Nat
    BY NodeAssumption
<1> HIDE DEF n
<1>3. \A a, b \in Nat \ {0} : a * b \in Nat \ {0}
    OBVIOUS
<1>4. n * (MaxContext + BlockSize) \in Nat \ {0}
    BY <1>1, <1>2, <1>3
<1>5. MaxCalls * n \in Nat
    BY <1>1, <1>2
<1>6. HB!CapAssumption
    BY <1>4 DEF HB!CapAssumption, Capacity, n
<1>7. HB!BoundAssumption
    BY <1>5 DEF HB!BoundAssumption, n
<1>8. HB!SessionAssumption /\ HB!BlockAssumption /\ HB!TokenAssumption
    BY NodeAssumption, SameSets DEF HB!SessionAssumption, HB!BlockAssumption, HB!TokenAssumption
<1>9. HB!LateCancelAssumption
    BY DEF HB!LateCancelAssumption
<1> QED
    BY <1>6, <1>7, <1>8, <1>9

\* The node and its proofs speak of the same parts.
LEMMA SameRequests == PP!Req = Req /\ Pool!Req = Req /\ HB!NoAdmission = HBM!NoAdmission
BY DEF PP!Req, Pool!Req, Req, HB!NoAdmission, HBM!NoAdmission

LEMMA SameBytes == \A n : HB!KVBytes(n) = HBM!KVBytes(n)
BY DEF HB!KVBytes, HBM!KVBytes

LEMMA SameOnly == \A s, K : PP!Only(s, K) = Pool!Only(s, K)
BY DEF PP!Only, Pool!Only

LEMMA SameEvents ==
    ASSUME \/ \E E \in SUBSET Pool!Event : Pool!Tick(E)
           \/ Pool!FinishDBatch \/ Pool!FinishPBatch \/ Pool!FinishHandoff \/ Pool!Flush
    PROVE  \/ \E E \in SUBSET PP!Event : PP!Tick(E)
           \/ PP!FinishDBatch \/ PP!FinishPBatch \/ PP!FinishHandoff \/ PP!Flush
<1>1. ASSUME NEW E \in SUBSET Pool!Event, Pool!Tick(E)
      PROVE  E \in SUBSET PP!Event /\ PP!Tick(E)
    BY <1>1 DEF PP!Event, Pool!Event, PP!Tick, Pool!Tick, PP!Pending, Pool!Pending,
                PP!LaunchEvent, Pool!LaunchEvent, PP!requestVars, Pool!requestVars,
                PP!tokenVars, Pool!tokenVars, PP!workerVars, Pool!workerVars,
                PP!modelVars, Pool!modelVars
<1>2. CASE Pool!FinishDBatch
  <2>1. PP!FinishDBatch
      BY <1>2, SameOnly DEF PP!FinishDBatch, Pool!FinishDBatch, PP!ElementsOf, Pool!ElementsOf,
                PP!Req, Pool!Req, PP!LastToken, Pool!LastToken, PP!requestVars,
                Pool!requestVars, PP!modelVars, Pool!modelVars
  <2> QED
      BY <2>1
<1>3. CASE Pool!FinishPBatch
  <2>1. PP!FinishPBatch
      BY <1>3, SameOnly DEF PP!FinishPBatch, Pool!FinishPBatch, PP!ElementsOf, Pool!ElementsOf,
                PP!Req, Pool!Req, PP!Prefilled, Pool!Prefilled, PP!NeedsHandoff,
                Pool!NeedsHandoff, PP!HandsOverAtOnce, Pool!HandsOverAtOnce, PP!requestVars,
                Pool!requestVars, PP!modelVars, Pool!modelVars
  <2> QED
      BY <2>1
<1>4. CASE Pool!FinishHandoff
  <2>1. PP!FinishHandoff
      BY <1>4 DEF PP!FinishHandoff, Pool!FinishHandoff, PP!FabricEnds, Pool!FabricEnds,
                PP!requestVars, Pool!requestVars, PP!tokenVars, Pool!tokenVars,
                PP!modelVars, Pool!modelVars
  <2> QED
      BY <2>1
<1>5. CASE Pool!Flush
  <2>1. \A r : PP!Want(r) = Pool!Want(r)
      BY DEF PP!Want, Pool!Want, PP!Least, Pool!Least
  <2>2. \A f, cap : PP!Total(f, cap) = Pool!Total(f, cap)
      BY SameSets DEF PP!Total, Pool!Total, PP!Cells, Pool!Cells
  <2>3. \A i : PP!BudgetAt(i) = Pool!BudgetAt(i)
      BY <2>1, <2>2 DEF PP!BudgetAt, Pool!BudgetAt
  <2>4. PP!PSelected = Pool!PSelected /\ PP!DSelected = Pool!DSelected
      BY <2>3 DEF PP!PSelected, Pool!PSelected, PP!DSelected, Pool!DSelected
  <2>5. \A S, s : /\ PP!TakeBatch(S, s) = Pool!TakeBatch(S, s)
                  /\ PP!LeaveRest(S, s) = Pool!LeaveRest(S, s)
      BY SameSets DEF PP!TakeBatch, Pool!TakeBatch, PP!LeaveRest, Pool!LeaveRest
  <2>6. PP!LaunchD
      BY <1>5, <2>4, <2>5 DEF Pool!Flush, PP!LaunchD, Pool!LaunchD
  <2>7. \A a, b : PP!Least(a, b) = Pool!Least(a, b)
      BY DEF PP!Least, Pool!Least
  <2>8. PP!LaunchP
      BY <1>5, <2>1, <2>3, <2>4, <2>5, <2>7, SameRequests DEF Pool!Flush, PP!LaunchP, Pool!LaunchP
  <2>9. PP!Flush
      BY <1>5, <2>6, <2>8 DEF PP!Flush, Pool!Flush, PP!WaitForModel, Pool!WaitForModel,
                PP!Stage, Pool!Stage, PP!requestVars, Pool!requestVars
  <2> QED
      BY <2>9
<1> QED
    BY <1>1, <1>2, <1>3, <1>4, <1>5

LEMMA SameOccurrences == \A x, s : /\ PP!Occurrences(x, s) = Occurrences(x, s)
                                   /\ Pool!Occurrences(x, s) = Occurrences(x, s)
BY SameSets DEF PP!Occurrences, Pool!Occurrences, Occurrences

-----------------------------------------------------------------------------
(* What the invariants of the parts say to the node.                       *)

\* The pool's view of its requests, in the node's words.
LEMMA PoolFacts ==
    ASSUME PP!PoolInv
    PROVE  /\ output \in [Req -> Outputs] /\ successor \in [Req -> BOOLEAN]
           /\ state \in [Req -> {"waiting_p", "p_prefill", "handoff", "d_decode", "complete"}]
           /\ handoffDone \in [Req -> BOOLEAN]
           /\ fabric \in Seq({"handoff", "prepare"} \X Req)
           /\ handedOff \subseteq Req /\ completed \subseteq Req
           /\ open \in BOOLEAN
           /\ \A r \in Req :
                  /\ output[r] \in Outputs /\ output[r] \in Nat \ {0}
                  /\ handoffDone[r] => NeedsD(r)
                  /\ state[r] \in {"waiting_p", "p_prefill", "handoff"} => ~handoffDone[r]
                  /\ state[r] = "complete" /\ output[r] > 1 => handoffDone[r]
                  /\ state[r] \in {"handoff", "d_decode"} => NeedsD(r)
                  /\ Occurrences(<<"handoff", r>>, fabric) > 0
                         => /\ state[r] \in {"handoff", "d_decode", "complete"}
                            /\ NeedsD(r) /\ ~handoffDone[r]
<1>1. PP!TypeOK /\ PP!RequestProgress /\ PP!HandoffOnce
    BY DEF PP!PoolInv
<1>2. /\ output \in [Req -> Outputs] /\ successor \in [Req -> BOOLEAN]
      /\ state \in [Req -> {"waiting_p", "p_prefill", "handoff", "d_decode", "complete"}]
      /\ handoffDone \in [Req -> BOOLEAN]
      /\ fabric \in Seq({"handoff", "prepare"} \X Req)
      /\ handedOff \subseteq Req /\ completed \subseteq Req
      /\ open \in BOOLEAN
      /\ left \in [Req -> 0..MaxContext] /\ generated \in [Req -> Nat]
    BY <1>1, SameRequests DEF PP!TypeOK, PP!State, PP!Job
<1>3. ASSUME NEW r \in Req
      PROVE  /\ output[r] \in Outputs /\ output[r] \in Nat \ {0}
             /\ handoffDone[r] => NeedsD(r)
             /\ state[r] \in {"waiting_p", "p_prefill", "handoff"} => ~handoffDone[r]
             /\ state[r] = "complete" /\ output[r] > 1 => handoffDone[r]
             /\ state[r] \in {"handoff", "d_decode"} => NeedsD(r)
             /\ Occurrences(<<"handoff", r>>, fabric) > 0
                    => /\ state[r] \in {"handoff", "d_decode", "complete"}
                       /\ NeedsD(r) /\ ~handoffDone[r]
  <2>1. output[r] \in Outputs /\ output[r] \in Nat \ {0}
      BY <1>2, NodeAssumption
  <2>2. /\ handoffDone[r] => NeedsD(r) /\ left[r] = 0
        /\ state[r] = "d_decode" => handoffDone[r]
      BY <1>1, SameRequests DEF PP!HandoffOnce, PP!NeededOnD, NeedsD
  <2>3. /\ state[r] = "waiting_p" => ~handoffDone[r]
        /\ state[r] = "p_prefill" => left[r] > 0
        /\ state[r] = "handoff" => output[r] > 1 /\ ~handoffDone[r]
        /\ state[r] = "complete" /\ output[r] > 1 => handoffDone[r]
      BY <1>1, SameRequests DEF PP!RequestProgress
  <2>4. state[r] = "p_prefill" => ~handoffDone[r]
      BY <2>2, <2>3
  <2>5. Occurrences(<<"handoff", r>>, fabric) =
            (IF /\ state[r] \in {"handoff", "d_decode", "complete"}
                /\ NeedsD(r) /\ ~handoffDone[r] THEN 1 ELSE 0)
      BY <1>1, SameRequests, SameOccurrences DEF PP!HandoffOnce, PP!NeededOnD, NeedsD
  <2>6. Occurrences(<<"handoff", r>>, fabric) > 0
            => /\ state[r] \in {"handoff", "d_decode", "complete"}
               /\ NeedsD(r) /\ ~handoffDone[r]
      BY <2>5
  <2> QED
      BY <2>1, <2>2, <2>3, <2>4, <2>6 DEF NeedsD
<1> QED
    BY <1>2, <1>3

\* The node's type invariant, with the pool's.
LEMMA NodeTyped == NodeTypes /\ PP!PoolInv => TypeOK
<1>1. PP!PoolInv => Pool!TypeOK
    BY SameRequests DEF PP!PoolInv, PP!TypeOK, Pool!TypeOK, PP!State, Pool!State, PP!Job,
        Pool!Job, PP!Stage, Pool!Stage, PP!Event, Pool!Event
<1> QED
    BY <1>1 DEF NodeTypes, TypeOK

\* A call is one of its session's.
LEMMA CallParts ==
    ASSUME NEW r \in Req
    PROVE  /\ r[1] \in Session /\ r[2] \in 1..MaxCalls /\ r[2] # NoCall
           /\ r = <<r[1], r[2]>> /\ r[2] \in Nat
           /\ \A q \in Req : q # r /\ q[1] = r[1] => q[2] # r[2]
BY NodeAssumption DEF Req, NoCall

LEMMA BooksFacts ==
    ASSUME HB!IInv
    PROVE  /\ p \in [Session -> 0..Capacity] /\ d \in [Session -> 0..Capacity]
           /\ active \in [Session -> issued \cup {HBM!NoAdmission}]
           /\ Capacity \in Nat
           /\ \A s \in Session :
                  IF active[s] = HBM!NoAdmission THEN p[s] = 0
                  ELSE /\ active[s] \in issued /\ active[s].session = s
                       /\ active[s].target \in Nat /\ active[s].held \in Nat
                       /\ active[s].target <= active[s].held /\ active[s].prior <= active[s].held
                       /\ p[s] \in {0, active[s].p} /\ d[s] \in {active[s].held, active[s].target}
<1>1. HB!TypeOK /\ HB!BooksMatchAdmissions /\ HB!AdmissionsBounded
    BY DEF HB!IInv
<1>2. /\ p \in [Session -> 0..Capacity] /\ d \in [Session -> 0..Capacity]
      /\ active \in [Session -> issued \cup {HBM!NoAdmission}]
    BY <1>1, SameRequests DEF HB!TypeOK
<1>3. ASSUME NEW s \in Session, active[s] # HBM!NoAdmission
      PROVE  /\ active[s] \in issued /\ active[s].session = s
             /\ active[s].target \in Nat /\ active[s].held \in Nat
             /\ active[s].target <= active[s].held /\ active[s].prior <= active[s].held
             /\ p[s] \in {0, active[s].p} /\ d[s] \in {active[s].held, active[s].target}
  <2>1. active[s] \in issued
      BY <1>2, <1>3
  <2>2. active[s].target \in Nat /\ active[s].held \in Nat
      BY <1>1, <2>1 DEF HB!TypeOK, HB!Admission
  <2>3. active[s].target <= active[s].held /\ active[s].prior <= active[s].held
      BY <1>1, <2>1 DEF HB!AdmissionsBounded
  <2>4. /\ active[s].session = s /\ p[s] \in {0, active[s].p}
        /\ d[s] \in {active[s].held, active[s].target}
      BY <1>1, <1>3, SameRequests DEF HB!BooksMatchAdmissions
  <2> QED
      BY <2>1, <2>2, <2>3, <2>4
<1>4. \A s \in Session : active[s] = HBM!NoAdmission => p[s] = 0
    BY <1>1, SameRequests DEF HB!BooksMatchAdmissions
<1>5. Capacity \in Nat
    BY BooksParameters DEF HB!CapAssumption
<1> QED
    BY <1>2, <1>3, <1>4, <1>5

\* The admission of a current call, and what P and D hold of it.
LEMMA CurrentAdmission ==
    ASSUME NodeInv, NEW r \in Req, IsCurrent(r)
    PROVE  LET a == active[r[1]] IN
           /\ a \in issued /\ a.session = r[1] /\ a # HBM!NoAdmission
           /\ a.target \in Nat /\ a.held \in Nat /\ a.target <= a.held
           /\ d[r[1]] \in {a.held, a.target}
           /\ a.target = (IF NeedsD(r) THEN HBM!KVBytes(Materialized(r)) ELSE 0)
<1>1. r[1] \in Session /\ r[2] # NoCall
    BY CallParts
<1>2. active[r[1]] # HBM!NoAdmission
    BY <1>1 DEF NodeInv, CallsInOrder, Idle, IsCurrent
<1>3. active[r[1]].target = (IF NeedsD(r) THEN HBM!KVBytes(Materialized(r)) ELSE 0)
    BY DEF NodeInv, CallsInOrder, Admission
<1> QED
    BY <1>1, <1>2, <1>3, BooksFacts DEF NodeInv

\* Settling or ending an admission keeps the books.
LEMMA BooksStep ==
    ASSUME HB!IInv, HB!DCapacity, NEW a \in issued, NEW h \in BOOLEAN,
           HBM!ReleaseP(a) \/ HBM!ReleaseDSource(a) \/ HBM!Finish(a, h)
    PROVE  HB!IInv' /\ HB!DCapacity'
<1>1. HB!ReleaseP(a) \/ HB!ReleaseDSource(a) \/ HB!Finish(a, h)
    BY SameRequests DEF HB!ReleaseP, HBM!ReleaseP, HB!ReleaseDSource, HBM!ReleaseDSource,
        HB!Finish, HBM!Finish, HB!IsActive, HBM!IsActive
<1>2. HB!Next
    BY <1>1 DEF HB!Next
<1>3. HB!IInv /\ [HB!Next]_(HB!vars) => HB!IInv' /\ (~FALSE /\ HB!DCapacity => HB!DCapacity')
    BY BooksParameters, HB!NextIInv DEF HB!NextIInv
<1> QED
    BY <1>2, <1>3

\* A step that leaves the books alone leaves them right.
LEMMA BooksKept ==
    ASSUME HB!IInv, HB!DCapacity, UNCHANGED hbmVars
    PROVE  HB!IInv' /\ HB!DCapacity'
<1>1. UNCHANGED HB!vars
    BY DEF hbmVars, HB!vars
<1>2. HB!IInv /\ [HB!Next]_(HB!vars) => HB!IInv' /\ (~FALSE /\ HB!DCapacity => HB!DCapacity')
    BY BooksParameters, HB!NextIInv DEF HB!NextIInv
<1> QED
    BY <1>1, <1>2

-----------------------------------------------------------------------------
(* The initial state.                                                      *)

LEMMA InitNodeInv == Init => NodeInv
<1> SUFFICES ASSUME Init PROVE NodeInv
    OBVIOUS
<1>1. PP!PoolInv
  <2>1. PP!Init
      BY SameRequests DEF Init, Pool!Init, PP!Init
  <2>2. PP!Init => PP!PoolInv
      BY PoolParameters, PP!InitPoolInv DEF PP!InitPoolInv
  <2> QED
      BY <2>1, <2>2
<1>2. HB!IInv /\ HB!DCapacity
  <2>1. HB!Init
      BY SameRequests DEF Init, HBM!Init, HB!Init
  <2>2. HB!Init => HB!IInv /\ HB!DCapacity
      BY BooksParameters, HB!InitIInv DEF HB!InitIInv
  <2> QED
      BY <2>1, <2>2
<1>3. NodeTypes
    BY NodeAssumption DEF Init, NodeTypes, CallState
<1>4. ASSUME NEW r \in Req
      PROVE  Phase(r) /\ QueuedOnce(r) /\ Admission(r)
  <2>1. /\ callState[r] = "unreleased" /\ state[r] = "waiting_p" /\ ~IsCurrent(r)
        /\ completed = {} /\ handedOff = {} /\ fabric = <<>>
        /\ readyCalls = <<>> /\ pendingCalls = <<>>
      BY CallParts, SameRequests DEF Init, Pool!Init, IsCurrent
  <2>2. /\ Occurrences(<<"prepare", r>>, fabric) = 0 /\ Occurrences(r, readyCalls) = 0
        /\ Occurrences(r, pendingCalls) = 0
      BY <2>1, OccEmpty
  <2> QED
      BY <2>1, <2>2 DEF Phase, QueuedOnce, Admission
<1>5. ASSUME NEW s \in Session
      PROVE  Idle(s)
    BY DEF Init, HBM!Init, Idle, NoCall
<1> QED
    BY <1>1, <1>2, <1>3, <1>4, <1>5 DEF NodeInv, CallsInOrder

-----------------------------------------------------------------------------
(* Every step preserves the invariant.                                     *)

\* The pool's events move no call of the node, but complete some and hand some
\* over, and the node is told of each.
LEMMA EventStep ==
    ASSUME NodeInv, PoolEvent \/ FlushPool
    PROVE  NodeInv'
<1>0. NodeTypes /\ PP!PoolInv /\ HB!IInv /\ HB!DCapacity /\ CallsInOrder
    BY DEF NodeInv
<1>1. /\ \/ \E E \in SUBSET Pool!Event : Pool!Tick(E)
         \/ Pool!FinishDBatch \/ Pool!FinishPBatch \/ Pool!FinishHandoff \/ Pool!Flush
      /\ UNCHANGED <<p, d, active, nextId, issued, callState, input, reuse, hit, pendingCalls,
                     readyCalls, activeCall, materialized, resident, ended>>
    BY DEF PoolEvent, FlushPool, hbmVars, callVars, placementVars
<1>2. \/ \E E \in SUBSET PP!Event : PP!Tick(E)
      \/ PP!FinishDBatch \/ PP!FinishPBatch \/ PP!FinishHandoff \/ PP!Flush
    BY <1>1, SameEvents
<1>3. PP!PoolInv'
  <2>1. PP!Next
      BY <1>2 DEF PP!Next
  <2>2. PP!PoolInv /\ [PP!Next]_(PP!vars) => PP!PoolInv'
      BY PoolParameters, PP!NextPoolInv DEF PP!NextPoolInv
  <2> QED
      BY <1>0, <2>1, <2>2
<1>4. ASSUME NEW q \in Req
      PROVE  PP!Reported(q) /\ output' = output /\ successor' = successor
  <2>1. q \in PP!Req
      BY SameRequests
  <2> QED
      BY <1>0, <1>2, <2>1, PoolParameters, PP!EventReported DEF PP!EventReported
<1>5. HB!IInv' /\ HB!DCapacity'
    BY <1>0, <1>1, BooksKept DEF hbmVars
<1>6. NodeTypes'
    BY <1>0, <1>1 DEF NodeTypes
<1>7. ASSUME NEW q \in Req
      PROVE  Phase(q)' /\ QueuedOnce(q)' /\ Admission(q)'
  <2>1. /\ state'[q] = "waiting_p" <=> state[q] = "waiting_p"
        /\ state[q] = "complete" => state'[q] = "complete"
        /\ q \in completed' <=> q \in completed \/ (state[q] # "complete" /\ state'[q] = "complete")
        /\ handoffDone[q] => handoffDone'[q]
        /\ q \in handedOff' <=> q \in handedOff \/ (~handoffDone[q] /\ handoffDone'[q])
        /\ Occurrences(<<"prepare", q>>, fabric') = Occurrences(<<"prepare", q>>, fabric)
      BY <1>4, SameOccurrences DEF PP!Reported
  <2>2. /\ callState'[q] = callState[q] /\ input'[q] = input[q] /\ hit'[q] = hit[q]
        /\ NeedsD(q)' = NeedsD(q) /\ Materialized(q)' = Materialized(q)
        /\ IsCurrent(q)' = IsCurrent(q) /\ callState[q] \in CallState
      BY <1>0, <1>1, <1>4 DEF NeedsD, Materialized, IsCurrent, NodeTypes
  <2>3. Phase(q) /\ QueuedOnce(q) /\ Admission(q)
      BY <1>0 DEF CallsInOrder
  <2>4. ~handoffDone[q] /\ handoffDone'[q] => callState[q] \in {"executing", "user_complete"}
    <3>1. handoffDone'[q] => NeedsD(q)' /\ state'[q] # "waiting_p"
      <4>1. PP!HandoffOnce' /\ PP!RequestProgress'
          BY <1>3 DEF PP!PoolInv
      <4> QED
          BY <4>1, SameRequests DEF PP!HandoffOnce, PP!RequestProgress, PP!NeededOnD, NeedsD
    <3>2. callState[q] = "internal_complete" => (NeedsD(q) => handoffDone[q])
        BY <2>3 DEF Phase
    <3>3. state[q] # "waiting_p" => callState[q] \notin {"unreleased", "pending", "preparing"}
        BY <2>3 DEF Phase
    <3> QED
        BY <2>1, <2>2, <3>1, <3>2, <3>3 DEF CallState
  <2>5. Phase(q)'
    <3>1. state[q] # "complete" /\ state'[q] = "complete" => callState[q] = "executing"
        BY <2>1, <2>2, <2>3 DEF Phase, CallState
    <3> QED
        BY <2>1, <2>2, <2>3, <2>4, <3>1 DEF Phase
  <2>6. QueuedOnce(q)'
      BY <1>1, <2>1, <2>2, <2>3 DEF QueuedOnce
  <2>7. Admission(q)'
      BY <1>1, <2>1, <2>2, <2>3 DEF Admission, HBM!KVBytes
  <2> QED
      BY <2>5, <2>6, <2>7
<1>8. ASSUME NEW s \in Session
      PROVE  Idle(s)'
    BY <1>0, <1>1 DEF CallsInOrder, Idle, HBM!KVBytes, HBM!NoAdmission
<1> QED
    BY <1>3, <1>5, <1>6, <1>7, <1>8 DEF NodeInv, CallsInOrder

\* Two calls of a session are not both current.
LEMMA OneCurrent ==
    ASSUME NEW r \in Req, NEW q \in Req, IsCurrent(r), IsCurrent(q), q # r
    PROVE  q[1] # r[1]
BY CallParts DEF IsCurrent

\* A call whose prefix is being copied is its session's current call.
LEMMA CopiedIsCurrent ==
    ASSUME NodeInv, NEW q \in Req, Occurrences(<<"prepare", q>>, fabric) > 0
    PROVE  IsCurrent(q) /\ callState[q] \in {"pending", "preparing"}
<1>1. fabric \in Seq({"handoff", "prepare"} \X Req) /\ readyCalls \in Seq(Req)
    BY PoolFacts DEF NodeInv, NodeTypes
<1>2. Occurrences(<<"prepare", q>>, fabric) \in Nat /\ Occurrences(q, readyCalls) \in Nat
    BY <1>1, OccType
<1>3. Occurrences(<<"prepare", q>>, fabric) + Occurrences(q, readyCalls)
          = (IF IsCurrent(q) /\ callState[q] \in {"pending", "preparing"} THEN 1 ELSE 0)
    BY DEF NodeInv, CallsInOrder, QueuedOnce
<1> QED
    BY <1>2, <1>3

\* The copy ends: its call is ready, and D shrinks to what the new turn needs.
LEMMA FinishPrepareStep ==
    ASSUME NodeInv, FinishPrepare
    PROVE  NodeInv'
<1> DEFINE r == Head(fabric)[2]
           a == active[r[1]]
<1>0. NodeTypes /\ PP!PoolInv /\ HB!IInv /\ HB!DCapacity /\ CallsInOrder
    BY DEF NodeInv
<1>1. /\ Pool!FabricEnds("prepare") /\ HBM!ReleaseDSource(a)
      /\ readyCalls' = Append(readyCalls, r)
      /\ UNCHANGED <<output, successor, state, left, covered, chunk, generated, handoffDone,
                     pWaiting, dWaiting, pBatch, dBatch, held, launch, holds, open,
                     handedOff, completed>>
      /\ UNCHANGED <<callState, input, reuse, hit, pendingCalls,
                     activeCall, materialized, resident, ended>>
    BY DEF FinishPrepare, placementVars
<1>2. PP!PoolInv' /\ r \in Req
  <2>1. PP!FabricEnds("prepare")
      BY <1>1 DEF PP!FabricEnds, Pool!FabricEnds
  <2>2. PP!PoolInv' /\ r \in PP!Req
      BY <1>0, <1>1, <2>1, PoolParameters, PP!PrepareEnds DEF PP!PrepareEnds
  <2> QED
      BY <2>2, SameRequests
<1>3. /\ fabric \in Seq({"handoff", "prepare"} \X Req) /\ fabric # <<>>
      /\ Head(fabric) = <<"prepare", r>> /\ fabric' = Tail(fabric)
  <2>1. fabric \in Seq({"handoff", "prepare"} \X Req)
      BY <1>0, PoolFacts
  <2>2. fabric # <<>>
      BY <1>0, <1>1 DEF Pool!FabricEnds, PP!PoolInv, PP!EventsHaveCauses
  <2>3. Head(fabric) \in {"handoff", "prepare"} \X Req
      BY <2>1, <2>2, OccTail
  <2>4. Head(fabric)[1] = "prepare" /\ fabric' = Tail(fabric)
      BY <1>1 DEF Pool!FabricEnds
  <2>5. Head(fabric) = <<Head(fabric)[1], Head(fabric)[2]>>
      BY <2>3
  <2> QED
      BY <2>1, <2>2, <2>4, <2>5
<1> HIDE DEF r
<1>4. ASSUME NEW q \in Req
      PROVE  /\ Occurrences(<<"prepare", q>>, fabric)
                    = (IF q = r THEN 1 ELSE 0) + Occurrences(<<"prepare", q>>, fabric')
             /\ Occurrences(q, readyCalls') = Occurrences(q, readyCalls) + (IF q = r THEN 1 ELSE 0)
             /\ Occurrences(<<"prepare", q>>, fabric) \in Nat
             /\ Occurrences(<<"prepare", q>>, fabric') \in Nat
             /\ Occurrences(q, readyCalls) \in Nat
  <2>1. /\ Occurrences(<<"prepare", q>>, fabric)
               = (IF <<"prepare", q>> = Head(fabric) THEN 1 ELSE 0)
                     + Occurrences(<<"prepare", q>>, Tail(fabric))
        /\ Tail(fabric) \in Seq({"handoff", "prepare"} \X Req)
      BY <1>3, OccTail
  <2>2. <<"prepare", q>> = Head(fabric) <=> q = r
      BY <1>3
  <2>3. readyCalls \in Seq(Req)
      BY <1>0 DEF NodeTypes
  <2>4. Occurrences(q, readyCalls') = Occurrences(q, readyCalls) + (IF q = r THEN 1 ELSE 0)
      BY <1>1, <1>2, <2>3, OccAppend
  <2>5. /\ Occurrences(<<"prepare", q>>, fabric) \in Nat
        /\ Occurrences(<<"prepare", q>>, Tail(fabric)) \in Nat
        /\ Occurrences(q, readyCalls) \in Nat
      BY <1>3, <2>1, <2>3, OccType
  <2> QED
      BY <1>3, <2>1, <2>2, <2>4, <2>5
<1>5. IsCurrent(r) /\ callState[r] \in {"pending", "preparing"}
  <2>1. Occurrences(<<"prepare", r>>, fabric) > 0
      BY <1>2, <1>4
  <2> QED
      BY <1>2, <2>1, CopiedIsCurrent
<1>6. /\ a \in issued /\ a.session = r[1] /\ a.target \in Nat
      /\ r[1] \in Session /\ r[2] # NoCall
    BY <1>2, <1>5, CurrentAdmission, CallParts
<1>7. HB!IInv' /\ HB!DCapacity'
    BY <1>0, <1>1, <1>6, BooksStep
<1>8. /\ d' = [d EXCEPT ![r[1]] = a.target]
      /\ UNCHANGED <<p, active, nextId, issued>>
    BY <1>1, <1>6 DEF HBM!ReleaseDSource
<1> HIDE DEF a
<1>9. d \in [Session -> 0..Capacity]
    BY <1>0, BooksFacts
<1>10. NodeTypes'
    BY <1>0, <1>1, <1>2 DEF NodeTypes
<1>11. ASSUME NEW q \in Req
       PROVE  Phase(q)' /\ QueuedOnce(q)' /\ Admission(q)'
  <2>1. Phase(q) /\ QueuedOnce(q) /\ Admission(q)
      BY <1>0 DEF CallsInOrder
  <2>2. /\ NeedsD(q)' = NeedsD(q) /\ Materialized(q)' = Materialized(q)
        /\ IsCurrent(q)' = IsCurrent(q) /\ callState' = callState
        /\ handedOff' = handedOff /\ handoffDone' = handoffDone /\ input' = input /\ hit' = hit
        /\ p' = p /\ active' = active /\ pendingCalls' = pendingCalls
        /\ materialized' = materialized
      BY <1>1, <1>8 DEF NeedsD, Materialized, IsCurrent
  <2>3. Phase(q)'
      BY <1>1, <2>1, <2>2 DEF Phase
  <2>4. QueuedOnce(q)'
    <3>1. Occurrences(<<"prepare", q>>, fabric') + Occurrences(q, readyCalls')
              = Occurrences(<<"prepare", q>>, fabric) + Occurrences(q, readyCalls)
        BY <1>4
    <3> QED
        BY <2>1, <2>2, <3>1 DEF QueuedOnce
  <2>5. Occurrences(<<"prepare", q>>, fabric') > 0
            => d'[q[1]] = d[q[1]] /\ Occurrences(<<"prepare", q>>, fabric) > 0
    <3>1. SUFFICES ASSUME Occurrences(<<"prepare", q>>, fabric') > 0
                   PROVE  d'[q[1]] = d[q[1]] /\ Occurrences(<<"prepare", q>>, fabric) > 0
        OBVIOUS
    <3>2. Occurrences(<<"prepare", q>>, fabric) > 0
        BY <1>4, <3>1
    <3>3. IsCurrent(q)
        BY <3>2, CopiedIsCurrent
    <3>4. q # r
      <4>1. q = r => Occurrences(<<"prepare", q>>, fabric) >= 2
          BY <1>4, <3>1
      <4>2. Occurrences(<<"prepare", q>>, fabric) <= 1
          BY <1>4, <2>1 DEF QueuedOnce
      <4> QED
          BY <1>4, <4>1, <4>2
    <3>5. q[1] # r[1] /\ q[1] \in Session
        BY <1>2, <1>5, <3>3, <3>4, OneCurrent, CallParts
    <3> QED
        BY <1>8, <1>9, <3>2, <3>5
  <2>6. Admission(q)'
      BY <2>1, <2>2, <2>5 DEF Admission, HBM!KVBytes
  <2> QED
      BY <2>3, <2>4, <2>6
<1>12. ASSUME NEW s \in Session
       PROVE  Idle(s)'
  <2>1. Idle(s)
      BY <1>0 DEF CallsInOrder
  <2>2. activeCall[s] = NoCall => d'[s] = d[s]
      BY <1>5, <1>6, <1>8, <1>9 DEF IsCurrent
  <2> QED
      BY <1>1, <1>8, <2>1, <2>2 DEF Idle, HBM!KVBytes, HBM!NoAdmission
<1> QED
    BY <1>2, <1>7, <1>10, <1>11, <1>12 DEF NodeInv, CallsInOrder

\* The pool's notifications are taken.
LEMMA PopStep ==
    ASSUME PP!PoolInv, NEW r \in Req, Pool!PopHandoffCompleted(r) \/ Pool!PopCompleted(r)
    PROVE  /\ PP!PoolInv'
           /\ UNCHANGED <<output, successor, state, handoffDone, fabric>>
           /\ Pool!PopHandoffCompleted(r) =>
                  r \in handedOff /\ handedOff' = handedOff \ {r} /\ completed' = completed
           /\ Pool!PopCompleted(r) =>
                  r \in completed /\ completed' = completed \ {r} /\ handedOff' = handedOff
<1>1. PP!PopHandoffCompleted(r) \/ PP!PopCompleted(r)
    BY DEF PP!PopHandoffCompleted, Pool!PopHandoffCompleted, PP!PopCompleted, Pool!PopCompleted,
        PP!requestVars, Pool!requestVars, PP!tokenVars, Pool!tokenVars, PP!workerVars,
        Pool!workerVars, PP!modelVars, Pool!modelVars
<1>2. PP!PoolInv'
    BY <1>1, SameRequests, PoolParameters, PP!PopStep DEF PP!PopStep
<1>3. UNCHANGED <<output, successor, state, handoffDone, fabric>>
    BY DEF Pool!PopHandoffCompleted, Pool!PopCompleted, Pool!requestVars
<1> QED
    BY <1>2, <1>3 DEF Pool!PopHandoffCompleted, Pool!PopCompleted

(***************************************************************************)
(* A call ends, with its last notification: its session keeps its context  *)
(* on D only for a successor, and is free for the next call.               *)
(***************************************************************************)
LEMMA EndStep ==
    ASSUME NodeInv, NEW r \in Req, IsCurrent(r), state[r] = "complete",
           callState[r] \in {"executing", "user_complete"}, NeedsD(r) => handoffDone[r],
           HBM!Finish(active[r[1]], successor[r]), ReleaseSession(r), PP!PoolInv',
           UNCHANGED <<output, successor, state, handoffDone, fabric>>,
           UNCHANGED <<input, reuse, hit, pendingCalls, readyCalls>>,
           handedOff' = handedOff \ {r}, completed' = completed \ {r}
    PROVE  NodeInv'
<1> DEFINE a == active[r[1]]
<1>0. NodeTypes /\ PP!PoolInv /\ HB!IInv /\ HB!DCapacity /\ CallsInOrder
    BY DEF NodeInv
<1>1. /\ a \in issued /\ a.session = r[1]
      /\ a.target = (IF NeedsD(r) THEN HBM!KVBytes(Materialized(r)) ELSE 0)
    BY CurrentAdmission
<1>2. /\ r[1] \in Session /\ r[2] # NoCall /\ r[2] \in 1..MaxCalls
      /\ \A q \in Req : q # r /\ q[1] = r[1] => q[2] # r[2]
    BY CallParts
<1>3. successor[r] \in BOOLEAN /\ output[r] \in Outputs
    BY <1>0, PoolFacts
<1>4. HB!IInv' /\ HB!DCapacity'
    BY <1>0, <1>1, <1>3, BooksStep
<1>5. /\ p' = [p EXCEPT ![r[1]] = 0]
      /\ d' = [d EXCEPT ![r[1]] = IF successor[r] THEN a.target ELSE 0]
      /\ active' = [active EXCEPT ![r[1]] = HBM!NoAdmission]
    BY <1>1 DEF HBM!Finish
<1>6. /\ callState' = [callState EXCEPT ![r] = "internal_complete"]
      /\ activeCall' = [activeCall EXCEPT ![r[1]] = NoCall]
      /\ materialized' = [materialized EXCEPT ![r[1]] = Materialized(r)]
      /\ resident' = [resident EXCEPT ![r[1]] = successor[r]]
      /\ ended' = [ended EXCEPT ![r[1]] = ~successor[r]]
    BY DEF ReleaseSession
<1> HIDE DEF a
<1>7. /\ p \in [Session -> 0..Capacity] /\ d \in [Session -> 0..Capacity]
      /\ active \in [Session -> issued \cup {HBM!NoAdmission}]
    BY <1>0, BooksFacts
<1>8. Materialized(r) \in 0..MaxContext
  <2>1. input[r] \in Inputs
      BY <1>0 DEF CallsInOrder, Phase
  <2>2. input[r] \in Nat \ {0} /\ output[r] \in Nat \ {0} /\ input[r] + output[r] - 1 <= MaxContext
      BY <1>3, <2>1, NodeAssumption
  <2> QED
      BY <2>2, NodeAssumption DEF Materialized
<1>9. NodeTypes'
  <2>1. callState' \in [Req -> CallState]
      BY <1>0, <1>6 DEF NodeTypes, CallState
  <2>2. /\ activeCall' \in [Session -> (1..MaxCalls) \cup {NoCall}]
        /\ materialized' \in [Session -> 0..MaxContext]
        /\ resident' \in [Session -> BOOLEAN] /\ ended' \in [Session -> BOOLEAN]
      BY <1>0, <1>3, <1>6, <1>8 DEF NodeTypes
  <2> QED
      BY <1>0, <2>1, <2>2 DEF NodeTypes
<1>10. ASSUME NEW q \in Req
       PROVE  Phase(q)' /\ QueuedOnce(q)' /\ Admission(q)'
  <2>1. Phase(q) /\ QueuedOnce(q) /\ Admission(q)
      BY <1>0 DEF CallsInOrder
  <2>2. /\ NeedsD(q)' = NeedsD(q) /\ Materialized(q)' = Materialized(q)
        /\ q[1] \in Session
      BY CallParts DEF NeedsD, Materialized
  <2>3. callState \in [Req -> CallState] /\ activeCall \in [Session -> (1..MaxCalls) \cup {NoCall}]
        /\ materialized \in [Session -> 0..MaxContext]
      BY <1>0 DEF NodeTypes
  <2>4. CASE q = r
    <3>1. ~IsCurrent(q)' /\ callState'[q] = "internal_complete"
        BY <1>2, <1>6, <2>3, <2>4 DEF IsCurrent
    <3>2. q \notin handedOff' /\ q \notin completed'
        BY <2>4
    <3>3. Phase(q)'
        BY <2>1, <2>2, <2>4, <3>1, <3>2 DEF Phase
    <3>4. /\ Occurrences(<<"prepare", q>>, fabric) + Occurrences(q, readyCalls) = 0
          /\ Occurrences(q, pendingCalls) = 0
        BY <2>1, <2>4 DEF QueuedOnce
    <3>5. QueuedOnce(q)'
        BY <3>1, <3>4 DEF QueuedOnce
    <3>6. ~(Occurrences(<<"prepare", q>>, fabric) > 0)
        BY <2>4, CopiedIsCurrent
    <3>7. Admission(q)'
        BY <3>1, <3>6 DEF Admission
    <3> QED
        BY <3>3, <3>5, <3>7
  <2>5. CASE q # r
    <3>1. callState'[q] = callState[q] /\ IsCurrent(q)' = IsCurrent(q)
      <4>1. callState'[q] = callState[q]
          BY <1>6, <2>3, <2>5
      <4>2. CASE q[1] = r[1]
        <5>1. q[2] # NoCall /\ q[2] # r[2]
            BY <1>2, <2>5, <4>2, CallParts
        <5>2. ~IsCurrent(q)' /\ ~IsCurrent(q)
            BY <1>6, <2>2, <2>3, <4>2, <5>1 DEF IsCurrent
        <5> QED
            BY <4>1, <5>2 DEF IsCurrent
      <4>3. CASE q[1] # r[1]
          BY <1>6, <2>2, <2>3, <4>1, <4>3 DEF IsCurrent
      <4> QED
          BY <4>2, <4>3
    <3>2. (q \in handedOff' <=> q \in handedOff) /\ (q \in completed' <=> q \in completed)
        BY <2>5
    <3>3. Phase(q)'
        BY <2>1, <2>2, <3>1, <3>2 DEF Phase
    <3>4. QueuedOnce(q)'
        BY <2>1, <3>1 DEF QueuedOnce
    <3>5. IsCurrent(q) => /\ p'[q[1]] = p[q[1]] /\ d'[q[1]] = d[q[1]]
                          /\ active'[q[1]] = active[q[1]]
                          /\ materialized'[q[1]] = materialized[q[1]]
      <4>1. IsCurrent(q) => q[1] # r[1]
          BY <2>5, OneCurrent
      <4> QED
          BY <1>5, <1>6, <1>7, <2>2, <2>3, <4>1
    <3>6. Occurrences(<<"prepare", q>>, fabric) > 0 => IsCurrent(q)
        BY CopiedIsCurrent
    <3>7. Admission(q)'
        BY <2>1, <2>2, <3>1, <3>2, <3>5, <3>6 DEF Admission, HBM!KVBytes
    <3> QED
        BY <3>3, <3>4, <3>7
  <2> QED
      BY <2>4, <2>5
<1>11. ASSUME NEW s \in Session
       PROVE  Idle(s)'
  <2>1. Idle(s)
      BY <1>0 DEF CallsInOrder
  <2>2. /\ activeCall \in [Session -> (1..MaxCalls) \cup {NoCall}]
        /\ materialized \in [Session -> 0..MaxContext] /\ resident \in [Session -> BOOLEAN]
      BY <1>0 DEF NodeTypes
  <2>3. CASE s = r[1]
    <3>1. active'[s] = HBM!NoAdmission /\ activeCall'[s] = NoCall
        BY <1>5, <1>6, <1>7, <2>2, <2>3
    <3>2. d'[s] = (IF successor[r] THEN a.target ELSE 0) /\ resident'[s] = successor[r]
          /\ materialized'[s] = Materialized(r)
        BY <1>5, <1>6, <1>7, <2>2, <2>3
    <3>3. successor[r] => a.target = HBM!KVBytes(Materialized(r))
        BY <1>1 DEF NeedsD
    <3> QED
        BY <3>1, <3>2, <3>3 DEF Idle, HBM!KVBytes, HBM!NoAdmission
  <2>4. CASE s # r[1]
    <3>1. /\ active'[s] = active[s] /\ activeCall'[s] = activeCall[s] /\ d'[s] = d[s]
          /\ resident'[s] = resident[s] /\ materialized'[s] = materialized[s]
        BY <1>5, <1>6, <1>7, <2>2, <2>4
    <3> QED
        BY <2>1, <3>1 DEF Idle, HBM!KVBytes, HBM!NoAdmission
  <2> QED
      BY <2>3, <2>4
<1> QED
    BY <1>4, <1>9, <1>10, <1>11 DEF NodeInv, CallsInOrder

\* A handoff is reported: the prompt leaves P, and a call that the user has
\* already seen complete ends.
LEMMA ConsumeHandoffStep ==
    ASSUME NodeInv, NEW r \in Req, ConsumeHandoff(r)
    PROVE  NodeInv'
<1>0. NodeTypes /\ PP!PoolInv /\ HB!IInv /\ HB!DCapacity /\ CallsInOrder
    BY DEF NodeInv
<1>1. /\ Pool!PopHandoffCompleted(r)
      /\ UNCHANGED <<input, reuse, hit, pendingCalls, readyCalls>>
    BY DEF ConsumeHandoff
<1>2. /\ PP!PoolInv' /\ UNCHANGED <<output, successor, state, handoffDone, fabric>>
      /\ r \in handedOff /\ handedOff' = handedOff \ {r} /\ completed' = completed
    BY <1>0, <1>1, PopStep
<1>3. /\ handoffDone[r] /\ callState[r] \in {"executing", "user_complete"} /\ IsCurrent(r)
      /\ callState[r] = "user_complete" => state[r] = "complete" /\ r \notin completed
    BY <1>0, <1>2 DEF CallsInOrder, Phase
<1>4. CASE UserComplete(r)
  <2>1. HBM!Finish(active[r[1]], successor[r]) /\ ReleaseSession(r)
      BY <1>4 DEF ConsumeHandoff
  <2>2. callState[r] = "user_complete"
      BY <1>3, <1>4 DEF UserComplete
  <2>3. completed' = completed \ {r}
      BY <1>2, <1>3, <2>2
  <2> QED
      BY <1>1, <1>2, <1>3, <2>1, <2>2, <2>3, EndStep
<1>5. CASE ~UserComplete(r)
  <2> DEFINE a == active[r[1]]
  <2>1. HBM!ReleaseP(a) /\ UNCHANGED <<callState, activeCall, materialized, resident, ended>>
      BY <1>5 DEF ConsumeHandoff, placementVars
  <2>2. a \in issued /\ a.session = r[1] /\ r[1] \in Session
      BY <1>3, CurrentAdmission, CallParts
  <2>3. HB!IInv' /\ HB!DCapacity'
      BY <1>0, <2>1, <2>2, BooksStep
  <2>4. p' = [p EXCEPT ![r[1]] = 0] /\ UNCHANGED <<d, active>> /\ p \in [Session -> 0..Capacity]
      BY <1>0, <2>1, <2>2, BooksFacts DEF HBM!ReleaseP
  <2>5. NodeTypes'
      BY <1>0, <1>1, <2>1 DEF NodeTypes
  <2>6. ASSUME NEW q \in Req
        PROVE  Phase(q)' /\ QueuedOnce(q)' /\ Admission(q)'
    <3>1. Phase(q) /\ QueuedOnce(q) /\ Admission(q)
        BY <1>0 DEF CallsInOrder
    <3>2. /\ NeedsD(q)' = NeedsD(q) /\ Materialized(q)' = Materialized(q)
          /\ IsCurrent(q)' = IsCurrent(q) /\ callState' = callState
        BY <1>1, <1>2, <2>1 DEF NeedsD, Materialized, IsCurrent
    <3>3. q \in handedOff' <=> q \in handedOff /\ q # r
        BY <1>2
    <3>4. Phase(q)'
      <4>1. callState[r] = "executing"
          BY <1>3, <1>5 DEF UserComplete
      <4> QED
          BY <1>1, <1>2, <3>1, <3>2, <3>3, <4>1 DEF Phase
    <3>5. QueuedOnce(q)'
        BY <1>1, <1>2, <3>1, <3>2 DEF QueuedOnce
    <3>6. IsCurrent(q) =>
              p'[q[1]] = (IF handoffDone[q] /\ q \notin handedOff' THEN 0 ELSE active[q[1]].p)
      <4>1. CASE q = r
          BY <1>3, <2>2, <2>4, <3>3, <4>1
      <4>2. CASE q # r /\ IsCurrent(q)
        <5>1. q[1] # r[1] /\ q[1] \in Session
            BY <1>3, <4>2, OneCurrent, CallParts
        <5>2. p'[q[1]] = p[q[1]]
            BY <2>4, <5>1
        <5> QED
            BY <3>1, <3>3, <4>2, <5>2 DEF Admission
      <4> QED
          BY <4>1, <4>2
    <3>7. Admission(q)'
        BY <1>1, <1>2, <2>1, <2>4, <3>1, <3>2, <3>6 DEF Admission, HBM!KVBytes
    <3> QED
        BY <3>4, <3>5, <3>7
  <2>7. ASSUME NEW s \in Session
        PROVE  Idle(s)'
      BY <1>0, <2>1, <2>4 DEF CallsInOrder, Idle, HBM!KVBytes, HBM!NoAdmission
  <2> QED
      BY <1>2, <2>3, <2>5, <2>6, <2>7 DEF NodeInv, CallsInOrder
<1> QED
    BY <1>4, <1>5

\* A completion is reported: the call ends, or waits for its handoff.
LEMMA ConsumeCompletedStep ==
    ASSUME NodeInv, NEW r \in Req, ConsumeCompleted(r)
    PROVE  NodeInv'
<1>0. NodeTypes /\ PP!PoolInv /\ HB!IInv /\ HB!DCapacity /\ CallsInOrder
    BY DEF NodeInv
<1>1. /\ Pool!PopCompleted(r) /\ handedOff = {}
      /\ UNCHANGED <<input, reuse, hit, pendingCalls, readyCalls>>
    BY DEF ConsumeCompleted
<1>2. /\ PP!PoolInv' /\ UNCHANGED <<output, successor, state, handoffDone, fabric>>
      /\ r \in completed /\ handedOff' = handedOff /\ completed' = completed \ {r}
    BY <1>0, <1>1, PopStep
<1>3. callState[r] = "executing" /\ state[r] = "complete" /\ IsCurrent(r)
    BY <1>0, <1>2 DEF CallsInOrder, Phase
<1>4. /\ output[r] \in Nat \ {0} /\ (output[r] > 1 => handoffDone[r])
    BY <1>0, <1>3, PoolFacts
<1>5. CASE Drained(r)
  <2>1. HBM!Finish(active[r[1]], successor[r]) /\ ReleaseSession(r)
      BY <1>5 DEF ConsumeCompleted
  <2>2. NeedsD(r) => handoffDone[r]
      BY <1>4, <1>5 DEF Drained, NeedsD
  <2>3. handedOff' = handedOff \ {r}
      BY <1>1, <1>2
  <2> QED
      BY <1>1, <1>2, <1>3, <2>1, <2>2, <2>3, EndStep
<1>6. CASE ~Drained(r)
  <2>1. /\ callState' = [callState EXCEPT ![r] = "user_complete"]
        /\ UNCHANGED hbmVars
        /\ UNCHANGED <<p, d, active, activeCall, materialized, resident, ended>>
      BY <1>6 DEF ConsumeCompleted, hbmVars, placementVars
  <2>2. ~handoffDone[r] /\ NeedsD(r)
      BY <1>6 DEF Drained, NeedsD
  <2>3. HB!IInv' /\ HB!DCapacity'
      BY <1>0, <2>1, BooksKept
  <2>4. NodeTypes'
      BY <1>0, <1>1, <2>1 DEF NodeTypes, CallState
  <2>5. ASSUME NEW q \in Req
        PROVE  Phase(q)' /\ QueuedOnce(q)' /\ Admission(q)'
    <3>1. Phase(q) /\ QueuedOnce(q) /\ Admission(q)
        BY <1>0 DEF CallsInOrder
    <3>2. /\ NeedsD(q)' = NeedsD(q) /\ Materialized(q)' = Materialized(q)
          /\ IsCurrent(q)' = IsCurrent(q)
        BY <1>1, <1>2, <2>1 DEF NeedsD, Materialized, IsCurrent
    <3>3. callState'[q] = IF q = r THEN "user_complete" ELSE callState[q]
        BY <1>0, <2>1 DEF NodeTypes
    <3>4. q \in completed' <=> q \in completed /\ q # r
        BY <1>2
    <3>5. Phase(q)'
        BY <1>1, <1>2, <1>3, <2>2, <3>1, <3>2, <3>3, <3>4 DEF Phase
    <3>6. QueuedOnce(q)'
        BY <1>1, <1>2, <1>3, <3>1, <3>2, <3>3 DEF QueuedOnce
    <3>7. Admission(q)'
        BY <1>1, <1>2, <2>1, <3>1, <3>2 DEF Admission, HBM!KVBytes
    <3> QED
        BY <3>5, <3>6, <3>7
  <2>6. ASSUME NEW s \in Session
        PROVE  Idle(s)'
      BY <1>0, <2>1 DEF CallsInOrder, Idle, HBM!KVBytes, HBM!NoAdmission
  <2> QED
      BY <1>2, <2>3, <2>4, <2>5, <2>6 DEF NodeInv, CallsInOrder
<1> QED
    BY <1>5, <1>6

\* Nothing happens in the pool, but batches may be formed later.
LEMMA PoolKept ==
    ASSUME PP!PoolInv, open' = TRUE \/ open' = open,
           UNCHANGED <<output, successor, state, left, covered, chunk, generated, handoffDone,
                       pWaiting, dWaiting, pBatch, dBatch, fabric, held, launch, holds, due,
                       handedOff, completed>>
    PROVE  PP!PoolInv'
<1>1. fabric' \in Seq(PP!Job) /\ open' \in BOOLEAN /\ (open => open')
    BY DEF PP!PoolInv, PP!TypeOK
<1>2. "fabric" \in due' => fabric' # <<>>
    BY DEF PP!PoolInv, PP!EventsHaveCauses
<1>3. \A r \in PP!Req : PP!Occurrences(<<"handoff", r>>, fabric')
                             = PP!Occurrences(<<"handoff", r>>, fabric)
    OBVIOUS
<1>4. due' \subseteq due
    OBVIOUS
<1> QED
    BY <1>1, <1>2, <1>3, <1>4, PoolParameters, PP!PrepareStep DEF PP!PrepareStep

\* A call is released: it waits for its session.
LEMMA ReleaseStep ==
    ASSUME NodeInv, NEW r \in Req, NEW tokens \in Inputs, NEW prefix \in Prefixes,
           Release(r, tokens, prefix)
    PROVE  NodeInv'
<1>0. NodeTypes /\ PP!PoolInv /\ HB!IInv /\ HB!DCapacity /\ CallsInOrder
    BY DEF NodeInv
<1>1. /\ callState[r] = "unreleased" /\ open' = TRUE
      /\ callState' = [callState EXCEPT ![r] = "pending"]
      /\ input' = [input EXCEPT ![r] = tokens] /\ reuse' = [reuse EXCEPT ![r] = prefix]
      /\ pendingCalls' = Append(pendingCalls, r)
      /\ UNCHANGED <<output, successor, state, left, covered, chunk, generated, handoffDone,
                     pWaiting, dWaiting, pBatch, dBatch, fabric, held, launch, holds, due,
                     handedOff, completed>>
      /\ UNCHANGED hbmVars
      /\ UNCHANGED <<p, d, active, hit, readyCalls, activeCall, materialized, resident, ended>>
    BY DEF Release, hbmVars, placementVars
<1>2. PP!PoolInv'
    BY <1>0, <1>1, PoolKept
<1>3. HB!IInv' /\ HB!DCapacity'
    BY <1>0, <1>1, BooksKept
<1>4. NodeTypes'
  <2>1. callState' \in [Req -> CallState]
      BY <1>0, <1>1 DEF NodeTypes, CallState
  <2>2. input' \in [Req -> Inputs \cup {0}] /\ reuse' \in [Req -> 0..MaxContext]
      BY <1>0, <1>1, NodeAssumption DEF NodeTypes
  <2>3. pendingCalls' \in Seq(Req)
      BY <1>0, <1>1 DEF NodeTypes
  <2> QED
      BY <1>0, <1>1, <2>1, <2>2, <2>3 DEF NodeTypes
<1>5. ASSUME NEW q \in Req
      PROVE  Phase(q)' /\ QueuedOnce(q)' /\ Admission(q)'
  <2>1. Phase(q) /\ QueuedOnce(q) /\ Admission(q)
      BY <1>0 DEF CallsInOrder
  <2>2. NeedsD(q)' = NeedsD(q) /\ IsCurrent(q)' = IsCurrent(q)
      BY <1>1 DEF NeedsD, IsCurrent
  <2>3. /\ callState'[q] = IF q = r THEN "pending" ELSE callState[q]
        /\ input'[q] = IF q = r THEN tokens ELSE input[q]
      BY <1>0, <1>1 DEF NodeTypes
  <2>4. q = r => ~IsCurrent(q)
      BY <1>1, <2>1 DEF Phase
  <2>5. Phase(q)'
      BY <1>1, <2>1, <2>2, <2>3, <2>4 DEF Phase
  <2>6. QueuedOnce(q)'
    <3>1. pendingCalls \in Seq(Req)
        BY <1>0 DEF NodeTypes
    <3>2. Occurrences(q, pendingCalls') = Occurrences(q, pendingCalls) + (IF q = r THEN 1 ELSE 0)
        BY <1>1, <3>1, OccAppend
    <3>3. Occurrences(q, pendingCalls) \in Nat
        BY <3>1, OccType
    <3>4. Occurrences(q, pendingCalls') = (IF ~IsCurrent(q) /\ callState'[q] = "pending" THEN 1 ELSE 0)
        BY <1>1, <2>1, <2>3, <2>4, <3>2, <3>3 DEF QueuedOnce
    <3>5. Occurrences(<<"prepare", q>>, fabric) + Occurrences(q, readyCalls)
           = (IF IsCurrent(q) /\ callState'[q] \in {"pending", "preparing"} THEN 1 ELSE 0)
        BY <1>1, <2>1, <2>3, <2>4 DEF QueuedOnce
    <3> QED
        BY <1>1, <2>2, <3>4, <3>5 DEF QueuedOnce
  <2>7. q # r => Materialized(q)' = Materialized(q)
      BY <1>1, <2>3 DEF Materialized
  <2>8. q = r => ~(Occurrences(<<"prepare", q>>, fabric) > 0)
      BY <2>4, CopiedIsCurrent
  <2>9. Admission(q)'
      BY <1>1, <2>1, <2>2, <2>3, <2>4, <2>7, <2>8 DEF Admission, HBM!KVBytes
  <2> QED
      BY <2>5, <2>6, <2>9
<1>6. ASSUME NEW s \in Session
      PROVE  Idle(s)'
    BY <1>0, <1>1 DEF CallsInOrder, Idle, HBM!KVBytes, HBM!NoAdmission
<1> QED
    BY <1>2, <1>3, <1>4, <1>5, <1>6 DEF NodeInv, CallsInOrder

\* A ready call goes to the pool with the prompt tokens that P has to compute.
LEMMA SubmitReadyStep ==
    ASSUME NodeInv, SubmitReady
    PROVE  NodeInv'
<1> DEFINE r == Head(readyCalls)
<1>0. NodeTypes /\ PP!PoolInv /\ HB!IInv /\ HB!DCapacity /\ CallsInOrder
    BY DEF NodeInv
<1>1. /\ readyCalls # <<>> /\ readyCalls' = Tail(readyCalls)
      /\ Pool!Submit(r, input[r] - hit[r], input[r] = hit[r])
      /\ callState' = [callState EXCEPT ![r] = "executing"]
      /\ UNCHANGED hbmVars
      /\ UNCHANGED <<p, d, active, input, reuse, hit, pendingCalls,
                     activeCall, materialized, resident, ended>>
    BY DEF SubmitReady, hbmVars, placementVars
<1>2. /\ state[r] = "waiting_p" /\ state' = [state EXCEPT ![r] = "p_prefill"]
      /\ UNCHANGED <<output, successor, handoffDone, fabric, handedOff, completed>>
    BY <1>1 DEF Pool!Submit, Pool!NoLiveCall, Pool!requestVars
<1>3. readyCalls \in Seq(Req) /\ fabric \in Seq({"handoff", "prepare"} \X Req)
    BY <1>0, PoolFacts DEF NodeTypes
<1>4. /\ r \in Req /\ Tail(readyCalls) \in Seq(Req)
      /\ \A q : Occurrences(q, readyCalls)
                   = (IF q = r THEN 1 ELSE 0) + Occurrences(q, Tail(readyCalls))
    BY <1>1, <1>3, OccTail
<1> HIDE DEF r
<1>5. ASSUME NEW q \in Req
      PROVE  /\ Occurrences(<<"prepare", q>>, fabric) \in Nat
             /\ Occurrences(q, readyCalls) \in Nat /\ Occurrences(q, readyCalls') \in Nat
             /\ Occurrences(q, readyCalls) = (IF q = r THEN 1 ELSE 0) + Occurrences(q, readyCalls')
    BY <1>1, <1>3, <1>4, OccType
<1>6. /\ IsCurrent(r) /\ callState[r] \in {"pending", "preparing"}
      /\ Occurrences(<<"prepare", r>>, fabric) = 0 /\ Occurrences(r, readyCalls') = 0
  <2>1. Occurrences(<<"prepare", r>>, fabric) + Occurrences(r, readyCalls)
           = (IF IsCurrent(r) /\ callState[r] \in {"pending", "preparing"} THEN 1 ELSE 0)
      BY <1>0, <1>4 DEF CallsInOrder, QueuedOnce
  <2>2. /\ Occurrences(<<"prepare", r>>, fabric) \in Nat /\ Occurrences(r, readyCalls') \in Nat
        /\ Occurrences(r, readyCalls) = 1 + Occurrences(r, readyCalls')
      BY <1>4, <1>5
  <2> QED
      BY <2>1, <2>2
<1>7. PP!PoolInv'
  <2>1. input[r] \in Inputs /\ hit[r] < input[r]
      BY <1>0, <1>4, <1>6 DEF CallsInOrder, Phase, Admission
  <2>2. hit[r] \in 0..MaxContext /\ output[r] \in Outputs
      BY <1>0, <1>4, PoolFacts DEF NodeTypes
  <2>3. input[r] \in Nat \ {0} /\ output[r] \in Nat \ {0} /\ input[r] + output[r] - 1 <= MaxContext
      BY <2>1, <2>2, NodeAssumption
  <2>4. input[r] - hit[r] \in 1..MaxContext
      BY <2>1, <2>2, <2>3, NodeAssumption
  <2>5. PP!Submit(r, input[r] - hit[r], input[r] = hit[r])
      BY <1>1 DEF Pool!Submit, PP!Submit, Pool!NoLiveCall, PP!NoLiveCall, Pool!requestVars,
          PP!requestVars, Pool!modelVars, PP!modelVars
  <2>6. (input[r] = hit[r]) \in BOOLEAN /\ r \in PP!Req
      BY <1>4, SameRequests
  <2> QED
      BY <1>0, <2>4, <2>5, <2>6, PoolParameters, PP!SubmitStep DEF PP!SubmitStep
<1>8. HB!IInv' /\ HB!DCapacity'
    BY <1>0, <1>1, BooksKept
<1>9. NodeTypes'
    BY <1>0, <1>1, <1>4 DEF NodeTypes, CallState
<1>10. ASSUME NEW q \in Req
      PROVE  Phase(q)' /\ QueuedOnce(q)' /\ Admission(q)'
  <2>1. Phase(q) /\ QueuedOnce(q) /\ Admission(q)
      BY <1>0 DEF CallsInOrder
  <2>2. /\ NeedsD(q)' = NeedsD(q) /\ IsCurrent(q)' = IsCurrent(q)
        /\ Materialized(q)' = Materialized(q)
      BY <1>1, <1>2 DEF NeedsD, IsCurrent, Materialized
  <2>3. callState'[q] = IF q = r THEN "executing" ELSE callState[q]
      BY <1>0, <1>1 DEF NodeTypes
  <2>4. state'[q] = IF q = r THEN "p_prefill" ELSE state[q]
    <3>1. state \in [Req -> {"waiting_p", "p_prefill", "handoff", "d_decode", "complete"}]
        BY <1>0, PoolFacts
    <3> QED
        BY <1>2, <3>1
  <2>5. Phase(q)'
      BY <1>1, <1>2, <1>6, <2>1, <2>2, <2>3, <2>4 DEF Phase
  <2>6. QueuedOnce(q)'
    <3>1. CASE q = r
        BY <1>1, <1>2, <1>6, <2>1, <2>2, <2>3, <3>1 DEF QueuedOnce
    <3>2. CASE q # r
      <4>1. Occurrences(q, readyCalls') = Occurrences(q, readyCalls)
        <5>1. (IF q = r THEN 1 ELSE 0) = 0
            BY <3>2
        <5>2. /\ Occurrences(q, readyCalls') \in Nat
              /\ Occurrences(q, readyCalls) = 0 + Occurrences(q, readyCalls')
            BY <1>5, <5>1
        <5> QED
            BY <5>2
      <4> QED
          BY <1>1, <1>2, <2>1, <2>2, <2>3, <3>2, <4>1 DEF QueuedOnce
    <3> QED
        BY <3>1, <3>2
  <2>7. Admission(q)'
      BY <1>1, <1>2, <2>1, <2>2 DEF Admission, HBM!KVBytes
  <2> QED
      BY <2>5, <2>6, <2>7
<1>11. ASSUME NEW s \in Session
      PROVE  Idle(s)'
    BY <1>0, <1>1 DEF CallsInOrder, Idle, HBM!KVBytes, HBM!NoAdmission
<1> QED
    BY <1>7, <1>8, <1>9, <1>10, <1>11 DEF NodeInv, CallsInOrder

\* The node proposes and accepts admissions as the books do.
LEMMA SameProposals ==
    /\ \A s, i, o, n : HB!Proposal(s, i, o, n) = HBM!Proposal(s, i, o, n)
    /\ \A a : HB!Feasible(a) = HBM!Feasible(a) /\ HB!Fits(a) = HBM!Fits(a)
<1>1. \A f, cap : HB!Total(f, cap) = HBM!Total(f, cap)
  <2>1. \A S : HB!Cardinality(S) = HBM!Cardinality(S)
      BY DEF HB!Cardinality, HBM!Cardinality
  <2> QED
      BY <2>1 DEF HB!Total, HBM!Total, HB!Cells, HBM!Cells
<1>2. \A s, i, o, n : HB!Proposal(s, i, o, n) = HBM!Proposal(s, i, o, n)
    BY SameBytes DEF HB!Proposal, HBM!Proposal, HB!Larger, HBM!Larger
<1>3. HB!PFree = HBM!PFree /\ HB!DFree = HBM!DFree
    BY <1>1 DEF HB!PFree, HBM!PFree, HB!DFree, HBM!DFree
<1>4. \A a : HB!Feasible(a) = HBM!Feasible(a) /\ HB!Fits(a) = HBM!Fits(a)
    BY <1>3 DEF HB!Feasible, HBM!Feasible, HB!Fits, HBM!Fits
<1> QED
    BY <1>2, <1>4

\* The reused prefix is shorter than the prompt, and only what D has.
LEMMA HitBounded ==
    ASSUME NodeTypes, NEW r \in Req, input[r] \in Inputs
    PROVE  LET h == OperationalHit(r) IN
           /\ h \in 0..MaxContext /\ h < input[r]
           /\ h > 0 => resident[r[1]]
<1>1. r[1] \in Session
    BY CallParts
<1>2. /\ reuse[r] \in 0..MaxContext /\ materialized[r[1]] \in 0..MaxContext
      /\ input[r] \in Nat \ {0} /\ MaxContext \in Nat
    BY <1>1, NodeAssumption DEF NodeTypes
<1> QED
    BY <1>2 DEF OperationalHit, Pool!Least

\* What try_admit proposes for a call whose session is idle.
LEMMA AdmissionProposed ==
    ASSUME NodeInv, NEW r \in Req, input[r] \in Inputs, activeCall[r[1]] = NoCall,
           HBM!Feasible(HBM!Proposal(r[1], input[r], output[r], NeedsD(r)))
    PROVE  LET a == HBM!Proposal(r[1], input[r], output[r], NeedsD(r)) IN
           /\ a # HBM!NoAdmission /\ active[r[1]] = HBM!NoAdmission
           /\ a.p = HBM!KVBytes(input[r])
           /\ a.target = (IF NeedsD(r) THEN HBM!KVBytes(Materialized(r)) ELSE 0)
           /\ resident[r[1]] => a.held >= HBM!KVBytes(materialized[r[1]])
<1> DEFINE a == HBM!Proposal(r[1], input[r], output[r], NeedsD(r))
<1>0. NodeTypes /\ PP!PoolInv /\ HB!IInv /\ CallsInOrder
    BY DEF NodeInv
<1>1. r[1] \in Session /\ output[r] \in Outputs /\ NeedsD(r) \in BOOLEAN
    BY <1>0, CallParts, PoolFacts DEF NeedsD
<1>2. a.p = HBM!KVBytes(input[r]) /\ a.id = nextId
      /\ a.target = (IF NeedsD(r) THEN HBM!KVBytes(Materialized(r)) ELSE 0)
    BY DEF HBM!Proposal, Materialized
<1>3. nextId # 0
    BY <1>0 DEF HB!IInv, HB!TypeOK
<1>4. a # HBM!NoAdmission
    BY <1>2, <1>3 DEF HBM!NoAdmission
<1>5. active[r[1]] = HBM!NoAdmission
      /\ d[r[1]] = (IF resident[r[1]] THEN HBM!KVBytes(materialized[r[1]]) ELSE 0)
    BY <1>0, <1>1 DEF CallsInOrder, Idle
<1>6. a.prior <= a.held /\ a.prior = d[r[1]] /\ a.held \in 0..Capacity
  <2>1. HB!Feasible(HB!Proposal(r[1], input[r], output[r], NeedsD(r))) /\ HB!TypeOK
      BY <1>0, SameProposals DEF HB!IInv
  <2>2. LET b == HB!Proposal(r[1], input[r], output[r], NeedsD(r)) IN
        b.prior <= b.held /\ b.prior = d[r[1]] /\ b.held \in 0..Capacity
      BY <1>1, <2>1, BooksParameters, HB!ProposalBounded DEF HB!ProposalBounded
  <2> QED
      BY <2>2, SameProposals
<1>7. d[r[1]] \in 0..Capacity /\ Capacity \in Nat
    BY <1>0, <1>1, BooksFacts
<1> HIDE DEF a
<1>8. resident[r[1]] => a.held >= HBM!KVBytes(materialized[r[1]])
    BY <1>5, <1>6, <1>7
<1> QED
    BY <1>2, <1>4, <1>5, <1>8 DEF a

(***************************************************************************)
(* The first call whose session is idle is admitted: it leaves the pending *)
(* calls, and is copied for or ready.                                      *)
(***************************************************************************)
LEMMA AdmitStep ==
    ASSUME NodeInv, NEW i \in DOMAIN pendingCalls, Admit(i)
    PROVE  NodeInv'
<1> DEFINE r == pendingCalls[i]
           a == HBM!Proposal(r[1], input[r], output[r], NeedsD(r))
           h == OperationalHit(r)
           w == SourceDuringCopy(a, h)
           rest == SubSeq(pendingCalls, 1, i - 1)
                         \o SubSeq(pendingCalls, i + 1, Len(pendingCalls))
<1>0. NodeTypes /\ PP!PoolInv /\ HB!IInv /\ HB!DCapacity /\ CallsInOrder
    BY DEF NodeInv
<1>1. /\ activeCall[r[1]] = NoCall /\ HBM!Feasible(a) /\ HBM!Fits(a)
      /\ p' = [p EXCEPT ![r[1]] = a.p] /\ d' = [d EXCEPT ![r[1]] = w]
      /\ active' = [active EXCEPT ![r[1]] = a]
      /\ issued' = issued \cup {a} /\ nextId' = nextId + 1
      /\ pendingCalls' = rest
      /\ activeCall' = [activeCall EXCEPT ![r[1]] = r[2]]
      /\ hit' = [hit EXCEPT ![r] = h]
    BY DEF Admit, Admissible
<1>2. /\ h > 0 => /\ fabric' = Append(fabric, <<"prepare", r>>) /\ readyCalls' = readyCalls
                  /\ callState' = [callState EXCEPT ![r] = "preparing"]
      /\ ~(h > 0) => /\ readyCalls' = Append(readyCalls, r)
                     /\ fabric' = fabric /\ callState' = callState
      /\ UNCHANGED <<output, successor, state, left, covered, chunk, generated, handoffDone,
                     pWaiting, dWaiting, pBatch, dBatch, held, launch, holds, due, open,
                     handedOff, completed>>
      /\ UNCHANGED <<input, reuse, materialized, resident, ended>>
    BY DEF Admit
<1>3. /\ pendingCalls \in Seq(Req) /\ readyCalls \in Seq(Req)
      /\ fabric \in Seq({"handoff", "prepare"} \X Req)
    BY <1>0, PoolFacts DEF NodeTypes
<1>4. r \in Req /\ rest \in Seq(Req)
      /\ \A q : Occurrences(q, pendingCalls) = Occurrences(q, rest) + (IF q = r THEN 1 ELSE 0)
  <2>1. r \in Req
      BY <1>3
  <2> QED
      BY <1>3, <2>1, OccRemove
<1> HIDE DEF r, rest
<1>5. /\ ~IsCurrent(r) /\ callState[r] = "pending" /\ Occurrences(r, rest) = 0
  <2>1. Occurrences(r, rest) \in Nat
        /\ Occurrences(r, pendingCalls) = Occurrences(r, rest) + 1
      BY <1>4, OccType
  <2>2. Occurrences(r, pendingCalls) = (IF ~IsCurrent(r) /\ callState[r] = "pending" THEN 1 ELSE 0)
      BY <1>0, <1>4 DEF CallsInOrder, QueuedOnce
  <2> QED
      BY <2>1, <2>2
<1>6. /\ r[1] \in Session /\ r[2] \in 1..MaxCalls /\ r[2] # NoCall
      /\ \A q \in Req : q # r /\ q[1] = r[1] => q[2] # r[2]
    BY <1>4, CallParts
<1>7. input[r] \in Inputs /\ state[r] = "waiting_p" /\ r \notin completed /\ r \notin handedOff
    BY <1>0, <1>4, <1>5 DEF CallsInOrder, Phase
<1>8. output[r] \in Outputs /\ NeedsD(r) \in BOOLEAN /\ ~handoffDone[r]
    BY <1>0, <1>4, <1>7, PoolFacts DEF NeedsD
<1>9. h \in 0..MaxContext /\ h < input[r] /\ (h > 0 => resident[r[1]]) /\ h \in Nat
    BY <1>0, <1>4, <1>7, HitBounded, NodeAssumption
<1>10. /\ a # HBM!NoAdmission /\ active[r[1]] = HBM!NoAdmission
       /\ a.p = HBM!KVBytes(input[r])
       /\ a.target = (IF NeedsD(r) THEN HBM!KVBytes(Materialized(r)) ELSE 0)
       /\ resident[r[1]] => a.held >= HBM!KVBytes(materialized[r[1]])
    BY <1>1, <1>4, <1>7, AdmissionProposed
<1>11. w \in {a.held, a.target} /\ (h > 0 => w = a.held)
    BY DEF SourceDuringCopy
<1> HIDE DEF h, w
<1>12. HB!IInv' /\ HB!DCapacity'
  <2> DEFINE b == HB!Proposal(r[1], input[r], output[r], NeedsD(r))
  <2>1. b = a
      BY SameProposals
  <2>2. HB!Admits(r[1], b, w)
    <3> HIDE DEF a
    <3> QED
        BY <1>1, <1>10, <1>11, <2>1, SameProposals, SameRequests DEF HB!Admits
  <2>3. HB!IInv' /\ (HB!DCapacity => HB!DCapacity')
      BY <1>0, <1>6, <1>7, <1>8, <2>2, BooksParameters, HB!AdmitIInv DEF HB!AdmitIInv
  <2> QED
      BY <1>0, <2>3
<1> HIDE DEF a
<1>13. PP!PoolInv'
  <2>1. CASE h > 0
    <3>1. r \in PP!Req
        BY <1>4, SameRequests
    <3> QED
        BY <1>0, <1>2, <2>1, <3>1, PoolParameters, PP!PrepareStarts DEF PP!PrepareStarts
  <2>2. CASE ~(h > 0)
      BY <1>0, <1>2, <2>2, PoolKept
  <2> QED
      BY <2>1, <2>2
<1>14. NodeTypes'
  <2>0. callState \in [Req -> CallState] /\ readyCalls \in Seq(Req)
      BY <1>0 DEF NodeTypes
  <2>1. callState' \in [Req -> CallState] /\ readyCalls' \in Seq(Req)
    <3>1. CASE h > 0
      <4>1. callState' = [callState EXCEPT ![r] = "preparing"] /\ readyCalls' = readyCalls
          BY <1>2, <3>1
      <4>2. "preparing" \in CallState
          BY DEF CallState
      <4> QED
          BY <2>0, <4>1, <4>2
    <3>2. CASE ~(h > 0)
      <4>1. callState' = callState /\ readyCalls' = Append(readyCalls, r)
          BY <1>2, <3>2
      <4> QED
          BY <1>4, <2>0, <4>1
    <3> QED
        BY <3>1, <3>2
  <2>2. /\ hit' \in [Req -> 0..MaxContext]
        /\ activeCall' \in [Session -> (1..MaxCalls) \cup {NoCall}]
      BY <1>0, <1>1, <1>6, <1>9 DEF NodeTypes
  <2> QED
      BY <1>0, <1>1, <1>2, <1>4, <2>1, <2>2 DEF NodeTypes
<1>15. ASSUME NEW q \in Req
       PROVE  /\ Occurrences(<<"prepare", q>>, fabric')
                     = Occurrences(<<"prepare", q>>, fabric) + (IF q = r /\ h > 0 THEN 1 ELSE 0)
              /\ Occurrences(q, readyCalls')
                     = Occurrences(q, readyCalls) + (IF q = r /\ ~(h > 0) THEN 1 ELSE 0)
              /\ Occurrences(<<"prepare", q>>, fabric) \in Nat
              /\ Occurrences(q, readyCalls) \in Nat
  <2>1. /\ Occurrences(<<"prepare", q>>, fabric) \in Nat
        /\ Occurrences(q, readyCalls) \in Nat
      BY <1>3, OccType
  <2>2. <<"prepare", r>> \in {"handoff", "prepare"} \X Req
      BY <1>4
  <2>3. CASE h > 0
    <3>1. Occurrences(<<"prepare", q>>, Append(fabric, <<"prepare", r>>))
              = Occurrences(<<"prepare", q>>, fabric)
                    + (IF <<"prepare", q>> = <<"prepare", r>> THEN 1 ELSE 0)
        BY <1>3, <2>2, OccAppend
    <3>2. <<"prepare", q>> = <<"prepare", r>> <=> q = r
        OBVIOUS
    <3>3. fabric' = Append(fabric, <<"prepare", r>>) /\ readyCalls' = readyCalls
        BY <1>2, <2>3
    <3>4. Occurrences(<<"prepare", q>>, fabric')
              = Occurrences(<<"prepare", q>>, fabric) + (IF q = r /\ h > 0 THEN 1 ELSE 0)
        BY <2>3, <3>1, <3>2, <3>3
    <3>5. Occurrences(q, readyCalls) + 0 = Occurrences(q, readyCalls)
        BY <2>1
    <3>6. (IF q = r /\ ~(h > 0) THEN 1 ELSE 0) = 0
        BY <2>3
    <3> QED
        BY <2>1, <3>3, <3>4, <3>5, <3>6
  <2>4. CASE ~(h > 0)
    <3>1. Occurrences(q, Append(readyCalls, r))
              = Occurrences(q, readyCalls) + (IF q = r THEN 1 ELSE 0)
        BY <1>3, <1>4, OccAppend
    <3>2. fabric' = fabric /\ readyCalls' = Append(readyCalls, r)
        BY <1>2, <2>4
    <3>3. Occurrences(q, readyCalls')
              = Occurrences(q, readyCalls) + (IF q = r /\ ~(h > 0) THEN 1 ELSE 0)
        BY <2>4, <3>1, <3>2
    <3>4. Occurrences(<<"prepare", q>>, fabric) + 0 = Occurrences(<<"prepare", q>>, fabric)
        BY <2>1
    <3>5. (IF q = r /\ h > 0 THEN 1 ELSE 0) = 0
        BY <2>4
    <3> QED
        BY <2>1, <3>2, <3>3, <3>4, <3>5
  <2> QED
      BY <2>3, <2>4
<1>16. ASSUME NEW q \in Req
       PROVE  Phase(q)' /\ QueuedOnce(q)' /\ Admission(q)'
  <2>1. Phase(q) /\ QueuedOnce(q) /\ Admission(q)
      BY <1>0 DEF CallsInOrder
  <2>2. /\ NeedsD(q)' = NeedsD(q) /\ Materialized(q)' = Materialized(q)
        /\ q[1] \in Session
      BY <1>2, CallParts DEF NeedsD, Materialized
  <2>3. /\ activeCall \in [Session -> (1..MaxCalls) \cup {NoCall}]
        /\ callState \in [Req -> CallState] /\ hit \in [Req -> 0..MaxContext]
      BY <1>0 DEF NodeTypes
  <2>4. /\ p \in [Session -> 0..Capacity] /\ d \in [Session -> 0..Capacity]
        /\ active \in [Session -> issued \cup {HBM!NoAdmission}]
      BY <1>0, BooksFacts
  <2>5. CASE q = r
    <3>1. /\ IsCurrent(q)' /\ callState'[q] \in {"pending", "preparing"} /\ hit'[q] = h
          /\ p'[q[1]] = a.p /\ d'[q[1]] = w /\ active'[q[1]] = a
      <4>1. IsCurrent(q)' /\ hit'[q] = h
          BY <1>1, <1>4, <1>6, <2>3, <2>5 DEF IsCurrent
      <4>2. callState'[q] \in {"pending", "preparing"}
          BY <1>2, <1>4, <1>5, <2>3, <2>5
      <4>3. p'[q[1]] = a.p /\ d'[q[1]] = w /\ active'[q[1]] = a
          BY <1>1, <1>6, <2>4, <2>5
      <4> QED
          BY <4>1, <4>2, <4>3
    <3>2. Phase(q)'
        BY <1>2, <1>7, <2>1, <2>2, <2>5, <3>1 DEF Phase
    <3>3. /\ Occurrences(<<"prepare", q>>, fabric) = 0 /\ Occurrences(q, readyCalls) = 0
      <4>1. Occurrences(<<"prepare", q>>, fabric) + Occurrences(q, readyCalls) = 0
          BY <1>5, <2>1, <2>5 DEF QueuedOnce
      <4> QED
          BY <1>15, <4>1
    <3>4. /\ Occurrences(<<"prepare", q>>, fabric') = (IF h > 0 THEN 1 ELSE 0)
          /\ Occurrences(q, readyCalls') = (IF h > 0 THEN 0 ELSE 1)
        BY <1>15, <2>5, <3>3
    <3>5. QueuedOnce(q)'
        BY <1>1, <1>5, <2>5, <3>1, <3>4 DEF QueuedOnce
    <3>6. Occurrences(<<"prepare", q>>, fabric') > 0 => h > 0
        BY <3>4
    <3>7. Admission(q)'
        BY <1>2, <1>7, <1>8, <1>9, <1>10, <1>11, <2>2, <2>5, <3>1, <3>6 DEF Admission, HBM!KVBytes
    <3> QED
        BY <3>2, <3>5, <3>7
  <2>6. CASE q # r
    <3>1. callState'[q] = callState[q] /\ hit'[q] = hit[q]
        BY <1>1, <1>2, <2>3, <2>6
    <3>2. IsCurrent(q)' = IsCurrent(q) /\ (IsCurrent(q) => q[1] # r[1])
      <4>1. CASE q[1] = r[1]
        <5>1. q[2] # NoCall /\ q[2] # r[2]
            BY <1>6, <2>6, <4>1, CallParts
        <5>2. ~IsCurrent(q)' /\ ~IsCurrent(q)
            BY <1>1, <1>6, <2>3, <4>1, <5>1 DEF IsCurrent
        <5> QED
            BY <5>2 DEF IsCurrent
      <4>2. CASE q[1] # r[1]
          BY <1>1, <2>2, <2>3, <4>2 DEF IsCurrent
      <4> QED
          BY <4>1, <4>2
    <3>3. IsCurrent(q) => /\ p'[q[1]] = p[q[1]] /\ d'[q[1]] = d[q[1]]
                          /\ active'[q[1]] = active[q[1]]
        BY <1>1, <2>2, <2>4, <3>2
    <3>4. /\ Occurrences(<<"prepare", q>>, fabric') = Occurrences(<<"prepare", q>>, fabric)
          /\ Occurrences(q, readyCalls') = Occurrences(q, readyCalls)
        BY <1>15, <2>6
    <3>5. Occurrences(q, rest) = Occurrences(q, pendingCalls)
      <4>1. Occurrences(q, rest) \in Nat
          BY <1>4, OccType
      <4>2. Occurrences(q, pendingCalls) = Occurrences(q, rest) + 0
          BY <1>4, <2>6
      <4> QED
          BY <4>1, <4>2
    <3>6. Phase(q)'
        BY <1>2, <2>1, <2>2, <3>1, <3>2 DEF Phase
    <3>7. QueuedOnce(q)'
        BY <1>1, <2>1, <3>1, <3>2, <3>4, <3>5 DEF QueuedOnce
    <3>8. Occurrences(<<"prepare", q>>, fabric) > 0 => IsCurrent(q)
        BY CopiedIsCurrent
    <3>9. Admission(q)'
        BY <1>2, <2>1, <2>2, <3>1, <3>2, <3>3, <3>4, <3>8 DEF Admission, HBM!KVBytes
    <3> QED
        BY <3>6, <3>7, <3>9
  <2> QED
      BY <2>5, <2>6
<1>17. ASSUME NEW s \in Session
       PROVE  Idle(s)'
  <2>1. Idle(s)
      BY <1>0 DEF CallsInOrder
  <2>2. /\ activeCall \in [Session -> (1..MaxCalls) \cup {NoCall}]
        /\ d \in [Session -> 0..Capacity]
        /\ active \in [Session -> issued \cup {HBM!NoAdmission}]
      BY <1>0, BooksFacts DEF NodeTypes
  <2>3. CASE s = r[1]
    <3>1. active'[s] = a /\ activeCall'[s] = r[2]
        BY <1>1, <1>6, <2>2, <2>3
    <3> QED
        BY <1>6, <1>10, <3>1 DEF Idle, HBM!NoAdmission
  <2>4. CASE s # r[1]
    <3>1. active'[s] = active[s] /\ activeCall'[s] = activeCall[s] /\ d'[s] = d[s]
        BY <1>1, <2>2, <2>4
    <3> QED
        BY <1>2, <2>1, <3>1 DEF Idle, HBM!KVBytes, HBM!NoAdmission
  <2> QED
      BY <2>3, <2>4
<1> QED
    BY <1>12, <1>13, <1>14, <1>16, <1>17 DEF NodeInv, CallsInOrder

-----------------------------------------------------------------------------
(* Every step.                                                             *)

LEMMA NextNodeInv == NodeInv /\ [Next]_vars => NodeInv'
<1> SUFFICES ASSUME NodeInv, [Next]_vars PROVE NodeInv'
    OBVIOUS
<1>1. CASE PoolEvent \/ FlushPool
    BY <1>1, EventStep
<1>2. CASE FinishPrepare
    BY <1>2, FinishPrepareStep
<1>3. ASSUME NEW r \in Req, ConsumeHandoff(r)
      PROVE  NodeInv'
    BY <1>3, ConsumeHandoffStep
<1>4. ASSUME NEW r \in Req, ConsumeCompleted(r)
      PROVE  NodeInv'
    BY <1>4, ConsumeCompletedStep
<1>5. ASSUME NEW r \in Req, NEW tokens \in Inputs, NEW prefix \in Prefixes,
             Release(r, tokens, prefix)
      PROVE  NodeInv'
    BY <1>5, ReleaseStep
<1>6. ASSUME NEW i \in DOMAIN pendingCalls, Admit(i)
      PROVE  NodeInv'
    BY <1>6, AdmitStep
<1>7. CASE SubmitReady
    BY <1>7, SubmitReadyStep
<1>8. CASE UNCHANGED vars
  <2>1. /\ UNCHANGED <<output, successor, state, left, covered, chunk, generated, handoffDone,
                       pWaiting, dWaiting, pBatch, dBatch, fabric, held, launch, holds, due,
                       open, handedOff, completed>>
        /\ UNCHANGED <<p, d, active, nextId, issued>>
        /\ UNCHANGED <<callState, input, reuse, hit, pendingCalls, readyCalls>>
        /\ UNCHANGED <<activeCall, materialized, resident, ended>>
      BY <1>8 DEF vars, poolVars, hbmVars, callVars, placementVars
  <2>2. PP!PoolInv'
      BY <2>1, PoolKept DEF NodeInv
  <2>3. HB!IInv' /\ HB!DCapacity'
      BY <2>1, BooksKept DEF NodeInv, hbmVars
  <2>4. NodeTypes'
      BY <2>1 DEF NodeInv, NodeTypes
  <2>5. CallsInOrder'
      BY <2>1 DEF NodeInv, CallsInOrder, Phase, QueuedOnce, Admission, Idle, IsCurrent, NeedsD,
                  Materialized, HBM!KVBytes, HBM!NoAdmission
  <2> QED
      BY <2>2, <2>3, <2>4, <2>5 DEF NodeInv
<1> QED
    BY <1>1, <1>2, <1>3, <1>4, <1>5, <1>6, <1>7, <1>8 DEF Next

-----------------------------------------------------------------------------
(* The theorems.                                                           *)

\* The node drives the pool and the HBM books only as they require: their own
\* invariants hold on the node, and the node's calls agree with both.
THEOREM NodeConsistent == Spec => []NodeInv
<1> QED
    BY InitNodeInv, NextNodeInv, PTL DEF Spec

\* The state of the node is well typed.
THEOREM NodeTypeCorrect == Spec => []TypeOK
<1>1. NodeInv => TypeOK
    BY NodeTyped DEF NodeInv
<1> QED
    BY <1>1, NodeConsistent, PTL

\* The pool's own guarantees (no request lost or served twice, prompts handed
\* over once, batches within their limits, no wakeup lost) survive the node
\* around it, which shares the fabric and submits calls of its own making.
THEOREM PoolNeverMisused == Spec => []PoolIntact
<1>1. NodeInv => PoolIntact
  <2> SUFFICES ASSUME NodeInv PROVE PoolIntact
      OBVIOUS
  <2>1. PP!OneQueue /\ PP!HandoffOnce /\ PP!WithinLimits /\ PP!NeverIdleWithWork
      BY DEF NodeInv, PP!PoolInv
  <2>2. Pool!OneQueue
      BY <2>1, SameRequests, SameOccurrences DEF PP!OneQueue, Pool!OneQueue
  <2>3. Pool!HandoffOnce
      BY <2>1, SameRequests, SameOccurrences
      DEF PP!HandoffOnce, Pool!HandoffOnce, PP!NeededOnD, Pool!NeededOnD
  <2>4. Pool!WithinLimits
    <3>1. PP!Total(chunk, MaxChunk) = Pool!Total(chunk, MaxChunk)
        BY SameSets DEF PP!Total, Pool!Total, PP!Cells, Pool!Cells
    <3> QED
        BY <2>1, <3>1, SameRequests
        DEF PP!WithinLimits, Pool!WithinLimits, PP!Least, Pool!Least, PP!ElementsOf,
            Pool!ElementsOf
  <2>5. Pool!NeverIdleWithWork
      BY <2>1 DEF PP!NeverIdleWithWork, Pool!NeverIdleWithWork
  <2> QED
      BY <2>2, <2>3, <2>4, <2>5 DEF PoolIntact
<1> QED
    BY <1>1, NodeConsistent, PTL

\* Neither side is overcommitted when the node admits, copies, hands over and
\* finishes, every live admission is the current call's, and D keeps the room
\* promised to it.
THEOREM BooksNeverAstray == Spec => []BooksFollowCalls
<1>1. NodeInv => BooksFollowCalls
  <2> SUFFICES ASSUME NodeInv PROVE BooksFollowCalls
      OBVIOUS
  <2>0. HB!IInv /\ HB!DCapacity /\ CallsInOrder
      BY DEF NodeInv
  <2>1. \A f, cap : HB!Total(f, cap) = HBM!Total(f, cap)
    <3>1. \A S : HB!Cardinality(S) = HBM!Cardinality(S)
        BY DEF HB!Cardinality, HBM!Cardinality, HB!IsFiniteSet, HBM!IsFiniteSet
    <3> QED
        BY <3>1 DEF HB!Total, HBM!Total, HB!Cells, HBM!Cells
  <2>2. HBM!PCapacity /\ HBM!DCapacity
      BY <2>0, <2>1 DEF HB!IInv, HB!PCapacity, HBM!PCapacity, HB!DCapacity, HBM!DCapacity
  <2>3. HBM!BooksMatchAdmissions
      BY <2>0, SameRequests DEF HB!IInv, HB!BooksMatchAdmissions, HBM!BooksMatchAdmissions
  <2>4. HBM!FinalContextReserved
    <3> SUFFICES ASSUME NEW s \in Session, active[s] # HBM!NoAdmission
                 PROVE  d[s] >= active[s].target
        BY DEF HBM!FinalContextReserved
    <3>1. /\ active[s].target \in Nat /\ active[s].held \in Nat
          /\ active[s].target <= active[s].held
          /\ d[s] \in {active[s].held, active[s].target}
        BY <2>0, BooksFacts
    <3> QED
        BY <3>1
  <2>5. \A s \in Session : active[s] = HBM!NoAdmission <=> activeCall[s] = NoCall
      BY <2>0 DEF CallsInOrder, Idle
  <2> QED
      BY <2>2, <2>3, <2>4, <2>5 DEF BooksFollowCalls
<1> QED
    BY <1>1, NodeConsistent, PTL

\* The prefix that a resumed call copies from D to P is on D until the copy
\* ends, and an idle session's lineage stays there for its next call.
THEOREM SourceNeverDropped == Spec => []SourceKept
<1>1. NodeInv => SourceKept
  <2> SUFFICES ASSUME NodeInv, NEW s \in Session
               PROVE  /\ resident[s] /\ activeCall[s] = NoCall
                             => d[s] = HBM!KVBytes(materialized[s])
                      /\ \A i \in DOMAIN fabric :
                             fabric[i][1] = "prepare" /\ fabric[i][2][1] = s
                                 => d[s] >= HBM!KVBytes(materialized[s])
      BY DEF SourceKept
  <2>1. resident[s] /\ activeCall[s] = NoCall => d[s] = HBM!KVBytes(materialized[s])
      BY DEF NodeInv, CallsInOrder, Idle
  <2>2. ASSUME NEW i \in DOMAIN fabric, fabric[i][1] = "prepare", fabric[i][2][1] = s
        PROVE  d[s] >= HBM!KVBytes(materialized[s])
    <3> DEFINE r == fabric[i][2]
    <3>1. fabric \in Seq({"handoff", "prepare"} \X Req)
        BY PoolFacts DEF NodeInv
    <3>2. r \in Req /\ fabric[i] = <<"prepare", r>>
        BY <2>2, <3>1
    <3>3. Occurrences(<<"prepare", r>>, fabric) > 0
        BY <3>1, <3>2, OccMember
    <3> QED
        BY <2>2, <3>2, <3>3 DEF NodeInv, CallsInOrder, Admission
  <2> QED
      BY <2>1, <2>2
<1> QED
    BY <1>1, NodeConsistent, PTL

\* A call that computes its prompt, hands it over or decodes is its session's
\* current call, unless nothing of it is on its way any more.
LEMMA ServedIsCurrent ==
    ASSUME NodeInv, NEW r \in Req,
           \/ state[r] \in {"p_prefill", "handoff", "d_decode"}
           \/ \E i \in DOMAIN fabric : fabric[i] = <<"handoff", r>>
    PROVE  /\ IsCurrent(r)
           /\ state[r] = "d_decode" \/ ~handoffDone[r]
           /\ state[r] = "p_prefill" \/ NeedsD(r)
<1>1. fabric \in Seq({"handoff", "prepare"} \X Req) /\ callState[r] \in CallState
    BY PoolFacts DEF NodeInv, NodeTypes
<1>2. Phase(r)
    BY DEF NodeInv, CallsInOrder
<1>3. /\ state[r] \in {"waiting_p", "p_prefill", "handoff"} => ~handoffDone[r]
      /\ state[r] \in {"handoff", "d_decode"} => NeedsD(r)
      /\ Occurrences(<<"handoff", r>>, fabric) > 0
             => /\ state[r] \in {"handoff", "d_decode", "complete"}
                /\ NeedsD(r) /\ ~handoffDone[r]
    BY PoolFacts DEF NodeInv
<1>4. CASE state[r] \in {"p_prefill", "handoff", "d_decode"}
    BY <1>1, <1>2, <1>3, <1>4 DEF Phase, CallState
<1>5. CASE \E i \in DOMAIN fabric : fabric[i] = <<"handoff", r>>
  <2>1. /\ state[r] \in {"handoff", "d_decode", "complete"}
        /\ NeedsD(r) /\ ~handoffDone[r]
      BY <1>1, <1>3, <1>5, OccMember
  <2> QED
      BY <1>1, <1>2, <2>1 DEF Phase, CallState
<1> QED
    BY <1>4, <1>5

\* The prompt stays on P while P computes it or the fabric reads it, and D has
\* the room for the whole context before the prompt sets out for it.
THEOREM RoomNeverTaken == Spec => []RoomKept
<1>1. NodeInv => RoomKept
  <2> SUFFICES ASSUME NodeInv PROVE RoomKept
      OBVIOUS
  <2>1. ASSUME NEW r \in Req,
               \/ state[r] \in {"p_prefill", "handoff"}
               \/ \E i \in DOMAIN fabric : fabric[i] = <<"handoff", r>>
        PROVE  p[r[1]] = HBM!KVBytes(input[r])
    <3>1. IsCurrent(r) /\ (state[r] = "d_decode" \/ ~handoffDone[r])
        BY <2>1, ServedIsCurrent
    <3>2. ~handoffDone[r]
      <4>1. Occurrences(<<"handoff", r>>, fabric) > 0 => ~handoffDone[r]
          BY PoolFacts DEF NodeInv
      <4>2. fabric \in Seq({"handoff", "prepare"} \X Req)
          BY PoolFacts DEF NodeInv
      <4> QED
          BY <2>1, <3>1, <4>1, <4>2, OccMember
    <3>3. Admission(r)
        BY DEF NodeInv, CallsInOrder
    <3> QED
        BY <3>1, <3>2, <3>3 DEF Admission
  <2>2. ASSUME NEW r \in Req,
               \/ state[r] \in {"handoff", "d_decode"}
               \/ \E i \in DOMAIN fabric : fabric[i] = <<"handoff", r>>
        PROVE  d[r[1]] >= HBM!KVBytes(Materialized(r))
    <3>1. IsCurrent(r) /\ NeedsD(r)
      <4>1. Occurrences(<<"handoff", r>>, fabric) > 0 => NeedsD(r)
          BY PoolFacts DEF NodeInv
      <4>2. fabric \in Seq({"handoff", "prepare"} \X Req)
          BY PoolFacts DEF NodeInv
      <4> QED
          BY <2>2, <4>1, <4>2, OccMember, ServedIsCurrent
    <3> DEFINE a == active[r[1]]
    <3>2. /\ a.target \in Nat /\ a.held \in Nat /\ a.target <= a.held
          /\ d[r[1]] \in {a.held, a.target}
          /\ a.target = HBM!KVBytes(Materialized(r))
        BY <3>1, CurrentAdmission
    <3> QED
        BY <3>2
  <2>3. PromptKept
      BY <2>1 DEF PromptKept
  <2>4. DecodeHasRoom
      BY <2>2 DEF DecodeHasRoom
  <2> QED
      BY <2>3, <2>4 DEF RoomKept
<1> QED
    BY <1>1, NodeConsistent, PTL
=============================================================================
