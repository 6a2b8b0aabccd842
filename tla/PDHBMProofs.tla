----------------------------- MODULE PDHBMProofs -----------------------------
(***************************************************************************)
(* Theorems about PDHBM for every set of sessions, every capacity, every   *)
(* block size and every request size.                                      *)
(***************************************************************************)
EXTENDS PDHBM, LedgerProofs

\* What an admission promises when it is handed out: its parts fit the ranks
\* one by one, D is held for both the old and the new context, and its id is
\* behind the counter.
AdmissionsBounded ==
    \A a \in issued :
        /\ 0 < a.id /\ a.id < nextId
        /\ a.p <= PCap
        /\ a.target <= a.held /\ a.prior <= a.held /\ a.held <= DCap

\* The inductive invariant; DCapacity is kept apart because it alone needs
\* the callers' discipline on cancel.
IInv == TypeOK /\ BooksMatchAdmissions /\ AdmissionsBounded /\ PCapacity

-----------------------------------------------------------------------------
(* Lemmas about one admission.                                             *)

\* A positive number of tokens is charged a natural number of bytes.
LEMMA KVBytesType ==
    ASSUME NEW n \in Nat
    PROVE  KVBytes(n) \in Nat
<1>1. BlockSize \in Nat /\ BlockSize > 0
    BY BlockAssumption
<1>2. n + BlockSize - 1 \in Nat
    BY <1>1
<1>3. (n + BlockSize - 1) \div BlockSize \in Nat
    BY <1>1, <1>2
<1> QED
    BY <1>1, <1>3 DEF KVBytes

\* An admission that is proposed, feasible and fits is typed and bounded.
LEMMA ProposalBounded ==
    ASSUME TypeOK, NEW s \in Session, NEW input \in Inputs, NEW output \in Outputs,
           NEW needsD \in BOOLEAN, Feasible(Proposal(s, input, output, needsD))
    PROVE  LET a == Proposal(s, input, output, needsD) IN
           /\ a \in Admission /\ a.id = nextId /\ a.session = s
           /\ a.p \in 0..PCap /\ a.held \in 0..DCap
           /\ a.target <= a.held /\ a.prior <= a.held /\ a.prior = d[s]
<1> DEFINE a == Proposal(s, input, output, needsD)
<1>1. input \in Nat /\ output \in Nat /\ input + output - 1 \in Nat
    BY TokenAssumption
<1>2. KVBytes(input) \in Nat /\ KVBytes(input + output - 1) \in Nat
    BY <1>1, KVBytesType
<1>3. d[s] \in 0..DCap /\ DCap \in Nat /\ PCap \in Nat /\ nextId \in Nat
    BY CapAssumption DEF TypeOK
<1>4. a.p \in Nat /\ a.target \in Nat /\ a.prior = d[s] /\ a.id = nextId /\ a.session = s
    BY <1>2 DEF Proposal
<1>5. a.held = Larger(d[s], a.target)
    BY DEF Proposal
<1>6. a.p <= PCap /\ a.target <= DCap
    BY DEF Feasible
<1>7. /\ a.held \in 0..DCap
      /\ a.target <= a.held /\ a.prior <= a.held
    BY <1>3, <1>4, <1>5, <1>6 DEF Larger
<1>8. a = [id |-> a.id, session |-> a.session, p |-> a.p, target |-> a.target,
           held |-> a.held, prior |-> a.prior]
    BY DEF Proposal
<1>9. a \in Admission
    BY <1>3, <1>4, <1>7, <1>8 DEF Admission
<1> QED
    BY <1>3, <1>4, <1>6, <1>7, <1>9

\* What a caller may rely on when its handle is still the live one.
LEMMA ActiveHandle ==
    ASSUME IInv, NEW a \in issued, IsActive(a)
    PROVE  /\ a.session \in Session /\ a # NoAdmission /\ active[a.session] = a
           /\ a.target \in 0..DCap /\ a.prior \in 0..DCap /\ a.held \in 0..DCap
           /\ p[a.session] \in {0, a.p} /\ d[a.session] \in {a.held, a.target}
<1>1. a \in Admission
    BY DEF IInv, TypeOK
<1>2. a # NoAdmission
    BY DEF IInv, AdmissionsBounded, NoAdmission
<1>3. DCap \in Nat
    BY CapAssumption
<1> QED
    BY <1>1, <1>2, <1>3 DEF IInv, IsActive, Admission, AdmissionsBounded, BooksMatchAdmissions

-----------------------------------------------------------------------------
(* The initial state.                                                      *)

LEMMA InitIInv == Init => IInv /\ DCapacity
<1> SUFFICES ASSUME Init PROVE IInv /\ DCapacity
    OBVIOUS
<1>1. TypeOK
    BY CapAssumption DEF Init, TypeOK
<1>2. Total(p, PCap) = 0 /\ Total(d, DCap) = 0
  <2>1. p \in [Session -> 0..PCap] /\ d \in [Session -> 0..DCap]
      BY <1>1 DEF TypeOK
  <2>2. \A s \in Session : p[s] = 0 /\ d[s] = 0
      BY DEF Init
  <2> QED
      BY <2>1, <2>2, TotalZero, SessionAssumption, CapAssumption
<1>3. PCapacity /\ DCapacity
    BY <1>2, CapAssumption DEF PCapacity, DCapacity
<1>4. BooksMatchAdmissions /\ AdmissionsBounded
    BY DEF Init, BooksMatchAdmissions, AdmissionsBounded
<1> QED
    BY <1>1, <1>3, <1>4 DEF IInv

-----------------------------------------------------------------------------
(* Every step preserves the invariant.                                     *)

\* The session s is admitted with a, its D reservation settled at w.
Admits(s, a, w) ==
    /\ active[s] = NoAdmission /\ Feasible(a) /\ Fits(a)
    /\ w \in {a.held, a.target}
    /\ p' = [p EXCEPT ![s] = a.p] /\ d' = [d EXCEPT ![s] = w]
    /\ active' = [active EXCEPT ![s] = a]
    /\ issued' = issued \cup {a} /\ nextId' = nextId + 1

\* An admission keeps the books, also when its D reservation is settled at once:
\* it is the only step that adds reservations.
LEMMA AdmitIInv ==
    ASSUME IInv, NEW s \in Session, NEW input \in Inputs, NEW output \in Outputs,
           NEW needsD \in BOOLEAN, NEW w, Admits(s, Proposal(s, input, output, needsD), w)
    PROVE  IInv' /\ (DCapacity => DCapacity')
<1> DEFINE a == Proposal(s, input, output, needsD)
<1>1. /\ p' = [p EXCEPT ![s] = a.p] /\ d' = [d EXCEPT ![s] = w]
      /\ active' = [active EXCEPT ![s] = a] /\ active[s] = NoAdmission
      /\ issued' = issued \cup {a} /\ nextId' = nextId + 1
      /\ Feasible(a) /\ Fits(a) /\ w \in {a.held, a.target}
    BY DEF Admits
<1>2. TypeOK
    BY DEF IInv
<1>3. /\ a \in Admission /\ a.id = nextId /\ a.session = s
      /\ a.p \in 0..PCap /\ a.held \in 0..DCap
      /\ a.target <= a.held /\ a.prior <= a.held /\ a.prior = d[s]
    BY <1>1, <1>2, ProposalBounded
<1> HIDE DEF a
<1>4. PCap \in Nat /\ DCap \in Nat /\ nextId \in Nat \ {0}
    BY <1>2, CapAssumption DEF TypeOK
<1>w. w \in 0..DCap /\ w <= a.held
    BY <1>1, <1>3, <1>4 DEF Admission
<1>5. p \in [Session -> 0..PCap] /\ d \in [Session -> 0..DCap]
    BY <1>2 DEF TypeOK
<1>6. /\ p' \in [Session -> 0..PCap] /\ d' \in [Session -> 0..DCap]
      /\ Total(p', PCap) = Total(p, PCap) - p[s] + a.p
      /\ Total(d', DCap) = Total(d, DCap) - d[s] + w
  <2>1. /\ p' \in [Session -> 0..PCap] /\ p'[s] = a.p
        /\ \A t \in Session \ {s} : p'[t] = p[t]
      BY <1>1, <1>3, <1>5
  <2>2. /\ d' \in [Session -> 0..DCap] /\ d'[s] = w
        /\ \A t \in Session \ {s} : d'[t] = d[t]
      BY <1>1, <1>w, <1>5
  <2>3. Total(p', PCap) = Total(p, PCap) - p[s] + p'[s]
      BY <1>4, <1>5, <2>1, SessionAssumption, TotalUpdate
  <2>4. Total(d', DCap) = Total(d, DCap) - d[s] + d'[s]
      BY <1>4, <1>5, <2>2, SessionAssumption, TotalUpdate
  <2> QED
      BY <2>1, <2>2, <2>3, <2>4
<1>7. Total(p, PCap) \in Nat /\ Total(d, DCap) \in Nat
    BY <1>4, <1>5, SessionAssumption, CellsFinite
<1>8. p[s] = 0
    BY <1>1 DEF IInv, BooksMatchAdmissions
<1>9. PCapacity'
    BY <1>1, <1>3, <1>4, <1>6, <1>7, <1>8 DEF Fits, PFree, PCapacity
<1>10. DCapacity => DCapacity'
    BY <1>1, <1>w, <1>3, <1>4, <1>5, <1>6, <1>7 DEF Fits, DFree, DCapacity
<1>11. TypeOK'
    BY <1>1, <1>2, <1>3, <1>4, <1>6 DEF TypeOK
<1>12. BooksMatchAdmissions'
  <2> SUFFICES ASSUME NEW t \in Session
               PROVE  IF active'[t] = NoAdmission THEN p'[t] = 0
                      ELSE /\ active'[t].session = t
                           /\ p'[t] \in {0, active'[t].p}
                           /\ d'[t] \in {active'[t].held, active'[t].target}
      BY DEF BooksMatchAdmissions
  <2>1. CASE t = s
    <3>1. active'[t] = a /\ p'[t] = a.p /\ d'[t] = w
        BY <1>1, <1>2, <1>5, <2>1 DEF TypeOK
    <3>2. a # NoAdmission
        BY <1>3, <1>4 DEF NoAdmission
    <3> QED
        BY <1>1, <1>3, <2>1, <3>1, <3>2
  <2>2. CASE t # s
    <3>1. active'[t] = active[t] /\ p'[t] = p[t] /\ d'[t] = d[t]
        BY <1>1, <1>2, <1>5, <2>2 DEF TypeOK
    <3> QED
        BY <3>1 DEF IInv, BooksMatchAdmissions
  <2> QED
      BY <2>1, <2>2
<1>13. AdmissionsBounded'
  <2> SUFFICES ASSUME NEW b \in issued'
               PROVE  /\ 0 < b.id /\ b.id < nextId' /\ b.p <= PCap
                      /\ b.target <= b.held /\ b.prior <= b.held /\ b.held <= DCap
      BY DEF AdmissionsBounded
  <2>1. CASE b = a
      BY <1>1, <1>3, <1>4, <2>1
  <2>2. CASE b \in issued
    <3>1. b.id \in Nat
        BY <1>2, <2>2 DEF TypeOK, Admission
    <3> QED
        BY <1>1, <1>4, <2>2, <3>1 DEF IInv, AdmissionsBounded
  <2> QED
      BY <1>1, <2>1, <2>2
<1> QED
    BY <1>9, <1>10, <1>11, <1>12, <1>13 DEF IInv

LEMMA TryAdmitIInv ==
    ASSUME IInv, NEW s \in Session, NEW input \in Inputs, NEW output \in Outputs,
           NEW needsD \in BOOLEAN, TryAdmit(s, input, output, needsD)
    PROVE  IInv' /\ (DCapacity => DCapacity')
<1> DEFINE a == Proposal(s, input, output, needsD)
<1>1. Admits(s, a, a.held)
    BY DEF TryAdmit, Admits
<1> QED
    BY <1>1, AdmitIInv

\* g is f with the entry of s changed to v.
Assigned(f, g, s, v, S) ==
    /\ g \in S
    /\ g[s] = v
    /\ \A t \in Session \ {s} : g[t] = f[t]

(***************************************************************************)
(* What all the other operations do: give the session s the reservations v *)
(* on P and w on D, and perhaps end its admission.                         *)
(***************************************************************************)
Settles(s, v, w) ==
    /\ Assigned(p, p', s, v, [Session -> 0..PCap])
    /\ Assigned(d, d', s, w, [Session -> 0..DCap])
    /\ Assigned(active, active', s, active'[s], [Session -> issued \cup {NoAdmission}])
    /\ UNCHANGED <<nextId, issued>>
    /\ v <= p[s]
    /\ IF active'[s] = NoAdmission
       THEN v = 0
       ELSE /\ active'[s] = active[s]
            /\ v \in {0, active[s].p} /\ w \in {active[s].held, active[s].target}

LEMMA ReleaseIInv ==
    ASSUME IInv, NEW s \in Session, NEW v \in 0..PCap, NEW w \in 0..DCap, Settles(s, v, w)
    PROVE  IInv' /\ (DCapacity /\ w <= d[s] => DCapacity')
<1>1. PCap \in Nat /\ DCap \in Nat
    BY CapAssumption
<1>2. p \in [Session -> 0..PCap] /\ d \in [Session -> 0..DCap]
    BY DEF IInv, TypeOK
<1>3. /\ Total(p', PCap) = Total(p, PCap) - p[s] + v
      /\ Total(d', DCap) = Total(d, DCap) - d[s] + w
  <2>1. Total(p', PCap) = Total(p, PCap) - p[s] + p'[s]
      BY <1>1, <1>2, SessionAssumption, TotalUpdate DEF Assigned, Settles
  <2>2. Total(d', DCap) = Total(d, DCap) - d[s] + d'[s]
      BY <1>1, <1>2, SessionAssumption, TotalUpdate, SMTT(30) DEF Assigned, Settles
  <2> QED
      BY <2>1, <2>2 DEF Assigned, Settles
<1>4. Total(p, PCap) \in Nat /\ Total(d, DCap) \in Nat
    BY <1>1, <1>2, SessionAssumption, CellsFinite
<1>5. PCapacity'
    BY <1>1, <1>2, <1>3, <1>4 DEF IInv, PCapacity, Settles
<1>6. DCapacity /\ w <= d[s] => DCapacity'
    BY <1>1, <1>2, <1>3, <1>4 DEF DCapacity
<1>7. TypeOK'
    BY DEF IInv, TypeOK, Assigned, Settles
<1>8. BooksMatchAdmissions'
  <2> SUFFICES ASSUME NEW t \in Session
               PROVE  IF active'[t] = NoAdmission THEN p'[t] = 0
                      ELSE /\ active'[t].session = t
                           /\ p'[t] \in {0, active'[t].p}
                           /\ d'[t] \in {active'[t].held, active'[t].target}
      BY DEF BooksMatchAdmissions
  <2>1. CASE t # s
    <3>1. active'[t] = active[t] /\ p'[t] = p[t] /\ d'[t] = d[t]
        BY <2>1 DEF Assigned, Settles
    <3> QED
        BY <3>1 DEF IInv, BooksMatchAdmissions
  <2>2. CASE t = s
    <3>1. p'[t] = v /\ d'[t] = w
        BY <2>2 DEF Assigned, Settles
    <3> QED
        BY <2>2, <3>1 DEF IInv, BooksMatchAdmissions, Settles
  <2> QED
      BY <2>1, <2>2
<1>9. AdmissionsBounded'
    BY DEF IInv, AdmissionsBounded, Settles
<1> QED
    BY <1>5, <1>6, <1>7, <1>8, <1>9 DEF IInv

\* One step of the manager, or a step that leaves it alone.
LEMMA NextIInv ==
    IInv /\ [Next]_vars => IInv' /\ (~LateCancel /\ DCapacity => DCapacity')
<1> SUFFICES ASSUME IInv, [Next]_vars
             PROVE  IInv' /\ (~LateCancel /\ DCapacity => DCapacity')
    OBVIOUS
<1>0. TypeOK /\ PCap \in Nat /\ DCap \in Nat
    BY CapAssumption DEF IInv
<1>1. ASSUME NEW s \in Session, NEW input \in Inputs, NEW output \in Outputs,
             NEW needsD \in BOOLEAN, TryAdmit(s, input, output, needsD)
      PROVE  IInv' /\ (~LateCancel /\ DCapacity => DCapacity')
    BY <1>1, TryAdmitIInv
<1>2. ASSUME NEW a \in issued, ReleaseP(a)
      PROVE  IInv' /\ (~LateCancel /\ DCapacity => DCapacity')
  <2> DEFINE s == a.session
  <2>1. /\ s \in Session /\ active[s] = a /\ a # NoAdmission
        /\ d[s] \in {a.held, a.target}
      BY <1>2, ActiveHandle DEF ReleaseP
  <2>2. p[s] \in 0..PCap /\ d[s] \in 0..DCap
      BY <1>0, <2>1 DEF TypeOK
  <2> HIDE DEF s
  <2>3. /\ Assigned(p, p', s, 0, [Session -> 0..PCap])
        /\ Assigned(d, d', s, d[s], [Session -> 0..DCap])
        /\ Assigned(active, active', s, active'[s], [Session -> issued \cup {NoAdmission}])
        /\ active'[s] = a /\ UNCHANGED <<nextId, issued>>
      BY <1>0, <1>2, <2>1 DEF ReleaseP, TypeOK, Assigned, s
  <2>4. Settles(s, 0, d[s])
      BY <1>0, <2>1, <2>2, <2>3 DEF Settles
  <2> QED
      BY <1>0, <2>1, <2>2, <2>4, ReleaseIInv
<1>3. ASSUME NEW a \in issued, ReleaseDSource(a)
      PROVE  IInv' /\ (~LateCancel /\ DCapacity => DCapacity')
  <2> DEFINE s == a.session
  <2>1. /\ s \in Session /\ active[s] = a /\ a # NoAdmission
        /\ a.target \in 0..DCap /\ p[s] \in {0, a.p}
      BY <1>3, ActiveHandle DEF ReleaseDSource
  <2>2. p[s] \in 0..PCap /\ a.target <= d[s]
      BY <1>0, <1>3, <2>1 DEF TypeOK, ReleaseDSource, IInv, AdmissionsBounded
  <2> HIDE DEF s
  <2>3. /\ Assigned(p, p', s, p[s], [Session -> 0..PCap])
        /\ Assigned(d, d', s, a.target, [Session -> 0..DCap])
        /\ Assigned(active, active', s, active'[s], [Session -> issued \cup {NoAdmission}])
        /\ active'[s] = a /\ UNCHANGED <<nextId, issued>>
      BY <1>0, <1>3, <2>1 DEF ReleaseDSource, TypeOK, Assigned, s
  <2>4. Settles(s, p[s], a.target)
      BY <1>0, <2>1, <2>2, <2>3 DEF Settles
  <2> QED
      BY <1>0, <2>1, <2>2, <2>4, ReleaseIInv
<1>4. ASSUME NEW a \in issued, Cancel(a)
      PROVE  IInv' /\ (~LateCancel /\ DCapacity => DCapacity')
  <2> DEFINE s == a.session
  <2>1. s \in Session /\ a.prior \in 0..DCap
      BY <1>4, ActiveHandle DEF Cancel
  <2>2. p[s] \in 0..PCap /\ (~LateCancel => a.prior <= d[s])
      BY <1>0, <1>4, <2>1 DEF TypeOK, Cancel, IInv, AdmissionsBounded
  <2> HIDE DEF s
  <2>3. /\ Assigned(p, p', s, 0, [Session -> 0..PCap])
        /\ Assigned(d, d', s, a.prior, [Session -> 0..DCap])
        /\ Assigned(active, active', s, active'[s], [Session -> issued \cup {NoAdmission}])
        /\ active'[s] = NoAdmission /\ UNCHANGED <<nextId, issued>>
      BY <1>0, <1>4, <2>1 DEF Cancel, TypeOK, Assigned, s
  <2>4. Settles(s, 0, a.prior)
      BY <1>0, <2>1, <2>2, <2>3 DEF Settles
  <2> QED
      BY <1>0, <2>1, <2>2, <2>4, ReleaseIInv
<1>5. ASSUME NEW a \in issued, NEW hasSuccessor \in BOOLEAN, Finish(a, hasSuccessor)
      PROVE  IInv' /\ (~LateCancel /\ DCapacity => DCapacity')
  <2> DEFINE s == a.session
             w == IF hasSuccessor THEN a.target ELSE 0
  <2>1. /\ s \in Session /\ a.target \in 0..DCap /\ a.held \in 0..DCap
        /\ d[s] \in {a.held, a.target}
      BY <1>5, ActiveHandle DEF Finish
  <2>2. p[s] \in 0..PCap /\ w \in 0..DCap /\ w <= d[s]
      BY <1>0, <2>1 DEF TypeOK, IInv, AdmissionsBounded
  <2>3. /\ Assigned(p, p', s, 0, [Session -> 0..PCap])
        /\ Assigned(d, d', s, w, [Session -> 0..DCap])
        /\ Assigned(active, active', s, active'[s], [Session -> issued \cup {NoAdmission}])
        /\ active'[s] = NoAdmission /\ UNCHANGED <<nextId, issued>>
      BY <1>0, <1>5, <2>1, <2>2 DEF Finish, TypeOK, Assigned
  <2> HIDE DEF s, w
  <2>4. Settles(s, 0, w)
      BY <1>0, <2>1, <2>2, <2>3 DEF Settles
  <2> QED
      BY <1>0, <2>1, <2>2, <2>4, ReleaseIInv
<1>6. ASSUME NEW s \in Session, ReleaseIdleSession(s)
      PROVE  IInv' /\ (~LateCancel /\ DCapacity => DCapacity')
  <2>1. p[s] = 0 /\ d[s] \in 0..DCap
      BY <1>0, <1>6 DEF ReleaseIdleSession, IInv, BooksMatchAdmissions, TypeOK
  <2>2. /\ Assigned(p, p', s, 0, [Session -> 0..PCap])
        /\ Assigned(d, d', s, 0, [Session -> 0..DCap])
        /\ Assigned(active, active', s, active'[s], [Session -> issued \cup {NoAdmission}])
        /\ active'[s] = NoAdmission /\ UNCHANGED <<nextId, issued>>
      BY <1>0, <1>6, <2>1 DEF ReleaseIdleSession, TypeOK, Assigned
  <2>3. Settles(s, 0, 0)
      BY <1>0, <2>1, <2>2 DEF Settles
  <2> QED
      BY <1>0, <2>1, <2>3, ReleaseIInv
<1>7. CASE UNCHANGED vars
    BY <1>7 DEF vars, IInv, TypeOK, BooksMatchAdmissions, AdmissionsBounded,
                PCapacity, DCapacity
<1> QED
    BY <1>1, <1>2, <1>3, <1>4, <1>5, <1>6, <1>7 DEF Next

-----------------------------------------------------------------------------
(* The theorems.                                                           *)

\* The books are typed, agree with the live admissions, and never promise
\* more of the P ranks than there is, for any sequence of legal calls.
THEOREM BooksHold == Spec => []IInv
<1>1. Init => IInv
    BY InitIInv
<1>2. IInv /\ [Next]_vars => IInv'
    BY NextIInv
<1> QED
    BY <1>1, <1>2, PTL DEF Spec

\* The state is well typed: try_admit and the releases keep every entry of the
\* two dictionaries within its ranks.
THEOREM TypeCorrect == Spec => []TypeOK
<1>1. IInv => TypeOK
    BY DEF IInv
<1> QED
    BY <1>1, BooksHold, PTL

\* P and D hold for a session what its live admission says, and P nothing once
\* the admission has ended: no call leaks or loses a reservation.
THEOREM BooksAgree == Spec => []BooksMatchAdmissions
<1>1. IInv => BooksMatchAdmissions
    BY DEF IInv
<1> QED
    BY <1>1, BooksHold, PTL

\* No order of admissions, releases, cancellations and finishes overcommits
\* the P ranks.
THEOREM PNeverOvercommitted == Spec => []PCapacity
<1>1. IInv => PCapacity
    BY DEF IInv
<1> QED
    BY <1>1, BooksHold, PTL

\* Nor the D ranks, provided the callers cancel an admission only before its
\* old D source is released.
THEOREM DNeverOvercommitted ==
    ASSUME ~LateCancel
    PROVE  Spec => []DCapacity
<1>1. Init => IInv /\ DCapacity
    BY InitIInv
<1>2. (IInv /\ DCapacity) /\ [Next]_vars => (IInv /\ DCapacity)'
    BY NextIInv
<1> QED
    BY <1>1, <1>2, PTL DEF Spec

\* So neither side is ever overcommitted under those callers.
THEOREM NeverOvercommitted ==
    ASSUME ~LateCancel
    PROVE  Spec => []Capacity
<1>1. PCapacity /\ DCapacity => Capacity
    BY DEF Capacity
<1> QED
    BY <1>1, PNeverOvercommitted, DNeverOvercommitted, PTL

\* The reservation for the final context, made by try_admit, outlives every
\* step of the request: decode never runs out of memory it was promised.
THEOREM DecodeNeverStarved == Spec => []FinalContextReserved
<1>1. IInv => FinalContextReserved
  <2> SUFFICES ASSUME IInv, NEW s \in Session, active[s] # NoAdmission
               PROVE  d[s] >= active[s].target
      BY DEF FinalContextReserved
  <2>1. active[s] \in issued
      BY DEF IInv, TypeOK
  <2>2. active[s].target \in Nat /\ active[s].held \in Nat
      BY <2>1 DEF IInv, TypeOK, Admission
  <2>3. active[s].target <= active[s].held
      BY <2>1 DEF IInv, AdmissionsBounded
  <2>4. d[s] \in {active[s].held, active[s].target}
      BY DEF IInv, BooksMatchAdmissions
  <2> QED
      BY <2>2, <2>3, <2>4
<1> QED
    BY <1>1, BooksHold, PTL

\* A handle whose admission has ended is never live again, so presenting it a
\* second time (the stale-handle check of _require_active) is always refused.
THEOREM HandlesEndForGood == Spec => EndedForGood
<1>1. IInv /\ [Next]_vars => [\A a \in issued : ~IsActive(a) => active'[a.session] # a]_vars
  <2> SUFFICES ASSUME IInv, Next, NEW a \in issued, ~IsActive(a)
               PROVE  active'[a.session] # a
      BY DEF vars
  <2>1. /\ a.id \in Nat /\ nextId \in Nat /\ a.id < nextId /\ a.session \in Session
        /\ a # NoAdmission /\ active[a.session] # a
        /\ active \in [Session -> issued \cup {NoAdmission}]
      BY DEF IInv, TypeOK, Admission, AdmissionsBounded, IsActive, NoAdmission
  <2>2. ASSUME NEW s \in Session, NEW input \in Inputs, NEW output \in Outputs,
               NEW needsD \in BOOLEAN, TryAdmit(s, input, output, needsD)
        PROVE  active'[a.session] # a
    <3> DEFINE b == Proposal(s, input, output, needsD)
    <3>1. active' = [active EXCEPT ![s] = b]
        BY <2>2 DEF TryAdmit
    <3>2. b.id = nextId
        BY DEF Proposal
    <3> QED
        BY <2>1, <3>1, <3>2
  <2>3. ASSUME NEW s \in Session, active' = [active EXCEPT ![s] = NoAdmission]
        PROVE  active'[a.session] # a
      BY <2>1, <2>3
  <2>4. ASSUME NEW b \in issued, Cancel(b) \/ \E h \in BOOLEAN : Finish(b, h)
        PROVE  active'[a.session] # a
    <3>1. b.session \in Session
        BY DEF IInv, TypeOK, Admission
    <3>2. active' = [active EXCEPT ![b.session] = NoAdmission]
        BY <2>4 DEF Cancel, Finish
    <3> QED
        BY <2>3, <3>1, <3>2
  <2>5. CASE UNCHANGED active
      BY <2>1, <2>5
  <2> QED
      BY <2>2, <2>4, <2>5 DEF Next, ReleaseP, ReleaseDSource, ReleaseIdleSession
<1> QED
    BY <1>1, BooksHold, PTL DEF Spec, EndedForGood

\* When no other session holds anything, a feasible request fits: the session's
\* own retained context never causes a capacity deferral.
THEOREM OnlyOthersDefer == Spec => []DeferralBlamesOthers
<1>1. IInv => DeferralBlamesOthers
  <2> SUFFICES ASSUME IInv, NEW s \in Session, NEW input \in Inputs,
                      NEW output \in Outputs, NEW needsD \in BOOLEAN,
                      active[s] = NoAdmission,
                      Feasible(Proposal(s, input, output, needsD)),
                      \A t \in Session \ {s} : p[t] = 0 /\ d[t] = 0
               PROVE  Fits(Proposal(s, input, output, needsD))
      BY DEF DeferralBlamesOthers
  <2> DEFINE a == Proposal(s, input, output, needsD)
             none == [t \in Session |-> 0]
  <2>1. TypeOK /\ PCap \in Nat /\ DCap \in Nat
      BY CapAssumption DEF IInv
  <2>2. a.p \in 0..PCap /\ a.held \in 0..DCap /\ a.prior = d[s]
      BY <2>1, ProposalBounded
  <2>3. p \in [Session -> 0..PCap] /\ d \in [Session -> 0..DCap]
      BY <2>1 DEF TypeOK
  <2>4. p[s] = 0
      BY DEF IInv, BooksMatchAdmissions
  <2>5. Total(p, PCap) = 0
      BY <2>1, <2>3, <2>4, SessionAssumption, TotalZero
  <2>6. none \in [Session -> 0..DCap] /\ \A t \in Session : none[t] = 0
      BY <2>1
  <2> HIDE DEF a, none
  <2>7. Total(none, DCap) = 0
      BY <2>1, <2>6, SessionAssumption, TotalZero
  <2>8. Total(d, DCap) = Total(none, DCap) - none[s] + d[s]
      BY <2>1, <2>3, <2>6, SessionAssumption, TotalUpdate
  <2>9. Total(d, DCap) = d[s]
      BY <2>1, <2>3, <2>6, <2>7, <2>8
  <2>10. Fits(a)
      BY <2>1, <2>2, <2>3, <2>5, <2>9 DEF Fits, PFree, DFree
  <2> QED
      BY <2>10 DEF a
<1> QED
    BY <1>1, BooksHold, PTL
=============================================================================
