---------------------------- MODULE HulkProofs -----------------------------
(***************************************************************************)
(* Proofs about Hulk, for any finite set of workers and any bound: the    *)
(* counter that the workers update without a lock (request_counter += 1, *)
(* src/hulk.py line 19) is never ahead of the requests answered.          *)
(*                                                                         *)
(* CounterNeverAhead is not inductive: a worker between its read and its  *)
(* write holds a copy tmp[w] that it will write back plus one.  Every     *)
(* worker inside inc_counter (Pending) has a distinct answered request    *)
(* not yet counted, so the counter plus the pending workers, and each     *)
(* copy held at the write plus the pending workers, stay within acks.     *)
(***************************************************************************)
EXTENDS Hulk, FiniteSetTheorems, TLAPS

Pending == {w \in Workers : pc[w] \in {"inc_read", "inc_write"}}

CounterBound ==
    /\ counter + Cardinality(Pending) <= acks
    /\ \A w \in Workers : pc[w] = "inc_write" => tmp[w] + Cardinality(Pending) <= acks

IInv == TypeOK /\ CounterBound

(* The pending workers are a finite set, of natural cardinality.           *)
LEMMA PendingFinite ==
    ASSUME TypeOK
    PROVE  IsFiniteSet(Pending) /\ Cardinality(Pending) \in Nat
<1>1. Pending \in SUBSET Workers
  BY DEF Pending
<1>2. IsFiniteSet(Pending)
  BY <1>1, WorkersAssumption, FS_Subset
<1> QED
  BY <1>2, FS_CardinalityType

(* The initial state: nobody is pending and every counter is 0.            *)
LEMMA InitIInv == Init => IInv
<1> SUFFICES ASSUME Init PROVE IInv
  OBVIOUS
<1>1. Pending = {}
  BY DEF Init, Pending
<1>2. Cardinality(Pending) = 0
  BY <1>1, FS_EmptySet
<1>3. TypeOK
  <2>1. pc \in [Workers -> PCs]
    BY DEF Init, PCs
  <2>2. tmp \in [Workers -> 0..MaxReq]
    BY MaxReqAssumption DEF Init
  <2>3. announced \in BOOLEAN
    BY Zenon DEF Init
  <2> QED
    BY <2>1, <2>2, <2>3, MaxReqAssumption DEF Init, TypeOK
<1> QED
  BY <1>2, <1>3 DEF IInv, CounterBound, Init

(***************************************************************************)
(* A step keeps IInv: a step that moves no worker in or out of Pending    *)
(* keeps the bound as it is; SendOk adds one pending worker and one       *)
(* answer; IncRead copies a counter that is within the bound; IncWrite    *)
(* takes the writer out of Pending as it writes its copy plus one.        *)
(***************************************************************************)
LEMMA NextIInv == IInv /\ [Next]_vars => IInv'
<1> SUFFICES ASSUME IInv, [Next]_vars PROVE IInv'
  OBVIOUS
<1>0. IsFiniteSet(Pending) /\ Cardinality(Pending) \in Nat
  BY PendingFinite DEF IInv
<1>1. ASSUME NEW w \in Workers, Check(w) PROVE IInv'
  <2>1. Pending' = Pending
    BY <1>1 DEF Check, Pending, IInv, TypeOK
  <2> QED
    BY <1>1, <2>1 DEF Check, IInv, TypeOK, CounterBound, PCs
<1>2. ASSUME NEW w \in Workers, SendOk(w) PROVE IInv'
  <2>1. w \notin Pending
    BY <1>2 DEF SendOk, Pending
  <2>2. Pending' = Pending \cup {w}
    BY <1>2 DEF SendOk, Pending, IInv, TypeOK
  <2>3. Cardinality(Pending') = Cardinality(Pending) + 1
    BY <1>0, <2>1, <2>2, FS_AddElement
  <2>4. TypeOK'
    BY <1>2, MaxReqAssumption DEF SendOk, IInv, TypeOK, PCs
  <2>5. counter' + Cardinality(Pending') <= acks'
    BY <1>2, <1>0, <2>3 DEF SendOk, IInv, CounterBound, TypeOK
  <2>6. ASSUME NEW v \in Workers, pc'[v] = "inc_write"
        PROVE  tmp'[v] + Cardinality(Pending') <= acks'
    <3>1. v # w /\ pc[v] = "inc_write"
      BY <1>2, <2>6 DEF SendOk, IInv, TypeOK
    <3> QED
      BY <1>2, <1>0, <2>3, <3>1 DEF SendOk, IInv, CounterBound, TypeOK
  <2> QED
    BY <2>4, <2>5, <2>6 DEF IInv, CounterBound
<1>3. ASSUME NEW w \in Workers, SendError(w) PROVE IInv'
  <2>1. Pending' = Pending
    BY <1>3 DEF SendError, Pending, IInv, TypeOK
  <2> QED
    BY <1>3, <2>1 DEF SendError, IInv, TypeOK, CounterBound, PCs
<1>4. ASSUME NEW w \in Workers, SendUnreachable(w) PROVE IInv'
  <2>1. Pending' = Pending
    BY <1>4 DEF SendUnreachable, Pending, IInv, TypeOK
  <2> QED
    BY <1>4, <2>1 DEF SendUnreachable, IInv, TypeOK, CounterBound, PCs
<1>5. ASSUME NEW w \in Workers, IncRead(w) PROVE IInv'
  <2>1. Pending' = Pending
    BY <1>5 DEF IncRead, Pending, IInv, TypeOK
  <2>2. counter + Cardinality(Pending) <= acks
    BY DEF IInv, CounterBound
  <2>3. counter \in 0..MaxReq /\ acks \in 0..MaxReq
    BY DEF IInv, TypeOK
  <2> QED
    BY <1>5, <1>0, <2>1, <2>2, <2>3 DEF IncRead, IInv, TypeOK, CounterBound, PCs
<1>6. ASSUME NEW w \in Workers, IncWrite(w) PROVE IInv'
  <2>1. w \in Pending
    BY <1>6 DEF IncWrite, Pending
  <2>2. Pending' = Pending \ {w}
    BY <1>6 DEF IncWrite, Pending, IInv, TypeOK
  <2>3. Cardinality(Pending') = Cardinality(Pending) - 1
    BY <1>0, <2>1, <2>2, FS_RemoveElement
  <2>4. Cardinality(Pending') \in Nat
    BY <1>0, <2>2, FS_RemoveElement, FS_CardinalityType
  <2>5. tmp[w] + Cardinality(Pending) <= acks
    BY <1>6 DEF IncWrite, IInv, CounterBound
  <2>6. counter' = tmp[w] + 1 /\ acks' = acks /\ tmp' = tmp
    BY <1>6 DEF IncWrite
  <2>7. tmp[w] \in Nat /\ acks \in 0..MaxReq
    BY DEF IInv, TypeOK
  <2>8. TypeOK'
    <3>1. counter' \in 0..MaxReq
      BY <1>0, <2>3, <2>4, <2>5, <2>6, <2>7, MaxReqAssumption
    <3> QED
      BY <1>6, <3>1 DEF IncWrite, IInv, TypeOK, PCs
  <2>9. counter' + Cardinality(Pending') <= acks'
    BY <1>0, <2>3, <2>5, <2>6, <2>7, MaxReqAssumption
  <2>10. ASSUME NEW v \in Workers, pc'[v] = "inc_write"
         PROVE  tmp'[v] + Cardinality(Pending') <= acks'
    <3>1. v # w /\ pc[v] = "inc_write"
      BY <1>6, <2>10 DEF IncWrite, IInv, TypeOK
    <3>2. tmp[v] + Cardinality(Pending) <= acks /\ tmp[v] \in Nat
      BY <3>1 DEF IInv, CounterBound, TypeOK
    <3> QED
      BY <1>0, <2>3, <2>4, <2>6, <2>7, <3>2, MaxReqAssumption
  <2> QED
    BY <2>8, <2>9, <2>10 DEF IInv, CounterBound
<1>7. ASSUME NEW w \in Workers, Resend(w) PROVE IInv'
  <2>1. Pending' = Pending
    BY <1>7 DEF Resend, Pending, IInv, TypeOK
  <2> QED
    BY <1>7, <2>1 DEF Resend, IInv, TypeOK, CounterBound, PCs
<1>8. ASSUME NEW w \in Workers, Stop(w) PROVE IInv'
  <2>1. Pending' = Pending
    BY <1>8 DEF Stop, Pending, IInv, TypeOK
  <2> QED
    BY <1>8, <2>1 DEF Stop, IInv, TypeOK, CounterBound, PCs
<1>9. CASE MonitorExit
  <2>1. Pending' = Pending
    BY <1>9 DEF MonitorExit, Pending
  <2> QED
    BY <1>9, <2>1 DEF MonitorExit, IInv, TypeOK, CounterBound
<1>10. CASE UNCHANGED vars
  <2>1. Pending' = Pending
    BY <1>10 DEF vars, Pending
  <2> QED
    BY <1>10, <2>1 DEF vars, IInv, TypeOK, CounterBound
<1> QED
  BY <1>1, <1>2, <1>3, <1>4, <1>5, <1>6, <1>7, <1>8, <1>9, <1>10 DEF Next, Worker

(* Every reachable state satisfies the inductive invariant.                *)
LEMMA IInvHolds == Spec => []IInv
  BY InitIInv, NextIInv, PTL DEF Spec

(***************************************************************************)
(* The globals and the thread states stay in their ranges for any number  *)
(* of workers: in particular request_counter never exceeds the bound on  *)
(* answered requests, although increments are lost.                       *)
(***************************************************************************)
THEOREM TypeCorrect == Spec => []TypeOK
<1>1. IInv => TypeOK
  BY DEF IInv
<1> QED
  BY <1>1, IInvHolds, PTL

(***************************************************************************)
(* CounterNeverAhead for every set of workers: however the unlocked       *)
(* request_counter += 1 interleaves, the counter never exceeds the        *)
(* number of requests that were answered.                                 *)
(***************************************************************************)
THEOREM CounterSafety == Spec => []CounterNeverAhead
<1>1. IInv => CounterNeverAhead
  <2> SUFFICES ASSUME IInv PROVE CounterNeverAhead
    OBVIOUS
  <2>1. Cardinality(Pending) \in Nat
    BY PendingFinite DEF IInv
  <2> QED
    BY <2>1 DEF IInv, CounterBound, TypeOK, CounterNeverAhead
<1> QED
  BY <1>1, IInvHolds, PTL

=============================================================================
