------------------------- MODULE WriteVerify_proofs -------------------------
(***************************************************************************)
(* Theorems about WriteVerify: type correctness, and the bound on what the *)
(* verifiers of overlapping requests write, for any number of requests,    *)
(* retries, drops, failures, connection losses and edits in the DCS.       *)
(***************************************************************************)
EXTENDS WriteVerify, TLAPS

\* The strengthening that makes the type invariant inductive: a connection
\* that is down still has a reconnection left within the bound.
LinkBound == ~online => client < MaxFlaps

\* The one that makes RewritesBounded inductive: a verifier has written at most
\* once per pass it has completed, and it only goes to write with a pass left.
RetryBound ==
  \A k \in Requests :
    /\ rewrites[k] <= ver[k].attempt
    /\ ver[k].at = "rewrite" => ver[k].attempt < MaxRetries
    /\ k > issued => rewrites[k] = 0

IInv == TypeOK /\ LinkBound /\ RetryBound

-----------------------------------------------------------------------------
(* Type correctness.                                                       *)

\* The initial states are well formed.
LEMMA InitTypeOK == Init => TypeOK
<1> SUFFICES ASSUME Init PROVE TypeOK
  OBVIOUS
<1>1. 0 \in 0..MaxRetries /\ 0 \in 0..MaxFlaps /\ 0 \in 0..MaxWrites
      /\ 0 \in 0..MaxDrops /\ 0 \in 0..MaxErrors /\ 0 \in 0..MaxEdits
  BY WriteVerifyAssumption
<1>2. ver \in [Requests -> Verifier]
  BY <1>1 DEF Init, Verifier, Unverified
<1>3. \A k \in Requests : (ver[k].at = "none") <=> (k > issued)
  BY WriteVerifyAssumption DEF Init, Requests
<1> QED
  BY <1>1, <1>2, <1>3 DEF Init, TypeOK

\* What NextAttempt and Move do to the verifier of one request.
LEMMA VerifierUpdates ==
  ASSUME TypeOK, NEW k \in Requests, k <= issued
  PROVE  /\ \A place \in Running \cup Ended :
              Move(k, place) =>
                /\ ver' \in [Requests -> Verifier]
                /\ \A j \in Requests : (ver'[j].at = "none") <=> (j > issued)
         /\ NextAttempt(k) =>
                /\ ver' \in [Requests -> Verifier]
                /\ \A j \in Requests : (ver'[j].at = "none") <=> (j > issued)
<1>1. ver[k] \in Verifier
  BY DEF TypeOK
<1>2. issued \in Nat /\ Requests \subseteq Nat
  BY WriteVerifyAssumption DEF TypeOK, Requests
<1>3. ASSUME NEW place \in Running \cup Ended, Move(k, place)
      PROVE  /\ ver' \in [Requests -> Verifier]
             /\ \A j \in Requests : (ver'[j].at = "none") <=> (j > issued)
  <2> DEFINE r == [ver[k] EXCEPT !.at = place]
  <2>1. ver' = [ver EXCEPT ![k] = r]
    BY <1>3 DEF Move
  <2>2. r \in Verifier /\ r.at # "none"
    BY <1>1 DEF Verifier, Running, Ended
  <2> HIDE DEF r
  <2> QED
    BY <1>2, <2>1, <2>2 DEF TypeOK
<1>4. ASSUME NextAttempt(k)
      PROVE  /\ ver' \in [Requests -> Verifier]
             /\ \A j \in Requests : (ver'[j].at = "none") <=> (j > issued)
  <2>1. CASE ver[k].attempt < MaxRetries
    <3> DEFINE r == [ver[k] EXCEPT !.attempt = ver[k].attempt + 1, !.at = "sleep"]
    <3>1. ver' = [ver EXCEPT ![k] = r]
      BY <1>4, <2>1 DEF NextAttempt
    <3>2. r \in Verifier /\ r.at = "sleep"
      <4>1. ver[k].attempt \in 0..MaxRetries
        BY <1>1 DEF Verifier
      <4>2. ver[k].attempt + 1 \in 0..MaxRetries
        BY <2>1, <4>1, WriteVerifyAssumption
      <4> QED
        BY <1>1, <4>2 DEF Verifier, Running
    <3> HIDE DEF r
    <3> QED
      BY <1>2, <3>1, <3>2 DEF TypeOK
  <2>2. CASE ~(ver[k].attempt < MaxRetries)
    <3> DEFINE r == [ver[k] EXCEPT !.at = "exhausted"]
    <3>1. ver' = [ver EXCEPT ![k] = r]
      BY <1>4, <2>2 DEF NextAttempt
    <3>2. r \in Verifier /\ r.at = "exhausted"
      BY <1>1 DEF Verifier, Ended
    <3> HIDE DEF r
    <3> QED
      BY <1>2, <3>1, <3>2 DEF TypeOK
  <2> QED
    BY <2>1, <2>2
<1> QED
  BY <1>3, <1>4

\* A verifier that is running belongs to an issued request.
LEMMA RunningIssued ==
  ASSUME TypeOK, NEW k \in Requests, ver[k].at \in Running
  PROVE  k <= issued
  BY WriteVerifyAssumption DEF TypeOK, Requests, Running

\* A write request to the DCS keeps node and drops well formed.
LEMMA PutNodeType ==
  ASSUME TypeOK, NEW v \in Values, PutNode(v)
  PROVE  node' \in Values /\ drops' \in 0..MaxDrops
  BY WriteVerifyAssumption DEF PutNode, TypeOK

\* A request that raises keeps the count of errors well formed.
LEMMA RaisesType ==
  ASSUME TypeOK, Raises
  PROVE  errors' \in 0..MaxErrors
  BY WriteVerifyAssumption DEF Raises, TypeOK

\* A new request's record extends the verifiers.
LEMMA IssueType ==
  ASSUME TypeOK, issued < MaxWrites, NEW r \in Verifier, r.at # "none",
         issued' = issued + 1, ver' = [ver EXCEPT ![issued + 1] = r]
  PROVE  /\ issued' \in 0..MaxWrites
         /\ ver' \in [Requests -> Verifier]
         /\ \A k \in Requests : (ver'[k].at = "none") <=> (k > issued')
<1>1. issued \in Nat /\ MaxWrites \in Nat
  BY WriteVerifyAssumption DEF TypeOK
<1> QED
  BY <1>1 DEF TypeOK, Requests

\* Every step keeps the state well formed.
LEMMA NextTypeOK == TypeOK /\ LinkBound /\ [Next]_vars => TypeOK'
<1> SUFFICES ASSUME TypeOK, LinkBound, [Next]_vars PROVE TypeOK'
  OBVIOUS
<1>1. ASSUME NEW v \in Values, Write(v) PROVE TypeOK'
  <2> DEFINE r == [expected |-> v, client |-> client, attempt |-> 0, at |-> "sleep"]
  <2>1. r \in Verifier /\ r.at # "none"
    BY WriteVerifyAssumption DEF Verifier, Running, TypeOK
  <2>2. issued < MaxWrites /\ issued' = issued + 1
        /\ ver' = [ver EXCEPT ![issued + 1] = r]
    BY <1>1 DEF Write
  <2> HIDE DEF r
  <2> QED
    BY <1>1, <2>1, <2>2, IssueType, PutNodeType DEF Write, TypeOK
<1>2. ASSUME NEW v \in Values, WriteTimesOut(v) PROVE TypeOK'
  <2> DEFINE r == [expected |-> v, client |-> client, attempt |-> 0, at |-> "timedout"]
  <2>1. r \in Verifier /\ r.at # "none"
    BY WriteVerifyAssumption DEF Verifier, Unverified, TypeOK
  <2>2. issued < MaxWrites /\ issued' = issued + 1
        /\ ver' = [ver EXCEPT ![issued + 1] = r]
    BY <1>2 DEF WriteTimesOut
  <2> HIDE DEF r
  <2> QED
    BY <1>2, <2>1, <2>2, IssueType DEF WriteTimesOut, TypeOK
<1>3. ASSUME NEW v \in Values, DcsEdit(v) PROVE TypeOK'
  BY <1>3, WriteVerifyAssumption DEF DcsEdit, TypeOK
<1>4. ASSUME NEW k \in Requests, VerifierStep(k) PROVE TypeOK'
  <2>1. k <= issued
    BY <1>4, RunningIssued
       DEF VerifierStep, Wake, ReadFails, ReadBack, Rewrite, Running
  <2>2. CASE Wake(k)
    BY <2>1, <2>2, VerifierUpdates DEF Wake, TypeOK, Running, Ended
  <2>3. CASE ReadFails(k)
    <3>1. errors' \in 0..MaxErrors
      BY <2>3, RaisesType DEF ReadFails, TypeOK
    <3> QED
      BY <2>1, <2>3, <3>1, VerifierUpdates DEF ReadFails, TypeOK
  <2>4. CASE ReadBack(k)
    BY <2>1, <2>4, VerifierUpdates DEF ReadBack, TypeOK, Running, Ended
  <2>5. CASE Rewrite(k)
    <3>1. ver[k].expected \in Values
      BY DEF TypeOK, Verifier
    <3>2. node' \in Values /\ drops' \in 0..MaxDrops /\ errors' \in 0..MaxErrors
      BY <2>5, <3>1, PutNodeType, RaisesType DEF Rewrite, TypeOK
    <3>3. rewrites' \in [Requests -> Nat]
      BY <2>5 DEF Rewrite, TypeOK
    <3> QED
      BY <2>1, <2>5, <3>2, <3>3, VerifierUpdates DEF Rewrite, TypeOK
  <2> QED
    BY <1>4, <2>2, <2>3, <2>4, <2>5 DEF VerifierStep
<1>5. CASE Disconnect
  BY <1>5 DEF Disconnect, TypeOK
<1>6. CASE Connect
  BY <1>6, WriteVerifyAssumption DEF Connect, LinkBound, TypeOK
<1>7. CASE UNCHANGED vars
  BY <1>7 DEF vars, TypeOK
<1> QED
  BY <1>1, <1>2, <1>3, <1>4, <1>5, <1>6, <1>7 DEF Next

\* Every step keeps a reconnection left while the connection is down.
LEMMA NextLinkBound == TypeOK /\ LinkBound /\ [Next]_vars => LinkBound'
  BY DEF LinkBound, Next, vars, Write, WriteTimesOut, DcsEdit, VerifierStep,
         Wake, ReadFails, ReadBack, Rewrite, Disconnect, Connect

-----------------------------------------------------------------------------
(* The bound on rewrites.                                                  *)

\* What a verifier's step does to the three fields the bound is about.
LEMMA VerifierStepRetries ==
  ASSUME IInv, NEW k \in Requests, VerifierStep(k), NEW j \in Requests
  PROVE  /\ rewrites'[j] <= ver'[j].attempt
         /\ ver'[j].at = "rewrite" => ver'[j].attempt < MaxRetries
         /\ j > issued' => rewrites'[j] = 0
<1>1. /\ ver[j].attempt \in 0..MaxRetries /\ rewrites[j] \in Nat
      /\ rewrites[j] <= ver[j].attempt
      /\ ver[j].at = "rewrite" => ver[j].attempt < MaxRetries
      /\ j > issued => rewrites[j] = 0
  BY DEF IInv, TypeOK, RetryBound, Verifier
<1>2. k <= issued /\ issued' = issued /\ issued \in Nat /\ j \in Nat
  BY RunningIssued, WriteVerifyAssumption
     DEF IInv, TypeOK, Requests, VerifierStep, Wake, ReadFails, ReadBack,
         Rewrite, Running
<1>3. CASE j # k
  <2>1. ver'[j] = ver[j] /\ rewrites'[j] = rewrites[j]
    BY <1>3 DEF IInv, TypeOK, VerifierStep, Wake, ReadFails, ReadBack, Rewrite,
                Move, NextAttempt
  <2> QED
    BY <1>1, <1>2, <2>1
<1>4. CASE j = k
  <2>1. CASE Wake(k)
    <3>1. ver'[k].attempt = ver[k].attempt /\ ver'[k].at \in {"read", "skipped"}
          /\ rewrites'[k] = rewrites[k]
      BY <2>1 DEF Wake, Move, IInv, TypeOK, Verifier
    <3> QED
      BY <1>1, <1>2, <1>4, <3>1
  <2>2. CASE ReadFails(k)
    <3>1. ver'[k].attempt >= ver[k].attempt
          /\ ver'[k].at \in {"sleep", "exhausted"} /\ rewrites'[k] = rewrites[k]
          /\ ver'[k].attempt \in Nat
      BY <1>1, <1>4, <2>2 DEF ReadFails, NextAttempt, IInv, TypeOK, Verifier
    <3> QED
      BY <1>1, <1>2, <1>4, <3>1
  <2>3. CASE ReadBack(k)
    <3>1. ver'[k].attempt = ver[k].attempt /\ rewrites'[k] = rewrites[k]
          /\ (ver'[k].at = "rewrite" => ver[k].attempt < MaxRetries)
      BY <2>3 DEF ReadBack, Move, IInv, TypeOK, Verifier
    <3> QED
      BY <1>1, <1>2, <1>4, <3>1
  <2>4. CASE Rewrite(k)
    <3>1. ver[k].attempt < MaxRetries
      BY <1>1, <1>4, <2>4 DEF Rewrite
    <3>2. ver'[k].attempt = ver[k].attempt + 1 /\ ver'[k].at = "sleep"
      BY <2>4, <3>1 DEF Rewrite, NextAttempt, IInv, TypeOK, Verifier
    <3>3. rewrites'[k] = rewrites[k] + 1 \/ rewrites'[k] = rewrites[k]
      BY <2>4 DEF Rewrite, IInv, TypeOK
    <3> QED
      BY <1>1, <1>2, <1>4, <3>2, <3>3
  <2> QED
    BY <2>1, <2>2, <2>3, <2>4 DEF VerifierStep
<1> QED
  BY <1>3, <1>4

\* Every step preserves the inductive invariant.
LEMMA NextIInv == IInv /\ [Next]_vars => IInv'
<1> SUFFICES ASSUME IInv, [Next]_vars PROVE IInv'
  OBVIOUS
<1>1. TypeOK' /\ LinkBound'
  BY NextTypeOK, NextLinkBound DEF IInv
<1>2. RetryBound'
  <2>1. ASSUME NEW v \in Values, Write(v) \/ WriteTimesOut(v) PROVE RetryBound'
    <3>1. issued \in Nat /\ issued + 1 \in Requests /\ issued' = issued + 1
          /\ Requests \subseteq Nat
      BY <2>1, WriteVerifyAssumption
         DEF Write, WriteTimesOut, IInv, TypeOK, Requests
    <3>2. /\ ver'[issued + 1].attempt = 0 /\ ver'[issued + 1].at # "rewrite"
          /\ \A j \in Requests : j # issued + 1 => ver'[j] = ver[j]
          /\ rewrites' = rewrites
      BY <2>1, <3>1 DEF Write, WriteTimesOut, IInv, TypeOK
    <3>3. rewrites[issued + 1] = 0
      BY <3>1 DEF IInv, RetryBound
    <3> SUFFICES ASSUME NEW j \in Requests
                 PROVE  /\ rewrites'[j] <= ver'[j].attempt
                        /\ ver'[j].at = "rewrite" => ver'[j].attempt < MaxRetries
                        /\ j > issued' => rewrites'[j] = 0
      BY DEF RetryBound
    <3>4. CASE j = issued + 1
      BY <3>1, <3>2, <3>3, <3>4
    <3>5. CASE j # issued + 1
      <4>1. ver'[j] = ver[j] /\ rewrites'[j] = rewrites[j] /\ j \in Nat
        BY <3>1, <3>2, <3>5
      <4>2. j > issued' => j > issued
        BY <3>1, <4>1
      <4> QED
        BY <4>1, <4>2 DEF IInv, RetryBound
    <3> QED
      BY <3>4, <3>5
  <2>2. ASSUME NEW k \in Requests, VerifierStep(k) PROVE RetryBound'
    BY <2>2, VerifierStepRetries DEF RetryBound
  <2>3. ASSUME UNCHANGED <<issued, ver, rewrites>> PROVE RetryBound'
    BY <2>3 DEF IInv, RetryBound
  <2> QED
    BY <2>1, <2>2, <2>3 DEF Next, vars, DcsEdit, Disconnect, Connect
<1> QED
  BY <1>1, <1>2 DEF IInv

\* The inductive invariant holds in every reachable state.
LEMMA AlwaysIInv == Spec => []IInv
<1>1. Init => IInv
  <2>1. Init => LinkBound
    BY DEF Init, LinkBound
  <2>2. Init => RetryBound
    BY WriteVerifyAssumption DEF Init, RetryBound
  <2> QED
    BY <2>1, <2>2, InitTypeOK DEF IInv
<1> QED
  BY <1>1, NextIInv, PTL DEF Spec

\* TypeOK: requests, verifiers and the connection stay well formed; a verifier
\* never goes past its last attempt.
THEOREM TypeCorrect == Spec => []TypeOK
<1>1. IInv => TypeOK
  BY DEF IInv
<1> QED
  BY <1>1, AlwaysIInv, PTL

\* RewritesBounded: however requests overlap and however the DCS and the
\* connection behave, no verifier writes more than MaxRetries times.
THEOREM FightsAreBounded == Spec => []RewritesBounded
<1>1. IInv => RewritesBounded
  <2> SUFFICES ASSUME IInv, NEW k \in Requests
               PROVE  rewrites[k] <= MaxRetries
    BY DEF RewritesBounded
  <2>1. ver[k].attempt \in 0..MaxRetries /\ rewrites[k] \in Nat
        /\ rewrites[k] <= ver[k].attempt
    BY DEF IInv, TypeOK, RetryBound, Verifier
  <2> QED
    BY <2>1, WriteVerifyAssumption
<1> QED
  BY <1>1, AlwaysIInv, PTL

=============================================================================
