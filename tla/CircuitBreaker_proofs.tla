------------------------ MODULE CircuitBreaker_proofs ------------------------
(***************************************************************************)
(* Proofs about CircuitBreaker: however late a failure, a cancellation or  *)
(* an error of our own ends an attempt, a half-open circuit has one probe, *)
(* and a run of faults opens the circuit.  The argument is about time: an  *)
(* attempt that is in flight while the circuit is open and is not the      *)
(* probe began before it opened, so it has run for at least as long; its   *)
(* time-out is shorter than the cooldown, so none is left when the circuit *)
(* is half open.                                                           *)
(***************************************************************************)
EXTENDS CircuitBreaker, TLAPS

\* An attempt in flight is older than the open circuit, or the only one.
Covered ==
    \A v \in Wrapped : breaker[v].opened =>
        \A c \in Callers : rung[v][c] # 0 =>
            \/ waited[v][c] >= breaker[v].age
            \/ breaker[v].probing /\ \A d \in Callers : rung[v][d] # 0 => d = c

\* No fault in a row escapes the count.
Counted == \A v \in Wrapped : missed[v] <= breaker[v].failures

IInv == TypeOK /\ Covered /\ Counted

-----------------------------------------------------------------------------

\* A count that stops at its limit keeps the order.
LEMMA UpToGrows ==
  ASSUME NEW j \in 0..FailureThreshold, NEW k \in 0..FailureThreshold, j <= k
  PROVE  /\ j <= UpTo(FailureThreshold, k + 1)
         /\ UpTo(FailureThreshold, j + 1) <= UpTo(FailureThreshold, k + 1)
  BY BreakerAssumption DEF UpTo

\* The class keeps the form of a breaker.
LEMMA ClosedWellFormed == Closed \in Breakers /\ WellFormed(Closed)
  BY BreakerAssumption DEF Closed, Breakers, WellFormed, HalfOpen

\* A caller that is admitted leaves the breaker as it was but for its claim.
LEMMA AdmitKeeps ==
  ASSUME NEW b \in Breakers, WellFormed(b), Admits(b)
  PROVE  /\ Admit(b) \in Breakers
         /\ WellFormed(Admit(b))
         /\ Admit(b).opened = b.opened
         /\ Admit(b).age = b.age
         /\ Admit(b).failures = b.failures
         /\ b.opened => HalfOpen(b) /\ ~b.probing /\ Admit(b).probing
  BY BreakerAssumption DEF Admits, Admit, Breakers, WellFormed, HalfOpen

\* A fault that counts either leaves the circuit closed with the count gone up
\* or opens it for a whole cooldown.
LEMMA RecordFault ==
  ASSUME NEW b \in Breakers, WellFormed(b)
  PROVE  /\ Record(b, TRUE) \in Breakers
         /\ WellFormed(Record(b, TRUE))
         /\ Record(b, TRUE).failures = UpTo(FailureThreshold, b.failures + 1)
         /\ Record(b, TRUE).opened => Record(b, TRUE).age = 0
         /\ Admits(Record(b, TRUE)) => ~Record(b, TRUE).opened
  <1>1. PICK n : n = UpTo(FailureThreshold, b.failures + 1)
    OBVIOUS
  <1>2. PICK r : r = Record(b, TRUE)
    OBVIOUS
  <1>3. n \in 1..FailureThreshold
    BY <1>1, BreakerAssumption DEF Breakers, UpTo
  <1>4. CASE n < FailureThreshold
    <2>1. ~b.opened
      BY <1>1, <1>4, BreakerAssumption DEF WellFormed, UpTo, Breakers
    <2>2. r = [failures |-> n, opened |-> b.opened, age |-> b.age, probing |-> FALSE]
      BY <1>1, <1>2, <1>4 DEF Record, Breakers
    <2>3. r \in Breakers /\ r.failures = n /\ ~r.opened /\ ~r.probing /\ r.age = b.age
      BY <1>3, <2>1, <2>2, BreakerAssumption DEF Breakers
    <2>4. WellFormed(r)
      BY <1>3, <1>4, <2>1, <2>3, BreakerAssumption DEF WellFormed
    <2> QED
      BY <1>1, <1>2, <2>3, <2>4
  <1>5. CASE ~(n < FailureThreshold)
    <2>1. n = FailureThreshold
      BY <1>3, <1>5, BreakerAssumption
    <2>2. r = [failures |-> n, opened |-> TRUE, age |-> 0, probing |-> FALSE]
      BY <1>1, <1>2, <1>5 DEF Record
    <2>3. r \in Breakers /\ r.failures = n /\ r.opened /\ ~r.probing /\ r.age = 0
      BY <1>3, <2>2, BreakerAssumption DEF Breakers
    <2>4. WellFormed(r) /\ ~Admits(r)
      BY <2>1, <2>3, BreakerAssumption DEF WellFormed, Admits, HalfOpen
    <2> QED
      BY <1>1, <1>2, <2>3, <2>4
  <1> QED
    BY <1>4, <1>5

\* An error of our own gives up the claim and nothing else.
LEMMA RecordOurs ==
  ASSUME NEW b \in Breakers, WellFormed(b)
  PROVE  /\ Record(b, FALSE) \in Breakers
         /\ WellFormed(Record(b, FALSE))
         /\ Record(b, FALSE).opened = b.opened
         /\ Record(b, FALSE).age = b.age
         /\ Record(b, FALSE).failures = b.failures
  <1>1. Record(b, FALSE) = [b EXCEPT !.probing = FALSE]
    BY DEF Record
  <1> QED
    BY <1>1 DEF Breakers, WellFormed, HalfOpen

\* Time alone changes an open circuit's age.
LEMMA AgedKeeps ==
  ASSUME NEW b \in Breakers, WellFormed(b)
  PROVE  /\ Aged(b) \in Breakers
         /\ WellFormed(Aged(b))
         /\ Aged(b).opened = b.opened
         /\ Aged(b).failures = b.failures
         /\ Aged(b).probing = b.probing
         /\ b.opened => Aged(b).age = UpTo(RecoveryTimeout, b.age + 1)
  BY BreakerAssumption DEF Aged, Breakers, WellFormed, HalfOpen, UpTo

\* In a half-open circuit an attempt in flight is the probe, alone.
LEMMA HalfOpenAlone ==
  ASSUME IInv, NEW v \in Wrapped, HalfOpen(breaker[v]), NEW c \in Callers, rung[v][c] # 0
  PROVE  breaker[v].probing /\ \A d \in Callers : rung[v][d] # 0 => d = c
  BY BreakerAssumption DEF IInv, TypeOK, Covered, HalfOpen, Wrapped, Breakers

-----------------------------------------------------------------------------

LEMMA InitIInv == Init => IInv
  <1> SUFFICES ASSUME Init PROVE IInv
    OBVIOUS
  <1>1. TypeOK
    BY ClosedWellFormed, BreakerAssumption DEF Init, TypeOK
  <1>2. Covered
    BY DEF Init, Covered, Wrapped, Closed
  <1>3. Counted
    <2>1. \A v \in Wrapped : missed[v] = 0 /\ breaker[v].failures = 0
      BY DEF Init, Closed, Wrapped
    <2> QED
      BY <2>1 DEF Counted
  <1> QED
    BY <1>1, <1>2, <1>3 DEF IInv

-----------------------------------------------------------------------------
(***************************************************************************)
(* Every step changes one breaker, so a step is settled by what becomes of *)
(* that breaker and of the attempts at its vendor.                         *)
(***************************************************************************)

\* What a step leaves at one vendor when the invariant held before.
Kept(v) ==
    /\ breaker[v] \in Breakers /\ WellFormed(breaker[v])
    /\ rung[v] \in [Callers -> 0..2]
    /\ waited[v] \in [Callers -> 0..CallTimeout]
    /\ up[v] \in BOOLEAN
    /\ missed[v] \in 0..FailureThreshold
    /\ v \in Wrapped =>
          /\ missed[v] <= breaker[v].failures
          /\ breaker[v].opened =>
                \A c \in Callers : rung[v][c] # 0 =>
                    \/ waited[v][c] >= breaker[v].age
                    \/ breaker[v].probing /\ \A d \in Callers : rung[v][d] # 0 => d = c

\* The shape of the state: a value for every vendor, the counters in bounds.
Shaped ==
    /\ breaker = [v \in Vendors |-> breaker[v]]
    /\ rung = [v \in Vendors |-> rung[v]]
    /\ waited = [v \in Vendors |-> waited[v]]
    /\ up = [v \in Vendors |-> up[v]]
    /\ missed = [v \in Vendors |-> missed[v]]
    /\ outages \in 0..MaxOutages
    /\ mishaps \in 0..MaxMishaps

\* The invariant, vendor by vendor.
LEMMA IInvByVendor == IInv <=> Shaped /\ \A v \in Vendors : Kept(v)
  <1>1. ASSUME IInv PROVE Shaped /\ \A v \in Vendors : Kept(v)
    BY <1>1 DEF IInv, TypeOK, Covered, Counted, Kept, Shaped
  <1>2. ASSUME Shaped, \A v \in Vendors : Kept(v) PROVE IInv
    <2>1. TypeOK
      BY <1>2 DEF TypeOK, Kept, Shaped
    <2>2. Covered /\ Counted
      BY <1>2 DEF Covered, Counted, Kept, Wrapped
    <2> QED
      BY <2>1, <2>2 DEF IInv
  <1> QED
    BY <1>1, <1>2

LEMMA IInvByVendorNext == (IInv <=> Shaped /\ \A v \in Vendors : Kept(v))'
  BY IInvByVendor, PTL

\* A step at one vendor keeps the invariant if that vendor keeps its part.
LEMMA OneVendor ==
  ASSUME IInv, NEW v \in Vendors, Shaped', Kept(v)',
         \A w \in Vendors : w # v =>
            /\ breaker'[w] = breaker[w] /\ rung'[w] = rung[w] /\ waited'[w] = waited[w]
            /\ up'[w] = up[w] /\ missed'[w] = missed[w]
  PROVE  IInv'
  <1>1. ASSUME NEW w \in Vendors, w # v PROVE Kept(w)'
    BY <1>1, IInvByVendor DEF Kept
  <1> QED
    BY <1>1, IInvByVendorNext

-----------------------------------------------------------------------------
(***************************************************************************)
(* The actions.                                                            *)
(***************************************************************************)

\* A caller admitted while the circuit is open finds nobody in flight.
LEMMA BeginKeeps ==
  ASSUME IInv, NEW v \in Vendors, NEW c \in Callers, Begin(v, c)
  PROVE  IInv'
  <1>1. Shaped /\ Kept(v)
    BY IInvByVendor
  <1>2. PICK r \in {1, 2} : rung' = [rung EXCEPT ![v][c] = r]
    BY DEF Begin
  <1>3. Shaped'
    BY <1>1, <1>2 DEF Begin, Shaped
  <1>4. /\ rung'[v] = [rung[v] EXCEPT ![c] = r]
        /\ waited'[v] = [waited[v] EXCEPT ![c] = 0]
        /\ up'[v] = up[v] /\ missed'[v] = missed[v]
        /\ breaker'[v] = IF v \in Streaming THEN Closed ELSE Admit(breaker[v])
    BY <1>1, <1>2 DEF Begin, Shaped, Succeeded
  <1>5. Admits(breaker[v])
    BY DEF Begin
  <1>6. Kept(v)'
    <2>1. CASE v \in Streaming
      BY <2>1, <1>1, <1>2, <1>4, ClosedWellFormed, BreakerAssumption DEF Kept, Wrapped
    <2>2. CASE v \notin Streaming
      <3>1. /\ breaker'[v] \in Breakers /\ WellFormed(breaker'[v])
            /\ breaker'[v].opened = breaker[v].opened
            /\ breaker'[v].age = breaker[v].age
            /\ breaker'[v].failures = breaker[v].failures
            /\ breaker[v].opened => HalfOpen(breaker[v]) /\ ~breaker[v].probing /\ breaker'[v].probing
        BY <2>2, <1>1, <1>4, <1>5, AdmitKeeps DEF Kept
      <3>2. ASSUME breaker[v].opened, NEW d \in Callers, rung[v][d] # 0 PROVE FALSE
        BY <2>2, <3>1, <3>2, HalfOpenAlone DEF Wrapped
      <3>3. ASSUME breaker[v].opened, NEW d \in Callers, rung'[v][d] # 0 PROVE d = c
        BY <3>2, <3>3, <1>1, <1>4 DEF Kept
      <3>4. breaker'[v].opened => breaker'[v].probing /\ \A d \in Callers : rung'[v][d] # 0 => d = c
        BY <3>1, <3>3
      <3>5. /\ rung'[v] \in [Callers -> 0..2]
            /\ waited'[v] \in [Callers -> 0..CallTimeout]
        BY <1>1, <1>2, <1>4, BreakerAssumption DEF Kept
      <3> QED
        BY <1>1, <1>4, <2>2, <3>1, <3>4, <3>5 DEF Kept, Wrapped
    <2> QED
      BY <2>1, <2>2
  <1>7. ASSUME NEW w \in Vendors, w # v
        PROVE  /\ breaker'[w] = breaker[w] /\ rung'[w] = rung[w] /\ waited'[w] = waited[w]
               /\ up'[w] = up[w] /\ missed'[w] = missed[w]
    BY <1>1, <1>2, <1>7 DEF Begin, Shaped
  <1> QED
    BY <1>3, <1>6, <1>7, OneVendor

\* A success closes the circuit whoever it comes from.
LEMMA AnswersKeeps ==
  ASSUME IInv, NEW v \in Vendors, NEW c \in Callers, Answers(v, c)
  PROVE  IInv'
  <1>1. Shaped /\ Kept(v)
    BY IInvByVendor
  <1>2. Shaped'
    BY <1>1 DEF Answers, Shaped
  <1>3. /\ rung'[v] = [rung[v] EXCEPT ![c] = 0]
        /\ waited'[v] = [waited[v] EXCEPT ![c] = 0]
        /\ up'[v] = up[v] /\ missed'[v] = 0
        /\ breaker'[v] = Closed
    BY <1>1 DEF Answers, Shaped, Succeeded
  <1>4. breaker'[v].failures = 0 /\ ~breaker'[v].opened
    BY <1>3 DEF Closed
  <1>5. Kept(v)'
    BY <1>1, <1>3, <1>4, ClosedWellFormed, BreakerAssumption DEF Kept
  <1>6. ASSUME NEW w \in Vendors, w # v
        PROVE  /\ breaker'[w] = breaker[w] /\ rung'[w] = rung[w] /\ waited'[w] = waited[w]
               /\ up'[w] = up[w] /\ missed'[w] = missed[w]
    BY <1>1, <1>6 DEF Answers, Shaped
  <1> QED
    BY <1>2, <1>5, <1>6, OneVendor

\* A fault opens the circuit for a whole cooldown, or leaves it closed: a
\* second attempt begins only in a closed circuit.
LEMMA FaultKeeps ==
  ASSUME IInv, NEW v \in Vendors, NEW c \in Callers, NEW x \in {0, 2},
         \/ breaker' = [breaker EXCEPT ![v] = Record(@, TRUE)]
         \/ /\ breaker' = [breaker EXCEPT ![v] = Admit(Record(@, TRUE))]
            /\ Admits(Record(breaker[v], TRUE)),
         rung' = [rung EXCEPT ![v][c] = x],
         waited' = [waited EXCEPT ![v][c] = 0],
         missed' = missed \/ missed' = [missed EXCEPT ![v] = UpTo(FailureThreshold, @ + 1)],
         up' = up, outages' = outages, mishaps' \in 0..MaxMishaps
  PROVE  IInv'
  <1>1. Shaped /\ Kept(v)
    BY IInvByVendor
  <1>2. Shaped'
    BY <1>1 DEF Shaped
  <1>3. PICK r : r = Record(breaker[v], TRUE)
    OBVIOUS
  <1>4. /\ r \in Breakers /\ WellFormed(r)
        /\ r.failures = UpTo(FailureThreshold, breaker[v].failures + 1)
        /\ r.opened => r.age = 0
        /\ Admits(r) => ~r.opened
    BY <1>1, <1>3, RecordFault DEF Kept
  <1>5. /\ rung'[v] = [rung[v] EXCEPT ![c] = x]
        /\ waited'[v] = [waited[v] EXCEPT ![c] = 0]
        /\ up'[v] = up[v]
        /\ missed'[v] = missed[v] \/ missed'[v] = UpTo(FailureThreshold, missed[v] + 1)
        /\ breaker'[v] = r \/ (breaker'[v] = Admit(r) /\ Admits(r))
    BY <1>1, <1>3 DEF Shaped
  <1>6. /\ breaker'[v] \in Breakers /\ WellFormed(breaker'[v])
        /\ breaker'[v].failures = UpTo(FailureThreshold, breaker[v].failures + 1)
        /\ breaker'[v].opened => breaker'[v].age = 0
    <2>1. CASE breaker'[v] = Admit(r) /\ Admits(r)
      <3>1. Admit(r) \in Breakers /\ WellFormed(Admit(r)) /\ Admit(r).opened = r.opened
            /\ Admit(r).failures = r.failures
        BY <1>4, <2>1, AdmitKeeps
      <3> QED
        BY <1>4, <1>5, <2>1, <3>1
    <2>2. CASE breaker'[v] = r
      BY <1>4, <2>2
    <2> QED
      BY <1>5, <2>1, <2>2
  <1>7. missed'[v] \in 0..FailureThreshold /\ (v \in Wrapped => missed'[v] <= breaker'[v].failures)
    <2>1. breaker[v].failures \in 0..FailureThreshold /\ missed[v] \in 0..FailureThreshold
      BY <1>1 DEF Kept, Breakers
    <2>2. missed'[v] \in 0..FailureThreshold
      BY <1>5, <2>1, BreakerAssumption DEF UpTo
    <2>3. v \in Wrapped => missed[v] <= breaker[v].failures
      BY <1>1 DEF Kept
    <2>4. v \in Wrapped =>
            /\ missed[v] <= UpTo(FailureThreshold, breaker[v].failures + 1)
            /\ UpTo(FailureThreshold, missed[v] + 1) <= UpTo(FailureThreshold, breaker[v].failures + 1)
      BY <2>1, <2>3, UpToGrows
    <2> QED
      BY <1>5, <1>6, <2>2, <2>4
  <1>8. /\ rung'[v] \in [Callers -> 0..2]
        /\ waited'[v] \in [Callers -> 0..CallTimeout]
        /\ \A d \in Callers : waited'[v][d] >= 0
    BY <1>1, <1>5, BreakerAssumption DEF Kept
  <1>9. Kept(v)'
    BY <1>1, <1>5, <1>6, <1>7, <1>8 DEF Kept
  <1>10. ASSUME NEW w \in Vendors, w # v
         PROVE  /\ breaker'[w] = breaker[w] /\ rung'[w] = rung[w] /\ waited'[w] = waited[w]
                /\ up'[w] = up[w] /\ missed'[w] = missed[w]
    BY <1>1, <1>10 DEF Shaped
  <1> QED
    BY <1>2, <1>9, <1>10, OneVendor

LEMMA FailsKeeps ==
  ASSUME IInv, NEW v \in Vendors, NEW c \in Callers, Fails(v, c)
  PROVE  IInv'
  <1>1. mishaps' \in 0..MaxMishaps
    BY DEF Fails, IInv, TypeOK
  <1>2. CASE v \notin Streaming /\ rung[v][c] = 1 /\ Admits(Record(breaker[v], TRUE))
    <2>1. /\ breaker' = [breaker EXCEPT ![v] = Admit(Record(@, TRUE))]
          /\ rung' = [rung EXCEPT ![v][c] = 2]
          /\ waited' = [waited EXCEPT ![v][c] = 0]
          /\ missed' = [missed EXCEPT ![v] = UpTo(FailureThreshold, @ + 1)]
          /\ up' = up /\ outages' = outages
      BY <1>2 DEF Fails
    <2> QED
      BY <1>1, <1>2, <2>1, FaultKeeps
  <1>3. CASE ~(v \notin Streaming /\ rung[v][c] = 1 /\ Admits(Record(breaker[v], TRUE)))
    <2>1. /\ breaker' = [breaker EXCEPT ![v] = Record(@, TRUE)]
          /\ rung' = [rung EXCEPT ![v][c] = 0]
          /\ waited' = [waited EXCEPT ![v][c] = 0]
          /\ missed' = [missed EXCEPT ![v] = UpTo(FailureThreshold, @ + 1)]
          /\ up' = up /\ outages' = outages
      BY <1>3 DEF Fails
    <2> QED
      BY <1>1, <2>1, FaultKeeps
  <1> QED
    BY <1>2, <1>3

\* A step that ends an attempt and leaves the circuit as open as it was, and
\* the claim of the probe unless the attempt was the probe.
LEMMA EndKeeps ==
  ASSUME IInv, NEW v \in Vendors, NEW c \in Callers,
         breaker' = [breaker EXCEPT ![v] = Record(@, FALSE)] \/ (breaker' = breaker /\ v \in Streaming),
         rung[v][c] # 0,
         rung' = [rung EXCEPT ![v][c] = 0],
         waited' = [waited EXCEPT ![v][c] = 0],
         missed' = missed, up' = up, outages' = outages, mishaps' \in 0..MaxMishaps
  PROVE  IInv'
  <1>1. Shaped /\ Kept(v)
    BY IInvByVendor
  <1>2. Shaped'
    BY <1>1 DEF Shaped
  <1>3. /\ rung'[v] = [rung[v] EXCEPT ![c] = 0]
        /\ waited'[v] = [waited[v] EXCEPT ![c] = 0]
        /\ up'[v] = up[v] /\ missed'[v] = missed[v]
    BY <1>1 DEF Shaped
  <1>4. breaker'[v] = Record(breaker[v], FALSE) \/ (breaker'[v] = breaker[v] /\ v \in Streaming)
    BY <1>1 DEF Shaped
  <1>5. /\ breaker'[v] \in Breakers /\ WellFormed(breaker'[v])
        /\ breaker'[v].opened = breaker[v].opened
        /\ breaker'[v].age = breaker[v].age
        /\ breaker'[v].failures = breaker[v].failures
    BY <1>1, <1>4, RecordOurs DEF Kept
  <1>6. /\ rung'[v] \in [Callers -> 0..2]
        /\ waited'[v] \in [Callers -> 0..CallTimeout]
        /\ \A d \in Callers : rung'[v][d] # 0 =>
              d # c /\ rung[v][d] # 0 /\ waited'[v][d] = waited[v][d]
    BY <1>1, <1>3, BreakerAssumption DEF Kept
  <1>7. ASSUME v \in Wrapped, breaker[v].opened, NEW d \in Callers, rung'[v][d] # 0
        PROVE  waited'[v][d] >= breaker[v].age
    BY <1>1, <1>6, <1>7 DEF Kept
  <1>8. Kept(v)'
    BY <1>1, <1>3, <1>5, <1>6, <1>7 DEF Kept
  <1>9. ASSUME NEW w \in Vendors, w # v
        PROVE  /\ breaker'[w] = breaker[w] /\ rung'[w] = rung[w] /\ waited'[w] = waited[w]
               /\ up'[w] = up[w] /\ missed'[w] = missed[w]
    BY <1>1, <1>9 DEF Shaped
  <1> QED
    BY <1>2, <1>8, <1>9, OneVendor

LEMMA OurFaultKeeps ==
  ASSUME IInv, NEW v \in Vendors, NEW c \in Callers, OurFault(v, c)
  PROVE  IInv'
  <1>1. mishaps' \in 0..MaxMishaps
    BY BreakerAssumption DEF OurFault, IInv, TypeOK
  <1>2. /\ breaker' = [breaker EXCEPT ![v] = Record(@, FALSE)]
        /\ rung[v][c] # 0
        /\ rung' = [rung EXCEPT ![v][c] = 0]
        /\ waited' = [waited EXCEPT ![v][c] = 0]
        /\ missed' = missed /\ up' = up /\ outages' = outages
    BY DEF OurFault
  <1> QED
    BY <1>1, <1>2, EndKeeps

LEMMA CancelledKeeps ==
  ASSUME IInv, NEW v \in Vendors, NEW c \in Callers, Cancelled(v, c)
  PROVE  IInv'
  <1>1. mishaps' \in 0..MaxMishaps
    BY BreakerAssumption DEF Cancelled, IInv, TypeOK
  <1>2. /\ rung[v][c] # 0
        /\ rung' = [rung EXCEPT ![v][c] = 0]
        /\ waited' = [waited EXCEPT ![v][c] = 0]
        /\ missed' = missed /\ up' = up /\ outages' = outages
    BY DEF Cancelled
  <1>3. CASE v \in Streaming
    <2>1. breaker' = breaker
      BY <1>3 DEF Cancelled, IInv, TypeOK
    <2> QED
      BY <1>1, <1>2, <1>3, <2>1, EndKeeps
  <1>4. CASE v \notin Streaming
    <2>1. breaker' = [breaker EXCEPT ![v] = Record(@, TRUE)]
      BY <1>4 DEF Cancelled
    <2> QED
      BY <1>1, <1>2, <2>1, FaultKeeps
  <1> QED
    BY <1>3, <1>4

\* While time passes, an attempt in flight ages with the open circuit.
LEMMA TickKeeps ==
  ASSUME IInv, NEW v \in Vendors, Tick(v)
  PROVE  IInv'
  <1>1. Shaped /\ Kept(v)
    BY IInvByVendor
  <1>2. Shaped'
    BY <1>1 DEF Tick, Shaped
  <1>3. /\ rung'[v] = rung[v] /\ up'[v] = up[v] /\ missed'[v] = missed[v]
        /\ waited'[v] = [c \in Callers |-> IF Timed(v, c) THEN waited[v][c] + 1 ELSE waited[v][c]]
        /\ breaker'[v] = Aged(breaker[v])
    BY <1>1 DEF Tick, Shaped
  <1>4. \A c \in Callers : Timed(v, c) => waited[v][c] < CallTimeout
    BY DEF Tick
  <1>5. /\ breaker'[v] \in Breakers /\ WellFormed(breaker'[v])
        /\ breaker'[v].opened = breaker[v].opened
        /\ breaker'[v].failures = breaker[v].failures
        /\ breaker'[v].probing = breaker[v].probing
        /\ breaker[v].opened => breaker'[v].age = UpTo(RecoveryTimeout, breaker[v].age + 1)
    BY <1>1, <1>3, AgedKeeps DEF Kept
  <1>6. waited'[v] \in [Callers -> 0..CallTimeout]
    BY <1>1, <1>3, <1>4, BreakerAssumption DEF Kept
  <1>7. ASSUME v \in Wrapped, breaker[v].opened, NEW c \in Callers, rung[v][c] # 0,
               waited[v][c] >= breaker[v].age
        PROVE  waited'[v][c] >= breaker'[v].age
    <2>1. waited'[v][c] = waited[v][c] + 1 /\ waited[v][c] \in Nat /\ breaker[v].age \in 0..RecoveryTimeout
      BY <1>1, <1>3, <1>7 DEF Kept, Breakers, Timed, Wrapped
    <2> QED
      BY <1>5, <1>7, <2>1, BreakerAssumption DEF UpTo
  <1>8. Kept(v)'
    BY <1>1, <1>3, <1>5, <1>6, <1>7 DEF Kept
  <1>9. ASSUME NEW w \in Vendors, w # v
        PROVE  /\ breaker'[w] = breaker[w] /\ rung'[w] = rung[w] /\ waited'[w] = waited[w]
               /\ up'[w] = up[w] /\ missed'[w] = missed[w]
    BY <1>1, <1>9 DEF Tick, Shaped
  <1> QED
    BY <1>2, <1>8, <1>9, OneVendor

LEMMA VendorTurnsKeeps ==
  ASSUME IInv, NEW v \in Vendors, VendorTurns(v)
  PROVE  IInv'
  <1>1. outages' \in 0..MaxOutages
    BY BreakerAssumption DEF VendorTurns, IInv, TypeOK
  <1>2. up' \in [Vendors -> BOOLEAN]
    BY DEF VendorTurns, IInv, TypeOK
  <1> QED
    BY <1>1, <1>2 DEF VendorTurns, IInv, TypeOK, Covered, Counted

-----------------------------------------------------------------------------

\* The invariant holds in every reachable state.
THEOREM Invariance == Spec => []IInv
  <1>1. IInv /\ [Next]_vars => IInv'
    <2> SUFFICES ASSUME IInv, [Next]_vars PROVE IInv'
      OBVIOUS
    <2>1. CASE Next
      <3>1. PICK v \in Vendors :
              \/ Tick(v) \/ VendorTurns(v)
              \/ \E c \in Callers :
                    Begin(v, c) \/ Answers(v, c) \/ Fails(v, c) \/ OurFault(v, c) \/ Cancelled(v, c)
        BY <2>1 DEF Next
      <3>2. CASE Tick(v)
        BY <3>2, TickKeeps
      <3>3. CASE VendorTurns(v)
        BY <3>3, VendorTurnsKeeps
      <3>4. CASE \E c \in Callers :
                    Begin(v, c) \/ Answers(v, c) \/ Fails(v, c) \/ OurFault(v, c) \/ Cancelled(v, c)
        BY <3>4, BeginKeeps, AnswersKeeps, FailsKeeps, OurFaultKeeps, CancelledKeeps
      <3> QED
        BY <3>1, <3>2, <3>3, <3>4
    <2>2. CASE UNCHANGED vars
      BY <2>2 DEF vars, IInv, TypeOK, Covered, Counted
    <2> QED
      BY <2>1, <2>2
  <1> QED
    BY InitIInv, <1>1, PTL DEF Spec

\* Every variable keeps its type and every breaker its form, for every number
\* of vendors, callers, faults and outages (CircuitBreaker, resilience.py).
THEOREM TypeCorrect == Spec => []TypeOK
  <1>1. IInv => TypeOK
    BY DEF IInv
  <1> QED
    BY Invariance, <1>1, PTL

\* One probe, not a thundering herd: a half-open circuit has at most one
\* operation in flight at the vendor (_admit, _record), because every time-out
\* is shorter than the cooldown.
THEOREM AtMostOneProbe == Spec => []OneProbe
  <1>1. IInv => OneProbe
    BY HalfOpenAlone DEF OneProbe
  <1> QED
    BY Invariance, <1>1, PTL

\* A run of faults as long as the threshold has opened the circuit, however
\* the attempts of several turns overlap (_record, _succeeded).
THEOREM FailuresOpen == Spec => []RepeatedFailuresOpen
  <1>1. IInv => RepeatedFailuresOpen
    BY BreakerAssumption
       DEF IInv, TypeOK, Counted, WellFormed, Breakers, RepeatedFailuresOpen, Wrapped
  <1> QED
    BY Invariance, <1>1, PTL
=============================================================================
