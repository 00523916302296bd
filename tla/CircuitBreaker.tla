--------------------------- MODULE CircuitBreaker ---------------------------
(***************************************************************************)
(* The circuit breakers of adapters/resilience.py and the callers that     *)
(* share them: one breaker per vendor and service for the life of a worker *)
(* process, every call on the worker a caller.  The language model's calls *)
(* run inside CircuitBreaker.call and climb the ladder of the gateway; the *)
(* synthesiser and the recogniser are streams, which pass an admission     *)
(* check and report their outcome afterwards.  A breaker is a record of    *)
(* the fields of the class, with the time since _opened_at for _opened_at. *)
(***************************************************************************)
EXTENDS Integers

CONSTANTS
    Vendors,           \* one breaker each
    Streaming,         \* the vendors reached through a stream
    Callers,           \* the turns, of any call, that want an answer
    FailureThreshold,  \* DEFAULT_FAILURE_THRESHOLD
    RecoveryTimeout,   \* DEFAULT_RECOVERY_TIMEOUT_S, in ticks
    CallTimeout,       \* the longest a wrapped operation runs, in ticks
    MaxOutages, MaxMishaps  \* bounds: breakdowns, turns cancelled or failed by us

\* A first token is waited for 3.5 seconds, a circuit stays open for twenty.
ASSUME BreakerAssumption ==
    /\ Streaming \subseteq Vendors
    /\ FailureThreshold \in Nat \ {0}
    /\ RecoveryTimeout \in Nat \ {0}
    /\ CallTimeout \in Nat \ {0}
    /\ CallTimeout < RecoveryTimeout
    /\ {MaxOutages, MaxMishaps} \subseteq Nat

VARIABLES
    breaker,  \* per vendor: failures, opened, age, probing
    rung,     \* per vendor and caller: 0 idle, 1 and 2 the gateway's attempts
    waited,   \* ... and how long its wrapped attempt has run
    up,       \* per vendor: whether it answers
    missed,   \* per vendor: faults since it last answered (history)
    outages, mishaps  \* counters of the bounds

vars == <<breaker, rung, waited, up, missed, outages, mishaps>>

Breakers == [ failures : 0..FailureThreshold, opened : BOOLEAN,
              age : 0..RecoveryTimeout, probing : BOOLEAN ]

Closed == [failures |-> 0, opened |-> FALSE, age |-> 0, probing |-> FALSE]

HalfOpen(b) == b.opened /\ b.age = RecoveryTimeout

\* Counts stop where they stop mattering.
UpTo(limit, n) == IF n < limit THEN n ELSE limit

(***************************************************************************)
(* The class CircuitBreaker.                                               *)
(***************************************************************************)

\* Mutant: everyone may probe.
AdmitsHerd(b) == ~b.opened \/ HalfOpen(b)

\* _admit: closed, or half open with nobody probing.
Admits(b) == ~b.opened \/ (HalfOpen(b) /\ ~b.probing)

\* ... and the caller admitted to a half-open circuit is the probe.
Admit(b) == [b EXCEPT !.probing = HalfOpen(b)]

\* _succeeded.
Succeeded(b) == Closed

\* Mutant: a fault of our own returns before the claim is given up.
RecordKeepsProbe(b, vendorFault) ==
    IF ~vendorFault THEN b
    ELSE LET count == UpTo(FailureThreshold, b.failures + 1)
         IN  IF count < FailureThreshold
             THEN [b EXCEPT !.failures = count, !.probing = FALSE]
             ELSE [failures |-> count, opened |-> TRUE, age |-> 0, probing |-> FALSE]

\* Mutant: opens one fault too late.
RecordOneShort(b, vendorFault) ==
    IF ~vendorFault \/ b.failures + 1 <= FailureThreshold
    THEN [b EXCEPT !.failures = UpTo(FailureThreshold, IF vendorFault THEN @ + 1 ELSE @),
                   !.probing = FALSE]
    ELSE [failures |-> FailureThreshold, opened |-> TRUE, age |-> 0, probing |-> FALSE]

\* _record: the probe is over; the threshold opens the circuit, and a failed
\* probe starts the cooldown again.
Record(b, vendorFault) ==
    LET count == UpTo(FailureThreshold, b.failures + 1)
    IN  CASE ~vendorFault -> [b EXCEPT !.probing = FALSE]
          [] vendorFault /\ count < FailureThreshold ->
                [b EXCEPT !.failures = count, !.probing = FALSE]
          [] OTHER -> [failures |-> count, opened |-> TRUE, age |-> 0, probing |-> FALSE]

(***************************************************************************)
(* The callers.  A caller that is refused degrades at once and changes     *)
(* nothing.                                                                *)
(***************************************************************************)

\* call(...) of the gateway, or the streams' call(_noop), whose operation
\* succeeds before the vendor has been asked.  The gateway begins at its second
\* attempt when the first one's stream broke after its first token.
Begin(v, c) ==
    /\ rung[v][c] = 0
    /\ Admits(breaker[v])
    /\ breaker' = [breaker EXCEPT ![v] = IF v \in Streaming THEN Succeeded(Admit(@)) ELSE Admit(@)]
    /\ \E r \in IF v \in Streaming THEN {1} ELSE {1, 2} : rung' = [rung EXCEPT ![v][c] = r]
    /\ waited' = [waited EXCEPT ![v][c] = 0]
    /\ UNCHANGED <<up, missed, outages, mishaps>>

\* The first token, a whole utterance or an open socket: _succeeded.
Answers(v, c) ==
    /\ rung[v][c] # 0
    /\ up[v]
    /\ breaker' = [breaker EXCEPT ![v] = Succeeded(@)]
    /\ rung' = [rung EXCEPT ![v][c] = 0]
    /\ waited' = [waited EXCEPT ![v][c] = 0]
    /\ missed' = [missed EXCEPT ![v] = 0]
    /\ UNCHANGED <<up, outages, mishaps>>

\* A time-out, a connection error, a bad status.  The gateway tries the other
\* model through the same breaker in the same step: nothing is awaited between.
Fails(v, c) ==
    LET b == Record(breaker[v], TRUE)
        again == v \notin Streaming /\ rung[v][c] = 1 /\ Admits(b)
    IN
    /\ rung[v][c] # 0
    /\ ~up[v]
    /\ breaker' = [breaker EXCEPT ![v] = IF again THEN Admit(b) ELSE b]
    /\ rung' = [rung EXCEPT ![v][c] = IF again THEN 2 ELSE 0]
    /\ waited' = [waited EXCEPT ![v][c] = 0]
    /\ missed' = [missed EXCEPT ![v] = UpTo(FailureThreshold, @ + 1)]
    /\ UNCHANGED <<up, outages, mishaps>>

\* An error of this system's own, a missing credential: the turn ends.
OurFault(v, c) ==
    /\ v \notin Streaming
    /\ rung[v][c] # 0
    /\ mishaps < MaxMishaps /\ mishaps' = mishaps + 1
    /\ breaker' = [breaker EXCEPT ![v] = Record(@, FALSE)]
    /\ rung' = [rung EXCEPT ![v][c] = 0]
    /\ waited' = [waited EXCEPT ![v][c] = 0]
    /\ UNCHANGED <<up, missed, outages>>

\* The turn is cancelled: the caller went on speaking, interrupted or hung up.
\* call catches BaseException, and _is_vendor_fault takes a CancelledError for
\* an unrecognised transport error.  The streams let it pass unrecorded.
Cancelled(v, c) ==
    /\ rung[v][c] # 0
    /\ mishaps < MaxMishaps /\ mishaps' = mishaps + 1
    /\ breaker' = [breaker EXCEPT ![v] = IF v \in Streaming THEN @ ELSE Record(@, TRUE)]
    /\ rung' = [rung EXCEPT ![v][c] = 0]
    /\ waited' = [waited EXCEPT ![v][c] = 0]
    /\ UNCHANGED <<up, missed, outages>>

\* The time since _opened_at grows.
Aged(b) == IF b.opened THEN [b EXCEPT !.age = UpTo(RecoveryTimeout, @ + 1)] ELSE b

\* What the breaker wraps has a time-out; a stream may go on for as long as a
\* circuit stays open.
Timed(v, c) == v \notin Streaming /\ rung[v][c] # 0

\* A tick of the clock; no wrapped operation outlives its time-out.
Tick(v) ==
    /\ \A c \in Callers : Timed(v, c) => waited[v][c] < CallTimeout
    /\ breaker' = [breaker EXCEPT ![v] = Aged(@)]
    /\ waited' = [waited EXCEPT ![v] =
                    [c \in Callers |-> IF Timed(v, c) THEN @[c] + 1 ELSE @[c]]]
    /\ UNCHANGED <<rung, up, missed, outages, mishaps>>

\* The vendor breaks down or comes back.
VendorTurns(v) ==
    /\ up[v] => outages < MaxOutages
    /\ outages' = IF up[v] THEN outages + 1 ELSE outages
    /\ up' = [up EXCEPT ![v] = ~@]
    /\ UNCHANGED <<breaker, rung, waited, missed, mishaps>>

-----------------------------------------------------------------------------

Init ==
    /\ breaker = [v \in Vendors |-> Closed]
    /\ rung = [v \in Vendors |-> [c \in Callers |-> 0]]
    /\ waited = [v \in Vendors |-> [c \in Callers |-> 0]]
    /\ up = [v \in Vendors |-> TRUE]
    /\ missed = [v \in Vendors |-> 0]
    /\ outages = 0
    /\ mishaps = 0

Next ==
    \E v \in Vendors :
        \/ Tick(v) \/ VendorTurns(v)
        \/ \E c \in Callers :
              Begin(v, c) \/ Answers(v, c) \/ Fails(v, c) \/ OurFault(v, c) \/ Cancelled(v, c)

\* Time passes, turns keep coming, and an attempt ends.
Fairness ==
    \A v \in Vendors :
        /\ WF_vars(Tick(v))
        /\ \A c \in Callers :
              WF_vars(Begin(v, c)) /\ WF_vars(Answers(v, c)) /\ WF_vars(Fails(v, c))

Spec == Init /\ [][Next]_vars /\ Fairness

-----------------------------------------------------------------------------
(***************************************************************************)
(* Properties.                                                             *)
(***************************************************************************)

Wrapped == Vendors \ Streaming

\* The type invariant, with the form of a breaker: the probe is claimed only
\* while the circuit is half open, and an open circuit has counted to the
\* threshold.
WellFormed(b) ==
    /\ b.probing => HalfOpen(b)
    /\ b.opened => b.failures = FailureThreshold
    /\ ~b.opened => b.age = 0 /\ b.failures < FailureThreshold

TypeOK ==
    /\ breaker \in [Vendors -> Breakers]
    /\ \A v \in Vendors : WellFormed(breaker[v])
    /\ rung \in [Vendors -> [Callers -> 0..2]]
    /\ waited \in [Vendors -> [Callers -> 0..CallTimeout]]
    /\ up \in [Vendors -> BOOLEAN]
    /\ missed \in [Vendors -> 0..FailureThreshold]
    /\ outages \in 0..MaxOutages
    /\ mishaps \in 0..MaxMishaps

\* "One probe, not a thundering herd" (resilience.py): whatever late failures,
\* cancellations and errors of our own end while the circuit recovers, a
\* half-open circuit has at most one operation in flight at the vendor.
OneProbe ==
    \A v \in Wrapped : HalfOpen(breaker[v]) =>
        \A c, d \in Callers : rung[v][c] # 0 /\ rung[v][d] # 0 => c = d

\* "The last failure_threshold calls failed" (resilience.py): once that many
\* attempts in a row have met a fault, the circuit is open, in whatever order
\* the attempts of several turns began and ended.
RepeatedFailuresOpen ==
    \A v \in Wrapped : missed[v] = FailureThreshold => breaker[v].opened

\* A vendor that has recovered is found again: the circuit does not stay open
\* against a vendor that answers, for want of anyone who may probe it.
RecoveredVendorServed ==
    \A v \in Vendors : <>[]up[v] => []<>~breaker[v].opened

\* Promises of the documentation that the code does not keep.

\* The same promise for the streams: their admission check resets the count.
StreamFailuresOpen ==
    \A v \in Streaming : missed[v] = FailureThreshold => breaker[v].opened

\* "Only faults that mean the vendor cannot serve us" open a circuit
\* (resilience.py).  Turns that were cancelled count as well.
OnlyFaultsOpen == \A v \in Wrapped : breaker[v].opened => missed[v] > 0
=============================================================================
