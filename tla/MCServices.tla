----------------------------- MODULE MCServices -----------------------------
(***************************************************************************)
(* Three small components that share no state, model-checked in one run:   *)
(* the circuit breakers of a voice worker, the pulls of a data source and  *)
(* the playback of one answer.  A behaviour is a behaviour of one of them, *)
(* the part chosen in its first state; the others stand still.             *)
(***************************************************************************)
EXTENDS MCCircuitBreaker

CONSTANTS
    Requests, MaxRuns, MaxFaults, None,
    Frame, Jitter, Lengths, Words, MaxSentences

ASSUME SyncAssumption == MaxRuns \in Nat /\ None \notin Nat
ASSUME PlaybackAssumption ==
    /\ {Frame, Words} \subseteq Nat \ {0} /\ {Jitter, MaxSentences} \subseteq Nat
    /\ Lengths \subseteq Nat

VARIABLES
    part,
    rows, present, lastRun, call, task, pull, process, written, used, faults,
    answer, at, phase, segments, arrived, residue, toSend, sent, cancelled, buffer, ear

Sync == INSTANCE SourceSync
Speech == INSTANCE Playback

sync == <<rows, present, lastRun, call, task, pull, process, written, used, faults>>
speech == <<answer, at, phase, segments, arrived, residue, toSend, sent, cancelled,
            buffer, ear>>
allVars == <<part, vars, sync, speech>>

-----------------------------------------------------------------------------
ServicesInit ==
    /\ part \in {"breaker", "sync", "speech"}
    /\ Init
    /\ Sync!Init
    /\ IF part = "speech" THEN Speech!Init
       ELSE /\ answer = <<>> /\ segments = <<>> /\ buffer = <<>>
            /\ at = 0 /\ phase = "over" /\ cancelled = FALSE
            /\ arrived = 0 /\ residue = 0 /\ toSend = 0 /\ sent = 0 /\ ear = 0

InBreaker == part = "breaker" /\ UNCHANGED <<part, sync, speech>>
InSync == part = "sync" /\ UNCHANGED <<part, vars, speech>>
InSpeech == part = "speech" /\ UNCHANGED <<part, vars, sync>>

ServicesNext ==
    \/ InBreaker /\ Next
    \/ InSync /\ Sync!Next
    \/ InSpeech /\ Speech!Next

\* The fairness of CircuitBreaker's Spec and of SourceSync's FairSpec.
ServicesFairness ==
    /\ \A v \in Vendors :
          /\ WF_allVars(InBreaker /\ Tick(v))
          /\ \A c \in Callers :
                /\ WF_allVars(InBreaker /\ Begin(v, c))
                /\ WF_allVars(InBreaker /\ Answers(v, c))
                /\ WF_allVars(InBreaker /\ Fails(v, c))
    /\ WF_allVars(InSync /\ Sync!Executing)
    /\ WF_allVars(InSync /\ \E k \in Sync!Runs : Sync!GrowsStale(k))
    /\ WF_allVars(InSync /\ \E r \in Requests : Sync!Polls(r))

ServicesSpec == ServicesInit /\ [][ServicesNext]_allVars /\ ServicesFairness

-----------------------------------------------------------------------------
(* The properties of the parts, which their modules explain.               *)

\* A run's row says of the catalogue what is so.
RowsTellTheTruth == Sync!RowsTellTheTruth

\* In one process the pulls of a source never overlap.
OnePullPerProcess == Sync!OnePullPerProcess

\* No run of a source is shown as running for ever.
RunsEnd == Sync!RunsEnd

\* What is taken for heard of an answer that was cut is nearly what was heard.
HeardIsNearlyRight == Speech!HeardIsNearlyRight

\* What is taken up again leaves out no sentence that was hardly heard.
NothingLeftUnsaid == Speech!NothingLeftUnsaid
=============================================================================
