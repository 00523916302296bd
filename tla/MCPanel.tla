------------------------------ MODULE MCPanel -------------------------------
(***************************************************************************)
(* Five components behind the panel that share no state, model-checked in  *)
(* one run: the indexing of knowledge documents, the cutting of one into   *)
(* passages, the versions of a script, the Live page and the audit log.  A *)
(* behaviour is a behaviour of one of them, the part chosen in its first   *)
(* state; the others stand still.  The audit log is extended, so that its  *)
(* properties are checked as they are.                                     *)
(***************************************************************************)
EXTENDS AuditChain, Sequences

CONSTANTS
    MaxFaults,
    MaxDocs, Readings, MaxJobs,
    MinTokens, MaxTokens, OverlapPercent, MinMergeDepth, Headings, DocLines, MaxLines,
    MaxVersions, MaxEdits, Requests,
    Calls, Own, Other, QueueSize, MaxTurns, MaxStreams, MaxLosses

\* None is no document, text or call, and the two centres are two.  Lines have tokens.
ASSUME PanelAssumption ==
    /\ MaxDocs \in Nat
    /\ None \notin 1..MaxDocs /\ None \notin (1..MaxDocs) \X Readings
    /\ None \notin Calls /\ Own # None /\ Own # Other
    /\ MaxTokens \in Nat /\ \A t \in DocLines : t.tokens \in Seq(Nat)

\* The lines of a small document, in tokens.
SomeHeadings == {[level |-> 2, title |-> "other"], [level |-> 3, title |-> "x"],
                 [level |-> 3, title |-> "y"]}
SomeLines == {[kind |-> "paragraph", tokens |-> <<20>>],
              [kind |-> "paragraph", tokens |-> <<30, 30>>],
              [kind |-> "dose", tokens |-> <<10, 15>>],
              [kind |-> "table", tokens |-> <<35>>]}

VARIABLES
    part,
    \* KnowledgeIngest
    docs, passages, rowLock, job, request, used, lost, faults,
    \* Chunking
    phase, lines, units, path, buffer, kind, blocks, pieces, current, currentPath, size,
    tail, chunks,
    \* ScriptVersions
    configs, req, edits, campaign, call, everLive,
    \* LiveFeed
    scope, session, callRows, queue, stream, pending, board, whole, opened, losses

Knowledge == INSTANCE KnowledgeIngest WITH req <- request, lock <- rowLock
Cutting == INSTANCE Chunking WITH Texts <- DocLines
Scripts == INSTANCE ScriptVersions WITH rows <- configs
Live == INSTANCE LiveFeed
            WITH MaxFaults <- MaxLosses, rows <- callRows, faults <- losses

knowledge == <<docs, passages, rowLock, job, request, used, lost, faults>>
cutting == <<phase, lines, units, path, buffer, kind, blocks, pieces, current, currentPath,
             size, tail, chunks>>
scripts == <<configs, req, edits, campaign, call, everLive>>
live == <<scope, session, callRows, queue, stream, pending, board, whole, opened, losses>>
allVars == <<part, knowledge, cutting, scripts, live, vars>>

-----------------------------------------------------------------------------
PanelInit ==
    /\ part \in {"knowledge", "chunks", "scripts", "live", "audit"}
    /\ Init /\ Knowledge!Init /\ Cutting!Init /\ Scripts!Init /\ Live!Init
    /\ part # "live" => scope = "all"

InKnowledge == part = "knowledge" /\ UNCHANGED <<part, cutting, scripts, live, vars>>
InChunks == part = "chunks" /\ UNCHANGED <<part, knowledge, scripts, live, vars>>
InScripts == part = "scripts" /\ UNCHANGED <<part, knowledge, cutting, live, vars>>
InLive == part = "live" /\ UNCHANGED <<part, knowledge, cutting, scripts, vars>>
InAudit == part = "audit" /\ UNCHANGED <<part, knowledge, cutting, scripts, live>>

PanelNext ==
    \/ InKnowledge /\ Knowledge!Next
    \/ InChunks /\ Cutting!Next
    \/ InScripts /\ Scripts!Next
    \/ InLive /\ Live!Next
    \/ InAudit /\ Next

\* The fairness of KnowledgeIngest's Spec.
PanelFairness ==
    /\ WF_allVars(InKnowledge /\ Knowledge!Saves)
    /\ WF_allVars(InKnowledge /\ Knowledge!Enqueues)
    /\ \A j \in Knowledge!Jobs : WF_allVars(InKnowledge /\ Knowledge!Runs(j))

PanelSpec == PanelInit /\ [][PanelNext]_allVars /\ PanelFairness

-----------------------------------------------------------------------------
(* The properties of the parts, which their modules explain.               *)

\* A document that is called indexed has its own text behind it.
IndexedHasItsText == part = "knowledge" => Knowledge!IndexedHasItsText

\* A document whose jobs were not lost ends up indexed or failed.
UploadsSettle == Knowledge!UploadsSettle

\* The passages carry the document, with its tables and dosage rows in one piece.
ChunksCarryTheDocument == part = "chunks" => Cutting!ChunksCarryTheDocument

\* (violated) A passage is cited by a section that all its text is of.
CitedAsItsSection == part = "chunks" => Cutting!CitedAsItsSection

\* From the first publication on one version of the script is live.
FlowStaysLive == part = "scripts" => Scripts!FlowStaysLive

\* A viewer of one centre is shown no other centre's calls.
NothingOutOfScope == part = "live" => Live!NothingOutOfScope

\* The Live page shows the calls there are, of those it has been told all about.
BoardAgreesWhenQuiet == part = "live" => Live!BoardAgreesWhenQuiet
=============================================================================
