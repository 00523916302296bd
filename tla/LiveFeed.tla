------------------------------ MODULE LiveFeed ------------------------------
(***************************************************************************)
(* The Live page of the panel: what a call tells about itself              *)
(* (runtime/session.py), the bounded queue by which a voice worker tells   *)
(* it (uaagro_domain/livefeed.py), the relay of the API with its snapshot  *)
(* and its scope (services/events.py, routers/panel_live.py), and the fold *)
(* of both that a tab shows (admin/src/lib/live-reducer.ts).               *)
(*                                                                         *)
(* One worker, one tab.  From Redis to the tab events keep their order and *)
(* meet nothing else, so an event is shown in the step that sends it.      *)
(***************************************************************************)
EXTENDS Integers, Sequences, FiniteSets

CONSTANTS
    Calls,
    Own, Other,     \* the viewer's centre and another
    QueueSize,      \* QUEUE_SIZE
    MaxTurns,       \* turns told by each call (bound)
    MaxStreams,     \* streams the tab opens (bound)
    MaxFaults,      \* lost writes, failed sends, deaths of the worker (bound)
    None

VARIABLES
    scope,      \* "all" for a role that sees every centre, or "own"
    session,    \* per call: where its session is, its centre, its turns
    rows,       \* calls
    queue,      \* events waiting for Redis
    stream,     \* "away", "snapshot" (read, not subscribed) or "live"
    pending,    \* pending_starts of the stream
    board,      \* calls the tab shows in progress
    whole,      \* calls of which the stream has had all it needs (history)
    opened, faults  \* counters of the bounds

tab == <<stream, pending, board>>
vars == <<scope, session, rows, queue, tab, whole, opened, faults>>

Init ==
    /\ scope \in {"all", "own"}
    /\ session = [c \in Calls |-> [pc |-> "none", centre |-> None, turns |-> 0]]
    /\ rows = [c \in Calls |-> [status |-> "none", centre |-> None]]
    /\ queue = <<>>
    /\ stream = "away" /\ pending = {} /\ board = {}
    /\ whole = {} /\ opened = 0 /\ faults = 0

Fault == faults < MaxFaults /\ faults' = faults + 1

\* Mutant: a call that has no centre yet is anybody's.
NoneIsVisible(centre) == scope = "all" \/ centre \in {Own, None}

\* visible_centre, and the row-level policy on calls.
Visible(centre) == scope = "all" \/ centre = Own

-----------------------------------------------------------------------------
(* The session                                                             *)

\* RedisLiveFeed.publish: a full queue drops the event that comes.
Publishes(c, type, centre) ==
    IF Len(queue) < QueueSize
    THEN /\ queue' = Append(queue, [call |-> c, type |-> type, centre |-> centre])
         /\ UNCHANGED whole
    ELSE /\ whole' = whole \ {c}
         /\ UNCHANGED queue

Moves(c, from, to) == session[c].pc = from /\ session' = [session EXCEPT ![c].pc = to]

\* _on_start: the row first, then the event, of no centre yet.  If the row
\* cannot be made the session closes.
Creates(c) ==
    /\ Moves(c, "none", "created")
    /\ rows' = [rows EXCEPT ![c].status = "in_progress"]
    /\ UNCHANGED <<scope, queue, tab, whole, opened, faults>>

CannotCreate(c) ==
    /\ Moves(c, "none", "closing") /\ Fault
    /\ UNCHANGED <<scope, rows, queue, tab, whole, opened>>

TellsStart(c) ==
    /\ Moves(c, "created", "started")
    /\ Publishes(c, "started", None)
    /\ UNCHANGED <<scope, rows, tab, opened, faults>>

\* _identified: attach_call_context, whose errors are suppressed; the events
\* carry the centre either way.
Attaches(c, centre) ==
    /\ session[c].pc = "started"
    /\ session' = [session EXCEPT ![c].pc = "attached", ![c].centre = centre]
    /\ \/ rows' = [rows EXCEPT ![c].centre = centre] /\ UNCHANGED faults
       \/ Fault /\ UNCHANGED rows
    /\ UNCHANGED <<scope, queue, tab, whole, opened>>

TellsWho(c) ==
    /\ Moves(c, "attached", "talking")
    /\ Publishes(c, "identified", session[c].centre)
    /\ UNCHANGED <<scope, rows, tab, opened, faults>>

\* _on_turn, _on_activity, _on_dtmf, a transfer: each patches the call's card.
TellsTurn(c) ==
    /\ session[c].pc = "talking" /\ session[c].turns < MaxTurns
    /\ session' = [session EXCEPT ![c].turns = @ + 1]
    /\ Publishes(c, "turn", session[c].centre)
    /\ UNCHANGED <<scope, rows, tab, opened, faults>>

\* _close: finalise_call, whose errors are suppressed, then the last event.  A
\* call whose pipeline could not be built closes without having said who it is.
Finalises(c) ==
    /\ session[c].pc \in {"started", "talking"}
    /\ session' = [session EXCEPT ![c].pc = "closing"]
    /\ \/ rows' = [rows EXCEPT ![c].status = "ended"] /\ UNCHANGED faults
       \/ Fault /\ UNCHANGED rows
    /\ UNCHANGED <<scope, queue, tab, whole, opened>>

TellsEnd(c) ==
    /\ Moves(c, "closing", "over")
    /\ Publishes(c, "ended", session[c].centre)
    /\ UNCHANGED <<scope, rows, tab, opened, faults>>

Speaks(c) ==
    \/ Creates(c) \/ CannotCreate(c) \/ TellsStart(c)
    \/ \E centre \in {Own, Other, None} : Attaches(c, centre)
    \/ TellsWho(c) \/ TellsTurn(c) \/ Finalises(c) \/ TellsEnd(c)

\* A call beyond those in Calls tells something of itself, which patches a card
\* not looked at here and takes a place in the queue.
OthersTell ==
    /\ Len(queue) < QueueSize
    /\ queue' = Append(queue, [call |-> None, type |-> "turn", centre |-> Other])
    /\ UNCHANGED <<scope, session, rows, tab, whole, opened, faults>>

\* The worker dies, with its calls and its queue.
WorkerDies ==
    /\ Fault
    /\ session' = [c \in Calls |-> IF session[c].pc = "none" THEN session[c]
                                   ELSE [session[c] EXCEPT !.pc = "over"]]
    /\ queue' = <<>>
    /\ whole' = {c \in whole : session[c].pc = "none"}
    /\ UNCHANGED <<scope, rows, tab, opened>>

-----------------------------------------------------------------------------
(* The stream and the tab                                                  *)

Begun(c) == session[c].pc # "none"
GoingOn(c) == session[c].pc \notin {"none", "closing", "over"}

\* Its end was dropped while an earlier event of it waits: the event would bring
\* the call back.
Headless(c) ==
    LET waiting == {queue[i].type : i \in {i \in DOMAIN queue : queue[i].call = c}}
    IN  session[c].pc = "over" /\ waiting # {} /\ "ended" \notin waiting

\* relay: the snapshot replaces what the tab showed.
Opens ==
    LET shown == {c \in Calls : rows[c].status = "in_progress" /\ Visible(rows[c].centre)}
    IN  /\ stream = "away" /\ opened < MaxStreams
        /\ opened' = opened + 1
        /\ stream' = "snapshot" /\ pending' = {}
        /\ board' = shown
        /\ whole' = {c \in Calls : ~Headless(c) /\ (Begun(c) => (c \in shown <=> GoingOn(c)))}
        /\ UNCHANGED <<scope, session, rows, queue, faults>>

\* Only then does it subscribe.
Subscribes ==
    /\ stream = "snapshot"
    /\ stream' = "live"
    /\ UNCHANGED <<scope, session, rows, queue, pending, board, whole, opened, faults>>

\* Redis is gone, or the browser's connection: the hook opens another stream.
Ends ==
    /\ stream # "away"
    /\ stream' = "away"
    /\ UNCHANGED <<scope, session, rows, queue, pending, board, whole, opened, faults>>

\* A start is withheld from a viewer of one centre until the call has one.
Withheld(e) == e.type = "started" /\ scope = "own"

\* accept: the events to write, of which a withheld start may be the first.
Accepted(e) ==
    IF Withheld(e) \/ ~Visible(e.centre) THEN <<>>
    ELSE (IF e.call \in pending THEN <<"started">> ELSE <<>>) \o <<e.type>>

StillPending(e) ==
    IF Withheld(e) THEN pending \cup {e.call}
    ELSE IF Visible(e.centre) \/ e.type = "ended" THEN pending \ {e.call}
    ELSE pending

\* Mutant: the card of a call that has ended is left on the board.
EndedStays(shown, c, types) ==
    IF \E i \in DOMAIN types : types[i] = "started" THEN shown \cup {c} ELSE shown

\* applyLiveEvent: a start adds the call once, its end removes it; whatever
\* else comes only patches a call that is there.
Applied(shown, c, types) ==
    LET told == {types[i] : i \in DOMAIN types}
    IN  IF "ended" \in told THEN shown \ {c}
        ELSE IF "started" \in told THEN shown \cup {c}
        ELSE shown

\* _drain: the oldest event to Redis, and to the tab if its stream has
\* subscribed.
Sends ==
    /\ queue # <<>>
    /\ LET e == Head(queue)
       IN  IF stream = "live"
           THEN /\ board' = Applied(board, e.call, Accepted(e))
                /\ pending' = StillPending(e)
                /\ UNCHANGED whole
           ELSE /\ whole' = whole \ {e.call}
                /\ UNCHANGED <<board, pending>>
    /\ queue' = Tail(queue)
    /\ UNCHANGED <<scope, session, rows, stream, opened, faults>>

\* Redis refuses it: the event in hand is lost.
CannotSend ==
    /\ queue # <<>> /\ Fault
    /\ queue' = Tail(queue)
    /\ whole' = whole \ {Head(queue).call}
    /\ UNCHANGED <<scope, session, rows, tab, opened>>

Next ==
    \/ \E c \in Calls : Speaks(c)
    \/ OthersTell \/ WorkerDies \/ Opens \/ Subscribes \/ Ends \/ Sends \/ CannotSend

Spec == Init /\ [][Next]_vars

-----------------------------------------------------------------------------
(* Properties                                                              *)

\* Sessions, rows, events and the tab hold values of their kinds.
TypeOK ==
    /\ scope \in {"all", "own"}
    /\ session \in [Calls -> [pc : {"none", "created", "started", "attached", "talking",
                                    "closing", "over"},
                              centre : {Own, Other, None}, turns : 0..MaxTurns]]
    /\ rows \in [Calls -> [status : {"none", "in_progress", "ended"},
                           centre : {Own, Other, None}]]
    /\ Len(queue) <= QueueSize
    /\ stream \in {"away", "snapshot", "live"}
    /\ pending \subseteq Calls /\ board \subseteq Calls /\ whole \subseteq Calls

\* A viewer of one centre is never shown a call of another, nor one that nobody
\* knows the centre of: neither by a snapshot, nor by an event, nor by a start
\* that was withheld and is released.
NothingOutOfScope ==
    scope = "own" => \A c \in board : session[c].centre = Own

Settled(c) == session[c].pc \in {"none", "started", "talking", "over"}

\* A tab that has had everything it needs of a call since its last snapshot
\* shows the call while it goes on, if it may, and no longer: whatever was
\* lost of other calls, however often it was reconnected.
BoardAgreesWhenQuiet ==
    stream = "live" /\ queue = <<>> =>
        \A c \in whole : Settled(c) =>
            (c \in board <=> GoingOn(c) /\ Visible(session[c].centre))

\* Not so: what is published between the snapshot and the subscription is lost,
\* and a viewer of one centre misses the start of a call that had no centre when
\* the snapshot was read.  livefeed.py says a subscriber that connects late is
\* never wrong.
LateViewerIsRight ==
    stream = "live" /\ queue = <<>> /\ faults = 0 =>
        \A c \in Calls : Settled(c) =>
            (c \in board <=> GoingOn(c) /\ Visible(session[c].centre))

\* Not so: finalise_call's errors are suppressed and a worker may die; nothing
\* else ends a call (_close says it is not left in progress for ever).
NoCallStuck == \A c \in Calls : session[c].pc = "over" => rows[c].status # "in_progress"
=============================================================================
