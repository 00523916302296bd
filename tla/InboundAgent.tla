---------------------------- MODULE InboundAgent ----------------------------
(***************************************************************************)
(* The agent of one inbound call: flow/agent.py with the direct answers,   *)
(* the escalation engine, the transfer tool and the memory behind it, under *)
(* the loop that speaks for it (pipelines/conversation.py, whose own tasks  *)
(* are TurnLoop's).  `respond' runs in a task of the loop, as its           *)
(* speculation or as its answer: the task is created in one step and begins *)
(* in a later one, waits at a tool or at the model, and can be cancelled    *)
(* before it has begun and wherever it waits.  Two may run side by side.    *)
(*                                                                         *)
(* What the caller says is one of                                          *)
(*   bye        a goodbye or a request to hang up                          *)
(*   emergency  a safety emergency          human   a request for a person *)
(*   nod        yes, and nothing else       kind    a kind of product      *)
(*   product    one product by its name     vague   a product, not named   *)
(*   advice     what to put on a crop       complaint                      *)
(*   chat       small talk: is this a machine, can you hear me             *)
(*   noise      nothing the rules or the vocabulary know                   *)
(***************************************************************************)
EXTENDS Integers, Sequences, SequencesExt, FiniteSetsExt

CONSTANTS
    Utterances,    \* of those above, what this caller says
    MaxTurns,      \* calls of respond, begun or not (bound)
    MaxSentences   \* sentences of a streamed answer (bound)

ASSUME BoundsPositive == MaxTurns \in Nat \ {0} /\ MaxSentences \in Nat \ {0}

HandoverAt == 3
Turns == 1..MaxTurns
Intents == {"stock", "advice", "complaint", "chat", "unknown"}
IntentOf(u) == CASE u \in {"kind", "product", "vague"} -> "stock"
                 [] u \in {"advice", "complaint", "chat"} -> u
                 [] OTHER -> "unknown"

VARIABLES
    early,       \* the recogniser gives an early signal, so the loop speculates
    memory,      \* ConversationMemory.turns
    turnOpen,    \* _turn_open
    focus,       \* ConversationFocus
    attempts,    \* the intents with an unresolved attempt, flow.intent_attempts
    lastTurn,    \* last_turn: its turn, whether it escalates, what the transfer
                 \* tool made of it, the direct layer's question and its progress
    callOver,    \* call_over
    resp,        \* each respond by the number of its turn: the words it is to,
                 \* where it waits, the sentences it has given, whether it is a
                 \* second attempt at one intent
    prepared,    \* _speculation: its turn, or 0
    line,        \* the loop: the turn that is answered, what is on the air, the
                 \* sentences heard, whether a speculation was taken for it, and
                 \* a cut not yet followed by a turn, _cut_pending
    rest,        \* the turn whose unheard sentences may be resumed, or 0
    turn,        \* calls of respond so far
    committed,   \* history: the turns the loop answered
    mixed,       \* history: the memory was edited by others since the speculation
                 \* began
    strays,      \* history: speculations withdrawn before they began, or mixed
    asked,       \* history: the last question heard, how often in a row, and
                 \* how many in a row were put to words that settled nothing
    over         \* the call is over for the agent

agent == <<memory, turnOpen, focus, attempts, lastTurn, callOver>>
loop == <<line, rest, committed, asked, over>>
vars == <<early, agent, resp, prepared, loop, turn, mixed, strays>>

-----------------------------------------------------------------------------
(* Memory                                                                  *)

Entry(who, n) == [who |-> who, says |-> {n}, cut |-> FALSE]
Add(m, who, n) == Append(m, Entry(who, n))

AgentEntries(m) == {i \in DOMAIN m : m[i].who = "agent"}

\* Mutant: everything from the unheard reply on is forgotten.
MarkAllInterrupted(m, heard) ==
    IF AgentEntries(m) = {} THEN m
    ELSE LET i == Max(AgentEntries(m))
         IN  IF heard = 0 THEN SubSeq(m, 1, i - 1) ELSE [m EXCEPT ![i].cut = TRUE]

\* mark_last_interrupted: cut the last assistant turn down, or forget it.
MarkLastInterrupted(m, heard) ==
    IF AgentEntries(m) = {} THEN m
    ELSE LET i == Max(AgentEntries(m))
         IN  IF heard = 0 THEN RemoveAt(m, i) ELSE [m EXCEPT ![i].cut = TRUE]

\* extend_last_assistant: the rest of an interrupted reply was spoken after all.
ExtendLastAssistant(m, n) ==
    IF AgentEntries(m) = {} THEN Add(m, "agent", n)
    ELSE LET i == Max(AgentEntries(m))
         IN  [m EXCEPT ![i].cut = FALSE, ![i].says = @ \cup {n}]

\* drop_last_user.
DropLastUser(m) == IF m # <<>> /\ Last(m).who = "user" THEN Front(m) ELSE m

\* discard_pending.
Pending == IF turnOpen THEN DropLastUser(memory) ELSE memory

-----------------------------------------------------------------------------
(* The direct layer                                                        *)

\* A reply of the direct layer: what it asks back, if anything.
Reply == [asks |-> "nothing", resolved |-> FALSE, offers |-> FALSE, handover |-> FALSE]

\* note_user_turn: a new kind is a new subject.
NoteUserTurn(f, u) ==
    IF u = "kind" THEN [f EXCEPT !.category = TRUE, !.product = @ /\ f.category] ELSE f

\* note_product, before the lookup.
NoteProduct(f) == [f EXCEPT !.product = TRUE, !.choices = FALSE, !.misses = 0]

NamesSomething(u) == u \in {"kind", "product"}

\* Words after which the misses are counted anew: they name something, or they
\* are chat, which is always answered.
Settles(u) == NamesSomething(u) \/ u = "chat"

\* Mutant: one more way of asking before a person is called.
ChangeTackLate(f, asks) ==
    CASE f.misses <= 1 -> [Reply EXCEPT !.asks = asks]
      [] f.misses > HandoverAt -> [Reply EXCEPT !.handover = TRUE]
      [] OTHER -> [Reply EXCEPT !.asks = "kinds", !.offers = TRUE]

\* _change_tack: ask, ask differently with the offer of a person, hand over.
ChangeTack(f, asks) ==
    CASE f.misses <= 1 -> [Reply EXCEPT !.asks = asks]
      [] f.misses >= HandoverAt -> [Reply EXCEPT !.handover = TRUE]
      [] f.misses = 2 /\ f.choices -> [Reply EXCEPT !.asks = "pick"]
      [] f.misses = 2 /\ ~f.choices /\ f.category ->
            [Reply EXCEPT !.asks = "listing", !.offers = TRUE]
      [] OTHER -> [Reply EXCEPT !.asks = "kinds", !.offers = TRUE]

\* _settle: words that name something start the count of misses again, and a
\* resolved reply ends it.
Missed(f, u) == [f EXCEPT !.misses = 1 + IF NamesSomething(u) THEN 0 ELSE @]
Settled(f) == [f EXCEPT !.misses = 0, !.choices = FALSE]

\* What a turn that looks one product up looks up: the named, or the one in hand.
LooksUp(f, u) == u = "product" \/ (u = "vague" /\ f.product)

\* What the direct layer asks of words that settle on no product, or nothing:
\* of noise, only when the model would be the third to ask.
Question(f, u) ==
    CASE u = "kind" -> "choice"
      [] u = "vague" /\ ~f.product -> "which"
      [] u \in {"noise", "nod"} /\ f.misses >= HandoverAt - 1 -> "which"
      [] OTHER -> "nothing"

-----------------------------------------------------------------------------
(* Escalation                                                              *)

\* _close's rule, once: a call that is over is not closed again.
ClosesOn(u) == u = "bye" /\ ~callOver

\* The immediate triggers, `yes' to the offer of a person among them.
AsksForPerson(f, u) == u = "human" \/ (u = "nod" /\ f.offered)

\* The conditional triggers; on the phone neither confidence nor sentiment is fed.
Conditional(r) == r.words = "complaint" \/ r.again

\* ToolRegistry.execute around TransferToHuman.run: a safety emergency overrides
\* the cap and the hours, an empty or busy chain is a commitment to call back,
\* and a tool that fails or times out twice is a result with no data.
TransferTool == {"transfer", "callback", "failed"}

Turn(n, escalates, hand) ==
    [n |-> n, escalates |-> escalates, hand |-> hand, asks |-> "nothing", settles |-> TRUE]

NoTurn == [Turn(0, FALSE, "none") EXCEPT !.settles = FALSE]
Off == [words |-> "noise", pc |-> "off", out |-> 0, again |-> FALSE]
Created(u) == [Off EXCEPT !.words = u, !.pc = "created"]
NoLine == [n |-> 0, pc |-> "listening", heard |-> 0, taken |-> FALSE, cut |-> FALSE]

-----------------------------------------------------------------------------
Init ==
    /\ early \in BOOLEAN
    /\ memory = <<>> /\ turnOpen = FALSE
    /\ focus = [misses |-> 0, choices |-> FALSE, product |-> FALSE,
                category |-> FALSE, offered |-> FALSE]
    /\ attempts = {}
    /\ lastTurn = NoTurn
    /\ callOver = FALSE
    /\ resp = [n \in Turns |-> Off]
    /\ prepared = 0
    /\ line = NoLine
    /\ rest = 0 /\ turn = 0
    /\ committed = {} /\ mixed = FALSE /\ strays = 0
    /\ asked = [q |-> "nothing", times |-> 0, blank |-> 0]
    /\ over = FALSE

Live == ~over

\* respond waits at pc, or is done, having given so many sentences.
Waits(n, pc) == resp' = [resp EXCEPT ![n].pc = pc]
Gives(n, out) == resp' = [resp EXCEPT ![n].pc = "done", ![n].out = out]

\* Whether it is the second attempt at its intent is read on the way to the model.
GoesOn(n, pc) ==
    resp' = [resp EXCEPT ![n].pc = pc, ![n].again = IntentOf(resp[n].words) \in attempts]

\* _answer_directly's book-keeping of a reply, and _handover_turn's first half.
Directly(n, m, f, reply) ==
    LET u == resp[n].words
    IN  /\ turnOpen' = FALSE
        /\ attempts' = IF reply.resolved THEN attempts \ {IntentOf(u)}
                       ELSE attempts \cup {IntentOf(u)}
        /\ focus' = [f EXCEPT !.offered = reply.offers,
                              !.choices = @ \/ reply.asks \in {"choice", "listing"}]
        /\ IF reply.handover
           THEN /\ Waits(n, "handing")
                /\ memory' = m /\ UNCHANGED lastTurn
           ELSE /\ Gives(n, 1)
                /\ memory' = Add(m, "agent", n)
                /\ lastTurn' = [Turn(n, FALSE, "none") EXCEPT
                                   !.asks = reply.asks, !.settles = Settles(u)]

\* respond's first step, up to its first wait.  A speculation begins on its own,
\* an answer when the loop has begun to speak.
Begin(n) ==
    LET u == resp[n].words
        g == NoteUserTurn(focus, u)
        mu == Add(memory, "user", n)
    IN  /\ Live /\ resp[n].pc = "created"
        /\ n = line.n => line.taken \/ line.pc = "answering"
        /\ IF ClosesOn(u)
           THEN /\ memory' = Add(mu, "agent", n)
                /\ callOver' = TRUE
                /\ lastTurn' = Turn(n, FALSE, "none")
                /\ Gives(n, 1)
                /\ UNCHANGED <<turnOpen, focus, attempts>>
           ELSE /\ UNCHANGED callOver
                /\ IF u = "chat"
                   THEN \E offers \in BOOLEAN :
                          Directly(n, mu, Settled(g),
                                   [Reply EXCEPT !.resolved = TRUE, !.offers = offers])
                   ELSE IF Question(g, u) # "nothing" /\ ~AsksForPerson(g, u)
                   THEN LET h == Missed(g, u)
                            k == IF u = "kind" THEN [h EXCEPT !.choices = TRUE] ELSE h
                        IN  Directly(n, mu, k, ChangeTack(k, Question(g, u)))
                   ELSE /\ turnOpen' = TRUE
                        /\ UNCHANGED <<attempts, lastTurn>>
                        /\ memory' = IF u = "emergency" THEN Add(mu, "agent", n) ELSE mu
                        /\ focus' = IF LooksUp(g, u) THEN NoteProduct(g)
                                    ELSE IF u = "emergency" THEN g
                                    ELSE [g EXCEPT !.offered = FALSE]
                        /\ GoesOn(n, CASE u = "emergency" -> "safety"
                                       [] AsksForPerson(g, u) -> "joining"
                                       [] LooksUp(g, u) -> "lookup"
                                       [] u = "advice" -> "tools"
                                       [] OTHER -> "stream")
        /\ UNCHANGED <<early, prepared, loop, turn>>

-----------------------------------------------------------------------------
(* respond, from one wait to the next                                      *)

\* The availability of the product: an answer, or the model's turn after all.
Lookup(n) ==
    /\ Live /\ resp[n].pc = "lookup"
    /\ \/ \E restricted \in BOOLEAN :
             Directly(n, memory, Settled(focus),
                      [Reply EXCEPT !.resolved = TRUE, !.offers = restricted])
       \/ /\ focus' = [focus EXCEPT !.offered = FALSE]
          /\ GoesOn(n, "tools")
          /\ UNCHANGED <<memory, turnOpen, attempts, lastTurn>>
    /\ UNCHANGED <<early, callOver, prepared, loop, turn>>

\* The turns that are handed over by a line of the agent's own: the transfer
\* tool answers.  Only the direct layer and the refusal to advise close the turn.
Join(n) ==
    /\ Live /\ resp[n].pc \in {"safety", "joining", "handing", "honest"}
    /\ \E hand \in TransferTool : lastTurn' = Turn(n, TRUE, hand)
    /\ memory' = IF resp[n].pc = "safety" THEN memory ELSE Add(memory, "agent", n)
    /\ turnOpen' = (turnOpen /\ resp[n].pc # "honest")
    /\ focus' = IF resp[n].pc = "handing" THEN Settled(focus) ELSE focus
    /\ attempts' = IF resp[n].pc = "honest" THEN attempts \cup {"advice"} ELSE attempts
    /\ Gives(n, 1)
    /\ UNCHANGED <<early, callOver, prepared, loop, turn>>

\* The opening tools.  Advice with nothing approved is refused: the crop is
\* asked for, or the caller is handed to a person.
Tools(n) ==
    /\ Live /\ resp[n].pc = "tools"
    /\ \/ /\ resp[n].words = "advice"
          /\ Waits(n, "honest")
          /\ UNCHANGED <<memory, turnOpen, attempts, lastTurn>>
       \/ /\ resp[n].words = "advice"
          /\ memory' = Add(memory, "agent", n)
          /\ turnOpen' = FALSE
          /\ attempts' = attempts \cup {"advice"}
          /\ lastTurn' = Turn(n, FALSE, "none")
          /\ Gives(n, 1)
       \/ \* dosage answers are generated whole, the rest is streamed
          /\ \E pc \in {"stream", "missing"} :
                Waits(n, IF resp[n].words = "advice" THEN "whole" ELSE pc)
          /\ UNCHANGED <<memory, turnOpen, attempts, lastTurn>>
    /\ UNCHANGED <<early, focus, callOver, prepared, loop, turn>>

\* _finish: the only end of a generated turn.  Its escalations ask no tool.
Finish(n, exhausted, out) ==
    LET u == resp[n].words
        escalates == exhausted \/ Conditional(resp[n]) \/ resp[n].pc = "missing"
        resolved == ~escalates /\ u \in {"advice", "product", "vague"}
    IN  /\ memory' = Add(memory, "agent", n)
        /\ turnOpen' = FALSE
        /\ attempts' = IF resolved THEN attempts \ {IntentOf(u)}
                       ELSE attempts \cup {IntentOf(u)}
        /\ \/ callOver' = callOver
           \/ ~escalates /\ callOver' = TRUE       \* the model took leave
        /\ lastTurn' = Turn(n, escalates, "none")
        /\ Gives(n, out)

\* _stream_validated: the next sentence passes, or the stream ends, runs long,
\* breaks or is refused; with nothing out yet the whole answer is tried again.
Stream(n) ==
    /\ Live /\ resp[n].pc \in {"stream", "missing"}
    /\ \/ /\ resp[n].out < MaxSentences
          /\ resp' = [resp EXCEPT ![n].out = @ + 1]
          /\ UNCHANGED <<memory, turnOpen, attempts, lastTurn, callOver>>
       \/ /\ resp[n].out = 0
          /\ Waits(n, "whole")
          /\ UNCHANGED <<memory, turnOpen, attempts, lastTurn, callOver>>
       \/ /\ resp[n].out > 0
          /\ \/ Finish(n, FALSE, resp[n].out)
             \/ Finish(n, TRUE, resp[n].out)       \* the stream broke
             \/ Finish(n, TRUE, resp[n].out + 1)   \* refused: the fallback line
    /\ UNCHANGED <<early, focus, prepared, loop, turn>>

\* _generate: two attempts, then the fallback line.
Whole(n) ==
    /\ Live /\ resp[n].pc = "whole"
    /\ \E exhausted \in BOOLEAN : Finish(n, exhausted, 1)
    /\ UNCHANGED <<early, focus, prepared, loop, turn>>

-----------------------------------------------------------------------------
(* The loop                                                                *)

Listening == Live /\ line.pc = "listening"

\* A nod after a cut is nothing to answer.
Answerable(u) == ~(line.cut /\ u = "nod")

\* _begin_speculation: a task is created.  The loop may have committed the turn
\* before, if the agent has not begun to speak.
Speculate(u) ==
    /\ early /\ Live /\ line.pc # "answering" /\ prepared = 0
    /\ Answerable(u)
    /\ turn < MaxTurns /\ turn' = turn + 1
    /\ prepared' = turn'
    /\ resp' = [resp EXCEPT ![turn'] = Created(u)]
    /\ UNCHANGED <<early, agent, loop>>

\* The speculation is cancelled, begun or not, and discard_pending called.
Withdrawn(runs) ==
    /\ memory' = Pending /\ turnOpen' = FALSE
    /\ prepared' = 0
    /\ resp' = [runs EXCEPT ![prepared] = Off]

\* TURN_RESUMED, a nod, a short word over the agent's: _discard_speculation.
Discard ==
    /\ Live /\ prepared # 0
    /\ Withdrawn(resp)
    /\ UNCHANGED <<early, focus, attempts, lastTurn, callOver, loop, turn>>

\* The loop creates the answer's task, which is to speak for the turn n.
Commits(n, taken) ==
    /\ line' = [NoLine EXCEPT !.n = n, !.pc = "starting", !.taken = taken]
    /\ rest' = 0
    /\ committed' = committed \cup {n}

\* _commit: the speculation for these very words is taken over.
CommitTaken ==
    /\ Listening /\ prepared # 0 /\ Answerable(resp[prepared].words)
    /\ Commits(prepared, TRUE)
    /\ prepared' = 0
    /\ UNCHANGED <<early, agent, resp, asked, over, turn>>

\* _commit with no speculation, or one for other words, which is withdrawn.
CommitAsked(u) ==
    /\ Listening /\ Answerable(u)
    /\ turn < MaxTurns /\ turn' = turn + 1
    /\ LET runs == [resp EXCEPT ![turn'] = Created(u)]
       IN  IF prepared # 0 THEN Withdrawn(runs)
           ELSE resp' = runs /\ UNCHANGED <<memory, turnOpen, prepared>>
    /\ Commits(turn', FALSE)
    /\ UNCHANGED <<early, focus, attempts, lastTurn, callOver, asked, over>>

\* The answer's task runs: _begin_playback.
Speak ==
    /\ Live /\ line.pc = "starting"
    /\ line' = [line EXCEPT !.pc = "answering"]
    /\ UNCHANGED <<early, agent, resp, prepared, rest, committed, asked, over, turn>>

\* A nod after a cut, or a quiet room: the rest, if any, is spoken, and
\* note_resumed.  Only the nod is a turn.
Resume ==
    /\ Listening /\ line.cut /\ prepared = 0
    /\ memory' = IF rest = 0 THEN memory ELSE ExtendLastAssistant(memory, rest)
    /\ rest' = 0
    /\ line' \in {line, NoLine}
    /\ UNCHANGED <<early, turnOpen, focus, attempts, lastTurn, callOver, resp, prepared,
                   committed, asked, over, turn>>

\* A sentence has been heard.
Hear ==
    /\ Live /\ line.pc = "answering" /\ ~line.cut /\ line.heard < resp[line.n].out
    /\ line' = [line EXCEPT !.heard = @ + 1]
    /\ UNCHANGED <<early, agent, resp, prepared, rest, committed, asked, over, turn>>

\* The caller cuts the answer short; the model is read on for a while.
Interrupt ==
    /\ Live /\ line.pc = "answering" /\ ~line.cut
    /\ resp[line.n].pc # "done" \/ line.heard < resp[line.n].out
    /\ line' = [line EXCEPT !.cut = TRUE]
    /\ UNCHANGED <<early, agent, resp, prepared, rest, committed, asked, over, turn>>

\* The hand-over of last_turn, whichever turn that is.
PendingTransfer == lastTurn.hand = "transfer"

\* The question the caller has now heard.
Heard ==
    IF lastTurn.n # line.n \/ lastTurn.asks = "nothing"
    THEN [asked EXCEPT !.q = "nothing", !.times = 0,
                       !.blank = IF lastTurn.settles \/ lastTurn.escalates THEN 0 ELSE @]
    ELSE [q |-> lastTurn.asks,
          times |-> IF lastTurn.asks = asked.q THEN asked.times + 1 ELSE 1,
          blank |-> IF lastTurn.settles THEN 0 ELSE asked.blank + 1]

\* A question cut short is not counted; what it answered, or whom it was handed
\* over to, still ends the row.
CutShort ==
    IF Settles(resp[line.n].words) \/ (lastTurn.n = line.n /\ lastTurn.escalates)
    THEN [asked EXCEPT !.blank = 0] ELSE asked

\* The end of _stream_answer, _answer's two last lines after it: everything was
\* heard, or the cut answer was drained, or it was given up with a sentence
\* unheard.  A speculation that was taken is not cancelled with it.
EndAnswer ==
    LET r == resp[line.n]
    IN  /\ Live /\ line.pc = "answering"
        /\ \/ r.pc = "done" /\ (line.cut \/ line.heard = r.out)
           \/ line.cut /\ line.heard < r.out
        /\ memory' = IF line.cut THEN MarkLastInterrupted(memory, line.heard) ELSE memory
        /\ rest' = IF line.cut /\ line.heard < r.out THEN line.n ELSE 0
        /\ asked' = IF early THEN asked ELSE IF line.cut THEN CutShort ELSE Heard
        /\ \/ over' = callOver
           \/ PendingTransfer /\ over' = TRUE
        /\ resp' = IF line.taken /\ r.pc # "done" THEN resp ELSE [resp EXCEPT ![line.n] = Off]
        /\ line' = [NoLine EXCEPT !.cut = line.cut]
        /\ UNCHANGED <<early, turnOpen, focus, attempts, lastTurn, callOver, prepared,
                       committed, turn>>

CallerActs ==
    \/ \E u \in Utterances : Speculate(u) \/ CommitAsked(u)
    \/ Discard \/ CommitTaken \/ Resume \/ Interrupt

Responds == \E n \in Turns : Begin(n) \/ Lookup(n) \/ Join(n) \/ Tools(n) \/ Stream(n) \/ Whole(n)

\* The histories of the speculation: what others did to the memory since it began,
\* and whether its withdrawal could reach a turn that is not its own.
Strays ==
    /\ mixed' = /\ prepared' # 0
                /\ \/ prepared = prepared' /\ mixed
                   \/ /\ memory' # memory /\ resp'[prepared'] = resp[prepared']
                      /\ resp[prepared'].pc # "created"
    /\ strays' = IF prepared # 0 /\ prepared' = 0 /\ prepared \notin committed'
                    /\ (mixed \/ resp[prepared].pc = "created")
                 THEN strays + 1 ELSE strays

Next == (CallerActs \/ Responds \/ Speak \/ Hear \/ EndAnswer) /\ Strays

Spec == Init /\ [][Next]_vars

-----------------------------------------------------------------------------
Pcs == {"off", "created", "lookup", "safety", "joining", "handing", "honest", "tools",
        "stream", "missing", "whole", "done"}
Questions == {"nothing", "which", "choice", "pick", "listing", "kinds"}

\* Type invariant.
TypeOK ==
    /\ {early, turnOpen, callOver, over, mixed} \subseteq BOOLEAN
    /\ \A i \in DOMAIN memory :
          memory[i] \in [who : {"user", "agent"}, says : SUBSET Turns, cut : BOOLEAN]
    /\ focus \in [misses : 0..MaxTurns, choices : BOOLEAN, product : BOOLEAN,
                  category : BOOLEAN, offered : BOOLEAN]
    /\ attempts \subseteq Intents
    /\ lastTurn \in [n : 0..MaxTurns, escalates : BOOLEAN, asks : Questions,
                     hand : TransferTool \cup {"none"}, settles : BOOLEAN]
    /\ resp \in [Turns -> [words : Utterances \cup {"noise"}, pc : Pcs,
                           out : 0..MaxSentences + 1, again : BOOLEAN]]
    /\ line \in [n : 0..MaxTurns, pc : {"listening", "starting", "answering"},
                 heard : 0..MaxSentences + 1, taken : BOOLEAN, cut : BOOLEAN]
    /\ {prepared, rest, turn, strays} \subseteq 0..MaxTurns
    /\ committed \subseteq Turns

\* The caller's turns that the memory has.
TurnsIn(m) == UNION {m[i].says : i \in {j \in DOMAIN m : m[j].who = "user"}}

\* The turns that the loop answered and the memory has lost.
Forgotten == {n \in committed : resp[n].pc # "created"} \ TurnsIn(memory)

\* A question that the loop has answered stays in the memory, whatever was cut
\* short, forgotten or withdrawn around it; but for one to each speculation that
\* was withdrawn before it had begun, or when others had edited the memory since.
QuestionsRemembered == Cardinality(Forgotten) <= strays

\* With a recogniser that gives no early signal, a caller whose words name nothing
\* and are not small talk is asked back at most twice in a row.
AskedTwiceAtMost == ~early => asked.blank < HandoverAt

\* (violated) A caller who heard the agent out and is to be handed over is joined
\* to a person or promised a call.
EscalationIsActedOn ==
    Listening /\ ~line.cut /\ prepared = 0 /\ lastTurn.escalates /\ lastTurn.n \in committed
        => lastTurn.hand # "none"

\* Not so: a withdrawn turn takes no other with it.  discard_pending drops the
\* last question whoever asked it.
NothingForgotten == Forgotten = {}

\* Not so: the memory has the caller's turns in the order they were asked.  A
\* speculation may begin before the answer to the turn before it.
AskedInOrder ==
    \A i, j \in DOMAIN memory :
        i < j /\ memory[i].who = "user" /\ memory[j].who = "user" =>
            \A m \in memory[i].says, n \in memory[j].says : m < n

\* Not so: the caller is joined to a person once they have heard of it.
JoinedAsAnswered == over /\ PendingTransfer => lastTurn.n \in committed

\* Not so: the same question is not put to the caller a third time.
NeverAThirdTime == asked.times < HandoverAt
=============================================================================
