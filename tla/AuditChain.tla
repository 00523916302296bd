----------------------------- MODULE AuditChain -----------------------------
(***************************************************************************)
(* The audit log (uaagro_db/audit.py): rows appended inside the            *)
(* transactions of the changes they describe, each with the hash of the    *)
(* row before it, and the hourly walk that verifies them                   *)
(* (worker/tasks.py).                                                      *)
(*                                                                         *)
(* Statements of a transaction see what is committed when they run, and    *)
(* what it wrote itself.  A row's hash is stood for by its chain_index,    *)
(* which no two rows share; the serialisation under the hash is left out.  *)
(***************************************************************************)
EXTENDS Integers, FiniteSets

CONSTANTS
    Writers,    \* transactions open at once
    None,
    MaxRows,    \* numbers the sequence gives (bound)
    BatchSize   \* rows per page of the walk

ASSUME NoneAssumption == None \notin Writers
ASSUME BatchAssumption == BatchSize \in Nat \ {0}

VARIABLES
    log,    \* committed rows of audit_log
    tx,     \* per writer: where append_audit is, what it read, its own rows
    lock,   \* the transaction that holds the advisory lock
    seq,    \* audit_log_chain_seq
    walk    \* the verifier

vars == <<log, tx, lock, seq, walk>>

Genesis == 0
Row(index, prev) == [index |-> index, prev |-> prev]
NoTx == [pc |-> "open", tail |-> Genesis, index |-> 0, rows |-> {}]
NoWalk == [pc |-> "idle", total |-> 0, previous |-> Genesis, checked |-> 0]

Init ==
    /\ log = {}
    /\ tx = [w \in Writers |-> NoTx]
    /\ lock = None
    /\ seq = 0
    /\ walk = NoWalk

\* ORDER BY chain_index DESC LIMIT 1: the hash of the last of some rows.
IsLatest(h, rows) ==
    \/ rows = {} /\ h = Genesis
    \/ \E r \in rows : r.index = h /\ \A s \in rows : s.index <= h

-----------------------------------------------------------------------------
(* append_audit, in a transaction of its caller                            *)

\* Mutant: the appends are not serialised.
NeedsNoLock(w) == TRUE

\* pg_advisory_xact_lock is had again by the one that has it.
MayLock(w) == lock \in {None, w}

Locks(w) ==
    /\ tx[w].pc = "open" /\ MayLock(w)
    /\ lock' = w
    /\ tx' = [tx EXCEPT ![w].pc = "locked"]
    /\ UNCHANGED <<log, seq, walk>>

ReadsTail(w) ==
    /\ tx[w].pc = "locked"
    /\ LET seen == log \cup tx[w].rows
       IN  \E h \in {Genesis} \cup {r.index : r \in seen} :
               /\ IsLatest(h, seen)
               /\ tx' = [tx EXCEPT ![w].pc = "read", ![w].tail = h]
    /\ UNCHANGED <<log, lock, seq, walk>>

\* nextval, which a rollback does not take back.
TakesNumber(w) ==
    /\ tx[w].pc = "read" /\ seq < MaxRows
    /\ seq' = seq + 1
    /\ tx' = [tx EXCEPT ![w].pc = "numbered", ![w].index = seq + 1]
    /\ UNCHANGED <<log, lock, walk>>

Inserts(w) ==
    /\ tx[w].pc = "numbered"
    /\ tx' = [tx EXCEPT ![w].pc = "open",
                        ![w].rows = @ \cup {Row(tx[w].index, tx[w].tail)}]
    /\ UNCHANGED <<log, lock, seq, walk>>

Released(w) == IF lock = w THEN None ELSE lock

\* The caller's transaction ends, and with it the lock.
Commits(w) ==
    /\ tx[w].pc = "open" /\ tx[w].rows # {}
    /\ log' = log \cup tx[w].rows
    /\ tx' = [tx EXCEPT ![w] = NoTx]
    /\ lock' = Released(w)
    /\ UNCHANGED <<seq, walk>>

\* Whatever failed in it, at any step.
RollsBack(w) ==
    /\ tx[w] # NoTx
    /\ tx' = [tx EXCEPT ![w] = NoTx]
    /\ lock' = Released(w)
    /\ UNCHANGED <<log, seq, walk>>

Appends(w) ==
    Locks(w) \/ ReadsTail(w) \/ TakesNumber(w) \/ Inserts(w) \/ Commits(w) \/ RollsBack(w)

-----------------------------------------------------------------------------
(* verify_chain                                                            *)

Counts ==
    /\ walk.pc = "idle" /\ log # {}
    /\ walk' = [NoWalk EXCEPT !.pc = "walking", !.total = Cardinality(log)]
    /\ UNCHANGED <<log, tx, lock, seq>>

Rank(r) == Cardinality({s \in log : s.index <= r.index})

\* Mutant: the page after a full one starts a row too late.
PageTooLate == {r \in log : Rank(r) \in (walk.checked + 2)..(walk.checked + BatchSize)}

\* OFFSET and LIMIT: the next rows in the order of their numbers, at the time.
Page == {r \in log : Rank(r) \in (walk.checked + 1)..(walk.checked + BatchSize)}

\* What the row says its predecessor is, is what the walk saw before it.
Follows(r, page) ==
    LET before == {s \in page : s.index < r.index}
    IN  IF before = {} THEN r.prev = walk.previous ELSE IsLatest(r.prev, before)

Walks ==
    /\ walk.pc = "walking" /\ walk.checked < walk.total
    /\ LET page == Page
       IN  IF \E r \in page : ~Follows(r, page)
           THEN walk' = [walk EXCEPT !.pc = "broken"]
           ELSE IF page = {}
           THEN walk' = [walk EXCEPT !.pc = "ok"]
           ELSE \E h \in {r.index : r \in page} :
                    /\ IsLatest(h, page)
                    /\ walk' = [walk EXCEPT !.previous = h,
                                            !.checked = @ + Cardinality(page)]
    /\ UNCHANGED <<log, tx, lock, seq>>

Concludes ==
    /\ walk.pc = "walking" /\ walk.checked >= walk.total
    /\ walk' = [walk EXCEPT !.pc = "ok"]
    /\ UNCHANGED <<log, tx, lock, seq>>

\* The next hour's.
Rests ==
    /\ walk.pc = "ok"
    /\ walk' = NoWalk
    /\ UNCHANGED <<log, tx, lock, seq>>

Next ==
    \/ \E w \in Writers : Appends(w)
    \/ Counts \/ Walks \/ Concludes \/ Rests

Spec == Init /\ [][Next]_vars

-----------------------------------------------------------------------------
(* Properties                                                              *)

\* Rows, transactions, the lock and the sequence hold values of their kinds.
WritersTypeOK ==
    /\ log \subseteq [index : Nat, prev : Nat]
    /\ tx \in [Writers -> [pc : {"open", "locked", "read", "numbered"}, tail : Nat,
                           index : Nat, rows : SUBSET [index : Nat, prev : Nat]]]
    /\ lock \in Writers \cup {None}
    /\ seq \in Nat

\* And so does the walk.
TypeOK ==
    /\ WritersTypeOK
    /\ walk \in [pc : {"idle", "walking", "ok", "broken"}, total : Nat,
                 previous : Nat, checked : Nat]

Chain(rows) == \A r \in rows : IsLatest(r.prev, {s \in rows : s.index < r.index})

\* The committed rows are one chain without a fork: each names the row that
\* comes before it, whichever transactions ran at once, and whichever rolled
\* back and left a gap in the numbers.
OneChain == Chain(log)

\* The walk, which reads page by page while rows are committed, reports no break
\* in a log nobody tampered with, and has seen every row there was when it
\* began when it reports that all is well.
WatchIsRight ==
    /\ walk.pc # "broken"
    /\ walk.pc = "ok" => walk.checked >= walk.total
=============================================================================
