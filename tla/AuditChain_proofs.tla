-------------------------- MODULE AuditChain_proofs -------------------------
(***************************************************************************)
(* Proofs that the audit log never forks, for any number of transactions,  *)
(* and that the hourly walk, which reads it page by page while it grows,   *)
(* finds it whole: what the walk has checked is always all the rows up to  *)
(* the one it saw last, and every row that is committed meanwhile comes    *)
(* after those.                                                            *)
(***************************************************************************)
EXTENDS AuditChain, FiniteSetTheorems, WellFoundedInduction, TLAPS

\* The rows there are for the transaction w: the committed ones and its own.
Seen(w) == log \cup tx[w].rows

\* Who appends, or has appended, holds the lock.
Serial == \A w \in Writers : tx[w].pc # "open" \/ tx[w].rows # {} => lock = w

\* Whatever the holder does next, its rows extend the chain: the hash it read
\* is that of the last row, and the number it was given is beyond all others.
Extends ==
    \A w \in Writers :
        /\ Chain(Seen(w))
        /\ \A r \in Seen(w) : r.index <= seq
        /\ tx[w].pc \in {"read", "numbered"} => IsLatest(tx[w].tail, Seen(w))
        /\ tx[w].pc = "numbered" =>
              tx[w].index <= seq /\ \A r \in Seen(w) : r.index < tx[w].index

IInv == WritersTypeOK /\ OneChain /\ Serial /\ Extends

\* A row beyond all others that names the last of them extends a chain.
LEMMA ChainGrows ==
    ASSUME NEW S \in SUBSET [index : Nat, prev : Nat], NEW i \in Nat, NEW h \in Nat,
           Chain(S), IsLatest(h, S), \A r \in S : r.index < i
    PROVE  Chain(S \cup {Row(i, h)})
<1> DEFINE new == Row(i, h)
           T == S \cup {new}
<1>1. new.index = i /\ new.prev = h
  BY DEF Row
<1> SUFFICES ASSUME NEW r \in T PROVE IsLatest(r.prev, {s \in T : s.index < r.index})
  BY DEF Chain
<1>2. CASE r \in S
  <2>1. {s \in T : s.index < r.index} = {s \in S : s.index < r.index}
    BY <1>1, <1>2
  <2> QED
    BY <1>2, <2>1 DEF Chain
<1>3. CASE r = new
  <2>1. {s \in T : s.index < r.index} = S
    BY <1>1, <1>3
  <2> QED
    BY <1>1, <1>3, <2>1
<1> QED
  BY <1>2, <1>3

LEMMA InitIInv == Init => IInv
<1> SUFFICES ASSUME Init PROVE IInv
  OBVIOUS
<1>1. WritersTypeOK
  BY DEF Init, WritersTypeOK, NoTx, Genesis
<1>2. OneChain
  BY DEF Init, OneChain, Chain
<1>3. Serial
  BY DEF Init, Serial, NoTx
<1>4. Extends
  BY DEF Init, Extends, Seen, NoTx, Chain
<1> QED
  BY <1>1, <1>2, <1>3, <1>4 DEF IInv

\* The walk only reads; a transaction's steps are taken one by one.
LEMMA StepIInv == IInv /\ [Next]_vars => IInv'
<1> SUFFICES ASSUME IInv, [Next]_vars PROVE IInv'
  OBVIOUS
<1> USE DEF IInv
<1>1. ASSUME NEW w \in Writers, Locks(w) PROVE IInv'
  <2>1. log' = log /\ seq' = seq /\ lock' = w /\ lock \in {None, w}
    BY <1>1 DEF Locks, MayLock
  <2>2. tx' = [tx EXCEPT ![w].pc = "locked"]
    BY <1>1 DEF Locks
  <2>3. WritersTypeOK'
    BY <2>1, <2>2 DEF WritersTypeOK
  <2>4. \A u \in Writers : Seen(u)' = Seen(u)
    BY <2>1, <2>2 DEF Seen, WritersTypeOK
  <2>5. Serial'
    <3> SUFFICES ASSUME NEW u \in Writers, u # w PROVE tx[u].pc = "open" /\ tx[u].rows = {}
      BY <2>1, <2>2 DEF Serial, WritersTypeOK
    <3> QED
      BY <2>1, NoneAssumption DEF Serial
  <2>6. Extends'
    BY <2>1, <2>2, <2>4 DEF Extends, WritersTypeOK, Chain, IsLatest
  <2> QED
    BY <2>1, <2>3, <2>5, <2>6 DEF OneChain, Chain, IsLatest
<1>2. ASSUME NEW w \in Writers, ReadsTail(w) PROVE IInv'
  <2>1. log' = log /\ seq' = seq /\ lock' = lock
    BY <1>2 DEF ReadsTail
  <2>2. PICK h \in {Genesis} \cup {r.index : r \in Seen(w)} :
            IsLatest(h, Seen(w)) /\ tx' = [tx EXCEPT ![w].pc = "read", ![w].tail = h]
    BY <1>2 DEF ReadsTail, Seen
  <2>3. h \in Nat
    BY <2>2 DEF Genesis, Seen, WritersTypeOK
  <2>4. WritersTypeOK'
    BY <2>1, <2>2, <2>3 DEF WritersTypeOK
  <2>5. \A u \in Writers : Seen(u)' = Seen(u)
    BY <2>1, <2>2 DEF Seen, WritersTypeOK
  <2>6. Serial'
    BY <1>2, <2>1, <2>2 DEF Serial, ReadsTail, WritersTypeOK
  <2>7. Extends'
    BY <2>1, <2>2, <2>5 DEF Extends, WritersTypeOK, Chain, IsLatest
  <2> QED
    BY <2>1, <2>4, <2>6, <2>7 DEF OneChain, Chain, IsLatest
<1>3. ASSUME NEW w \in Writers, TakesNumber(w) PROVE IInv'
  <2>1. /\ log' = log /\ seq' = seq + 1 /\ lock' = lock /\ tx[w].pc = "read"
        /\ tx' = [tx EXCEPT ![w].pc = "numbered", ![w].index = seq + 1]
    BY <1>3 DEF TakesNumber
  <2>2. WritersTypeOK'
    <3>1. seq + 1 \in Nat
      BY DEF WritersTypeOK
    <3> DEFINE next == seq + 1
    <3>2. seq' = next /\ next \in Nat /\ tx' = [tx EXCEPT ![w].pc = "numbered", ![w].index = next]
      BY <2>1, <3>1
    <3> HIDE DEF next
    <3> DEFINE moved == [tx[w] EXCEPT !.pc = "numbered", !.index = next]
    <3>3. moved \in [pc : {"open", "locked", "read", "numbered"}, tail : Nat,
                     index : Nat, rows : SUBSET [index : Nat, prev : Nat]]
      BY <3>2 DEF WritersTypeOK
    <3>4. tx' = [tx EXCEPT ![w] = moved]
      BY <3>2 DEF WritersTypeOK
    <3> HIDE DEF moved
    <3>5. tx' \in [Writers -> [pc : {"open", "locked", "read", "numbered"}, tail : Nat,
                               index : Nat, rows : SUBSET [index : Nat, prev : Nat]]]
      BY <3>3, <3>4 DEF WritersTypeOK
    <3> QED
      BY <2>1, <3>2, <3>5 DEF WritersTypeOK
  <2>3. \A u \in Writers : Seen(u)' = Seen(u)
    BY <2>1 DEF Seen, WritersTypeOK
  <2>4. Serial'
    BY <2>1 DEF Serial, WritersTypeOK
  <2>5. \A u \in Writers : \A r \in Seen(u) : r.index \in Nat /\ r.index <= seq
    <3>1. \A u \in Writers : \A r \in Seen(u) : r.index \in Nat
      BY DEF Seen, WritersTypeOK
    <3> QED
      BY <3>1 DEF Extends
  <2>6. Extends'
    <3> SUFFICES ASSUME NEW u \in Writers
                 PROVE  /\ Chain(Seen(u))'
                        /\ (\A r \in Seen(u) : r.index <= seq)'
                        /\ (tx[u].pc \in {"read", "numbered"} => IsLatest(tx[u].tail, Seen(u)))'
                        /\ (tx[u].pc = "numbered" =>
                               tx[u].index <= seq /\ \A r \in Seen(u) : r.index < tx[u].index)'
      BY DEF Extends
    <3>1. Chain(Seen(u))'
      BY <2>3 DEF Extends, Chain, IsLatest
    <3>2. (\A r \in Seen(u) : r.index <= seq)'
      BY <2>1, <2>3, <2>5 DEF WritersTypeOK
    <3>3. (tx[u].pc \in {"read", "numbered"} => IsLatest(tx[u].tail, Seen(u)))'
      BY <2>1, <2>3 DEF Extends, IsLatest, WritersTypeOK
    <3>4. (tx[u].pc = "numbered" =>
             tx[u].index <= seq /\ \A r \in Seen(u) : r.index < tx[u].index)'
      BY <2>1, <2>3, <2>5 DEF Extends, WritersTypeOK
    <3> QED
      BY <3>1, <3>2, <3>3, <3>4
  <2> QED
    BY <2>1, <2>2, <2>4, <2>6 DEF OneChain, Chain, IsLatest
<1>4. ASSUME NEW w \in Writers, Inserts(w) PROVE IInv'
  <2> DEFINE new == Row(tx[w].index, tx[w].tail)
  <2>1. /\ log' = log /\ seq' = seq /\ lock' = lock /\ tx[w].pc = "numbered"
        /\ tx' = [tx EXCEPT ![w].pc = "open", ![w].rows = @ \cup {new}]
    BY <1>4 DEF Inserts
  <2>2. new \in [index : Nat, prev : Nat] /\ new.index = tx[w].index
    BY DEF Row, WritersTypeOK
  <2>3. WritersTypeOK'
    BY <2>1, <2>2, ZenonT(30) DEF WritersTypeOK
  <2>4. Seen(w)' = Seen(w) \cup {new} /\ \A u \in Writers \ {w} : Seen(u)' = Seen(u)
    BY <2>1 DEF Seen, WritersTypeOK
  <2>5. Serial'
    BY <2>1 DEF Serial, WritersTypeOK
  <2>6. Chain(Seen(w) \cup {new})
    <3>1. Seen(w) \in SUBSET [index : Nat, prev : Nat]
      BY DEF Seen, WritersTypeOK
    <3>2. tx[w].index \in Nat /\ tx[w].tail \in Nat
      BY DEF WritersTypeOK
    <3>3. /\ Chain(Seen(w)) /\ IsLatest(tx[w].tail, Seen(w))
          /\ \A r \in Seen(w) : r.index < tx[w].index
      BY <2>1 DEF Extends
    <3> QED
      BY <3>1, <3>2, <3>3, ChainGrows
  <2>7. \A r \in Seen(w) \cup {new} : r.index <= seq
    BY <2>1, <2>2 DEF Extends
  <2>8. Extends'
    <3> SUFFICES ASSUME NEW u \in Writers
                 PROVE  /\ Chain(Seen(u)')
                        /\ \A r \in Seen(u)' : r.index <= seq
                        /\ tx'[u].pc \in {"read", "numbered"} => IsLatest(tx'[u].tail, Seen(u)')
                        /\ tx'[u].pc = "numbered" =>
                               tx'[u].index <= seq /\ \A r \in Seen(u)' : r.index < tx'[u].index
      BY <2>1 DEF Extends, Chain, IsLatest
    <3>1. CASE u = w
      BY <2>1, <2>4, <2>6, <2>7, <3>1 DEF WritersTypeOK
    <3>2. CASE u # w
      BY <2>1, <2>4, <3>2 DEF Extends, WritersTypeOK
    <3> QED
      BY <3>1, <3>2
  <2> QED
    BY <2>1, <2>3, <2>5, <2>8 DEF OneChain, Chain, IsLatest
<1>5. ASSUME NEW w \in Writers, Commits(w) PROVE IInv'
  <2>1. /\ log' = Seen(w) /\ seq' = seq /\ lock' = Released(w) /\ tx[w].rows # {}
        /\ tx' = [tx EXCEPT ![w] = NoTx]
    BY <1>5 DEF Commits, Seen
  <2>2. WritersTypeOK'
    BY <2>1 DEF WritersTypeOK, NoTx, Genesis, Released, Seen
  <2>3. lock = w /\ \A u \in Writers \ {w} : tx[u].pc = "open" /\ tx[u].rows = {}
    BY <2>1 DEF Serial
  <2>4. \A u \in Writers : tx'[u].pc = "open" /\ tx'[u].rows = {}
    BY <2>1, <2>3 DEF WritersTypeOK, NoTx
  <2>5. \A u \in Writers : Seen(u)' = Seen(w)
    BY <2>1, <2>4 DEF Seen
  <2>6. OneChain'
    BY <2>1 DEF OneChain, Extends, Chain, IsLatest
  <2>7. Extends'
    BY <2>1, <2>4, <2>5 DEF Extends, Chain, IsLatest
  <2> QED
    BY <2>2, <2>4, <2>6, <2>7 DEF Serial
<1>6. ASSUME NEW w \in Writers, RollsBack(w) PROVE IInv'
  <2>1. /\ log' = log /\ seq' = seq /\ lock' = Released(w)
        /\ tx' = [tx EXCEPT ![w] = NoTx]
    BY <1>6 DEF RollsBack
  <2>2. WritersTypeOK'
    BY <2>1 DEF WritersTypeOK, NoTx, Genesis, Released
  <2>3. tx'[w] = NoTx /\ \A u \in Writers \ {w} : tx'[u] = tx[u]
    BY <2>1 DEF WritersTypeOK
  <2>4. OneChain'
    BY <2>1 DEF OneChain, Chain, IsLatest
  <2>5. Serial'
    BY <2>1, <2>3 DEF Serial, NoTx, Released
  <2>6. Extends'
    <3> SUFFICES ASSUME NEW u \in Writers
                 PROVE  /\ Chain(Seen(u)')
                        /\ \A r \in Seen(u)' : r.index <= seq
                        /\ tx'[u].pc \in {"read", "numbered"} => IsLatest(tx'[u].tail, Seen(u)')
                        /\ tx'[u].pc = "numbered" =>
                               tx'[u].index <= seq /\ \A r \in Seen(u)' : r.index < tx'[u].index
      BY <2>1 DEF Extends, Chain, IsLatest
    <3>1. CASE u = w
      <4>1. Seen(u)' = log /\ tx'[u].pc = "open"
        BY <2>1, <2>3, <3>1 DEF Seen, NoTx
      <4>2. \A r \in log : r.index <= seq
        BY DEF Extends, Seen
      <4> QED
        BY <4>1, <4>2 DEF OneChain
    <3>2. CASE u # w
      <4>1. Seen(u)' = Seen(u) /\ tx'[u] = tx[u]
        BY <2>1, <2>3, <3>2 DEF Seen
      <4> QED
        BY <4>1 DEF Extends
    <3> QED
      BY <3>1, <3>2
  <2> QED
    BY <2>2, <2>4, <2>5, <2>6
<1>7. CASE UNCHANGED <<log, tx, lock, seq>>
  BY <1>7 DEF WritersTypeOK, OneChain, Serial, Extends, Seen, Chain, IsLatest
<1> QED
  BY <1>1, <1>2, <1>3, <1>4, <1>5, <1>6, <1>7
  DEF Next, Appends, Counts, Walks, Concludes, Rests, vars

\* Transactions append whatever they like at once, roll back and leave gaps: the
\* committed rows stay one chain.
THEOREM AuditNeverForks == Spec => []OneChain
<1>1. Init => IInv
  BY InitIInv
<1>2. IInv /\ [Next]_vars => IInv'
  BY StepIInv
<1>3. IInv => OneChain
  BY DEF IInv
<1> QED
  BY <1>1, <1>2, <1>3, PTL DEF Spec

-----------------------------------------------------------------------------
(* The walk                                                                *)

\* A set of natural numbers that is not empty has a least element.
LEMMA LeastNat ==
  ASSUME NEW T, T \subseteq Nat, T # {}
  PROVE  \E x \in T : \A y \in T : x <= y
<1> DEFINE R == OpToRel(<, Nat)
<1>1. IsWellFoundedOn(R, Nat)
  BY NatLessThanWellFounded
<1>2. \A a, b \in Nat : <<a, b>> \in R <=> a < b
  BY DEF OpToRel
<1> HIDE DEF R
<1>3. PICK x \in T : \A y \in T : ~ (<<y, x>> \in R)
  BY <1>1, WFMin
<1>4. \A y \in T : x <= y
  <2> TAKE y \in T
  <2>1. ~ (<<y, x>> \in R) BY <1>3
  <2>2. x \in Nat /\ y \in Nat OBVIOUS
  <2> QED BY <1>2, <2>1, <2>2
<1> QED BY <1>4

\* No two rows of some have one number, and all numbers are positive.
Numbered(rows) == /\ \A r, s \in rows : r.index = s.index => r = s
                  /\ \A r \in rows : r.index > 0

\* A transaction's own rows are finitely many, and come after all there are.
Appended ==
    \A w \in Writers :
        /\ IsFiniteSet(tx[w].rows) /\ Numbered(Seen(w))
        /\ \A r \in tx[w].rows, s \in log : s.index < r.index
        /\ tx[w].pc = "numbered" => tx[w].index > 0

\* The rows up to a number.
Upto(h) == {s \in log : s.index <= h}

\* The walk has checked the rows up to the one it saw last.
WalkInv ==
    /\ IsFiniteSet(log) /\ Numbered(log)
    /\ walk \in [pc : {"idle", "walking", "ok"}, total : Nat, previous : Nat, checked : Nat]
    /\ walk.pc = "walking" =>
          /\ walk.checked = Cardinality(Upto(walk.previous))
          /\ walk.previous = Genesis \/ \E r \in log : r.index = walk.previous
          /\ walk.total <= Cardinality(log)
    /\ walk.pc = "ok" => walk.checked >= walk.total

\* A later row has more rows up to it.
LEMMA RankGrows ==
  ASSUME IsFiniteSet(log), log \subseteq [index : Nat, prev : Nat], NEW a \in Nat, NEW b \in Nat, a <= b
  PROVE  /\ IsFiniteSet(Upto(a)) /\ Upto(a) \subseteq Upto(b) /\ Cardinality(Upto(a)) \in Nat
         /\ Cardinality(Upto(a)) <= Cardinality(Upto(b))
         /\ (\E s \in log : a < s.index /\ s.index <= b) => Cardinality(Upto(a)) < Cardinality(Upto(b))
<1>1. Upto(a) \subseteq log /\ Upto(b) \subseteq log BY DEF Upto
<1>2. IsFiniteSet(Upto(a)) /\ IsFiniteSet(Upto(b)) BY <1>1, FS_Subset
<1>3. Upto(a) \subseteq Upto(b) BY DEF Upto
<1>4. Cardinality(Upto(a)) \in Nat /\ Cardinality(Upto(b)) \in Nat
  BY <1>2, FS_CardinalityType
<1>5. Cardinality(Upto(a)) <= Cardinality(Upto(b))
      /\ (Cardinality(Upto(b)) = Cardinality(Upto(a)) => Upto(b) = Upto(a))
  BY <1>2, <1>3, FS_Subset
<1>6. (\E s \in log : a < s.index /\ s.index <= b) => Upto(a) # Upto(b)
  BY DEF Upto
<1> QED BY <1>2, <1>3, <1>4, <1>5, <1>6

\* What the page holds: the next rows, as many as fit.
LEMMA PageRows ==
  ASSUME IInv, WalkInv, walk.pc = "walking"
  PROVE  /\ \A r \in Page : r \in log /\ walk.previous < r.index
         /\ \A r \in Page : \A s \in log :
               walk.previous < s.index /\ s.index <= r.index => s \in Page
         /\ walk.checked < walk.total => Page # {}
<1> DEFINE P == walk.previous
           k == walk.checked
<1>1. /\ IsFiniteSet(log) /\ log \subseteq [index : Nat, prev : Nat] /\ P \in Nat
      /\ k \in Nat
      /\ k = Cardinality(Upto(P)) /\ BatchSize \in Nat \ {0}
  BY BatchAssumption DEF IInv, WritersTypeOK, WalkInv
<1>2. \A r \in log : Rank(r) = Cardinality(Upto(r.index)) /\ r.index \in Nat /\ Rank(r) \in Nat
  <2> TAKE r \in log
  <2>1. Rank(r) = Cardinality(Upto(r.index)) BY Zenon DEF Rank, Upto
  <2>2. r.index \in Nat BY <1>1
  <2> QED BY <1>1, <2>1, <2>2, RankGrows
<1>3. \A r \in log : r \in Page <=> k + 1 <= Rank(r) /\ Rank(r) <= k + BatchSize
  BY <1>1, <1>2 DEF Page
<1>4. \A s \in log : P < s.index => k + 1 <= Rank(s)
  <2> TAKE s \in log
  <2> HAVE P < s.index
  <2>1. Cardinality(Upto(P)) < Cardinality(Upto(s.index))
    BY <1>1, <1>2, RankGrows
  <2> QED BY <1>1, <1>2, <2>1
<1>5. \A r \in Page : r \in log /\ P < r.index
  <2> SUFFICES ASSUME NEW r \in Page PROVE P < r.index BY DEF Page
  <2>1. r \in log BY DEF Page
  <2>2. ~(r.index <= P)
    <3> SUFFICES ASSUME r.index <= P PROVE FALSE OBVIOUS
    <3>1. Cardinality(Upto(r.index)) <= k BY <1>1, <1>2, <2>1, RankGrows
    <3> QED BY <1>1, <1>2, <1>3, <2>1, <3>1
  <2> QED BY <1>1, <1>2, <2>1, <2>2
<1>6. \A r \in Page : \A s \in log : P < s.index /\ s.index <= r.index => s \in Page
  <2> SUFFICES ASSUME NEW r \in Page, NEW s \in log, P < s.index, s.index <= r.index PROVE s \in Page
    OBVIOUS
  <2>1. Rank(s) <= Rank(r) BY <1>1, <1>2, <1>5, RankGrows
  <2> QED BY <1>1, <1>2, <1>3, <1>4, <1>5, <2>1
<1>7. ASSUME k < walk.total PROVE Page # {}
  <2>1. walk.total <= Cardinality(log) /\ walk.total \in Nat BY DEF WalkInv
  <2>2. Cardinality(log) \in Nat BY <1>1, FS_CardinalityType
  <2>3. Upto(P) # log BY <1>1, <1>7, <2>1, <2>2
  <2> DEFINE later == {s.index : s \in log \ Upto(P)}
  <2>4. later \subseteq Nat /\ later # {} BY <1>2, <2>3 DEF Upto
  <2>5. PICK h \in later : \A y \in later : h <= y BY <2>4, LeastNat
  <2>6. PICK r \in log \ Upto(P) : r.index = h BY <2>5
  <2>7. r \in log /\ P < r.index BY <1>1, <1>2, <2>6 DEF Upto
  <2>8. Upto(r.index) = Upto(P) \cup {r}
    <3>1. \A s \in log : s.index <= r.index /\ ~(s.index <= P) => s = r
      <4> SUFFICES ASSUME NEW s \in log, s.index <= r.index, ~(s.index <= P) PROVE s = r
        OBVIOUS
      <4>1. s.index \in later BY DEF Upto
      <4>2. s.index = r.index BY <1>2, <2>4, <2>5, <2>6, <4>1
      <4> QED BY <2>7, <4>2 DEF WalkInv, Numbered
    <3>2. \A s \in log : s.index <= P => s.index <= r.index BY <1>1, <1>2, <2>7
    <3>3. Upto(r.index) \subseteq Upto(P) \cup {r}
      BY <3>1 DEF Upto
    <3>4. Upto(P) \subseteq Upto(r.index)
      BY <3>2 DEF Upto
    <3>5. r.index <= r.index BY <1>2, <2>7
    <3>6. r \in Upto(r.index)
      BY <2>7, <3>5 DEF Upto
    <3> QED BY <3>3, <3>4, <3>6
  <2>9. r \notin Upto(P) BY <2>6
  <2>10. IsFiniteSet(Upto(P)) BY <1>1, RankGrows
  <2>11. Rank(r) = k + 1 BY <1>1, <1>2, <2>7, <2>8, <2>9, <2>10, FS_AddElement
  <2> QED BY <1>1, <1>3, <2>7, <2>11
<1> QED BY <1>5, <1>6, <1>7

\* Every row of the page follows what the walk saw before it.
LEMMA PageFollows ==
  ASSUME IInv, WalkInv, walk.pc = "walking", NEW r \in Page
  PROVE  Follows(r, Page)
<1> DEFINE P == walk.previous
           before == {s \in Page : s.index < r.index}
           L == {s \in log : s.index < r.index}
<1>1. /\ log \subseteq [index : Nat, prev : Nat] /\ P \in Nat /\ r \in log /\ P < r.index
      /\ \A s \in Page : s \in log /\ P < s.index
      /\ \A s \in log : P < s.index /\ s.index <= r.index => s \in Page
  BY PageRows DEF IInv, WritersTypeOK, WalkInv
<1>2. IsLatest(r.prev, L) BY <1>1 DEF IInv, OneChain, Chain
<1>3. \A s \in log : s.index \in Nat BY <1>1
<1>4. CASE before = {}
  <2>1. \A s \in L : s.index <= P
    <3> SUFFICES ASSUME NEW s \in L, ~(s.index <= P) PROVE FALSE OBVIOUS
    <3>1. s \in Page BY <1>1, <1>3
    <3> QED BY <1>4, <3>1
  <2>2. r.prev = P
    <3>1. CASE \E p \in log : p.index = P
      <4>1. PICK p \in log : p.index = P BY <3>1
      <4>2. p \in L BY <1>1, <4>1
      <4>3. PICK q \in L : q.index = r.prev /\ \A s \in L : s.index <= r.prev
        BY <1>2, <4>2 DEF IsLatest
      <4>4. q.index <= P /\ p.index <= q.index BY <2>1, <4>2, <4>3
      <4> QED BY <1>1, <1>3, <4>1, <4>3, <4>4
    <3>2. CASE P = Genesis
      <4>1. L = {} BY <1>3, <2>1, <3>2 DEF WalkInv, Numbered, Genesis
      <4> QED BY <1>2, <3>2, <4>1 DEF IsLatest
    <3> QED BY <3>1, <3>2 DEF WalkInv
  <2> QED BY <1>4, <2>2 DEF Follows
<1>5. CASE before # {}
  <2>1. PICK b \in before : TRUE BY <1>5
  <2>2. b \in L BY <1>1, <2>1
  <2>3. PICK q \in L : q.index = r.prev /\ \A s \in L : s.index <= r.prev
    BY <1>2, <2>2 DEF IsLatest
  <2>4. b.index <= q.index /\ q.index < r.index BY <2>2, <2>3
  <2>5. q \in Page BY <1>1, <1>3, <2>1, <2>2, <2>3, <2>4
  <2>6. IsLatest(r.prev, before) BY <1>1, <2>3, <2>4, <2>5 DEF IsLatest
  <2> QED BY <1>5, <2>6 DEF Follows
<1> QED BY <1>4, <1>5

\* A page that is walked is the next stretch of the log, with nothing between.
LEMMA WalkTurnsPage ==
  ASSUME IInv, WalkInv, Walks
  PROVE  WalkInv'
<1> DEFINE P == walk.previous
           k == walk.checked
<1>1. /\ walk.pc = "walking" /\ k < walk.total /\ UNCHANGED log
      /\ log \subseteq [index : Nat, prev : Nat] /\ IsFiniteSet(log) /\ P \in Nat
      /\ k \in Nat
      /\ k = Cardinality(Upto(P))
      /\ walk \in [pc : {"idle", "walking", "ok"}, total : Nat, previous : Nat, checked : Nat]
  BY DEF IInv, WritersTypeOK, WalkInv, Walks
<1>2. Page # {} /\ ~ \E r \in Page : ~Follows(r, Page)
  BY <1>1, PageRows, PageFollows
<1>3. PICK h \in {r.index : r \in Page} :
         /\ IsLatest(h, Page)
         /\ walk' = [walk EXCEPT !.previous = h, !.checked = k + Cardinality(Page)]
  BY <1>2 DEF Walks
<1>4. PICK q \in Page : q.index = h BY <1>3
<1>5. h \in Nat /\ q \in log /\ P < h
  BY <1>1, <1>4, PageRows
<1>6. \A s \in Page : s.index <= h BY <1>2, <1>3 DEF IsLatest
<1>7. Upto(h) = Upto(P) \cup Page
  <2>1. \A s \in log : s.index \in Nat BY <1>1
  <2>2. \A s \in log : s.index <= h /\ ~(s.index <= P) => s \in Page
    BY <1>1, <1>4, <1>5, <2>1, PageRows
  <2>3. \A s \in log : s.index <= P => s.index <= h BY <1>1, <1>5, <2>1
  <2>4. Page \subseteq log BY <1>1, PageRows
  <2> QED BY <1>6, <2>2, <2>3, <2>4 DEF Upto
<1>8. Upto(P) \cap Page = {}
  <2>1. \A s \in log : s.index \in Nat BY <1>1
  <2> QED BY <1>1, <2>1, PageRows DEF Upto
<1>9. IsFiniteSet(Upto(P)) /\ IsFiniteSet(Page)
  <2>1. Page \subseteq log BY <1>1, PageRows
  <2> QED BY <1>1, <2>1, RankGrows, FS_Subset
<1>10. Cardinality(Upto(h)) = k + Cardinality(Page) /\ Cardinality(Page) \in Nat
  <2>1. Cardinality(Upto(P) \cap Page) = 0 BY <1>8, FS_EmptySet
  <2>2. Cardinality(Upto(P) \cup Page) = Cardinality(Upto(P)) + Cardinality(Page)
                                          - Cardinality(Upto(P) \cap Page)
    BY <1>9, FS_Union
  <2>3. Cardinality(Page) \in Nat BY <1>9, FS_CardinalityType
  <2> QED BY <1>1, <1>7, <2>1, <2>2, <2>3
<1>11. k + Cardinality(Page) \in Nat BY <1>1, <1>10
<1> DEFINE n == k + Cardinality(Page)
<1>12. n \in Nat /\ walk' = [walk EXCEPT !.previous = h, !.checked = n] /\ Cardinality(Upto(h)) = n
  BY <1>3, <1>10, <1>11
<1>13. walk.total <= Cardinality(log) BY <1>1 DEF WalkInv
<1> HIDE DEF n
<1>14. /\ walk' \in [pc : {"idle", "walking", "ok"}, total : Nat, previous : Nat, checked : Nat]
       /\ walk'.pc = "walking" /\ walk'.total = walk.total /\ walk'.previous = h
       /\ walk'.checked = n
  BY <1>1, <1>5, <1>12
<1>15. Upto(h)' = Upto(h) BY <1>1 DEF Upto
<1> QED BY <1>1, <1>4, <1>5, <1>12, <1>13, <1>14, <1>15 DEF WalkInv, Numbered, Upto

\* The rows that a transaction commits come after the one the walk saw last.
LEMMA WalkUndisturbed ==
  ASSUME IInv, WalkInv, Appended, NEW w \in Writers, Commits(w)
  PROVE  WalkInv'
<1>1. /\ log' = log \cup tx[w].rows /\ UNCHANGED walk /\ log' = Seen(w)
      /\ log \subseteq [index : Nat, prev : Nat]
      /\ tx[w].rows \subseteq [index : Nat, prev : Nat]
      /\ IsFiniteSet(log) /\ IsFiniteSet(tx[w].rows) /\ Numbered(Seen(w))
      /\ \A r \in tx[w].rows, s \in log : s.index < r.index
  BY DEF IInv, WritersTypeOK, WalkInv, Appended, Commits, Seen
<1>2. IsFiniteSet(log') BY <1>1, FS_Union
<1>3. Numbered(log') BY <1>1 DEF Numbered
<1>4. Cardinality(log) <= Cardinality(log') /\ Cardinality(log) \in Nat /\ Cardinality(log') \in Nat
  BY <1>1, <1>2, FS_Subset, FS_CardinalityType
<1>5. ASSUME walk.pc = "walking" PROVE Upto(walk.previous)' = Upto(walk.previous)
  <2>1. \A r \in tx[w].rows : ~(r.index <= walk.previous)
    <3> SUFFICES ASSUME NEW r \in tx[w].rows PROVE ~(r.index <= walk.previous) OBVIOUS
    <3>1. CASE walk.previous = Genesis
      BY <1>1, <3>1 DEF Genesis, Numbered, Seen
    <3>2. CASE \E s \in log : s.index = walk.previous
      BY <1>1, <3>2
    <3> QED BY <1>5, <3>1, <3>2 DEF WalkInv
  <2> QED BY <1>1, <2>1 DEF Upto
<1> QED BY <1>1, <1>2, <1>3, <1>4, <1>5 DEF WalkInv

\* A transaction numbers its rows beyond all others, and alone holds the lock.
LEMMA AppendedStep == IInv /\ Appended /\ IsFiniteSet(log) /\ Numbered(log) /\ [Next]_vars => Appended'
<1> SUFFICES ASSUME IInv, Appended, IsFiniteSet(log), Numbered(log), [Next]_vars PROVE Appended'
  OBVIOUS
<1>0. WritersTypeOK BY DEF IInv
<1>1. CASE UNCHANGED <<log, tx>>
  BY <1>1 DEF Appended, Seen, Numbered
<1>2. ASSUME NEW w \in Writers, Locks(w) \/ ReadsTail(w) PROVE Appended'
  <2>1. log' = log /\ \A u \in Writers : tx'[u].rows = tx[u].rows /\ (tx'[u].pc = "numbered" => tx'[u] = tx[u])
    BY <1>0, <1>2 DEF Locks, ReadsTail, WritersTypeOK
  <2> QED BY <2>1 DEF Appended, Seen, Numbered
<1>3. ASSUME NEW w \in Writers, TakesNumber(w) PROVE Appended'
  <2>1. log' = log /\ \A u \in Writers : tx'[u].rows = tx[u].rows
                      /\ (tx'[u].pc = "numbered" => tx'[u] = tx[u] \/ tx'[u].index = seq + 1)
    BY <1>0, <1>3 DEF TakesNumber, WritersTypeOK
  <2>2. seq + 1 > 0 BY <1>0 DEF WritersTypeOK
  <2> QED BY <2>1, <2>2 DEF Appended, Seen, Numbered
<1>4. ASSUME NEW w \in Writers, Inserts(w) PROVE Appended'
  <2> DEFINE new == Row(tx[w].index, tx[w].tail)
  <2>1. /\ log' = log /\ tx[w].pc = "numbered" /\ tx'[w].rows = tx[w].rows \cup {new}
        /\ tx'[w].pc = "open"
        /\ \A u \in Writers : u # w => tx'[u] = tx[u]
    BY <1>0, <1>4 DEF Inserts, WritersTypeOK
  <2>2. /\ new.index = tx[w].index /\ new.index \in Nat /\ new.index > 0
        /\ \A r \in Seen(w) : r.index < new.index /\ r.index \in Nat
    <3>1. new.index = tx[w].index BY DEF Row
    <3>2. tx[w].index \in Nat BY <1>0 DEF WritersTypeOK
    <3>3. tx[w].index > 0 BY <2>1 DEF Appended
    <3>4. \A r \in Seen(w) : r.index < tx[w].index BY <2>1 DEF IInv, Extends
    <3>5. \A r \in Seen(w) : r.index \in Nat BY <1>0 DEF WritersTypeOK, Seen
    <3> HIDE DEF new
    <3> QED BY <3>1, <3>2, <3>3, <3>4, <3>5
  <2>3. Seen(w)' = Seen(w) \cup {new} BY <2>1 DEF Seen
  <2>4. Numbered(Seen(w)) /\ IsFiniteSet(tx[w].rows) BY DEF Appended
  <2> HIDE DEF new
  <2>5. Numbered(Seen(w) \cup {new}) BY <2>2, <2>4 DEF Numbered
  <2>6. IsFiniteSet(tx[w].rows \cup {new}) BY <2>4, FS_AddElement
  <2>7. ASSUME NEW u \in Writers, u # w
        PROVE /\ IsFiniteSet(tx'[u].rows) /\ Numbered(Seen(u)')
              /\ \A r \in tx'[u].rows, s \in log' : s.index < r.index
              /\ tx'[u].pc = "numbered" => tx'[u].index > 0
    BY <2>1, <2>7 DEF Appended, Seen, Numbered
  <2>8. \A r \in tx'[w].rows, s \in log' : s.index < r.index
    BY <2>1, <2>2 DEF Appended, Seen
  <2> QED BY <2>1, <2>3, <2>5, <2>6, <2>7, <2>8 DEF Appended, Numbered
<1>5. ASSUME NEW w \in Writers, Commits(w) PROVE Appended'
  <2>1. log' = Seen(w) /\ tx[w].rows # {} /\ tx' = [tx EXCEPT ![w] = NoTx]
    BY <1>5 DEF Commits, Seen
  <2>2. \A u \in Writers : u # w => tx[u].pc = "open" /\ tx[u].rows = {}
    BY <2>1 DEF IInv, Serial
  <2>3. \A u \in Writers : tx'[u].pc = "open" /\ tx'[u].rows = {}
    BY <1>0, <2>1, <2>2 DEF WritersTypeOK, NoTx
  <2>4. \A u \in Writers : Seen(u)' = Seen(w) BY <2>1, <2>3 DEF Seen
  <2>5. Numbered(Seen(w)) BY DEF Appended
  <2>6. \A u \in Writers : Numbered(Seen(u))' BY <2>4, <2>5 DEF Numbered
  <2>7. \A u \in Writers : IsFiniteSet(tx'[u].rows) BY <2>3, FS_EmptySet
  <2> QED BY <2>3, <2>6, <2>7 DEF Appended
<1>6. ASSUME NEW w \in Writers, RollsBack(w) PROVE Appended'
  <2>1. /\ log' = log /\ tx'[w].rows = {} /\ tx'[w].pc = "open"
        /\ \A u \in Writers : u # w => tx'[u] = tx[u]
    BY <1>0, <1>6 DEF RollsBack, WritersTypeOK, NoTx
  <2> QED BY <2>1, FS_EmptySet DEF Appended, Seen, Numbered
<1> QED
  BY <1>1, <1>2, <1>3, <1>4, <1>5, <1>6
     DEF Next, Appends, Counts, Walks, Concludes, Rests, vars

\* Every step keeps what the walk knows.
LEMMA WalkStep == IInv /\ Appended /\ WalkInv /\ [Next]_vars => WalkInv'
<1> SUFFICES ASSUME IInv, Appended, WalkInv, [Next]_vars PROVE WalkInv' OBVIOUS
<1>1. CASE UNCHANGED <<log, walk>>
  BY <1>1 DEF WalkInv, Numbered, Upto
<1>2. ASSUME NEW w \in Writers, Appends(w) PROVE WalkInv'
  BY <1>1, <1>2, WalkUndisturbed
     DEF Appends, Locks, ReadsTail, TakesNumber, Inserts, RollsBack
<1>3. CASE Counts
  <2>1. Cardinality(log) \in Nat /\ Cardinality(Upto(Genesis)) = 0
    <3>1. Upto(Genesis) = {}
      BY DEF Upto, Genesis, WalkInv, Numbered, IInv, WritersTypeOK
    <3> QED BY <3>1, FS_EmptySet, FS_CardinalityType DEF WalkInv
  <2>2. walk' = [pc |-> "walking", total |-> Cardinality(log), previous |-> Genesis, checked |-> 0] /\ UNCHANGED log
    <3> DEFINE n == Cardinality(log)
    <3>1. walk' = [NoWalk EXCEPT !.pc = "walking", !.total = n] /\ UNCHANGED log
      BY <1>3 DEF Counts
    <3> HIDE DEF n
    <3>2. walk' = [pc |-> "walking", total |-> n, previous |-> Genesis, checked |-> 0]
      BY <3>1 DEF NoWalk
    <3> QED BY <3>1, <3>2 DEF n
  <2>3. Upto(Genesis)' = Upto(Genesis) BY <2>2 DEF Upto
  <2> QED BY <2>1, <2>2, <2>3 DEF WalkInv, Numbered, Genesis
<1>4. CASE Walks BY <1>4, WalkTurnsPage
<1>5. CASE Concludes BY <1>5 DEF Concludes, WalkInv, Numbered
<1>6. CASE Rests BY <1>6 DEF Rests, WalkInv, Numbered, NoWalk, Genesis
<1>7. CASE UNCHANGED vars BY <1>1, <1>7 DEF vars
<1> QED BY <1>2, <1>3, <1>4, <1>5, <1>6, <1>7 DEF Next

\* The hourly check cries no wolf, and says that all is well only when it has seen
\* every row there was when it began.
THEOREM WatchStaysRight == Spec => []WatchIsRight
<1>1. Init => IInv /\ Appended /\ WalkInv
  BY InitIInv, FS_EmptySet
     DEF Init, Appended, WalkInv, Numbered, NoTx, NoWalk, Genesis, Seen
<1>2. WalkInv => WatchIsRight BY DEF WalkInv, WatchIsRight
<1>3. WalkInv => IsFiniteSet(log) /\ Numbered(log) BY DEF WalkInv
<1> QED BY <1>1, <1>2, <1>3, StepIInv, AppendedStep, WalkStep, PTL DEF Spec
=============================================================================
