-------------------------- MODULE MCDialogue_proofs --------------------------
(***************************************************************************)
(* Proofs about the four parts that MCDialogue checks: the agent forgets   *)
(* a turn it has answered only to a stray withdrawal, and does not ask for *)
(* ever; the turn loop answers what was said last and leaves no caller in  *)
(* silence without the clock; the recogniser tells no turn twice, loses    *)
(* one only if the end mark overtakes it, and prepares for what was said;  *)
(* and the gate in front of them does not take a fan for a caller.  For    *)
(* any number of turns, sentences, words and levels, any length of the     *)
(* queue and of the windows.                                               *)
(***************************************************************************)
EXTENDS MCDialogue, FiniteSetTheorems, NaturalsInduction, WellFoundedInduction, TLAPS

-----------------------------------------------------------------------------
(* The agent and its memory                                                *)

\* The values that the variables have.
Entries == [who : {"user", "agent"}, says : SUBSET Nat, cut : BOOLEAN]
TurnWords == Utterances \cup {"noise"}
Focuses == [misses : Nat, choices : BOOLEAN, product : BOOLEAN,
            category : BOOLEAN, offered : BOOLEAN]
LastTurns == [n : Nat, escalates : BOOLEAN, asks : Questions,
              hand : TransferTool \cup {"none"}, settles : BOOLEAN]
Runs == [words : TurnWords, pc : Pcs, out : Nat, again : BOOLEAN]
LinesOf == [n : Nat, pc : {"listening", "starting", "answering"}, heard : Nat,
            taken : BOOLEAN, cut : BOOLEAN]

MemoryShape == memory \in Seq(Entries) /\ turnOpen \in BOOLEAN
FocusShape == focus \in Focuses
TurnShape == lastTurn \in LastTurns
RespShape == resp \in [Turns -> Runs]
LineShape == line \in LinesOf
AskedShape == asked \in [q : Questions, times : Nat, blank : Nat]
CountShape == turn \in 0..MaxTurns /\ rest \in Nat /\ strays \in Nat

AgentWellFormed == /\ MemoryShape /\ FocusShape /\ TurnShape /\ RespShape /\ LineShape
          /\ AskedShape /\ CountShape

\* A memory has an entry for each turn of the caller, and may end with one, or
\* with what was said to it.
UserAt(m, i) == m[i].who = "user"
OneTurnEach(m, t) == \A i \in DOMAIN m : UserAt(m, i) => \E n \in 1..t : m[i].says = {n}
Remembers(m, n) == \E i \in DOMAIN m : UserAt(m, i) /\ n \in m[i].says
EndsWith(m, n) == m # <<>> /\ (UserAt(m, Len(m)) => m[Len(m)].says = {n})

\* Turns that have not been made are off, and one that has not begun has given
\* nothing.
RunsInv ==
    \A n \in Turns : /\ n > turn => resp[n].pc = "off"
                     /\ resp[n].pc = "created" => resp[n].out = 0

\* What the loop answers it has committed; what is only prepared it has not, and
\* once begun it is in the memory, at its end unless others have edited that.
CommittedInv ==
    /\ committed \subseteq 1..turn
    /\ line.pc # "listening" => line.n \in committed
    /\ prepared # 0 => prepared \in 1..turn /\ prepared \notin committed
PreparedInv ==
    prepared # 0 /\ resp[prepared].pc # "created" =>
        Remembers(memory, prepared) /\ (mixed \/ EndsWith(memory, prepared))

MemoryInv ==
    /\ OneTurnEach(memory, turn)
    /\ RunsInv /\ CommittedInv /\ PreparedInv
    /\ QuestionsRemembered

\* Questions in a row that brought nothing are misses, unless a product is known;
\* and from the third miss on the caller is handed over, so that there are two
\* such questions at most.
Spent == asked.blank <= focus.misses \/ focus.product
HandedOver == resp[line.n].pc = "done" /\ lastTurn.escalates
OneMissWithAProduct == focus.product => focus.misses <= 1
MissesCount == line.pc = "listening" => Spent
NothingBeside ==
    /\ prepared = 0 /\ line.taken = FALSE
    /\ \A n \in Turns : resp[n].pc # "off" => line.pc # "listening" /\ n = line.n
AnswerCounts ==
    line.pc # "listening" =>
        /\ \/ resp[line.n].pc # "created" /\ Settles(resp[line.n].words)
           \/ HandedOver \/ Spent
        /\ resp[line.n].pc = "lookup" => focus.product
DoneCounts ==
    line.pc # "listening" /\ resp[line.n].pc = "done" =>
        /\ lastTurn.n = line.n
        /\ Settles(resp[line.n].words) => lastTurn.settles
        /\ lastTurn.escalates => lastTurn.asks = "nothing"
        /\ lastTurn.asks # "nothing" /\ ~lastTurn.settles =>
              asked.blank + 1 <= focus.misses /\ focus.misses <= 2

AskedInv ==
    ~early => /\ asked.blank <= 2
              /\ NothingBeside /\ OneMissWithAProduct /\ MissesCount
              /\ AnswerCounts /\ DoneCounts

AgentInv == AgentWellFormed /\ MemoryInv /\ AskedInv

(* What is done to a memory                                                *)

\* A set of naturals has a least one.
LEMMA LeastNat ==
  ASSUME NEW T, T \subseteq Nat, T # {}
  PROVE  \E x \in T : \A y \in T : x <= y
<1> DEFINE R == OpToRel(<, Nat)
<1>1. IsWellFoundedOn(R, Nat)
  BY NatLessThanWellFounded
<1>2. \A a, b \in Nat : <<a, b>> \in R <=> a < b
  BY DEF OpToRel
<1> HIDE DEF R
<1>3. PICK x \in T : \A y \in T : ~ (<<y, x>> \in R)
  BY <1>1, WFMin
<1>4. \A y \in T : x <= y
  <2> TAKE y \in T
  <2>1. ~ (<<y, x>> \in R) BY <1>3
  <2>2. x \in Nat /\ y \in Nat OBVIOUS
  <2> QED BY <1>2, <2>1, <2>2
<1> QED BY <1>4

\* The greatest of some indices is one of them.
LEMMA GreatestIndex ==
    ASSUME NEW n \in Nat, NEW S, S \subseteq 1..n, S # {}
    PROVE  Max(S) \in S
<1> DEFINE T == {n - i : i \in S}
<1>1. \A i \in S : i \in 1..n /\ n - i \in Nat
    <2> TAKE i \in S
    <2>1. i \in 1..n OBVIOUS
    <2> QED BY <2>1
<1>2. T \subseteq Nat BY <1>1
<1>3. T # {} OBVIOUS
<1>4. PICK x \in T : \A y \in T : x <= y
    <2> HIDE DEF T
    <2> QED BY <1>2, <1>3, LeastNat
<1>5. PICK i \in S : x = n - i OBVIOUS
<1>6. \A j \in S : i >= j
    <2> TAKE j \in S
    <2>1. n - j \in T OBVIOUS
    <2>2. x <= n - j BY <2>1, <1>4
    <2> QED BY <2>2, <1>1, <1>5
<1> QED BY <1>6, Zenon DEF Max

\* An entry more.
LEMMA AddSays ==
    ASSUME NEW m \in Seq(Entries), NEW who \in {"user", "agent"}, NEW n \in Nat
    PROVE  /\ Add(m, who, n) \in Seq(Entries)
           /\ Add(m, who, n) # <<>>
           /\ Len(Add(m, who, n)) = Len(m) + 1
           /\ \A i \in 1..Len(m) : Add(m, who, n)[i] = m[i]
           /\ Add(m, who, n)[Len(m) + 1].who = who
           /\ Add(m, who, n)[Len(m) + 1].says = {n}
<1>1. Entry(who, n) \in Entries /\ Entry(who, n).who = who /\ Entry(who, n).says = {n}
    BY DEF Entry, Entries
<1> QED BY <1>1 DEF Add

\* What the agent says forgets no turn.
LEMMA AgentSpeaks ==
    ASSUME NEW m \in Seq(Entries), NEW n \in Nat, NEW t \in Nat,
           OneTurnEach(m, t)
    PROVE  LET a == Add(m, "agent", n)
           IN  /\ a \in Seq(Entries)
               /\ OneTurnEach(a, t)
               /\ \A k : Remembers(m, k) => Remembers(a, k)
               /\ \A k : EndsWith(a, k)
<1> DEFINE a == Add(m, "agent", n)
<1>1. /\ a \in Seq(Entries) /\ a # <<>> /\ Len(a) = Len(m) + 1
      /\ \A i \in 1..Len(m) : a[i] = m[i]
      /\ a[Len(m) + 1].who = "agent"
    BY AddSays
<1> HIDE DEF a
<1>2. \A i \in DOMAIN a : UserAt(a, i) => i \in DOMAIN m /\ a[i] = m[i] /\ UserAt(m, i)
    BY <1>1 DEF UserAt
<1>3. \A i \in DOMAIN m : i \in DOMAIN a /\ a[i] = m[i] BY <1>1
<1>4. OneTurnEach(a, t) BY <1>2 DEF OneTurnEach
<1>5. \A k : Remembers(m, k) => Remembers(a, k) BY <1>3 DEF Remembers, UserAt
<1>6. \A k : EndsWith(a, k) BY <1>1 DEF EndsWith, UserAt
<1> QED BY <1>1, <1>4, <1>5, <1>6 DEF a

\* A turn of the caller is remembered, and is the last.
LEMMA CallerSpeaks ==
    ASSUME NEW m \in Seq(Entries), NEW t \in Nat, OneTurnEach(m, t), NEW n \in 1..t
    PROVE  LET a == Add(m, "user", n)
           IN  /\ a \in Seq(Entries)
               /\ OneTurnEach(a, t)
               /\ \A k : Remembers(m, k) => Remembers(a, k)
               /\ Remembers(a, n) /\ EndsWith(a, n)
<1>0. n \in Nat OBVIOUS
<1> DEFINE a == Add(m, "user", n)
<1>1. /\ a \in Seq(Entries) /\ a # <<>> /\ Len(a) = Len(m) + 1
      /\ \A i \in 1..Len(m) : a[i] = m[i]
      /\ a[Len(m) + 1].who = "user" /\ a[Len(m) + 1].says = {n}
    BY <1>0, AddSays
<1> HIDE DEF a
<1>2. \A i \in DOMAIN a : UserAt(a, i) =>
          \/ i \in DOMAIN m /\ a[i] = m[i] /\ UserAt(m, i)
          \/ i = Len(m) + 1
    BY <1>1 DEF UserAt
<1>3. \A i \in DOMAIN m : i \in DOMAIN a /\ a[i] = m[i] BY <1>1
<1>4. OneTurnEach(a, t)
    <2> SUFFICES ASSUME NEW i \in DOMAIN a, UserAt(a, i)
                 PROVE  \E k \in 1..t : a[i].says = {k}
        BY DEF OneTurnEach
    <2>1. CASE i = Len(m) + 1 BY <2>1, <1>1
    <2>2. CASE i \in DOMAIN m /\ a[i] = m[i] /\ UserAt(m, i)
        <3>1. PICK k \in 1..t : m[i].says = {k} BY <2>2 DEF OneTurnEach
        <3> QED BY <3>1, <2>2
    <2> QED BY <2>1, <2>2, <1>2
<1>5. \A k : Remembers(m, k) => Remembers(a, k) BY <1>3 DEF Remembers, UserAt
<1>6. Remembers(a, n)
    <2>1. Len(m) + 1 \in DOMAIN a BY <1>1
    <2> QED BY <2>1, <1>1 DEF Remembers, UserAt
<1>7. EndsWith(a, n) BY <1>1 DEF EndsWith, UserAt
<1> QED BY <1>1, <1>4, <1>5, <1>6, <1>7 DEF a

\* What keeps the caller's entries keeps what is remembered.
SameQuestions(m, a) ==
    /\ a \in Seq(Entries)
    /\ \A t : OneTurnEach(m, t) => OneTurnEach(a, t)
    /\ \A k : Remembers(m, k) => Remembers(a, k)

\* Entries that keep their speaker, and the caller's that keep their turn.
LEMMA SameEntries ==
    ASSUME NEW m \in Seq(Entries), NEW a \in Seq(Entries), DOMAIN a = DOMAIN m,
           \A i \in DOMAIN m : a[i].who = m[i].who /\ (UserAt(m, i) =>
              a[i].says = m[i].says)
    PROVE  SameQuestions(m, a)
<1>1. \A t : OneTurnEach(m, t) => OneTurnEach(a, t) BY DEF OneTurnEach, UserAt
<1>2. \A k : Remembers(m, k) => Remembers(a, k) BY DEF Remembers, UserAt
<1> QED BY <1>1, <1>2 DEF SameQuestions

\* The last thing the agent said.
LEMMA LastAgent ==
    ASSUME NEW m \in Seq(Entries), AgentEntries(m) # {}
    PROVE  Max(AgentEntries(m)) \in DOMAIN m /\ m[Max(AgentEntries(m))].who = "agent"
<1>1. AgentEntries(m) \subseteq 1..Len(m) BY DEF AgentEntries
<1>2. Max(AgentEntries(m)) \in AgentEntries(m) BY <1>1, GreatestIndex
<1> QED BY <1>2 DEF AgentEntries

\* The second half of two sequences.
LEMMA SecondPart ==
    ASSUME NEW S, NEW b \in Seq(S), NEW c \in Seq(S), NEW i \in 1..(Len(b) + Len(c)),
           i > Len(b)
    PROVE  (b \o c)[i] = c[i - Len(b)]
OBVIOUS

\* A thing the agent said may go.
LEMMA RemovedAgent ==
    ASSUME NEW m \in Seq(Entries), NEW k \in DOMAIN m, m[k].who = "agent"
    PROVE  SameQuestions(m, RemoveAt(m, k))
<1> DEFINE a == RemoveAt(m, k)
<1>1. k \in 1..Len(m) /\ Len(m) \in Nat OBVIOUS
<1>2. /\ SubSeq(m, 1, k - 1) \in Seq(Entries) /\ Len(SubSeq(m, 1, k - 1)) = k - 1
      /\ \A i \in 1..(k - 1) : SubSeq(m, 1, k - 1)[i] = m[i]
    BY <1>1
<1>3. /\ SubSeq(m, k + 1, Len(m)) \in Seq(Entries)
      /\ Len(SubSeq(m, k + 1, Len(m))) = Len(m) - k
      /\ \A i \in 1..(Len(m) - k) : SubSeq(m, k + 1, Len(m))[i] = m[k + i]
    BY <1>1
<1> DEFINE b == SubSeq(m, 1, k - 1)
           c == SubSeq(m, k + 1, Len(m))
<1>13. a = b \o c BY DEF RemoveAt
<1> HIDE DEF a, b, c
<1>14. /\ b \in Seq(Entries) /\ Len(b) = k - 1 /\ \A i \in 1..(k - 1) : b[i] = m[i]
       /\ c \in Seq(Entries) /\ Len(c) = Len(m) - k
       /\ \A i \in 1..(Len(m) - k) : c[i] = m[k + i]
    BY <1>2, <1>3 DEF b, c
<1>4. a \in Seq(Entries) /\ Len(a) = Len(m) - 1 BY <1>1, <1>13, <1>14
<1>5. \A i \in 1..(k - 1) : a[i] = m[i] BY <1>1, <1>13, <1>14
<1>6. \A i \in k..(Len(m) - 1) : a[i] = m[i + 1]
    <2> TAKE i \in k..(Len(m) - 1)
    <2>1. i - (k - 1) \in 1..(Len(m) - k) BY <1>1
    <2>4. i \in 1..(Len(b) + Len(c)) /\ i > Len(b) BY <1>1, <1>14
    <2>5. (b \o c)[i] = c[i - Len(b)] BY <2>4, <1>14, SecondPart
    <2>2. a[i] = c[i - (k - 1)] BY <2>5, <1>13, <1>14
    <2>3. k + (i - (k - 1)) = i + 1 BY <1>1
    <2> QED BY <2>1, <2>2, <2>3, <1>14
<1> DEFINE from(i) == IF i < k THEN i ELSE i + 1
<1>15. DOMAIN a = 1..(Len(m) - 1) /\ DOMAIN m = 1..Len(m) BY <1>4
<1>7. \A i \in DOMAIN a : from(i) \in DOMAIN m /\ a[i] = m[from(i)]
    <2> TAKE i \in DOMAIN a
    <2>1. CASE i < k
        <3>1. i \in 1..(k - 1) /\ i \in 1..Len(m) BY <2>1, <1>1, <1>15
        <3>2. a[i] = m[i] BY <3>1, <1>5
        <3> QED BY <3>1, <3>2, <2>1, <1>15
    <2>2. CASE ~(i < k)
        <3>1. i \in k..(Len(m) - 1) /\ i + 1 \in 1..Len(m) BY <2>2, <1>1, <1>15
        <3>2. a[i] = m[i + 1] BY <3>1, <1>6
        <3> QED BY <3>1, <3>2, <2>2, <1>15
    <2> QED BY <2>1, <2>2
<1>9. \A j \in DOMAIN m : j # k => \E i \in DOMAIN a : from(i) = j
    <2> TAKE j \in DOMAIN m
    <2>1. CASE j < k BY <2>1, <1>1, <1>4
    <2>2. CASE j > k
        <3>1. j - 1 \in DOMAIN a /\ ~(j - 1 < k) /\ j - 1 + 1 = j BY <2>2, <1>1, <1>4
        <3> QED BY <3>1
    <2> QED BY <2>1, <2>2, <1>1
<1> HIDE DEF from
<1>10. \A t : OneTurnEach(m, t) => OneTurnEach(a, t) BY <1>7 DEF OneTurnEach, UserAt
<1>12. \A q : Remembers(m, q) => Remembers(a, q)
    <2> SUFFICES ASSUME NEW q, NEW j \in DOMAIN m, UserAt(m, j), q \in m[j].says
                 PROVE  Remembers(a, q)
        BY DEF Remembers
    <2>1. j # k BY DEF UserAt
    <2>2. PICK i \in DOMAIN a : from(i) = j BY <2>1, <1>9
    <2> QED BY <2>2, <1>7 DEF Remembers, UserAt
<1> QED BY <1>4, <1>10, <1>12 DEF SameQuestions, a

\* It may be replaced by another.
LEMMA ChangedAgent ==
    ASSUME NEW m \in Seq(Entries), NEW k \in DOMAIN m, m[k].who = "agent",
           NEW e \in Entries, e.who = "agent"
    PROVE  SameQuestions(m, [m EXCEPT ![k] = e])
<1>1. /\ [m EXCEPT ![k] = e] \in Seq(Entries) /\ DOMAIN [m EXCEPT ![k] = e] = DOMAIN m
      /\ \A i \in DOMAIN m : [m EXCEPT ![k] = e][i] = IF i = k THEN e ELSE m[i]
    OBVIOUS
<1> QED BY <1>1, SameEntries DEF UserAt

\* What was cut short touches no turn of the caller.
LEMMA MarkKeepsQuestions ==
    ASSUME NEW m \in Seq(Entries), NEW h PROVE SameQuestions(m, MarkLastInterrupted(m, h))
<1>1. CASE AgentEntries(m) = {} BY <1>1 DEF MarkLastInterrupted, SameQuestions
<1>2. CASE AgentEntries(m) # {}
    <2> DEFINE k == Max(AgentEntries(m))
    <2>1. k \in DOMAIN m /\ m[k].who = "agent" BY <1>2, LastAgent
    <2>2. CASE h = 0 BY <2>1, <2>2, <1>2, RemovedAgent DEF MarkLastInterrupted
    <2>3. CASE h # 0
        <3>3. m[k] \in Entries BY <2>1
        <3>1. /\ [m[k] EXCEPT !.cut = TRUE] \in Entries
              /\ [m[k] EXCEPT !.cut = TRUE].who = "agent"
            BY <2>1, <3>3 DEF Entries
        <3>2. SameQuestions(m, [m EXCEPT ![k] = [m[k] EXCEPT !.cut = TRUE]])
            BY <2>1, <3>1, ChangedAgent
        <3> QED BY <3>2, <2>3, <1>2 DEF MarkLastInterrupted
    <2> QED BY <2>2, <2>3
<1> QED BY <1>1, <1>2

\* Nor does what is added to the last thing said.
LEMMA ExtendKeepsQuestions ==
    ASSUME NEW m \in Seq(Entries), NEW n \in Nat, NEW t \in Nat,
           OneTurnEach(m, t)
    PROVE  LET a == ExtendLastAssistant(m, n)
           IN  /\ a \in Seq(Entries) /\ OneTurnEach(a, t)
               /\ \A k : Remembers(m, k) => Remembers(a, k)
<1>1. CASE AgentEntries(m) = {} BY <1>1, AgentSpeaks DEF ExtendLastAssistant
<1>2. CASE AgentEntries(m) # {}
    <2> DEFINE k == Max(AgentEntries(m))
               e == [m[k] EXCEPT !.cut = FALSE, !.says = @ \cup {n}]
    <2>1. k \in DOMAIN m /\ m[k].who = "agent" BY <1>2, LastAgent
    <2>6. m[k] \in Entries BY <2>1
    <2>2. m[k] \in Entries /\ m[k].says \subseteq Nat BY <2>6 DEF Entries
    <2>3. e \in Entries /\ e.who = "agent" BY <2>1, <2>2 DEF Entries
    <2>4. SameQuestions(m, [m EXCEPT ![k] = e]) BY <2>1, <2>3, ChangedAgent
    <2>5. ExtendLastAssistant(m, n) = [m EXCEPT ![k] = e]
        BY <1>2, <2>1, <2>2 DEF ExtendLastAssistant, Entries
    <2> QED BY <2>4, <2>5 DEF SameQuestions
<1> QED BY <1>1, <1>2

\* A withdrawal takes one turn at most: that with which the memory ends.
LEMMA DropForgetsOne ==
    ASSUME NEW m \in Seq(Entries), NEW t \in Nat, OneTurnEach(m, t)
    PROVE  LET a == DropLastUser(m)
           IN  /\ a \in Seq(Entries)
               /\ OneTurnEach(a, t)
               /\ \E n \in Nat : \A k : Remembers(m, k) => Remembers(a, k) \/ k = n
               /\ \A n : EndsWith(m, n) =>
                     \A k : Remembers(m, k) => Remembers(a, k) \/ k = n
<1>1. CASE ~(m # <<>> /\ Last(m).who = "user") BY <1>1 DEF DropLastUser
<1>2. CASE m # <<>> /\ Last(m).who = "user"
    <2> DEFINE a == Front(m)
    <2>1. Len(m) \in Nat \ {0} /\ DOMAIN m = 1..Len(m) BY <1>2
    <2>2. /\ a \in Seq(Entries) /\ DOMAIN a = 1..(Len(m) - 1)
          /\ \A i \in DOMAIN a : a[i] = m[i]
        BY <2>1 DEF Front
    <2>3. UserAt(m, Len(m)) /\ Len(m) \in DOMAIN m BY <1>2, <2>1 DEF UserAt, Last
    <2>4. DropLastUser(m) = a BY <1>2 DEF DropLastUser
    <2> HIDE DEF a
    <2>5. \A i \in DOMAIN a : i \in DOMAIN m BY <2>1, <2>2
    <2>6. OneTurnEach(a, t) BY <2>2, <2>5 DEF OneTurnEach, UserAt
    <2>7. ASSUME NEW n, m[Len(m)].says = {n}, NEW k, Remembers(m, k), k # n
          PROVE  Remembers(a, k)
        <3>1. PICK i \in DOMAIN m : UserAt(m, i) /\ k \in m[i].says
            BY <2>7 DEF Remembers
        <3>2. i \in DOMAIN a BY <3>1, <2>1, <2>2, <2>7
        <3> QED BY <3>1, <3>2, <2>2 DEF Remembers, UserAt
    <2>8. PICK n \in 1..t : m[Len(m)].says = {n} BY <2>3 DEF OneTurnEach
    <2>9. \A k : Remembers(m, k) => Remembers(a, k) \/ k = n BY <2>7, <2>8
    <2>10. \A x : EndsWith(m, x) => \A k : Remembers(m, k) => Remembers(a, k) \/ k = x
        BY <2>3, <2>7 DEF EndsWith
    <2>11. n \in Nat BY <2>8
    <2> QED BY <2>2, <2>4, <2>6, <2>9, <2>10, <2>11
<1> QED BY <1>1, <1>2

(* What a turn does before its first wait                                  *)

Replies == [asks : Questions, resolved : BOOLEAN, offers : BOOLEAN, handover : BOOLEAN]

\* From the third miss on, a change of tack is a hand-over.
LEMMA TackIsAReply ==
    ASSUME NEW f \in Focuses, NEW q \in Questions
    PROVE  /\ ChangeTack(f, q) \in Replies
           /\ ChangeTack(f, q).handover \/ f.misses <= 2
<1>1. f.misses \in Nat BY DEF Focuses
<1>2. Reply \in Replies BY DEF Reply, Replies, Questions
<1>3. {"pick", "listing", "kinds"} \subseteq Questions BY DEF Questions
<1>4. \A a \in Questions : [Reply EXCEPT !.asks = a] \in Replies BY <1>2 DEF Replies
<1>5. \A a \in Questions : [Reply EXCEPT !.asks = a, !.offers = TRUE] \in Replies
    BY <1>2 DEF Replies
<1>6. [Reply EXCEPT !.handover = TRUE] \in Replies BY <1>2 DEF Replies
<1>7. [Reply EXCEPT !.handover = TRUE].handover BY <1>2 DEF Replies
<1>8. CASE f.misses <= 1
    <2>1. ChangeTack(f, q) = [Reply EXCEPT !.asks = q] BY <1>1, <1>8 DEF ChangeTack,
             HandoverAt
    <2> QED BY <2>1, <1>1, <1>4, <1>8
<1>9. CASE f.misses >= HandoverAt /\ ~(f.misses <= 1)
    <2>1. ChangeTack(f, q) = [Reply EXCEPT !.handover = TRUE]
        BY <1>1, <1>9 DEF ChangeTack, HandoverAt
    <2> QED BY <2>1, <1>6, <1>7
<1>10. CASE ~(f.misses >= HandoverAt) /\ ~(f.misses <= 1)
    <2>1. f.misses = 2 BY <1>1, <1>10 DEF HandoverAt
    <2>2. \/ ChangeTack(f, q) = [Reply EXCEPT !.asks = "pick"]
          \/ ChangeTack(f, q) = [Reply EXCEPT !.asks = "listing", !.offers = TRUE]
          \/ ChangeTack(f, q) = [Reply EXCEPT !.asks = "kinds", !.offers = TRUE]
        BY <1>10, <2>1 DEF ChangeTack
    <2>3. ChangeTack(f, q) \in Replies BY <2>2, <1>3, <1>4, <1>5
    <2> QED BY <2>1, <2>3
<1> QED BY <1>8, <1>9, <1>10

\* A turn that names nothing is one miss more; one that does starts anew.
LEMMA FocusOfATurn ==
    ASSUME NEW f \in Focuses, NEW u
    PROVE  LET g == NoteUserTurn(f, u)
           IN  /\ g \in Focuses /\ g.misses = f.misses
               /\ u # "kind" => g = f
               /\ g.product => f.product
               /\ Missed(g, u) \in Focuses
               /\ Missed(g, u).misses = IF NamesSomething(u) THEN 1 ELSE 1 + f.misses
               /\ Missed(g, u).product = g.product
               /\ NoteProduct(g) \in Focuses
               /\ NoteProduct(g).misses = 0 /\ NoteProduct(g).product = TRUE
<1> DEFINE g == NoteUserTurn(f, u)
<1>1. f.misses \in Nat /\ f.product \in BOOLEAN /\ f.category \in BOOLEAN BY DEF Focuses
<1>2. /\ g \in Focuses /\ g.misses = f.misses
      /\ u # "kind" => g = f
      /\ g.product => f.product
    <2>1. CASE u # "kind" BY <2>1 DEF NoteUserTurn
    <2>2. CASE u = "kind"
        <3> DEFINE b == f.product /\ f.category
        <3>1. b \in BOOLEAN /\ (b => f.product) BY <1>1
        <3>2. g = [f EXCEPT !.category = TRUE, !.product = b] BY <2>2 DEF NoteUserTurn,
                 Focuses
        <3> HIDE DEF b, g
        <3>3. g \in Focuses /\ g.misses = f.misses /\ g.product = b
            BY <3>1, <3>2 DEF Focuses
        <3> QED BY <3>1, <3>3, <2>2
    <2> QED BY <2>1, <2>2
<1> HIDE DEF g
<1>3. 1 + g.misses \in Nat /\ g.misses \in Nat BY <1>1, <1>2
<1>4. /\ Missed(g, u) \in Focuses
      /\ Missed(g, u).misses = IF NamesSomething(u) THEN 1 ELSE 1 + f.misses
      /\ Missed(g, u).product = g.product
    <2> DEFINE c == 1 + IF NamesSomething(u) THEN 0 ELSE g.misses
    <2>1. c \in Nat /\ c = IF NamesSomething(u) THEN 1 ELSE 1 + f.misses BY <1>2, <1>3
    <2>2. Missed(g, u) = [g EXCEPT !.misses = c] BY <1>2 DEF Missed, Focuses
    <2> HIDE DEF c
    <2> QED BY <1>2, <2>1, <2>2 DEF Focuses
<1>5. /\ NoteProduct(g) \in Focuses
      /\ NoteProduct(g).misses = 0 /\ NoteProduct(g).product = TRUE
    BY <1>2 DEF NoteProduct, Focuses
<1> QED BY <1>2, <1>4, <1>5 DEF g

\* A miss forgets no product.
LEMMA MissedKeepsProduct ==
    ASSUME NEW f \in Focuses, NEW u
    PROVE  Missed(f, u).product = f.product
BY DEF Missed, Focuses

\* When a question is asked at all.
LEMMA QuestionIsOne ==
    ASSUME NEW f \in Focuses, NEW u
    PROVE  /\ Question(f, u) \in Questions
           /\ Question(f, u) # "nothing" =>
                 \/ u = "kind"
                 \/ u = "vague" /\ ~f.product
                 \/ f.misses >= 2
BY DEF Question, Questions, HandoverAt, Focuses

\* A focus that is settled has no misses.
LEMMA SettledFocus ==
    ASSUME NEW f \in Focuses
    PROVE  /\ Settled(f) \in Focuses /\ Settled(f).misses = 0 /\
                 Settled(f).product = f.product
           /\ [f EXCEPT !.offered = FALSE] \in Focuses
           /\ [f EXCEPT !.offered = FALSE].misses = f.misses
           /\ [f EXCEPT !.offered = FALSE].product = f.product
BY DEF Settled, Focuses

\* A respond that goes on is about the same words, and the others stand still.
GoneOn(n, pc) ==
    /\ RespShape'
    /\ \A j \in Turns : j # n => resp'[j] = resp[j]
    /\ resp'[n].words = resp[n].words /\ resp'[n].pc = pc

LEMMA RespGoesOn ==
    ASSUME RespShape, NEW n \in Turns, NEW pc \in Pcs, NEW k \in Nat,
           \/ Waits(n, pc) \/ GoesOn(n, pc)
           \/ resp' = [resp EXCEPT ![n].out = k] /\ pc = resp[n].pc
           \/ Gives(n, k) /\ pc = "done"
    PROVE  GoneOn(n, pc)
<1>1. resp \in [Turns -> Runs] /\ resp[n] \in Runs BY DEF RespShape
<1>2. PICK r \in Runs : r.words = resp[n].words /\ r.pc = pc /\ resp' = [resp EXCEPT ![n] = r]
    <2>1. CASE Waits(n, pc)
        <3> DEFINE r == [resp[n] EXCEPT !.pc = pc]
        <3>1. r \in Runs /\ r.words = resp[n].words /\ r.pc = pc BY <1>1 DEF Runs
        <3>2. resp' = [resp EXCEPT ![n] = r] BY <1>1, <2>1 DEF Waits
        <3> QED BY <3>1, <3>2
    <2>2. CASE GoesOn(n, pc)
        <3> DEFINE b == IntentOf(resp[n].words) \in attempts
                   r == [resp[n] EXCEPT !.pc = pc, !.again = b]
        <3>1. b \in BOOLEAN OBVIOUS
        <3>2. resp' = [resp EXCEPT ![n] = r] BY <1>1, <2>2 DEF GoesOn
        <3> HIDE DEF b
        <3>3. r \in Runs /\ r.words = resp[n].words /\ r.pc = pc BY <1>1, <3>1 DEF Runs
        <3> QED BY <3>2, <3>3
    <2>3. CASE resp' = [resp EXCEPT ![n].out = k] /\ pc = resp[n].pc
        <3> DEFINE r == [resp[n] EXCEPT !.out = k]
        <3>1. r \in Runs /\ r.words = resp[n].words /\ r.pc = pc BY <1>1, <2>3 DEF Runs
        <3>2. resp' = [resp EXCEPT ![n] = r] BY <1>1, <2>3
        <3> QED BY <3>1, <3>2
    <2>4. CASE Gives(n, k) /\ pc = "done"
        <3> DEFINE r == [resp[n] EXCEPT !.pc = "done", !.out = k]
        <3>1. r \in Runs /\ r.words = resp[n].words /\ r.pc = pc BY <1>1, <2>4 DEF Runs
        <3>2. resp' = [resp EXCEPT ![n] = r] BY <1>1, <2>4 DEF Gives
        <3> QED BY <3>1, <3>2
    <2> QED BY <2>1, <2>2, <2>3, <2>4
<1> QED BY <1>1, <1>2 DEF GoneOn, RespShape

\* What an answer without a model does.
LEMMA DirectlyDoes ==
    ASSUME NEW n \in Turns, NEW m \in Seq(Entries), NEW f \in Focuses,
           NEW reply \in Replies, TurnShape, RespShape, Directly(n, m, f, reply)
    PROVE  /\ memory' = m \/ memory' = Add(m, "agent", n)
           /\ turnOpen' \in BOOLEAN
           /\ focus' \in Focuses /\ focus'.misses = f.misses /\ focus'.product = f.product
           /\ GoneOn(n, IF reply.handover THEN "handing" ELSE "done")
           /\ TurnShape'
           /\ ~reply.handover => /\ lastTurn'.n = n /\ lastTurn'.escalates = FALSE
                                 /\ lastTurn'.asks = reply.asks
                                 /\ lastTurn'.settles = Settles(resp[n].words)
<1>1. turnOpen' \in BOOLEAN BY DEF Directly
<1>2. focus' \in Focuses /\ focus'.misses = f.misses /\ focus'.product = f.product
    <2>1. PICK b \in BOOLEAN, c \in BOOLEAN :
              focus' = [f EXCEPT !.offered = b, !.choices = c]
        <3> DEFINE d == f.choices \/ reply.asks \in {"choice", "listing"}
        <3>1. reply.offers \in BOOLEAN /\ d \in BOOLEAN BY DEF Replies
        <3>2. focus' = [f EXCEPT !.offered = reply.offers, !.choices = d]
            BY DEF Directly, Focuses
        <3> HIDE DEF d
        <3> QED BY <3>1, <3>2
    <2> QED BY <2>1 DEF Focuses
<1>3. CASE reply.handover
    <2>1. Waits(n, "handing") /\ memory' = m /\ lastTurn' = lastTurn BY <1>3 DEF Directly
    <2>2. "handing" \in Pcs /\ 0 \in Nat BY DEF Pcs
    <2>3. GoneOn(n, "handing") BY <2>1, <2>2, RespGoesOn
    <2> QED BY <1>1, <1>2, <1>3, <2>1, <2>3 DEF TurnShape
<1>4. CASE ~reply.handover
    <2>1. Gives(n, 1) /\ memory' = Add(m, "agent", n) BY <1>4 DEF Directly
    <2>2. "done" \in Pcs /\ 1 \in Nat BY DEF Pcs
    <2>3. GoneOn(n, "done") BY <2>1, <2>2, RespGoesOn
    <2>4. lastTurn' = [Turn(n, FALSE, "none") EXCEPT
                          !.asks = reply.asks, !.settles = Settles(resp[n].words)]
        BY <1>4 DEF Directly
    <2>5. lastTurn' = [n |-> n, escalates |-> FALSE, hand |-> "none",
                       asks |-> reply.asks, settles |-> Settles(resp[n].words)]
        BY <2>4 DEF Turn
    <2>6. reply.asks \in Questions /\ Settles(resp[n].words) \in BOOLEAN /\ n \in Nat
        BY BoundsPositive DEF Replies, Settles, Turns
    <2>7. TurnShape' BY <2>5, <2>6 DEF TurnShape, LastTurns
    <2> QED BY <1>1, <1>2, <1>4, <2>1, <2>3, <2>5, <2>7
<1> QED BY <1>3, <1>4

\* The four ways a turn begins.
Words(n) == resp[n].words
Closing(n) ==
    /\ memory' = Add(Add(memory, "user", n), "agent", n)
    /\ lastTurn' = Turn(n, FALSE, "none")
    /\ Gives(n, 1)
    /\ UNCHANGED <<turnOpen, focus>>

Chatting(n) ==
    /\ Words(n) = "chat"
    /\ \E reply \in Replies :
          /\ reply.handover = FALSE /\ reply.asks = "nothing"
          /\ Directly(n, Add(memory, "user", n), Settled(NoteUserTurn(focus, Words(n))), reply)

AskingBack(n) ==
    LET g == NoteUserTurn(focus, Words(n))
    IN  /\ Question(g, Words(n)) # "nothing"
        /\ \E k \in Focuses :
              /\ k.misses = Missed(g, Words(n)).misses /\ k.product = g.product
              /\ Directly(n, Add(memory, "user", n), k, ChangeTack(k, Question(g, Words(n))))

Working(n) ==
    LET g == NoteUserTurn(focus, Words(n))
    IN  /\ turnOpen' = TRUE /\ UNCHANGED lastTurn
        /\ \/ memory' = Add(memory, "user", n)
           \/ memory' = Add(Add(memory, "user", n), "agent", n)
        /\ focus' = NoteProduct(g) \/ (focus' \in Focuses /\ focus'.misses = g.misses
                                       /\ focus'.product = g.product)
        /\ \E pc \in {"safety", "joining", "lookup", "tools", "stream"} :
              /\ GoesOn(n, pc)
              /\ pc = "lookup" => focus' = NoteProduct(g)

\* A turn begins in one of the four.
LEMMA BeginIsOneOf ==
    ASSUME AgentWellFormed, NEW n \in Turns, Begin(n)
    PROVE  Closing(n) \/ Chatting(n) \/ AskingBack(n) \/ Working(n)
<1> DEFINE u == Words(n)
           g == NoteUserTurn(focus, u)
           quiet == [g EXCEPT !.offered = FALSE]
           mu == Add(memory, "user", n)
<1>2. focus \in Focuses BY DEF AgentWellFormed, FocusShape
<1>3. /\ g \in Focuses /\ quiet \in Focuses /\ quiet.misses = g.misses
      /\ quiet.product = g.product
      /\ Missed(g, u) \in Focuses /\ Missed(g, u).product = g.product
    <2>1. g \in Focuses /\ Missed(g, u) \in Focuses /\ Missed(g, u).product = g.product
        <3> HIDE DEF quiet, mu, u
        <3>2. g \in Focuses /\ Missed(g, u) \in Focuses BY <1>2, FocusOfATurn
        <3>1. Missed(g, u).product = g.product BY <3>2, MissedKeepsProduct
        <3> QED BY <3>1, <3>2
    <2> HIDE DEF g
    <2> QED BY <2>1 DEF Focuses
<1>4. CASE ClosesOn(u)
    <2>1. Begin(n) => Closing(n) BY <1>4 DEF Begin, Closing, Words
    <2> QED BY <2>1
<1>5. CASE ~ClosesOn(u) /\ u = "chat"
    <2>1. PICK offers \in BOOLEAN :
              Directly(n, mu, Settled(g), [Reply EXCEPT !.resolved = TRUE, !.offers = offers])
        BY <1>5 DEF Begin, Words
    <2> DEFINE reply == [Reply EXCEPT !.resolved = TRUE, !.offers = offers]
    <2>2. reply \in Replies /\ reply.handover = FALSE /\ reply.asks = "nothing"
        BY DEF Reply, Replies, Questions
    <2> HIDE DEF reply
    <2>3. Directly(n, mu, Settled(g), reply) BY <2>1 DEF reply
    <2> QED BY <1>5, <2>2, <2>3 DEF Chatting
<1>6. CASE ~ClosesOn(u) /\ u # "chat" /\ Question(g, u) # "nothing" /\ ~AsksForPerson(g, u)
    <2> DEFINE h == Missed(g, u)
               k == IF u = "kind" THEN [h EXCEPT !.choices = TRUE] ELSE h
    <2>1. Directly(n, mu, k, ChangeTack(k, Question(g, u)))
        BY <1>6 DEF Begin, Words
    <2>2. k \in Focuses /\ k.misses = h.misses /\ k.product = g.product BY <1>3 DEF Focuses
    <2> QED BY <1>6, <2>1, <2>2 DEF AskingBack
<1>7. CASE ~ClosesOn(u) /\ u # "chat" /\ ~(Question(g, u) # "nothing" /\ ~AsksForPerson(g, u))
    <2> DEFINE pc == CASE u = "emergency" -> "safety"
                       [] AsksForPerson(g, u) -> "joining"
                       [] LooksUp(g, u) -> "lookup"
                       [] u = "advice" -> "tools"
                       [] OTHER -> "stream"
    <2>1. /\ turnOpen' = TRUE /\ UNCHANGED lastTurn
          /\ memory' = IF u = "emergency" THEN Add(mu, "agent", n) ELSE mu
          /\ focus' = IF LooksUp(g, u) THEN NoteProduct(g)
                      ELSE IF u = "emergency" THEN g ELSE quiet
          /\ GoesOn(n, pc)
        BY <1>7 DEF Begin, Words
    <2>2. pc \in {"safety", "joining", "lookup", "tools", "stream"} OBVIOUS
    <2>3. pc = "lookup" => LooksUp(g, u) OBVIOUS
    <2> HIDE DEF pc
    <2>4. focus' = NoteProduct(g) \/ (focus' \in Focuses /\ focus'.misses = g.misses
                                      /\ focus'.product = g.product)
        BY <2>1, <1>3
    <2>5. pc = "lookup" => focus' = NoteProduct(g) BY <2>1, <2>3
    <2>6. memory' = mu \/ memory' = Add(mu, "agent", n) BY <2>1
    <2> HIDE DEF g, mu, u
    <2>7. Working(n) BY <2>1, <2>2, <2>4, <2>5, <2>6 DEF Working, g, mu, u
    <2> QED BY <2>7
<1> QED BY <1>4, <1>5, <1>6, <1>7

\* What has begun is neither off nor still to begin.
Begun(n) == \E pc \in Pcs \ {"off", "created"} : GoneOn(n, pc)

\* What the beginning of a turn leaves of every variable.
LEMMA BeginShapes ==
    ASSUME AgentWellFormed, NEW n \in Turns, Begin(n)
    PROVE  /\ MemoryShape' /\ FocusShape' /\ TurnShape' /\ Begun(n)
           /\ \/ memory' = Add(memory, "user", n)
              \/ memory' = Add(Add(memory, "user", n), "agent", n)
<1> DEFINE g == NoteUserTurn(focus, Words(n))
           mu == Add(memory, "user", n)
<1>1. n \in Nat /\ focus \in Focuses /\ TurnShape /\ turnOpen \in BOOLEAN /\ RespShape
      /\ memory \in Seq(Entries)
    BY BoundsPositive DEF AgentWellFormed, Turns, FocusShape, MemoryShape
<1>2. mu \in Seq(Entries) /\ Add(mu, "agent", n) \in Seq(Entries)
    BY <1>1, AddSays
<1>3. g \in Focuses /\ NoteProduct(g) \in Focuses /\ Settled(g) \in Focuses
    BY <1>1, FocusOfATurn, SettledFocus
<1>9. {"handing", "done", "safety", "joining", "lookup", "tools", "stream"}
          \subseteq Pcs \ {"off", "created"}
    BY DEF Pcs
<1> HIDE DEF mu, g
<1>4. CASE Closing(n)
    <2>1. GoneOn(n, "done") BY <1>1, <1>4, <1>9, RespGoesOn DEF Closing
    <2>2. lastTurn' = [n |-> n, escalates |-> FALSE, hand |-> "none",
                       asks |-> "nothing", settles |-> TRUE]
        BY <1>4 DEF Closing, Turn
    <2>3. TurnShape' BY <2>2, <1>1 DEF TurnShape, LastTurns, Questions
    <2>4. memory' = Add(mu, "agent", n) /\ turnOpen' = turnOpen /\ focus' = focus
        BY <1>4 DEF Closing, mu
    <2> QED BY <1>1, <1>2, <1>9, <2>1, <2>3, <2>4 DEF MemoryShape, FocusShape, Begun, mu
<1>5. ASSUME NEW k \in Focuses, NEW reply \in Replies, Directly(n, mu, k, reply)
      PROVE  /\ memory' = mu \/ memory' = Add(mu, "agent", n)
             /\ turnOpen' \in BOOLEAN /\ focus' \in Focuses /\ TurnShape' /\ Begun(n)
    <2>1. /\ memory' = mu \/ memory' = Add(mu, "agent", n)
          /\ turnOpen' \in BOOLEAN /\ focus' \in Focuses /\ TurnShape'
          /\ GoneOn(n, IF reply.handover THEN "handing" ELSE "done")
        BY <1>1, <1>2, <1>5, DirectlyDoes, Zenon
    <2> QED BY <2>1, <1>9 DEF Begun
<1>6. CASE Chatting(n)
    <2>1. PICK reply \in Replies : Directly(n, mu, Settled(g), reply)
        BY <1>6 DEF Chatting, mu, g
    <2> QED BY <1>2, <1>3, <1>5, <2>1 DEF MemoryShape, FocusShape, mu
<1>7. CASE AskingBack(n)
    <2>1. PICK k \in Focuses : Directly(n, mu, k, ChangeTack(k, Question(g, Words(n))))
        BY <1>7 DEF AskingBack, mu, g
    <2>2. ChangeTack(k, Question(g, Words(n))) \in Replies
        BY <1>3, QuestionIsOne, TackIsAReply
    <2> QED BY <1>2, <1>5, <2>1, <2>2 DEF MemoryShape, FocusShape, mu
<1>8. CASE Working(n)
    <2>1. PICK pc \in {"safety", "joining", "lookup", "tools", "stream"} : GoesOn(n, pc)
        BY <1>8 DEF Working
    <2>2. GoneOn(n, pc) /\ pc \in Pcs \ {"off", "created"} BY <2>1, <1>1, <1>9, RespGoesOn
    <2>3. TurnShape' BY <1>1, <1>8 DEF Working, TurnShape
    <2>4. focus' \in Focuses /\ turnOpen' \in BOOLEAN BY <1>3, <1>8 DEF Working, g
    <2>5. memory' = mu \/ memory' = Add(mu, "agent", n) BY <1>8 DEF Working, mu
    <2> QED BY <1>2, <2>2, <2>3, <2>4, <2>5 DEF MemoryShape, FocusShape, Begun, mu
<1> QED BY <1>4, <1>6, <1>7, <1>8, BeginIsOneOf

\* The turn that begins is in the memory, which ends with it.
LEMMA BeginRemembers ==
    ASSUME AgentWellFormed, NEW n \in 1..turn, n \in Turns, Begin(n),
           OneTurnEach(memory, turn)
    PROVE  /\ OneTurnEach(memory', turn)
           /\ \A k : Remembers(memory, k) => Remembers(memory', k)
           /\ Remembers(memory', n) /\ EndsWith(memory', n)
<1> DEFINE mu == Add(memory, "user", n)
<1>1. turn \in Nat /\ n \in Nat /\ memory \in Seq(Entries)
    BY BoundsPositive DEF AgentWellFormed, CountShape, MemoryShape
<1>2. /\ mu \in Seq(Entries) /\ OneTurnEach(mu, turn)
      /\ \A k : Remembers(memory, k) => Remembers(mu, k)
      /\ Remembers(mu, n) /\ EndsWith(mu, n)
    BY <1>1, CallerSpeaks
<1>3. memory' = mu \/ memory' = Add(mu, "agent", n)
    BY <1>1, BeginShapes
<1> HIDE DEF mu
<1>4. LET a == Add(mu, "agent", n)
      IN  /\ OneTurnEach(a, turn)
          /\ \A k : Remembers(mu, k) => Remembers(a, k)
          /\ \A k : EndsWith(a, k)
    BY <1>1, <1>2, AgentSpeaks
<1>5. CASE memory' = mu BY <1>5, <1>1, <1>2
<1>6. CASE memory' = Add(mu, "agent", n) BY <1>6, <1>1, <1>2, <1>4
<1> QED BY <1>3, <1>5, <1>6

\* What a turn that begins leaves to be counted.
LEMMA BeginCounts ==
    ASSUME AgentWellFormed, NEW n \in Turns, Begin(n), OneMissWithAProduct, Spent
    PROVE  /\ OneMissWithAProduct'
           /\ Settles(Words(n)) \/ asked.blank <= focus'.misses \/ focus'.product
           /\ resp'[n].pc = "lookup" => focus'.product
           /\ resp'[n].pc = "done" =>
                 /\ lastTurn'.n = n
                 /\ Settles(Words(n)) => lastTurn'.settles
                 /\ lastTurn'.escalates => lastTurn'.asks = "nothing"
                 /\ lastTurn'.asks # "nothing" /\ ~lastTurn'.settles =>
                       asked.blank + 1 <= focus'.misses /\ focus'.misses <= 2
<1> DEFINE g == NoteUserTurn(focus, Words(n))
           mu == Add(memory, "user", n)
<1>1. /\ n \in Nat /\ focus \in Focuses /\ TurnShape /\ RespShape /\ asked.blank \in Nat
      /\ mu \in Seq(Entries)
    <2>1. n \in Nat /\ memory \in Seq(Entries)
        BY BoundsPositive DEF Turns, AgentWellFormed, MemoryShape
    <2>2. mu \in Seq(Entries) BY <2>1, AddSays
    <2> HIDE DEF mu
    <2> QED BY <2>1, <2>2 DEF AgentWellFormed, FocusShape, AskedShape
<1>2. /\ g \in Focuses /\ g.misses = focus.misses /\ (Words(n) # "kind" => g = focus)
      /\ g.product => focus.product
      /\ Missed(g, Words(n)).misses = IF NamesSomething(Words(n)) THEN 1 ELSE 1 + focus.misses
      /\ NoteProduct(g).misses = 0 /\ NoteProduct(g).product = TRUE
      /\ Settled(g) \in Focuses /\ Settled(g).misses = 0
    BY <1>1, FocusOfATurn, SettledFocus
<1>3. /\ focus.misses \in Nat /\ (focus.product => focus.misses <= 1)
      /\ asked.blank <= focus.misses \/ focus.product
    BY <1>1 DEF OneMissWithAProduct, Spent, Focuses
<1> HIDE DEF g, mu
<1>4. CASE Closing(n)
    <2>1. /\ focus' = focus
          /\ lastTurn' = [n |-> n, escalates |-> FALSE, hand |-> "none",
                          asks |-> "nothing", settles |-> TRUE]
        BY <1>4 DEF Closing, Turn
    <2>2. resp'[n].pc = "done" BY <1>1, <1>4, RespGoesOn DEF Closing, GoneOn, Pcs
    <2> QED BY <1>1, <1>3, <2>1, <2>2 DEF OneMissWithAProduct
<1>5. ASSUME NEW k \in Focuses, NEW reply \in Replies, Directly(n, mu, k, reply)
      PROVE  /\ focus'.misses = k.misses /\ focus'.product = k.product
             /\ resp'[n].pc = IF reply.handover THEN "handing" ELSE "done"
             /\ ~reply.handover => /\ lastTurn'.n = n /\ lastTurn'.escalates = FALSE
                                   /\ lastTurn'.asks = reply.asks
                                   /\ lastTurn'.settles = Settles(Words(n))
    <2>1. /\ focus'.misses = k.misses /\ focus'.product = k.product
          /\ GoneOn(n, IF reply.handover THEN "handing" ELSE "done")
          /\ ~reply.handover => /\ lastTurn'.n = n /\ lastTurn'.escalates = FALSE
                                /\ lastTurn'.asks = reply.asks
                                /\ lastTurn'.settles = Settles(resp[n].words)
        BY <1>1, <1>5, DirectlyDoes, Zenon
    <2> QED BY <2>1 DEF GoneOn, Words
<1>6. CASE Chatting(n)
    <2>1. PICK reply \in Replies :
              /\ reply.handover = FALSE /\ reply.asks = "nothing"
              /\ Directly(n, mu, Settled(g), reply)
        BY <1>6 DEF Chatting, mu, g
    <2>2. /\ focus'.misses = 0
          /\ resp'[n].pc = "done"
          /\ lastTurn'.n = n /\ lastTurn'.escalates = FALSE /\ lastTurn'.asks = "nothing"
          /\ lastTurn'.settles = Settles(Words(n))
        BY <1>2, <1>5, <2>1
    <2>3. Settles(Words(n)) BY <1>6 DEF Chatting, Settles
    <2> QED BY <2>2, <2>3 DEF OneMissWithAProduct
<1>7. CASE AskingBack(n)
    <2>1. Question(g, Words(n)) # "nothing" BY <1>7 DEF AskingBack, g
    <2>2. PICK k \in Focuses :
              /\ k.misses = Missed(g, Words(n)).misses /\ k.product = g.product
              /\ Directly(n, mu, k, ChangeTack(k, Question(g, Words(n))))
        BY <1>7 DEF AskingBack, g, mu
    <2> DEFINE reply == ChangeTack(k, Question(g, Words(n)))
    <2>3. reply \in Replies /\ (reply.handover \/ k.misses <= 2)
        BY <1>2, QuestionIsOne, TackIsAReply
    <2>8. Directly(n, mu, k, reply) BY <2>2
    <2> HIDE DEF reply
    <2>4. /\ focus'.misses = k.misses /\ focus'.product = g.product
          /\ resp'[n].pc = IF reply.handover THEN "handing" ELSE "done"
          /\ ~reply.handover => /\ lastTurn'.n = n /\ lastTurn'.escalates = FALSE
                                /\ lastTurn'.settles = Settles(Words(n))
        BY <2>2, <2>3, <2>8, <1>5
    <2>5. Words(n) = "kind" \/ (Words(n) = "vague" /\ ~g.product) \/ g.misses >= 2
        BY <1>2, <2>1, QuestionIsOne
    <2>6. CASE NamesSomething(Words(n))
        <3>1. focus'.misses = 1 BY <2>2, <2>4, <2>6, <1>2
        <3>2. OneMissWithAProduct' BY <3>1 DEF OneMissWithAProduct
        <3>3. resp'[n].pc # "lookup" BY <2>4
        <3>5. Settles(Words(n)) BY <2>6 DEF Settles
        <3>4. resp'[n].pc = "done" => lastTurn'.n = n /\ lastTurn'.settles
                                  /\ lastTurn'.escalates = FALSE
            BY <2>4, <3>5
        <3> QED BY <3>2, <3>3, <3>4, <3>5
    <2>7. CASE ~NamesSomething(Words(n))
        <3>1. Words(n) # "kind" /\ g = focus BY <2>7, <1>2 DEF NamesSomething
        <3>2. ~focus.product BY <3>1, <2>5, <1>3
        <3>3. focus'.misses = 1 + focus.misses /\ ~focus'.product
            BY <3>1, <3>2, <2>2, <2>4, <2>7, <1>2
        <3>4. asked.blank + 1 <= focus'.misses BY <3>2, <3>3, <1>1, <1>3
        <3>5. resp'[n].pc = "done" =>
                  /\ lastTurn'.n = n /\ lastTurn'.escalates = FALSE
                  /\ lastTurn'.settles = Settles(Words(n)) /\ focus'.misses <= 2
            BY <2>2, <2>3, <2>4
        <3>6. OneMissWithAProduct' BY <3>3 DEF OneMissWithAProduct
        <3>7. asked.blank <= focus'.misses /\ resp'[n].pc # "lookup" BY <3>4, <2>4, <3>3,
                 <1>1, <1>3
        <3>8. Settles(Words(n)) => (resp'[n].pc = "done" => lastTurn'.settles) BY <3>5
        <3> QED BY <3>4, <3>5, <3>6, <3>7, <3>8
    <2> QED BY <2>6, <2>7
<1>8. CASE Working(n)
    <2>1. PICK pc \in {"safety", "joining", "lookup", "tools", "stream"} :
              GoesOn(n, pc) /\ (pc = "lookup" => focus' = NoteProduct(g))
        BY <1>8 DEF Working, g
    <2>4. resp'[n].pc = pc BY <1>1, <2>1, RespGoesOn DEF GoneOn, Pcs
    <2>2. CASE focus' = NoteProduct(g) BY <2>1, <2>2, <2>4, <1>2 DEF OneMissWithAProduct
    <2>3. CASE focus' \in Focuses /\ focus'.misses = g.misses /\ focus'.product = g.product
        <3>1. OneMissWithAProduct' BY <2>3, <1>2, <1>3 DEF OneMissWithAProduct
        <3>2. Settles(Words(n)) \/ asked.blank <= focus'.misses \/ focus'.product
            BY <2>3, <1>2, <1>3 DEF NamesSomething, Settles
        <3>3. resp'[n].pc = "lookup" => focus'.product BY <2>1, <2>4, <1>2
        <3> QED BY <3>1, <3>2, <3>3, <2>1, <2>4
    <2> QED BY <2>2, <2>3, <1>8 DEF Working, g
<1> QED BY <1>4, <1>6, <1>7, <1>8, BeginIsOneOf

(* What a turn does from one wait to the next                              *)

\* A turn recorded has the form of one.
LEMMA TurnFields ==
    ASSUME NEW n \in Nat, NEW e \in BOOLEAN, NEW h \in TransferTool \cup {"none"}
    PROVE  /\ Turn(n, e, h) \in LastTurns
           /\ Turn(n, e, h).n = n /\ Turn(n, e, h).asks = "nothing"
           /\ Turn(n, e, h).settles = TRUE
           /\ Turn(n, e, h).escalates = e
BY DEF Turn, Questions, LastTurns

\* What every step of a running respond leaves.
RespStep(n) ==
    /\ MemoryShape' /\ FocusShape' /\ TurnShape'
    /\ \E pc \in Pcs \ {"off", "created", "lookup"} : GoneOn(n, pc)
    /\ memory' = memory \/ memory' = Add(memory, "agent", n)
    /\ focus'.product = focus.product
    /\ \/ focus'.misses = focus.misses
       \/ /\ focus'.misses = 0
          /\ resp[n].pc = "lookup" \/ (resp'[n].pc = "done" /\ lastTurn'.escalates)
    /\ resp'[n].pc = "done" =>
          /\ lastTurn'.n = n /\ lastTurn'.asks = "nothing"
          /\ Settles(resp[n].words) => lastTurn'.settles

\* What the running respond may say.
LEMMA Spoken ==
    ASSUME AgentWellFormed, NEW n \in Turns
    PROVE  /\ n \in Nat /\ resp[n] \in Runs /\ resp[n].out \in Nat /\ focus \in Focuses
           /\ memory \in Seq(Entries) /\ turnOpen \in BOOLEAN
           /\ Add(memory, "agent", n) \in Seq(Entries)
           /\ RespShape /\ TurnShape
<1>1. n \in Nat BY BoundsPositive DEF Turns
<1>2. resp[n] \in Runs /\ focus \in Focuses /\ memory \in Seq(Entries)
      /\ turnOpen \in BOOLEAN /\ RespShape /\ TurnShape
    BY DEF AgentWellFormed, RespShape, FocusShape, MemoryShape
<1>3. resp[n].out \in Nat BY <1>2 DEF Runs
<1>4. Add(memory, "agent", n) \in Seq(Entries) BY <1>1, <1>2, AddSays
<1> QED BY <1>1, <1>2, <1>3, <1>4

\* The availability of a product.
LEMMA LookupDoes ==
    ASSUME AgentWellFormed, NEW n \in Turns, Lookup(n) PROVE RespStep(n)
<1>1. resp[n].pc = "lookup" BY DEF Lookup
<1>4. {"done", "tools"} \subseteq Pcs \ {"off", "created", "lookup"} BY DEF Pcs
<1>2. ASSUME NEW restricted \in BOOLEAN,
             Directly(n, memory, Settled(focus),
                      [Reply EXCEPT !.resolved = TRUE, !.offers = restricted])
      PROVE  RespStep(n)
    <2> DEFINE reply == [Reply EXCEPT !.resolved = TRUE, !.offers = restricted]
    <2>1. reply \in Replies /\ reply.asks = "nothing" /\ reply.handover = FALSE
        BY DEF Reply, Replies, Questions
    <2>2. Directly(n, memory, Settled(focus), reply) BY <1>2
    <2> HIDE DEF reply
    <2>6. /\ memory \in Seq(Entries) /\ TurnShape /\ RespShape /\ focus \in Focuses
          /\ Settled(focus) \in Focuses /\ Settled(focus).misses = 0
          /\ Settled(focus).product = focus.product
        BY Spoken, SettledFocus
    <2>3. /\ memory' = memory \/ memory' = Add(memory, "agent", n)
          /\ turnOpen' \in BOOLEAN
          /\ focus' \in Focuses /\ focus'.misses = Settled(focus).misses
          /\ focus'.product = Settled(focus).product
          /\ GoneOn(n, IF reply.handover THEN "handing" ELSE "done")
          /\ TurnShape'
          /\ ~reply.handover => /\ lastTurn'.n = n /\ lastTurn'.escalates = FALSE
                                /\ lastTurn'.asks = reply.asks
                                /\ lastTurn'.settles = Settles(resp[n].words)
        BY <2>1, <2>2, <2>6, DirectlyDoes, Zenon
    <2>4. MemoryShape' /\ FocusShape' /\ GoneOn(n, "done")
        BY <2>1, <2>3, Spoken DEF MemoryShape, FocusShape
    <2>5. resp'[n].pc = "done" BY <2>4 DEF GoneOn
    <2> QED BY <1>1, <1>4, <2>1, <2>3, <2>4, <2>5, <2>6 DEF RespStep
<1>3. ASSUME focus' = [focus EXCEPT !.offered = FALSE], GoesOn(n, "tools"),
             UNCHANGED <<memory, turnOpen, attempts, lastTurn>>
      PROVE  RespStep(n)
    <2>1. GoneOn(n, "tools") BY <1>3, <1>4, Spoken, RespGoesOn
    <2>4. resp'[n].pc = "tools" BY <2>1 DEF GoneOn
    <2>2. FocusShape' /\ focus'.misses = focus.misses /\ focus'.product = focus.product
        BY <1>3, Spoken, SettledFocus DEF FocusShape
    <2>3. MemoryShape' /\ TurnShape' BY <1>3 DEF AgentWellFormed, MemoryShape, TurnShape
    <2> QED BY <1>3, <1>4, <2>1, <2>2, <2>3, <2>4 DEF RespStep
<1> QED BY <1>2, <1>3 DEF Lookup

\* The transfer tool.
LEMMA JoinDoes ==
    ASSUME AgentWellFormed, NEW n \in Turns, Join(n) PROVE RespStep(n)
<1>1. PICK hand \in TransferTool : lastTurn' = Turn(n, TRUE, hand) BY DEF Join
<1>2. TurnShape' /\ lastTurn'.n = n /\ lastTurn'.asks = "nothing" /\ lastTurn'.settles
      /\ lastTurn'.escalates
    <2>1. n \in Nat /\ TRUE \in BOOLEAN /\ hand \in TransferTool \cup {"none"}
        BY Spoken
    <2> QED BY <1>1, <2>1, TurnFields DEF TurnShape
<1>3. GoneOn(n, "done") /\ "done" \in Pcs \ {"off", "created", "lookup"}
    <2>1. Gives(n, 1) /\ "done" \in Pcs BY DEF Join, Pcs
    <2> QED BY <2>1, Spoken, RespGoesOn
<1>4. MemoryShape' /\ (memory' = memory \/ memory' = Add(memory, "agent", n))
    BY Spoken DEF Join, MemoryShape
<1>5. /\ FocusShape' /\ focus'.product = focus.product
      /\ focus'.misses = focus.misses \/ focus'.misses = 0
    BY Spoken, SettledFocus DEF Join, FocusShape
<1>6. resp'[n].pc = "done" BY <1>3 DEF GoneOn
<1> QED BY <1>2, <1>3, <1>4, <1>5, <1>6 DEF RespStep

\* A step that only moves respond on, and one that ends it.
LEMMA OnlyMovesOn ==
    ASSUME AgentWellFormed, NEW n \in Turns, NEW pc \in Pcs \ {"off", "created", "lookup", "done"},
           NEW k \in Nat,
           Waits(n, pc) \/ (resp' = [resp EXCEPT ![n].out = k] /\ pc = resp[n].pc),
           UNCHANGED <<memory, turnOpen, focus, lastTurn>>
    PROVE  RespStep(n)
<1>1. GoneOn(n, pc) BY Spoken, RespGoesOn
<1>2. MemoryShape' /\ FocusShape' /\ TurnShape'
    BY DEF AgentWellFormed, MemoryShape, FocusShape, TurnShape
<1>3. resp'[n].pc = pc BY <1>1 DEF GoneOn
<1> QED BY <1>1, <1>2, <1>3 DEF RespStep

LEMMA EndsTheTurn ==
    ASSUME AgentWellFormed, NEW n \in Turns, NEW e \in BOOLEAN, NEW k \in Nat,
           memory' = Add(memory, "agent", n), turnOpen' = FALSE,
           lastTurn' = Turn(n, e, "none"), Gives(n, k), UNCHANGED focus
    PROVE  RespStep(n)
<1>0. n \in Nat /\ "none" \in TransferTool \cup {"none"} BY Spoken
<1>1. TurnShape' /\ lastTurn'.n = n /\ lastTurn'.asks = "nothing" /\ lastTurn'.settles
    BY <1>0, TurnFields DEF TurnShape
<1>2. GoneOn(n, "done") /\ "done" \in Pcs \ {"off", "created", "lookup"}
    BY Spoken, RespGoesOn DEF Pcs
<1>3. MemoryShape' /\ FocusShape'
    BY Spoken DEF MemoryShape, AgentWellFormed, FocusShape
<1>4. resp'[n].pc = "done" BY <1>2 DEF GoneOn
<1> QED BY <1>1, <1>2, <1>3, <1>4 DEF RespStep

\* The end of a respond.
LEMMA FinishDoes ==
    ASSUME AgentWellFormed, NEW n \in Turns, NEW x \in BOOLEAN, NEW k \in Nat,
           Finish(n, x, k), UNCHANGED focus
    PROVE  RespStep(n)
<1> DEFINE e == x \/ Conditional(resp[n]) \/ resp[n].pc = "missing"
<1>0. resp[n].again \in BOOLEAN BY Spoken DEF Runs
<1>1. e \in BOOLEAN BY <1>0 DEF Conditional
<1>2. /\ memory' = Add(memory, "agent", n) /\ turnOpen' = FALSE
      /\ lastTurn' = Turn(n, e, "none") /\ Gives(n, k)
    BY DEF Finish
<1> HIDE DEF e
<1> QED BY <1>1, <1>2, EndsTheTurn

\* A respond that is under way makes one of these steps.
Goes(n) == Lookup(n) \/ Join(n) \/ Tools(n) \/ Stream(n) \/ Whole(n)

LEMMA GoesDoes ==
    ASSUME AgentWellFormed, NEW n \in Turns, Goes(n)
    PROVE  /\ RespStep(n) /\ UNCHANGED <<early, prepared, loop, turn>>
           /\ resp[n].pc \notin {"off", "created", "done"}
<1>1. CASE Lookup(n) BY <1>1, LookupDoes DEF Lookup
<1>2. CASE Join(n) BY <1>2, JoinDoes DEF Join
<1>3. CASE Tools(n)
    <2>1. resp[n].pc = "tools" /\ UNCHANGED <<early, focus, prepared, loop, turn>>
        BY <1>3 DEF Tools
    <2>2. ASSUME NEW pc \in {"honest", "whole", "stream", "missing"},
                 Waits(n, pc), UNCHANGED <<memory, turnOpen, lastTurn>>
          PROVE  RespStep(n)
        <3>1. pc \in Pcs \ {"off", "created", "lookup", "done"} /\ 0 \in Nat BY DEF Pcs
        <3> QED BY <2>1, <2>2, <3>1, OnlyMovesOn
    <2>3. ASSUME memory' = Add(memory, "agent", n), turnOpen' = FALSE,
                 lastTurn' = Turn(n, FALSE, "none"), Gives(n, 1)
          PROVE  RespStep(n)
        BY <2>1, <2>3, EndsTheTurn
    <2>4. \/ \E pc \in {"honest", "whole", "stream", "missing"} :
                Waits(n, pc) /\ UNCHANGED <<memory, turnOpen, lastTurn>>
          \/ /\ memory' = Add(memory, "agent", n) /\ turnOpen' = FALSE
             /\ lastTurn' = Turn(n, FALSE, "none") /\ Gives(n, 1)
        BY <1>3 DEF Tools
    <2> QED BY <2>1, <2>2, <2>3, <2>4
<1>4. CASE Stream(n)
    <2>1. resp[n].pc \in {"stream", "missing"}
          /\ UNCHANGED <<early, focus, prepared, loop, turn>>
        BY <1>4 DEF Stream
    <2>2. resp[n].out \in Nat /\ resp[n].out + 1 \in Nat BY Spoken
    <2>3. CASE /\ resp' = [resp EXCEPT ![n].out = @ + 1]
               /\ UNCHANGED <<memory, turnOpen, lastTurn>>
        <3>1. resp' = [resp EXCEPT ![n].out = resp[n].out + 1]
            BY <2>3 DEF AgentWellFormed, RespShape
        <3>2. resp[n].pc \in Pcs \ {"off", "created", "lookup", "done"} BY <2>1 DEF Pcs
        <3> QED BY <2>1, <2>2, <2>3, <3>1, <3>2, OnlyMovesOn
    <2>4. CASE Waits(n, "whole") /\ UNCHANGED <<memory, turnOpen, lastTurn>>
        <3>1. "whole" \in Pcs \ {"off", "created", "lookup", "done"} /\ 0 \in Nat BY DEF Pcs
        <3> QED BY <2>1, <2>4, <3>1, OnlyMovesOn
    <2>5. CASE Finish(n, FALSE, resp[n].out) BY <2>1, <2>2, <2>5, FinishDoes
    <2>6. CASE Finish(n, TRUE, resp[n].out) BY <2>1, <2>2, <2>6, FinishDoes
    <2>7. CASE Finish(n, TRUE, resp[n].out + 1) BY <2>1, <2>2, <2>7, FinishDoes
    <2>8. RespStep(n) BY <1>4, <2>3, <2>4, <2>5, <2>6, <2>7 DEF Stream
    <2> QED BY <2>1, <2>8
<1>5. CASE Whole(n)
    <2>1. PICK x \in BOOLEAN : Finish(n, x, 1) BY <1>5 DEF Whole
    <2>2. RespStep(n) BY <1>5, <2>1, FinishDoes DEF Whole
    <2> QED BY <1>5, <2>2 DEF Whole
<1> QED BY <1>1, <1>2, <1>3, <1>4, <1>5 DEF Goes

(* The shapes and the memory, step by step                                 *)

\* What stands still keeps its shape.
LEMMA AgentShapes ==
    ASSUME AgentWellFormed, UNCHANGED <<memory, turnOpen, focus, lastTurn>>
    PROVE  MemoryShape' /\ FocusShape' /\ TurnShape'
BY DEF AgentWellFormed, MemoryShape, FocusShape, TurnShape

\* The histories of the speculation only grow, and remember who edited.
LEMMA StraysGrow ==
    ASSUME AgentWellFormed, Strays
    PROVE  /\ strays' \in Nat /\ strays' >= strays
           /\ prepared # 0 /\ prepared' = prepared /\ mixed => mixed'
           /\ (/\ prepared # 0 /\ prepared' = prepared /\ memory' # memory
               /\ resp'[prepared] = resp[prepared] /\ resp[prepared].pc # "created") => mixed'
           /\ (/\ prepared # 0 /\ prepared' = 0 /\ prepared \notin committed'
               /\ mixed \/ resp[prepared].pc = "created") => strays' = strays + 1
<1>1. strays \in Nat BY DEF AgentWellFormed, CountShape
<1> QED BY <1>1 DEF Strays

\* The caller's turns that are in a memory.
LEMMA TurnsAreRemembered ==
    ASSUME NEW m PROVE \A k : k \in TurnsIn(m) <=> Remembers(m, k)
BY DEF TurnsIn, Remembers, UserAt

LEMMA ForgottenTurns ==
    \A k : k \in Forgotten <=>
              k \in committed /\ resp[k].pc # "created" /\ ~Remembers(memory, k)
BY TurnsAreRemembered DEF Forgotten

\* No more is forgotten than strays were withdrawn.
LEMMA FewForgotten ==
    ASSUME AgentWellFormed, MemoryInv, strays' \in Nat,
           \/ Forgotten' \subseteq Forgotten /\ strays' >= strays
           \/ strays' = strays + 1 /\ \E x : Forgotten' \subseteq Forgotten \cup {x}
    PROVE  QuestionsRemembered'
<1>1. strays \in Nat /\ turn \in Nat /\ committed \subseteq 1..turn
      /\ Cardinality(Forgotten) <= strays
    BY BoundsPositive DEF AgentWellFormed, CountShape, MemoryInv, CommittedInv,
       QuestionsRemembered
<1>2. IsFiniteSet(Forgotten) /\ Cardinality(Forgotten) \in Nat
    <2>1. IsFiniteSet(1..turn) BY <1>1, FS_Interval
    <2>2. Forgotten \in SUBSET (1..turn) BY <1>1 DEF Forgotten
    <2>3. IsFiniteSet(Forgotten) BY <2>1, <2>2, FS_Subset
    <2> QED BY <2>3, FS_CardinalityType
<1> DEFINE old == Forgotten
           new == Forgotten'
<1>3. QuestionsRemembered' <=> Cardinality(new) <= strays' BY DEF QuestionsRemembered
<1> HIDE DEF old, new
<1>4. CASE new \subseteq old /\ strays' >= strays
    <2>1. IsFiniteSet(new) /\ Cardinality(new) <= Cardinality(old)
        BY <1>2, <1>4, FS_Subset DEF old
    <2>2. Cardinality(new) \in Nat BY <2>1, FS_CardinalityType
    <2> QED BY <1>1, <1>2, <1>3, <1>4, <2>1, <2>2 DEF old
<1>5. CASE strays' = strays + 1 /\ \E x : new \subseteq old \cup {x}
    <2>1. PICK x : new \subseteq old \cup {x} BY <1>5
    <2>2. IsFiniteSet(old \cup {x}) /\ Cardinality(old \cup {x}) <= Cardinality(old) + 1
          /\ Cardinality(old \cup {x}) \in Nat
        <3>1. /\ IsFiniteSet(old \cup {x})
              /\ Cardinality(old \cup {x}) =
                    IF x \in old THEN Cardinality(old) ELSE Cardinality(old) + 1
            BY <1>2, FS_AddElement DEF old
        <3> QED BY <3>1, <1>2 DEF old
    <2>3. IsFiniteSet(new) /\ Cardinality(new) <= Cardinality(old \cup {x})
        BY <2>1, <2>2, FS_Subset
    <2>4. Cardinality(new) \in Nat BY <2>3, FS_CardinalityType
    <2> QED BY <1>1, <1>2, <1>3, <1>5, <2>2, <2>3, <2>4 DEF old
<1> QED BY <1>4, <1>5 DEF old, new

\* A step that leaves the speculation, and at most edits the memory and one run.
LEMMA MemoryKept ==
    ASSUME AgentWellFormed, MemoryInv, Strays, UNCHANGED <<prepared, turn, committed>>,
           OneTurnEach(memory', turn),
           \A k : Remembers(memory, k) => Remembers(memory', k),
           NEW n \in Turns, \A j \in Turns : j # n => resp'[j] = resp[j],
           RunsInv', line'.pc # "listening" => line'.n \in committed,
           n = prepared /\ resp'[n] # resp[n] =>
               Remembers(memory', n) /\ (mixed \/ EndsWith(memory', n)),
           resp[n].pc = "created" /\ resp'[n].pc # "created" => Remembers(memory', n)
    PROVE  MemoryInv'
<1>1. /\ strays' \in Nat /\ strays' >= strays
      /\ prepared # 0 /\ mixed => mixed'
      /\ (/\ prepared # 0 /\ memory' # memory
          /\ resp'[prepared] = resp[prepared] /\ resp[prepared].pc # "created") => mixed'
    BY StraysGrow
<1>2. CommittedInv' BY DEF MemoryInv, CommittedInv
<1>3. turn \in 0..MaxTurns /\ MaxTurns \in Nat /\ committed \subseteq Turns
      /\ (prepared # 0 => prepared \in Turns)
    BY BoundsPositive DEF AgentWellFormed, CountShape, MemoryInv, CommittedInv, Turns
<1>4. PreparedInv'
    <2>1. CASE prepared = 0 BY <2>1 DEF PreparedInv
    <2>2. CASE prepared # 0 /\ resp'[prepared] # resp[prepared]
        <3>1. prepared = n BY <1>3, <2>2
        <3>2. Remembers(memory', n) /\ (mixed \/ EndsWith(memory', n)) BY <2>2, <3>1
        <3> QED BY <1>1, <2>2, <3>1, <3>2 DEF PreparedInv
    <2>3. CASE prepared # 0 /\ resp'[prepared] = resp[prepared]
        <3>1. CASE resp[prepared].pc = "created" BY <2>3, <3>1 DEF PreparedInv
        <3>2. CASE resp[prepared].pc # "created"
            <4>1. Remembers(memory, prepared) /\ (mixed \/ EndsWith(memory, prepared))
                BY <2>3, <3>2 DEF MemoryInv, PreparedInv
            <4>2. CASE memory' = memory BY <1>1, <2>3, <4>1, <4>2 DEF PreparedInv
            <4>3. CASE memory' # memory BY <1>1, <2>3, <3>2, <4>1, <4>3 DEF PreparedInv
            <4> QED BY <4>2, <4>3
        <3> QED BY <3>1, <3>2
    <2> QED BY <2>1, <2>2, <2>3
<1>5. Forgotten' \subseteq Forgotten
    <2> SUFFICES ASSUME NEW k \in Forgotten' PROVE k \in Forgotten OBVIOUS
    <2>1. k \in committed' /\ resp'[k].pc # "created" /\ ~Remembers(memory', k)
        BY TurnsAreRemembered DEF Forgotten
    <2>2. k \in committed /\ k \in Turns /\ ~Remembers(memory, k) BY <1>3, <2>1
    <2>3. resp[k].pc # "created" BY <2>1, <2>2
    <2> QED BY <2>2, <2>3, ForgottenTurns
<1>6. QuestionsRemembered' BY <1>1, <1>5, FewForgotten
<1> QED BY <1>2, <1>4, <1>6 DEF MemoryInv

\* A withdrawal takes no turn but its own, or is one of the strays.
LEMMA WithdrawnForgetsOne ==
    ASSUME AgentWellFormed, MemoryInv, Strays, prepared # 0, prepared' = 0, memory' = Pending,
           prepared \notin committed',
           \A k \in committed' : resp'[k].pc # "created" =>
               k \in committed /\ resp[k].pc # "created"
    PROVE  /\ memory' \in Seq(Entries) /\ OneTurnEach(memory', turn)
           /\ QuestionsRemembered'
<1>1. /\ memory \in Seq(Entries) /\ OneTurnEach(memory, turn) /\ turn \in Nat
      /\ strays' \in Nat /\ strays' >= strays
      /\ mixed \/ resp[prepared].pc = "created" => strays' = strays + 1
    BY StraysGrow, BoundsPositive DEF AgentWellFormed, MemoryShape, MemoryInv, CountShape
<1>2. /\ memory' \in Seq(Entries) /\ OneTurnEach(memory', turn)
      /\ \E n \in Nat : \A k : Remembers(memory, k) => Remembers(memory', k) \/ k = n
      /\ \A n : EndsWith(memory, n) =>
             \A k : Remembers(memory, k) => Remembers(memory', k) \/ k = n
    <2>1. CASE memory' = memory BY <1>1, <2>1
    <2>2. CASE memory' = DropLastUser(memory)
        <3>1. LET a == DropLastUser(memory)
              IN  /\ a \in Seq(Entries)
                  /\ OneTurnEach(a, turn)
                  /\ \E n \in Nat : \A k : Remembers(memory, k) => Remembers(a, k) \/ k = n
                  /\ \A n : EndsWith(memory, n) =>
                        \A k : Remembers(memory, k) => Remembers(a, k) \/ k = n
            BY <1>1, DropForgetsOne
        <3> QED BY <2>2, <3>1
    <2> QED BY <2>1, <2>2 DEF Pending
<1>3. \A k \in Forgotten' : k \in committed' /\ k \in committed
                           /\ resp[k].pc # "created" /\ ~Remembers(memory', k)
    <2> TAKE k \in Forgotten'
    <2>1. k \in committed' /\ resp'[k].pc # "created" /\ ~Remembers(memory', k)
        BY TurnsAreRemembered DEF Forgotten
    <2> QED BY <2>1
<1> DEFINE new == Forgotten'
<1>4. CASE mixed \/ resp[prepared].pc = "created"
    <2>1. PICK n \in Nat : \A k : Remembers(memory, k) => Remembers(memory', k) \/ k = n
        BY <1>2
    <2>2. new \subseteq Forgotten \cup {n} BY <1>3, <2>1, ForgottenTurns
    <2>3. strays' = strays + 1 BY <1>1, <1>4
    <2> QED BY <1>1, <1>2, <2>2, <2>3, FewForgotten
<1>5. CASE ~mixed /\ resp[prepared].pc # "created"
    <2>1. EndsWith(memory, prepared) BY <1>5 DEF MemoryInv, PreparedInv
    <2>2. \A k : Remembers(memory, k) => Remembers(memory', k) \/ k = prepared BY <1>2, <2>1
    <2>3. new \subseteq Forgotten BY <1>3, <2>2, ForgottenTurns
    <2> QED BY <1>1, <1>2, <2>3, FewForgotten
<1> QED BY <1>4, <1>5

\* A run that goes on from where it may keeps the runs right.
LEMMA RunsGoOn ==
    ASSUME RunsInv, UNCHANGED turn, NEW n \in Turns, resp[n].pc # "off", NEW pc, GoneOn(n, pc),
           pc # "created"
    PROVE  RunsInv'
BY DEF RunsInv, GoneOn

\* A run that is made, and one that is withdrawn, have the form of one.
LEMMA RunsMade ==
    ASSUME RespShape, NEW n \in Turns
    PROVE  /\ [resp EXCEPT ![n] = Off] \in [Turns -> Runs]
           /\ \A u \in TurnWords : [resp EXCEPT ![n] = Created(u)] \in [Turns -> Runs]
           /\ Off.pc = "off" /\ \A u : Created(u).pc = "created" /\ Created(u).out = 0
<1>1. Off \in Runs /\ Off.pc = "off" BY DEF Off, Runs, TurnWords, Pcs
<1>2. \A u \in TurnWords : Created(u) \in Runs BY DEF Created, Off, Runs, Pcs
<1>3. \A u : Created(u).pc = "created" /\ Created(u).out = 0 BY DEF Created, Off
<1> QED BY <1>1, <1>2, <1>3 DEF RespShape

\* The turns there are.
LEMMA TheTurns ==
    ASSUME AgentWellFormed, MemoryInv
    PROVE  /\ MaxTurns \in Nat /\ turn \in Nat /\ turn \in 0..MaxTurns /\ 1 \in Turns
           /\ committed \subseteq Turns /\ (prepared # 0 => prepared \in Turns)
           /\ (line.pc # "listening" => line.n \in Turns)
           /\ \A n \in Turns : n \in Nat /\ (resp[n].pc # "off" => n \in 1..turn)
<1>1. MaxTurns \in Nat \ {0} /\ turn \in 0..MaxTurns
    BY BoundsPositive DEF AgentWellFormed, CountShape
<1>2. 1..turn \subseteq Turns /\ 1 \in Turns BY <1>1 DEF Turns
<1>3. \A n \in Turns : n \in Nat /\ (resp[n].pc # "off" => n \in 1..turn)
    BY <1>1 DEF Turns, MemoryInv, RunsInv
<1>4. /\ committed \subseteq 1..turn
      /\ line.pc # "listening" => line.n \in committed
      /\ prepared # 0 => prepared \in 1..turn
    BY DEF MemoryInv, CommittedInv
<1>5. turn \in Nat /\ MaxTurns \in Nat BY <1>1
<1> QED BY <1>1, <1>2, <1>3, <1>4, <1>5

\* The first step of a turn.
LEMMA BeginKeeps ==
    ASSUME AgentWellFormed, MemoryInv, Strays, NEW n \in Turns, Begin(n)
    PROVE  AgentWellFormed' /\ MemoryInv'
<1>1. /\ resp[n].pc = "created"
      /\ UNCHANGED <<prepared, line, rest, committed, asked, turn>>
    BY DEF Begin, loop
<1>2. n \in 1..turn /\ turn \in Nat BY <1>1, TheTurns
<1>3. /\ MemoryShape' /\ FocusShape' /\ TurnShape' /\ Begun(n)
    BY BeginShapes
<1>4. /\ OneTurnEach(memory', turn)
      /\ \A k : Remembers(memory, k) => Remembers(memory', k)
      /\ Remembers(memory', n) /\ EndsWith(memory', n)
    BY <1>2, BeginRemembers DEF MemoryInv
<1>5. PICK pc \in Pcs \ {"off", "created"} : GoneOn(n, pc) BY <1>3 DEF Begun
<1>6. RespShape' /\ \A j \in Turns : j # n => resp'[j] = resp[j] BY <1>5 DEF GoneOn
<1>7. RunsInv' BY <1>1, <1>5, RunsGoOn DEF MemoryInv
<1>8. line'.pc # "listening" => line'.n \in committed BY <1>1 DEF MemoryInv, CommittedInv
<1>9. MemoryInv' BY <1>1, <1>4, <1>6, <1>7, <1>8, MemoryKept
<1>10. LineShape' /\ AskedShape' /\ CountShape'
    BY <1>1, StraysGrow DEF AgentWellFormed, LineShape, AskedShape, CountShape
<1> QED BY <1>3, <1>6, <1>9, <1>10 DEF AgentWellFormed

\* The later ones.
LEMMA GoesKeeps ==
    ASSUME AgentWellFormed, MemoryInv, Strays, NEW n \in Turns, Goes(n)
    PROVE  AgentWellFormed' /\ MemoryInv'
<1>1. /\ RespStep(n) /\ resp[n].pc \notin {"off", "created"}
      /\ UNCHANGED <<prepared, line, rest, committed, asked, turn>>
    BY GoesDoes DEF loop
<1>2. n \in Nat /\ turn \in Nat /\ memory \in Seq(Entries) /\ OneTurnEach(memory, turn)
    BY TheTurns DEF AgentWellFormed, MemoryShape, MemoryInv
<1>3. LET a == Add(memory, "agent", n)
      IN  /\ OneTurnEach(a, turn)
          /\ \A k : Remembers(memory, k) => Remembers(a, k)
          /\ \A k : EndsWith(a, k)
    BY <1>2, AgentSpeaks
<1>4. memory' = memory \/ memory' = Add(memory, "agent", n) BY <1>1 DEF RespStep
<1>5. /\ OneTurnEach(memory', turn)
      /\ \A k : Remembers(memory, k) => Remembers(memory', k)
      /\ \A k : EndsWith(memory, k) => EndsWith(memory', k)
    BY <1>2, <1>3, <1>4
<1>6. PICK pc \in Pcs \ {"off", "created", "lookup"} : GoneOn(n, pc) BY <1>1 DEF RespStep
<1>7. RespShape' /\ \A j \in Turns : j # n => resp'[j] = resp[j] BY <1>6 DEF GoneOn
<1>8. RunsInv' BY <1>1, <1>6, RunsGoOn DEF MemoryInv
<1>9. line'.pc # "listening" => line'.n \in committed BY <1>1 DEF MemoryInv, CommittedInv
<1>10. n = prepared => Remembers(memory', n) /\ (mixed \/ EndsWith(memory', n))
    <2>1. n = prepared => prepared # 0 BY TheTurns, <1>2 DEF Turns
    <2> QED BY <2>1, <1>1, <1>5 DEF MemoryInv, PreparedInv
<1>11. MemoryInv' BY <1>1, <1>5, <1>7, <1>8, <1>9, <1>10, MemoryKept
<1>12. LineShape' /\ AskedShape' /\ CountShape'
    BY <1>1, StraysGrow DEF AgentWellFormed, LineShape, AskedShape, CountShape
<1> QED BY <1>1, <1>7, <1>11, <1>12 DEF AgentWellFormed, RespStep

\* A line that goes on is a line.
LEMMA LineMovesOn ==
    ASSUME LineShape,
           \/ line' = [line EXCEPT !.pc = "answering"] \/ line' = [line EXCEPT !.cut = TRUE]
           \/ line' = [line EXCEPT !.heard = @ + 1] \/ line' = line
    PROVE  /\ LineShape' /\ line'.n = line.n /\ line'.taken = line.taken
           /\ line'.pc = line.pc \/ line'.pc = "answering"
<1>1. line \in LinesOf /\ line.heard + 1 \in Nat BY DEF LineShape, LinesOf
<1>2. CASE line' = [line EXCEPT !.heard = line.heard + 1]
    BY <1>1, <1>2 DEF LineShape, LinesOf
<1>3. CASE line' = [line EXCEPT !.pc = "answering"] BY <1>1, <1>3 DEF LineShape, LinesOf
<1>4. CASE line' = [line EXCEPT !.cut = TRUE] BY <1>1, <1>4 DEF LineShape, LinesOf
<1> QED BY <1>1, <1>2, <1>3, <1>4 DEF LineShape

\* What the caller hears edits nothing.
LEMMA LineMoves ==
    ASSUME AgentWellFormed, MemoryInv, Strays, Speak \/ Hear \/ Interrupt
    PROVE  AgentWellFormed' /\ MemoryInv'
<1>1. /\ UNCHANGED <<memory, turnOpen, focus, lastTurn, resp, prepared, rest, committed,
                     asked, turn>>
      /\ line.pc # "listening"
      /\ \/ line' = [line EXCEPT !.pc = "answering"] \/ line' = [line EXCEPT !.cut = TRUE]
         \/ line' = [line EXCEPT !.heard = @ + 1]
    BY DEF Speak, Hear, Interrupt, agent
<1>2. LineShape' /\ line'.n = line.n
    BY <1>1, LineMovesOn DEF AgentWellFormed
<1>3. line'.n \in committed BY <1>1, <1>2 DEF MemoryInv, CommittedInv
<1>4. 1 \in Turns BY TheTurns
<1>5. RunsInv' BY <1>1 DEF MemoryInv, RunsInv
<1>6. OneTurnEach(memory', turn) BY <1>1 DEF MemoryInv
<1>7. MemoryInv' BY <1>1, <1>3, <1>4, <1>5, <1>6, MemoryKept
<1>8. RespShape' /\ AskedShape' /\ CountShape'
    BY <1>1, StraysGrow DEF AgentWellFormed, RespShape, AskedShape, CountShape
<1> QED BY <1>1, <1>2, <1>7, <1>8, AgentShapes DEF AgentWellFormed

\* A speculation is made.
LEMMA SpeculateKeeps ==
    ASSUME AgentWellFormed, MemoryInv, Strays, NEW u \in Utterances, Speculate(u)
    PROVE  AgentWellFormed' /\ MemoryInv'
<1>1. /\ prepared = 0 /\ turn < MaxTurns /\ turn' = turn + 1 /\ prepared' = turn + 1
      /\ resp' = [resp EXCEPT ![turn + 1] = Created(u)]
      /\ UNCHANGED <<memory, turnOpen, focus, lastTurn, line, rest, committed, asked>>
    BY DEF Speculate, agent, loop
<1>2. /\ turn \in Nat /\ turn + 1 \in Turns /\ turn + 1 \in 1..(turn + 1)
      /\ turn + 1 \in 0..MaxTurns /\ turn + 1 # 0 /\ ~(turn + 1 \in 1..turn)
      /\ \A k \in 1..turn : k \in 1..(turn + 1)
    BY <1>1, TheTurns DEF Turns
<1>3. RespShape /\ u \in TurnWords /\ resp \in [Turns -> Runs]
    BY DEF AgentWellFormed, TurnWords, RespShape
<1>4. RespShape' /\ resp'[turn + 1].pc = "created" /\ resp'[turn + 1].out = 0
    BY <1>1, <1>2, <1>3, RunsMade DEF RespShape
<1>5. \A j \in Turns : j # turn + 1 => resp'[j] = resp[j] BY <1>1, <1>3
<1>6. RunsInv'
    <2>1. RunsInv BY DEF MemoryInv
    <2> QED BY <1>1, <1>2, <1>4, <1>5, <2>1, TheTurns DEF RunsInv
<1>7. OneTurnEach(memory', turn')
    BY <1>1, <1>2 DEF MemoryInv, OneTurnEach
<1>8. CommittedInv' BY <1>1, <1>2 DEF MemoryInv, CommittedInv
<1>9. PreparedInv' BY <1>1, <1>4 DEF PreparedInv
<1>10. QuestionsRemembered'
    <2>1. turn + 1 \notin committed /\ committed \subseteq Turns
        BY <1>2, TheTurns DEF MemoryInv, CommittedInv
    <2>2. \A k \in committed : resp'[k] = resp[k] BY <1>5, <2>1
    <2>3. Forgotten' \subseteq Forgotten BY <1>1, <2>2 DEF Forgotten
    <2> QED BY <2>3, StraysGrow, FewForgotten
<1>11. LineShape' /\ AskedShape' /\ CountShape'
    BY <1>1, <1>2, StraysGrow DEF AgentWellFormed, LineShape, AskedShape, CountShape
<1> QED BY <1>1, <1>4, <1>6, <1>7, <1>8, <1>9, <1>10, <1>11, AgentShapes
        DEF AgentWellFormed, MemoryInv

\* A speculation is withdrawn.
LEMMA DiscardKeeps ==
    ASSUME AgentWellFormed, MemoryInv, Strays, Discard
    PROVE  AgentWellFormed' /\ MemoryInv'
<1>1. /\ prepared # 0 /\ prepared' = 0 /\ memory' = Pending /\ turnOpen' = FALSE
      /\ resp' = [resp EXCEPT ![prepared] = Off]
      /\ UNCHANGED <<focus, lastTurn, line, rest, committed, asked, turn>>
    BY DEF Discard, Withdrawn, loop
<1>2. /\ prepared \in Turns /\ prepared \notin committed /\ committed \subseteq Turns
    BY <1>1, TheTurns DEF MemoryInv, CommittedInv
<1>3. RespShape /\ resp \in [Turns -> Runs] BY DEF AgentWellFormed, RespShape
<1>4. RespShape' /\ resp'[prepared].pc = "off" BY <1>1, <1>2, <1>3, RunsMade DEF RespShape
<1>5. \A j \in Turns : j # prepared => resp'[j] = resp[j] BY <1>1, <1>3
<1>6. RunsInv' BY <1>1, <1>2, <1>4, <1>5 DEF MemoryInv, RunsInv
<1>7. \A k \in committed : resp'[k] = resp[k] BY <1>2, <1>5
<1>8. memory' \in Seq(Entries) /\ OneTurnEach(memory', turn) /\ QuestionsRemembered'
    BY <1>1, <1>2, <1>7, WithdrawnForgetsOne
<1>9. CommittedInv' /\ PreparedInv' BY <1>1 DEF MemoryInv, CommittedInv, PreparedInv
<1>10. LineShape' /\ AskedShape' /\ CountShape'
    BY <1>1, StraysGrow DEF AgentWellFormed, LineShape, AskedShape, CountShape
<1>11. MemoryShape' /\ FocusShape' /\ TurnShape'
    BY <1>1, <1>8 DEF AgentWellFormed, MemoryShape, FocusShape, TurnShape
<1> QED BY <1>1, <1>4, <1>6, <1>8, <1>9, <1>10, <1>11 DEF AgentWellFormed, MemoryInv

\* A speculation is taken.
LEMMA TakenKeeps ==
    ASSUME AgentWellFormed, MemoryInv, Strays, CommitTaken
    PROVE  AgentWellFormed' /\ MemoryInv'
<1>1. /\ prepared # 0 /\ prepared' = 0 /\ rest' = 0
      /\ line' = [NoLine EXCEPT !.n = prepared, !.pc = "starting", !.taken = TRUE]
      /\ committed' = committed \cup {prepared}
      /\ UNCHANGED <<memory, turnOpen, focus, lastTurn, resp, asked, turn>>
    BY DEF CommitTaken, Commits, agent
<1>2. prepared \in Turns /\ prepared \in Nat /\ prepared \in 1..turn
    BY <1>1, TheTurns DEF MemoryInv, CommittedInv
<1>3. line' \in LinesOf /\ line'.n = prepared BY <1>1, <1>2 DEF NoLine, LinesOf
<1>4. CommittedInv' BY <1>1, <1>2, <1>3 DEF MemoryInv, CommittedInv
<1>5. QuestionsRemembered'
    <2>1. resp[prepared].pc # "created" => Remembers(memory, prepared)
        BY <1>1 DEF MemoryInv, PreparedInv
    <2>2. Forgotten' \subseteq Forgotten
        BY <1>1, <2>1, TurnsAreRemembered DEF Forgotten
    <2> QED BY <2>2, StraysGrow, FewForgotten
<1>6. RunsInv' /\ PreparedInv' /\ OneTurnEach(memory', turn')
    BY <1>1 DEF MemoryInv, RunsInv, PreparedInv
<1>7. RespShape' /\ LineShape' /\ AskedShape' /\ CountShape'
    BY <1>1, <1>3, StraysGrow DEF AgentWellFormed, RespShape, LineShape, AskedShape,
       CountShape
<1> QED BY <1>1, <1>4, <1>5, <1>6, <1>7, AgentShapes DEF AgentWellFormed, MemoryInv

\* A turn is asked anew, and what was prepared for other words withdrawn.
LEMMA AskedKeeps ==
    ASSUME AgentWellFormed, MemoryInv, Strays, NEW u \in Utterances, CommitAsked(u)
    PROVE  AgentWellFormed' /\ MemoryInv'
<1> DEFINE runs == [resp EXCEPT ![turn + 1] = Created(u)]
<1>1. /\ turn < MaxTurns /\ turn' = turn + 1 /\ rest' = 0 /\ prepared' = 0
      /\ line' = [NoLine EXCEPT !.n = turn + 1, !.pc = "starting", !.taken = FALSE]
      /\ committed' = committed \cup {turn + 1}
      /\ \/ /\ prepared # 0 /\ memory' = Pending /\ turnOpen' = FALSE
            /\ resp' = [runs EXCEPT ![prepared] = Off]
         \/ prepared = 0 /\ resp' = runs /\ UNCHANGED <<memory, turnOpen>>
      /\ UNCHANGED <<focus, lastTurn, asked>>
    BY DEF CommitAsked, Commits, Withdrawn
<1>2. /\ turn \in Nat /\ turn + 1 \in Turns /\ turn + 1 \in Nat
      /\ turn + 1 \in 0..MaxTurns /\ ~(turn + 1 \in 1..turn)
      /\ \A k \in 1..(turn + 1) : k \in 1..turn \/ k = turn + 1
      /\ \A k \in 1..turn : k \in 1..(turn + 1)
      /\ turn + 1 \in 1..(turn + 1)
    BY <1>1, TheTurns DEF Turns
<1>3. RespShape /\ u \in TurnWords /\ resp \in [Turns -> Runs]
    BY DEF AgentWellFormed, TurnWords, RespShape
<1>4. /\ runs \in [Turns -> Runs] /\ runs[turn + 1].pc = "created" /\ runs[turn + 1].out = 0
      /\ \A j \in Turns : j # turn + 1 => runs[j] = resp[j]
    BY <1>2, <1>3, RunsMade
<1> HIDE DEF runs
<1>5. prepared # 0 => prepared \in Turns /\ prepared \in 1..turn /\ prepared # turn + 1
                      /\ prepared \notin committed'
    BY <1>1, <1>2, TheTurns DEF MemoryInv, CommittedInv
<1>6. /\ RespShape' /\ resp'[turn + 1].pc = "created" /\ resp'[turn + 1].out = 0
      /\ \A j \in Turns : j # turn + 1 => resp'[j] = resp[j] \/ resp'[j].pc = "off"
      /\ \A j \in Turns : j # turn + 1 /\ j # prepared => resp'[j] = resp[j]
    <2>1. CASE prepared # 0 /\ resp' = [runs EXCEPT ![prepared] = Off]
        <3>1. Off \in Runs /\ Off.pc = "off" BY DEF Off, Runs, TurnWords, Pcs
        <3> QED BY <1>2, <1>4, <1>5, <2>1, <3>1 DEF RespShape
    <2>2. CASE prepared = 0 /\ resp' = runs BY <1>2, <1>4, <2>2 DEF RespShape
    <2> QED BY <1>1, <2>1, <2>2
<1>7. RunsInv'
    <2>1. RunsInv BY DEF MemoryInv
    <2> QED BY <1>1, <1>2, <1>6, <2>1, TheTurns DEF RunsInv
<1>8. \A k \in committed' : resp'[k].pc # "created" =>
               k \in committed /\ resp'[k] = resp[k]
    <2>1. \A k \in committed : k \in Turns BY TheTurns
    <2>2. \A k \in committed' : k # prepared \/ prepared = 0 BY <1>5
    <2>3. 0 \notin Turns BY TheTurns DEF Turns
    <2> QED BY <1>1, <1>2, <1>6, <2>1, <2>2, <2>3
<1>9. memory' \in Seq(Entries) /\ OneTurnEach(memory', turn) /\ QuestionsRemembered'
    <2>1. CASE prepared # 0
        BY <1>1, <1>5, <1>8, <2>1, WithdrawnForgetsOne
    <2>2. CASE prepared = 0
        <3>1. memory' = memory BY <1>1, <2>2
        <3>2. Forgotten' \subseteq Forgotten BY <1>8, <3>1 DEF Forgotten
        <3> QED BY <3>1, <3>2, StraysGrow, FewForgotten
                DEF AgentWellFormed, MemoryShape, MemoryInv
    <2> QED BY <2>1, <2>2
<1>10. OneTurnEach(memory', turn') BY <1>1, <1>2, <1>9 DEF OneTurnEach
<1>11. line' \in LinesOf /\ line'.n = turn + 1 BY <1>1, <1>2 DEF NoLine, LinesOf
<1>12. CommittedInv' /\ PreparedInv'
    BY <1>1, <1>2, <1>11 DEF MemoryInv, CommittedInv, PreparedInv
<1>13. LineShape' /\ AskedShape' /\ CountShape'
    BY <1>1, <1>2, <1>11, StraysGrow DEF AgentWellFormed, LineShape, AskedShape, CountShape
<1>14. MemoryShape' /\ FocusShape' /\ TurnShape'
    BY <1>1, <1>9 DEF AgentWellFormed, MemoryShape, FocusShape, TurnShape
<1> QED BY <1>6, <1>7, <1>9, <1>10, <1>12, <1>13, <1>14 DEF AgentWellFormed, MemoryInv

\* The rest of a cut answer is spoken.
LEMMA ResumeKeeps ==
    ASSUME AgentWellFormed, MemoryInv, Strays, Resume
    PROVE  AgentWellFormed' /\ MemoryInv'
<1>1. /\ memory' = IF rest = 0 THEN memory ELSE ExtendLastAssistant(memory, rest)
      /\ rest' = 0 /\ (line' = line \/ line' = NoLine) /\ line.pc = "listening"
      /\ UNCHANGED <<turnOpen, focus, lastTurn, resp, prepared, committed, asked, turn>>
    BY DEF Resume, Listening
<1>2. /\ rest \in Nat /\ turn \in Nat /\ memory \in Seq(Entries)
      /\ OneTurnEach(memory, turn) /\ 1 \in Turns
    BY TheTurns DEF AgentWellFormed, CountShape, MemoryShape, MemoryInv
<1>3. LET a == ExtendLastAssistant(memory, rest)
      IN  /\ a \in Seq(Entries) /\ OneTurnEach(a, turn)
          /\ \A k : Remembers(memory, k) => Remembers(a, k)
    BY <1>2, ExtendKeepsQuestions
<1>4. /\ memory' \in Seq(Entries) /\ OneTurnEach(memory', turn)
      /\ \A k : Remembers(memory, k) => Remembers(memory', k)
    BY <1>1, <1>2, <1>3
<1>5. LineShape' /\ line'.pc = "listening"
    <2>1. NoLine \in LinesOf /\ NoLine.pc = "listening" BY DEF NoLine, LinesOf
    <2>2. LineShape BY DEF AgentWellFormed
    <2> QED BY <1>1, <2>1, <2>2 DEF LineShape
<1>6. RunsInv' BY <1>1 DEF MemoryInv, RunsInv
<1>7. MemoryInv' BY <1>1, <1>2, <1>4, <1>5, <1>6, MemoryKept
<1>8. RespShape' /\ AskedShape' /\ CountShape'
    BY <1>1, StraysGrow DEF AgentWellFormed, RespShape, AskedShape, CountShape
<1>9. MemoryShape' /\ FocusShape' /\ TurnShape'
    BY <1>1, <1>4 DEF MemoryShape, AgentWellFormed, FocusShape, TurnShape
<1> QED BY <1>5, <1>7, <1>8, <1>9 DEF AgentWellFormed

\* What has been asked, when the answer was heard, and when it was not.
LEMMA AskedValues ==
    ASSUME AgentWellFormed, asked' \in {asked, CutShort, Heard}
    PROVE  AskedShape'
<1>1. /\ asked \in [q : Questions, times : Nat, blank : Nat]
      /\ lastTurn.asks \in Questions
    BY DEF AgentWellFormed, AskedShape, TurnShape, LastTurns
<1>2. asked.times + 1 \in Nat /\ asked.blank + 1 \in Nat /\ "nothing" \in Questions
    BY <1>1 DEF Questions
<1>3. CASE asked' = asked \/ asked' = CutShort BY <1>1, <1>3 DEF CutShort, AskedShape
<1>4. CASE asked' = Heard /\ (lastTurn.n # line.n \/ lastTurn.asks = "nothing")
    <2>1. PICK b \in {0, asked.blank} :
              asked' = [asked EXCEPT !.q = "nothing", !.times = 0, !.blank = b]
        BY <1>1, <1>4 DEF Heard
    <2>2. b \in Nat /\ 0 \in Nat BY <1>1
    <2>3. [asked EXCEPT !.q = "nothing", !.times = 0, !.blank = b]
              \in [q : Questions, times : Nat, blank : Nat]
        BY <1>1, <1>2, <2>2
    <2> QED BY <2>1, <2>3 DEF AskedShape
<1>5. CASE asked' = Heard /\ ~(lastTurn.n # line.n \/ lastTurn.asks = "nothing")
    <2>1. PICK k \in {1, asked.times + 1}, b \in {0, asked.blank + 1} :
              asked' = [q |-> lastTurn.asks, times |-> k, blank |-> b]
        BY <1>5 DEF Heard
    <2> QED BY <1>1, <1>2, <2>1 DEF AskedShape
<1> QED BY <1>3, <1>4, <1>5

\* The end of an answer.
LEMMA EndKeeps ==
    ASSUME AgentWellFormed, MemoryInv, Strays, EndAnswer
    PROVE  AgentWellFormed' /\ MemoryInv'
<1>1. /\ line.pc = "answering"
      /\ \/ resp[line.n].pc = "done"
         \/ line.heard < resp[line.n].out
      /\ memory' = IF line.cut THEN MarkLastInterrupted(memory, line.heard) ELSE memory
      /\ rest' = IF line.cut /\ line.heard < resp[line.n].out THEN line.n ELSE 0
      /\ asked' \in {asked, CutShort, Heard}
      /\ resp' = resp \/ resp' = [resp EXCEPT ![line.n] = Off]
      /\ line' = [NoLine EXCEPT !.cut = line.cut]
      /\ UNCHANGED <<turnOpen, focus, lastTurn, prepared, committed, turn>>
    BY DEF EndAnswer
<1>2. /\ memory \in Seq(Entries) /\ OneTurnEach(memory, turn) /\ line.n \in Turns
      /\ line.n \in Nat /\ turn \in Nat /\ line.heard \in Nat /\ line.cut \in BOOLEAN
      /\ resp \in [Turns -> Runs] /\ RespShape /\ line.n \in committed
    BY <1>1, TheTurns DEF AgentWellFormed, MemoryShape, MemoryInv, LineShape, LinesOf,
       RespShape, CommittedInv
<1>3. SameQuestions(memory, MarkLastInterrupted(memory, line.heard))
    BY <1>2, MarkKeepsQuestions
<1>4. /\ memory' \in Seq(Entries) /\ OneTurnEach(memory', turn)
      /\ \A k : Remembers(memory, k) => Remembers(memory', k)
    BY <1>1, <1>2, <1>3 DEF SameQuestions
<1>5. /\ RespShape'
      /\ resp'[line.n] = resp[line.n] \/ resp'[line.n].pc = "off"
      /\ \A j \in Turns : j # line.n => resp'[j] = resp[j]
    BY <1>1, <1>2, RunsMade DEF RespShape
<1>6. resp[line.n].pc # "created"
    <2>1. resp[line.n].pc = "created" => resp[line.n].out = 0
        BY <1>2 DEF MemoryInv, RunsInv
    <2> QED BY <1>1, <1>2, <2>1
<1>7. RunsInv' BY <1>1, <1>2, <1>5 DEF MemoryInv, RunsInv
<1>8. line' \in LinesOf /\ line'.pc = "listening" BY <1>1, <1>2 DEF NoLine, LinesOf
<1>9. line.n # prepared
    <2>1. prepared # 0 => prepared \notin committed BY DEF MemoryInv, CommittedInv
    <2>2. line.n # 0 BY <1>2, TheTurns DEF Turns
    <2> QED BY <1>2, <2>1, <2>2
<1>10. MemoryInv' BY <1>1, <1>2, <1>4, <1>5, <1>6, <1>7, <1>8, <1>9, MemoryKept
<1>11. AskedShape' BY <1>1, AskedValues
<1>12. LineShape' /\ CountShape'
    BY <1>1, <1>2, <1>8, StraysGrow DEF AgentWellFormed, LineShape, CountShape
<1>13. MemoryShape' /\ FocusShape' /\ TurnShape'
    BY <1>1, <1>4 DEF MemoryShape, AgentWellFormed, FocusShape, TurnShape
<1> QED BY <1>5, <1>10, <1>11, <1>12, <1>13 DEF AgentWellFormed

\* Every step keeps the shapes and what is remembered.
LEMMA MemoryStep ==
    ASSUME AgentWellFormed, MemoryInv, [Next]_vars
    PROVE  AgentWellFormed' /\ MemoryInv'
<1>1. CASE UNCHANGED vars
    <2>1. UNCHANGED <<memory, turnOpen, focus, lastTurn, resp, prepared, line, rest,
                      committed, asked, turn, mixed, strays>>
        BY <1>1 DEF vars, agent, loop
    <2>2. AgentWellFormed'
        BY <2>1 DEF AgentWellFormed, MemoryShape, FocusShape, TurnShape, RespShape,
           LineShape, AskedShape, CountShape
    <2>3. OneTurnEach(memory', turn') /\ RunsInv' BY <2>1 DEF MemoryInv, RunsInv
    <2>4. CommittedInv' /\ PreparedInv' BY <2>1 DEF MemoryInv, CommittedInv, PreparedInv
    <2>5. QuestionsRemembered'
        BY <2>1 DEF MemoryInv, QuestionsRemembered, Forgotten, TurnsIn
    <2> QED BY <2>2, <2>3, <2>4, <2>5 DEF MemoryInv
<1>2. CASE Next
    <2>1. Strays BY <1>2 DEF Next
    <2>2. ASSUME NEW u \in Utterances, Speculate(u) \/ CommitAsked(u)
          PROVE  AgentWellFormed' /\ MemoryInv'
        BY <2>1, <2>2, SpeculateKeeps, AskedKeeps
    <2>3. CASE Discard BY <2>1, <2>3, DiscardKeeps
    <2>4. CASE CommitTaken BY <2>1, <2>4, TakenKeeps
    <2>5. CASE Resume BY <2>1, <2>5, ResumeKeeps
    <2>6. CASE Speak \/ Hear \/ Interrupt BY <2>1, <2>6, LineMoves
    <2>7. ASSUME NEW n \in Turns, Begin(n) PROVE AgentWellFormed' /\ MemoryInv'
        BY <2>1, <2>7, BeginKeeps
    <2>8. ASSUME NEW n \in Turns, Goes(n) PROVE AgentWellFormed' /\ MemoryInv'
        BY <2>1, <2>8, GoesKeeps
    <2>9. CASE EndAnswer BY <2>1, <2>9, EndKeeps
    <2> QED BY <1>2, <2>2, <2>3, <2>4, <2>5, <2>6, <2>7, <2>8, <2>9
            DEF Next, CallerActs, Responds, Goes
<1> QED BY <1>1, <1>2

(* How often the caller is asked                                           *)

\* Nothing that is counted has changed, and the turn is not over.
LEMMA CountsStay ==
    ASSUME AskedInv, UNCHANGED <<early, focus, lastTurn, resp, asked, prepared>>,
           line'.pc = line.pc \/ (line.pc # "listening" /\ line'.pc # "listening"),
           line'.n = line.n, line'.taken = line.taken
    PROVE  AskedInv'
BY DEF AskedInv, NothingBeside, OneMissWithAProduct, MissesCount, AnswerCounts,
   DoneCounts, Spent, HandedOver

\* What is known of a caller who is asked.
AskedFacts ==
    /\ asked.blank \in Nat /\ asked.blank <= 2 /\ focus.misses \in Nat
    /\ NothingBeside /\ OneMissWithAProduct /\ MissesCount
    /\ AnswerCounts /\ DoneCounts /\ line.pc \in {"listening", "starting", "answering"}

\* A turn is asked.
LEMMA AskingCounts ==
    ASSUME AgentWellFormed, MemoryInv, AskedFacts, NEW u \in Utterances, CommitAsked(u)
    PROVE  AskedInv'
<1>1. /\ line.pc = "listening" /\ prepared = 0 /\ turn' = turn + 1 /\ turn < MaxTurns
      /\ line' = [NoLine EXCEPT !.n = turn + 1, !.pc = "starting", !.taken = FALSE]
      /\ resp' = [resp EXCEPT ![turn + 1] = Created(u)]
      /\ UNCHANGED <<early, prepared, focus, lastTurn, asked>>
    BY DEF CommitAsked, Listening, Commits, AskedFacts, NothingBeside
<1>2. turn + 1 \in Turns BY <1>1, TheTurns DEF Turns
<1>3. line'.pc = "starting" /\ line'.n = turn + 1 /\ line'.taken = FALSE
    BY <1>1 DEF NoLine
<1>4. resp \in [Turns -> Runs] BY DEF AgentWellFormed, RespShape
<1>5. /\ resp'[turn + 1].pc = "created"
      /\ \A j \in Turns : j # turn + 1 => resp'[j] = resp[j]
    BY <1>1, <1>2, <1>4 DEF Created, Off
<1>6. \A j \in Turns : resp[j].pc = "off" BY <1>1 DEF AskedFacts, NothingBeside
<1>7. NothingBeside' BY <1>1, <1>3, <1>5, <1>6 DEF NothingBeside
<1>8. Spent' BY <1>1 DEF AskedFacts, MissesCount, Spent
<1>9. AnswerCounts' /\ DoneCounts' /\ MissesCount'
    BY <1>3, <1>5, <1>8 DEF AnswerCounts, DoneCounts, MissesCount
<1>10. OneMissWithAProduct' /\ asked'.blank <= 2
    BY <1>1 DEF AskedFacts, OneMissWithAProduct
<1> QED BY <1>7, <1>9, <1>10 DEF AskedInv

\* It begins.
LEMMA BeginningCounts ==
    ASSUME AgentWellFormed, MemoryInv, AskedFacts, NEW n \in Turns, Begin(n)
    PROVE  AskedInv'
<1>1. resp[n].pc = "created" /\ UNCHANGED <<early, prepared, line, asked>>
    BY DEF Begin, loop
<1>2. n = line.n /\ line.pc # "listening" BY <1>1 DEF AskedFacts, NothingBeside
<1>3. Spent BY <1>1, <1>2 DEF AskedFacts, AnswerCounts, HandedOver
<1>4. /\ OneMissWithAProduct'
      /\ Settles(Words(n)) \/ asked.blank <= focus'.misses \/ focus'.product
      /\ resp'[n].pc = "lookup" => focus'.product
      /\ resp'[n].pc = "done" =>
            /\ lastTurn'.n = n
            /\ Settles(Words(n)) => lastTurn'.settles
            /\ lastTurn'.escalates => lastTurn'.asks = "nothing"
            /\ lastTurn'.asks # "nothing" /\ ~lastTurn'.settles =>
                  asked.blank + 1 <= focus'.misses /\ focus'.misses <= 2
    BY <1>3, BeginCounts DEF AskedFacts
<1>5. PICK pc \in Pcs \ {"off", "created"} : GoneOn(n, pc) BY BeginShapes DEF Begun
<1>6. /\ resp'[n].words = Words(n) /\ resp'[n].pc \notin {"off", "created"}
      /\ \A j \in Turns : j # n => resp'[j] = resp[j]
    BY <1>5 DEF GoneOn, Words
<1>7. NothingBeside' BY <1>1, <1>2, <1>6 DEF AskedFacts, NothingBeside
<1>8. AnswerCounts' BY <1>1, <1>2, <1>4, <1>6 DEF AnswerCounts, Spent
<1>9. DoneCounts' BY <1>1, <1>2, <1>4, <1>6 DEF DoneCounts
<1>10. MissesCount' BY <1>1, <1>2 DEF MissesCount
<1> QED BY <1>1, <1>4, <1>7, <1>8, <1>9, <1>10 DEF AskedInv, AskedFacts

\* It goes on.
LEMMA GoingCounts ==
    ASSUME AgentWellFormed, MemoryInv, AskedFacts, NEW n \in Turns, Goes(n)
    PROVE  AskedInv'
<1>1. /\ RespStep(n) /\ resp[n].pc \notin {"off", "created", "done"}
      /\ UNCHANGED <<early, prepared, line, asked>>
    BY GoesDoes DEF loop
<1>2. n = line.n /\ line.pc # "listening" BY <1>1 DEF AskedFacts, NothingBeside
<1>3. /\ Settles(resp[n].words) \/ Spent
      /\ resp[n].pc = "lookup" => focus.product
    BY <1>1, <1>2 DEF AskedFacts, AnswerCounts, HandedOver
<1>4. /\ focus'.product = focus.product
      /\ \/ focus'.misses = focus.misses
         \/ /\ focus'.misses = 0
            /\ resp[n].pc = "lookup" \/ (resp'[n].pc = "done" /\ lastTurn'.escalates)
      /\ resp'[n].pc = "done" =>
            /\ lastTurn'.n = n /\ lastTurn'.asks = "nothing"
            /\ Settles(resp[n].words) => lastTurn'.settles
    BY <1>1 DEF RespStep
<1>5. PICK pc \in Pcs \ {"off", "created", "lookup"} : GoneOn(n, pc) BY <1>1 DEF RespStep
<1>6. /\ resp'[n].words = resp[n].words /\ resp'[n].pc \notin {"off", "created", "lookup"}
      /\ \A j \in Turns : j # n => resp'[j] = resp[j]
    BY <1>5 DEF GoneOn
<1>7. NothingBeside' BY <1>1, <1>2, <1>6 DEF AskedFacts, NothingBeside
<1>8. OneMissWithAProduct' BY <1>4 DEF AskedFacts, OneMissWithAProduct
<1>9. Settles(resp'[n].words) \/ HandedOver' \/ Spent'
    BY <1>1, <1>2, <1>3, <1>4, <1>6 DEF Spent, HandedOver
<1>10. AnswerCounts' BY <1>1, <1>2, <1>6, <1>9 DEF AnswerCounts
<1>11. DoneCounts' BY <1>1, <1>2, <1>4, <1>6 DEF DoneCounts
<1>12. MissesCount' BY <1>1, <1>2 DEF MissesCount
<1> QED BY <1>1, <1>7, <1>8, <1>10, <1>11, <1>12 DEF AskedInv, AskedFacts

\* It has been answered, or cut short.
LEMMA EndCounts ==
    ASSUME AgentWellFormed, MemoryInv, AskedFacts, ~early, EndAnswer
    PROVE  AskedInv'
<1> DEFINE r == resp[line.n]
<1>1. /\ line.pc = "answering"
      /\ \/ r.pc = "done" /\ (line.cut \/ line.heard = r.out)
         \/ line.cut /\ line.heard < r.out
      /\ asked' = IF line.cut THEN CutShort ELSE Heard
      /\ resp' = IF line.taken /\ r.pc # "done" THEN resp ELSE [resp EXCEPT ![line.n] = Off]
      /\ line' = [NoLine EXCEPT !.cut = line.cut]
      /\ UNCHANGED <<early, focus, lastTurn, prepared>>
    BY DEF EndAnswer
<1>2. line.n \in Turns /\ line.heard \in Nat /\ resp \in [Turns -> Runs]
    BY <1>1, TheTurns DEF AgentWellFormed, LineShape, LinesOf, RespShape
<1>3. resp' = [resp EXCEPT ![line.n] = Off] BY <1>1 DEF AskedFacts, NothingBeside
<1>4. \A j \in Turns : resp'[j].pc = "off"
    BY <1>2, <1>3 DEF AskedFacts, NothingBeside, Off
<1>5. line'.pc = "listening" /\ line'.taken = FALSE BY <1>1 DEF NoLine
<1>6. NothingBeside' /\ OneMissWithAProduct' /\ AnswerCounts' /\ DoneCounts'
    BY <1>1, <1>4, <1>5
       DEF AskedFacts, NothingBeside, OneMissWithAProduct, AnswerCounts, DoneCounts
<1>7. r.pc # "created"
    <2>1. r.pc = "created" => r.out = 0 BY <1>2 DEF MemoryInv, RunsInv
    <2> QED BY <1>1, <1>2, <2>1
<1>8. Settles(r.words) \/ HandedOver \/ Spent BY <1>1, <1>7 DEF AskedFacts, AnswerCounts
<1>9. asked \in [q : Questions, times : Nat, blank : Nat] BY DEF AgentWellFormed, AskedShape
<1>10. asked'.blank <= 2 /\ Spent'
    <2>1. CASE line.cut
        <3>1. CASE Settles(r.words) \/ (lastTurn.n = line.n /\ lastTurn.escalates)
            <4>1. asked'.blank = 0 BY <1>1, <1>9, <2>1, <3>1 DEF CutShort
            <4> QED BY <1>1, <4>1 DEF Spent, AskedFacts
        <3>2. CASE ~(Settles(r.words) \/ (lastTurn.n = line.n /\ lastTurn.escalates))
            <4>1. asked' = asked BY <1>1, <2>1, <3>2 DEF CutShort
            <4>2. ~HandedOver BY <1>1, <3>2 DEF HandedOver, DoneCounts, AskedFacts
            <4> QED BY <1>1, <1>8, <3>2, <4>1, <4>2 DEF Spent, AskedFacts
        <3> QED BY <3>1, <3>2
    <2>2. CASE ~line.cut
        <3>1. /\ r.pc = "done" /\ lastTurn.n = line.n
              /\ Settles(r.words) => lastTurn.settles
              /\ lastTurn.escalates => lastTurn.asks = "nothing"
              /\ lastTurn.asks # "nothing" /\ ~lastTurn.settles =>
                    asked.blank + 1 <= focus.misses /\ focus.misses <= 2
            BY <1>1, <2>2 DEF AskedFacts, DoneCounts
        <3>2. CASE lastTurn.asks = "nothing"
            <4>1. asked'.blank = IF lastTurn.settles \/ lastTurn.escalates
                                 THEN 0 ELSE asked.blank
                BY <1>1, <1>9, <2>2, <3>1, <3>2 DEF Heard
            <4> QED BY <1>1, <1>8, <3>1, <4>1 DEF Spent, HandedOver, AskedFacts
        <3>3. CASE lastTurn.asks # "nothing"
            <4>1. asked'.blank = IF lastTurn.settles THEN 0 ELSE asked.blank + 1
                BY <1>1, <2>2, <3>1, <3>3 DEF Heard
            <4> QED BY <1>1, <3>1, <3>3, <4>1 DEF Spent, AskedFacts
        <3> QED BY <3>2, <3>3
    <2> QED BY <2>1, <2>2
<1>11. MissesCount' BY <1>10 DEF MissesCount
<1> QED BY <1>6, <1>10, <1>11 DEF AskedInv

\* Every step keeps the counts, of a caller whose answers are not prepared.
LEMMA AskedStep ==
    ASSUME AgentWellFormed, MemoryInv, AskedInv, [Next]_vars, ~early
    PROVE  AskedInv'
<1>1. AskedFacts
    BY DEF AskedFacts, AskedInv, AgentWellFormed, AskedShape, FocusShape, Focuses, LineShape,
       LinesOf
<1>2. prepared = 0 BY <1>1 DEF AskedFacts, NothingBeside
<1>3. CASE UNCHANGED vars BY <1>3, CountsStay DEF vars, agent, loop
<1>4. ASSUME NEW u \in Utterances, Speculate(u) PROVE AskedInv' BY <1>4 DEF Speculate
<1>5. ASSUME NEW u \in Utterances, CommitAsked(u) PROVE AskedInv' BY <1>1, <1>5, AskingCounts
<1>6. CASE Discard \/ CommitTaken BY <1>2, <1>6 DEF Discard, CommitTaken
<1>7. CASE Resume
    <2>1. /\ line.pc = "listening" /\ line' \in {line, NoLine}
          /\ UNCHANGED <<early, focus, lastTurn, resp, asked, prepared>>
        BY <1>7 DEF Resume, Listening
    <2>2. line'.pc = "listening" /\ line'.taken = FALSE
        BY <1>1, <2>1 DEF NoLine, AskedFacts, NothingBeside
    <2> QED BY <1>1, <2>1, <2>2
            DEF AskedInv, AskedFacts, NothingBeside, OneMissWithAProduct, MissesCount,
                AnswerCounts, DoneCounts, Spent
<1>8. CASE Speak \/ Hear \/ Interrupt
    <2>1. /\ UNCHANGED <<early, focus, lastTurn, resp, asked, prepared>>
          /\ line.pc # "listening"
          /\ \/ line' = [line EXCEPT !.pc = "answering"] \/ line' = [line EXCEPT !.cut = TRUE]
             \/ line' = [line EXCEPT !.heard = @ + 1]
        BY <1>8 DEF Speak, Hear, Interrupt, agent
    <2>2. /\ line'.n = line.n /\ line'.taken = line.taken
          /\ line'.pc = line.pc \/ line'.pc = "answering"
        BY <2>1, LineMovesOn DEF AgentWellFormed
    <2>3. line'.pc = line.pc \/ (line.pc # "listening" /\ line'.pc # "listening")
        BY <2>1, <2>2
    <2> QED BY <2>1, <2>2, <2>3, CountsStay
<1>9. ASSUME NEW n \in Turns, Begin(n) PROVE AskedInv' BY <1>1, <1>9, BeginningCounts
<1>10. ASSUME NEW n \in Turns, Goes(n) PROVE AskedInv' BY <1>1, <1>10, GoingCounts
<1>11. CASE EndAnswer BY <1>1, <1>11, EndCounts
<1> QED BY <1>3, <1>4, <1>5, <1>6, <1>7, <1>8, <1>9, <1>10, <1>11
        DEF Next, CallerActs, Responds, Goes

\* Before the first turn there is nothing to remember.
LEMMA AgentInitially == Init => AgentInv
<1> SUFFICES ASSUME Init PROVE AgentInv
    OBVIOUS
<1>1. MemoryShape /\ FocusShape
    <2>1. memory \in Seq(Entries) BY DEF Init
    <2>2. focus = [misses |-> 0, choices |-> FALSE, product |-> FALSE,
                   category |-> FALSE, offered |-> FALSE]
        BY DEF Init
    <2>3. focus \in Focuses BY <2>2 DEF Focuses
    <2> QED BY <2>1, <2>3 DEF Init, MemoryShape, FocusShape
<1>2. TurnShape BY DEF Init, TurnShape, LastTurns, NoTurn, Turn, Questions
<1>3. Off \in Runs /\ Off.pc = "off" BY DEF Off, Runs, TurnWords, Pcs
<1>4. /\ RespShape /\ \A n \in Turns : resp[n].pc = "off"
    BY <1>3 DEF Init, RespShape
<1>5. /\ LineShape /\ line.pc = "listening" /\ line.taken = FALSE
    BY DEF Init, LineShape, LinesOf, NoLine
<1>6. AskedShape /\ CountShape BY BoundsPositive DEF Init, AskedShape, CountShape, Questions
<1>7. MemoryInv
    <2>1. Forgotten = {} BY DEF Init, Forgotten
    <2>2. QuestionsRemembered BY <2>1, FS_EmptySet DEF QuestionsRemembered, Init
    <2>3. OneTurnEach(memory, turn) /\ CommittedInv /\ PreparedInv
        BY <1>5 DEF Init, OneTurnEach, CommittedInv, PreparedInv
    <2>4. RunsInv BY <1>4 DEF RunsInv
    <2> QED BY <2>2, <2>3, <2>4 DEF MemoryInv
<1>8. AskedInv
    <2>1. asked.blank = 0 /\ focus.misses = 0 /\ prepared = 0 BY DEF Init
    <2> QED BY <1>4, <1>5, <2>1
            DEF AskedInv, NothingBeside, OneMissWithAProduct, MissesCount, AnswerCounts,
                DoneCounts, Spent
<1> QED BY <1>1, <1>2, <1>4, <1>5, <1>6, <1>7, <1>8 DEF AgentInv, AgentWellFormed

\* Whether the recogniser signals early is settled for the call.
LEMMA EarlyStays == ASSUME [Next]_vars PROVE early' = early
<1>1. ASSUME Responds
      PROVE  early' = early
    BY <1>1 DEF Responds, Begin, Lookup, Join, Tools, Stream, Whole
<1> QED BY <1>1 DEF vars, Next, CallerActs, Speculate, CommitAsked, Discard, CommitTaken,
                   Resume, Interrupt, Speak, Hear, EndAnswer

\* Every step keeps the invariant.
LEMMA AgentStep == AgentInv /\ [Next]_vars => AgentInv'
<1> SUFFICES ASSUME AgentInv, [Next]_vars PROVE AgentInv'
    OBVIOUS
<1>1. AgentWellFormed' /\ MemoryInv' BY MemoryStep DEF AgentInv
<1>2. AskedInv'
    <2>1. CASE early
        <3>1. early' BY <2>1, EarlyStays
        <3> QED BY <3>1 DEF AskedInv
    <2>2. CASE ~early BY <2>2, AskedStep DEF AgentInv
    <2> QED BY <2>1, <2>2
<1> QED BY <1>1, <1>2 DEF AgentInv

\* A caller whose recogniser gives no early signal, and whose words name nothing
\* and are not small talk, is asked back twice in a row at most: focus.misses
\* leads to the hand-over, however answers are cut short and resumed.
THEOREM CallerIsAskedTwice == Spec => []AskedTwiceAtMost
<1>1. AgentInv => AskedTwiceAtMost
    BY DEF AgentInv, AskedInv, AskedTwiceAtMost, HandoverAt, AgentWellFormed, AskedShape
<1> QED BY <1>1, AgentInitially, AgentStep, PTL DEF Spec

\* Of the turns that the loop answered the memory has lost no more than there
\* were withdrawals of a speculation that had not begun, or beside which the
\* memory had been edited; whatever was cut, extended or taken around them.
THEOREM NoQuestionForgotten == Spec => []QuestionsRemembered
<1>1. AgentInv => QuestionsRemembered BY DEF AgentInv, MemoryInv
<1> QED BY <1>1, AgentInitially, AgentStep, PTL DEF Spec

-----------------------------------------------------------------------------
(* The turn loop                                                           *)

\* What the variables of the loop may be.  A line answers the words it was
\* prepared for.
Lines == {t \in
   [pc : Loop!Pcs, kind : Loop!Kinds, words : Loop!Words, asked : Loop!Words, left : Int] :
              t.asked = t.words}
Talks == [Loop!Speakers -> Lines]
Clocks == [pc : {"off", "waiting", "speaking"}, stage : Int]
Awaited == [Loop!Settlers -> Answers \cup {None}]

LoopWellFormed ==
    /\ sp \in Talks /\ clock \in Clocks
    /\ answerTask \in Answers \cup {None} /\ settling \in Awaited
    /\ heard \in [Loop!Settlers -> Loop!Words] /\ spec \in Loop!Words \cup {None}

\* Somebody is heard or heard out, and will start the clock when it ends.
Owed ==
    \/ utter \/ voiced \/ speaking
    \/ settling["loop"] # None \/ settling["keys"] # None
    \/ \E s \in Loop!Speakers : Loop!Running(s)

\* While nobody is awaited the clock runs, and its last stage ends the call.
Timed == ~ending /\ ~hungUp /\ route # "segments" /\ clock.pc = "off" => Owed
LastStage == clock.stage = Loop!Stages => ending

LoopInv == LoopWellFormed /\ Timed /\ LastStage

\* Who is silent says nothing.
LEMMA SilentLine == Loop!Silent \in Lines /\ Loop!Silent.pc = "off"
BY DEF Loop!Silent, Lines, Loop!Pcs, Loop!Kinds, Loop!Words

\* What is said but answers nobody.
LEMMA SaidLine ==
    ASSUME NEW k \in Loop!Kinds, NEW n \in Int, NEW p \in Loop!Pcs
    PROVE  [Loop!Said(k, n) EXCEPT !.pc = p] \in Lines
<1> DEFINE r == Loop!Said(k, n)
<1>1. r = [Loop!Silent EXCEPT !.kind = k, !.left = n] BY DEF Loop!Said
<1>2. Loop!Silent \in Lines BY SilentLine
<1> HIDE DEF r
<1>3. r \in Lines BY <1>1, <1>2 DEF Lines
<1>4. [r EXCEPT !.pc = p] \in Lines BY <1>3 DEF Lines
<1> QED BY <1>4 DEF r

\* A line that goes on answers the same words.
LEMMA LineGoesOn ==
    ASSUME NEW t \in Lines, NEW p \in Loop!Pcs
    PROVE  /\ [t EXCEPT !.pc = p] \in Lines /\ [t EXCEPT !.pc = p].pc = p
           /\ [t EXCEPT !.pc = p, !.left = @ - 1] \in Lines
           /\ [t EXCEPT !.pc = p, !.left = @ - 1].pc = p
<1>1. t.left - 1 \in Int /\ t.left \in Int BY DEF Lines
<1> QED BY <1>1 DEF Lines

\* One speaker changes, the others do not.
LEMMA LineChanges ==
    ASSUME NEW f \in Talks, NEW a \in Loop!Speakers, NEW x \in Lines
    PROVE  /\ [f EXCEPT ![a] = x] \in Talks /\ [f EXCEPT ![a] = x][a] = x
           /\ \A s \in Loop!Speakers : s # a => [f EXCEPT ![a] = x][s] = f[s]
BY DEF Talks

\* Every speaker has a line.
LEMMA LineOf == ASSUME NEW f \in Talks, NEW s \in Loop!Speakers PROVE f[s] \in Lines
BY DEF Talks

\* A clock that is interrupted falls silent.
LEMMA UnwoundTalks == ASSUME LoopWellFormed PROVE Loop!Unwound \in Talks
<1>1. CASE clock.pc # "speaking" BY <1>1 DEF Loop!Unwound, LoopWellFormed
<1>2. CASE clock.pc = "speaking"
    <2>1. sp \in Talks /\ sp["ladder"] \in Lines
      BY LineOf DEF LoopWellFormed, Loop!Speakers
    <2>2. [sp["ladder"] EXCEPT !.pc = "unwinding"] \in Lines
        BY <2>1, LineGoesOn DEF Loop!Pcs
    <2>3. "ladder" \in Loop!Speakers BY DEF Loop!Speakers
    <2> DEFINE lad == IF sp["ladder"].pc = "hanging" THEN Loop!Silent
                      ELSE [sp["ladder"] EXCEPT !.pc = "unwinding"]
    <2>4. Loop!Unwound = [sp EXCEPT !["ladder"] = lad] BY <1>2 DEF Loop!Unwound
    <2>5. lad \in Lines BY <2>2, SilentLine
    <2> HIDE DEF lad
    <2> QED BY <2>1, <2>3, <2>4, <2>5, LineChanges
<1> QED BY <1>1, <1>2

\* A task that is cancelled unwinds.
LEMMA CancelTalks == ASSUME NEW f \in Talks, NEW a PROVE Loop!CancelTask(f, a) \in Talks
<1> DEFINE e == IF f[a].pc \in {"waiting", "playing", "draining"}
                THEN [f[a] EXCEPT !.pc = "unwinding"] ELSE Loop!Silent
<1>1. a \in Loop!Speakers => e \in Lines
    <2> SUFFICES ASSUME a \in Loop!Speakers PROVE e \in Lines
        OBVIOUS
    <2>1. f[a] \in Lines BY LineOf
    <2>2. [f[a] EXCEPT !.pc = "unwinding"] \in Lines BY <2>1, LineGoesOn DEF Loop!Pcs
    <2> QED BY <2>2, SilentLine
<1>2. Loop!CancelTask(f, a) = [f EXCEPT ![a] = e] BY DEF Loop!CancelTask
<1> HIDE DEF e
<1> QED BY <1>1, <1>2 DEF Talks

\* A speculation that is dropped unwinds.
LEMMA AbandonedTalks == ASSUME NEW f \in Talks PROVE Loop!Abandoned(f) \in Talks
BY CancelTalks DEF Loop!Abandoned

\* A clock is started, unless the call is ending.
LEMMA StartedRuns ==
    ASSUME NEW c \in Clocks
    PROVE  /\ Loop!Started(c) \in Clocks /\ Loop!Started(c).stage = c.stage
           /\ Loop!Started(c).pc # "off" \/ ending
BY DEF Loop!Started, Clocks

\* A clock that is stopped starts again from the first stage.
LEMMA StoppedClock == Loop!Stopped \in Clocks /\ Loop!Stopped.stage = 0
BY DEF Loop!Stopped, Clocks

\* An answer that starts is to the words it is started for, and is heard.
LEMMA StartsTalking ==
    ASSUME NEW f \in Talks, NEW k \in Loop!Kinds, NEW w \in Loop!Words,
           Loop!Starts(f, k, w, w)
    PROVE  /\ sp' \in Talks /\ answerTask' \in Answers
           /\ \E s \in Loop!Speakers : sp'[s].pc # "off"
<1>1. PICK a \in Loop!Slots : /\ \E n \in 0..LoopSentences :
                                   sp' = [f EXCEPT ![a] =
                                      [pc |-> "made", kind |-> k, words |-> w,
                                                           asked |-> w, left |-> n]]
                              /\ answerTask' = a
    BY DEF Loop!Starts
<1>2. PICK n \in 0..LoopSentences :
          sp' = [f EXCEPT ![a] = [pc |-> "made", kind |-> k, words |-> w,
                                  asked |-> w, left |-> n]]
    BY <1>1
<1> DEFINE e == [pc |-> "made", kind |-> k, words |-> w, asked |-> w, left |-> n]
<1>3. e \in Lines /\ e.pc = "made" BY DEF Lines, Loop!Pcs
<1>4. a \in Answers /\ a \in Loop!Speakers BY DEF Loop!Slots, Loop!Speakers
<1> HIDE DEF e
<1>6. sp' = [f EXCEPT ![a] = e] BY <1>2 DEF e
<1>5. sp' \in Talks /\ sp'[a] = e BY <1>3, <1>4, <1>6 DEF Talks
<1> QED BY <1>1, <1>3, <1>4, <1>5

\* A turn that is decided is answered, or the clock runs.
LEMMA DecideKeeps ==
    ASSUME LoopWellFormed, NEW w \in Loop!Words, NEW cut, NEW f \in Talks, NEW c \in Clocks,
           Loop!Decide(w, cut, f, c)
    PROVE  /\ sp' \in Talks /\ answerTask' \in Answers \cup {None}
           /\ spec' \in Loop!Words \cup {None}
           /\ clock' \in Clocks /\ clock'.stage = c.stage
           /\ clock'.pc # "off" \/ ending \/ \E s \in Loop!Speakers : sp'[s].pc # "off"
<1> DEFINE drop == cut /\ Loop!Nod(w) /\ ~resumable /\ Loop!MayResume
<1>1. CASE /\ sp' = f /\ answerTask' = IF Loop!Busy THEN answerTask ELSE None
           /\ clock' = Loop!Started(c) /\ spec' \in {None, spec}
    BY <1>1, StartedRuns DEF LoopWellFormed
<1>2. CASE Loop!Starts(f, "rest", w, w) /\ clock' = c /\ spec' = None
    BY <1>2, StartsTalking DEF Loop!Kinds
<1>3. CASE /\ Loop!Starts(f, "answer", w, IF spec # None /\
                 Loop!Matches(w) THEN spec ELSE w)
           /\ clock' = c /\ spec' = None
    <2>1. Loop!Starts(f, "answer", w, w) BY <1>3 DEF Loop!Matches
    <2> QED BY <1>3, <2>1, StartsTalking DEF Loop!Kinds
<1> QED BY <1>1, <1>2, <1>3 DEF Loop!Decide

\* The watchdog is nobody's task but its own.
LEMMA DogKeeps ==
    ASSUME NEW on \in Awaited, NEW w, Loop!DogCancelled(on, w)
    PROVE  /\ settling' \in Awaited
           /\ settling'["loop"] = on["loop"] /\ settling'["keys"] = on["keys"]
BY DEF Loop!DogCancelled, Awaited, Loop!Settlers

\* So is a turn that is committed, unless it waits for a task to settle.
LEMMA CommitKeeps ==
    ASSUME LoopWellFormed, NEW w \in Loop!Words, NEW f \in Talks, NEW c \in Clocks, NEW cut,
           Loop!Commit("loop", w, f, c, cut)
    PROVE  /\ LoopWellFormed'
           /\ clock'.stage = c.stage
           /\ \/ clock'.pc # "off" \/ ending \/ \E s \in Loop!Speakers : sp'[s].pc # "off"
              \/ settling'["loop"] # None
<1> DEFINE on == [settling EXCEPT !["loop"] = IF Loop!Busy THEN answerTask ELSE None]
<1>1. on \in Awaited /\ on["loop"] = IF Loop!Busy THEN answerTask ELSE None
    BY DEF LoopWellFormed, Awaited, Loop!Settlers
<1>2. Loop!DogCancelled(on, FALSE) BY DEF Loop!Commit
<1> HIDE DEF on
<1>3. settling' \in Awaited /\ settling'["loop"] = on["loop"] BY <1>1, <1>2, DogKeeps
<1>4. Loop!Abandoned(f) \in Talks BY AbandonedTalks
<1>5. CASE Loop!Busy
    <2>1. /\ heard' = [heard EXCEPT !["loop"] = w] /\ sp' = Loop!Abandoned(f)
          /\ answerTask' = None /\ clock' = c /\ UNCHANGED spec
        BY <1>5 DEF Loop!Commit
    <2>2. settling'["loop"] # None BY <1>1, <1>3, <1>5 DEF Loop!Busy
    <2> QED BY <1>3, <1>4, <2>1, <2>2 DEF LoopWellFormed
<1>6. CASE ~Loop!Busy
    <2>1. Loop!Decide(w, cut, Loop!Abandoned(f), c) /\ UNCHANGED heard
      BY <1>6 DEF Loop!Commit
    <2> QED BY <1>3, <1>4, <2>1, DecideKeeps DEF LoopWellFormed
<1> QED BY <1>5, <1>6

\* So is one that ends.
LEMMA EndsKeeps ==
    ASSUME LoopWellFormed, NEW w \in Loop!Words, NEW b, Loop!Ends(w, b), UNCHANGED speaking
    PROVE  /\ LoopWellFormed' /\ clock'.stage # Loop!Stages
           /\ \/ clock'.pc # "off" \/ ending \/ speaking'
              \/ \E s \in Loop!Speakers : sp'[s].pc # "off"
              \/ settling'["loop"] # None
<1>1. Loop!Unwound \in Talks /\ Loop!Stopped \in Clocks /\ Loop!Stopped.stage # Loop!Stages
    BY UnwoundTalks, StoppedClock DEF Loop!Stages
<1>2. CASE speaking /\ w # "many"
    <2>1. /\ spec' = None /\ clock' = Loop!Stopped /\ sp' = Loop!Unwound
          /\ UNCHANGED <<answerTask, settling, heard>>
        BY <1>2 DEF Loop!Ends
    <2> QED BY <1>1, <1>2, <2>1 DEF LoopWellFormed
<1>3. CASE ~(speaking /\ w # "many")
    <2>1. Loop!Commit("loop", w, Loop!Unwound, Loop!Stopped, cutPending \/ Loop!Cuts)
      BY <1>3 DEF Loop!Ends
    <2>2. /\ LoopWellFormed' /\ clock'.stage = Loop!Stopped.stage
          /\ \/ clock'.pc # "off" \/ ending \/ \E s \in Loop!Speakers : sp'[s].pc # "off"
             \/ settling'["loop"] # None
        BY <1>1, <2>1, CommitKeeps
    <2> QED BY <1>1, <2>2
<1> QED BY <1>2, <1>3

\* The rest of an answer that was cut is to the same words.
LEMMA RestKeeps ==
    ASSUME LoopWellFormed, Loop!ResumeRest
    PROVE  /\ sp' \in Talks /\ answerTask' \in Answers \cup {None}
           /\ sp' = sp \/ \E s \in Loop!Speakers : sp'[s].pc # "off"
<1>1. CASE Loop!Starts(sp, "rest", "nothing", "nothing")
    <2>1. "rest" \in Loop!Kinds /\ "nothing" \in Loop!Words /\ sp \in Talks
      BY DEF Loop!Kinds, Loop!Words, LoopWellFormed
    <2> QED BY <1>1, <2>1, StartsTalking
<1>2. CASE UNCHANGED sp /\ answerTask' = IF Loop!Busy THEN answerTask ELSE None
    BY <1>2 DEF LoopWellFormed
<1> QED BY <1>1, <1>2 DEF Loop!ResumeRest

\* When a line has been played the clock is started.
LEMMA PlaybackEnds ==
    ASSUME NEW who, NEW cut, NEW c \in Clocks, Loop!EndPlayback(who, cut, c)
    PROVE  /\ clock' \in Clocks /\ clock'.stage = c.stage
           /\ clock'.pc # "off" \/ ending
BY StartedRuns DEF Loop!EndPlayback

\* What keeps both counts of the clock.
Ticks ==
    /\ clock'.pc # "off" \/ ending' \/ hungUp' \/ route' = "segments" \/ Owed'
    /\ clock'.stage = Loop!Stages => ending'

\* An interruption changes no words.
LEMMA InterruptKeeps ==
    ASSUME LoopWellFormed, NEW b, Loop!Interrupt(b)
    PROVE  sp' \in Talks /\ settling' \in Awaited
<1>1. Loop!Unwound \in Talks /\ Loop!Abandoned(Loop!Unwound) \in Talks
  BY UnwoundTalks, AbandonedTalks
<1>2. CASE Loop!Cuts
    <2>1. Loop!DogCancelled(settling, b) /\ sp' = Loop!Abandoned(Loop!Unwound)
      BY <1>2 DEF Loop!Interrupt
    <2> QED BY <1>1, <2>1, DogKeeps DEF LoopWellFormed
<1>3. CASE ~Loop!Cuts
    <2>1. UNCHANGED settling /\ sp' = Loop!Unwound BY <1>3 DEF Loop!Interrupt
    <2> QED BY <1>1, <2>1 DEF LoopWellFormed
<1> QED BY <1>2, <1>3

\* What the caller does.
LEMMA CallerKeeps == ASSUME LoopInv, Loop!CallerActs PROVE LoopWellFormed' /\ Ticks
<1> USE DEF LoopInv
<1>0. Loop!Stopped \in Clocks /\ Loop!Stopped.stage # Loop!Stages /\ Loop!Unwound \in Talks
    BY StoppedClock, UnwoundTalks DEF Loop!Stages
<1>1. CASE Loop!VoiceStart
    <2>1. /\ voiced' = TRUE /\ clock' = Loop!Stopped /\ Loop!Interrupt(TRUE)
          /\ UNCHANGED <<answerTask, heard, spec>>
        BY <1>1 DEF Loop!VoiceStart
    <2>2. sp' \in Talks /\ settling' \in Awaited BY <2>1, InterruptKeeps
    <2> QED BY <1>0, <2>1, <2>2 DEF LoopWellFormed, Ticks, Owed
<1>2. CASE Loop!SpeechStarted
    <2>1. /\ utter' = TRUE /\ clock' = Loop!Stopped /\ UNCHANGED <<answerTask, heard, spec>>
          /\ Loop!Interrupt(FALSE) \/ (sp' = Loop!Unwound /\ UNCHANGED settling)
        BY <1>2 DEF Loop!SpeechStarted
    <2>2. sp' \in Talks /\ settling' \in Awaited
      BY <1>0, <2>1, InterruptKeeps DEF LoopWellFormed
    <2> QED BY <1>0, <2>1, <2>2 DEF LoopWellFormed, Ticks, Owed
<1>3. CASE Loop!EmptyTurn
    <2>1. Loop!Ends("nothing", FALSE) /\ UNCHANGED <<route, speaking, ending, hungUp>>
        BY <1>3 DEF Loop!EmptyTurn
    <2>2. "nothing" \in Loop!Words BY DEF Loop!Words
    <2> QED BY <2>1, <2>2, EndsKeeps DEF Ticks, Owed, Loop!Running
<1>4. CASE Loop!Partial
    BY <1>0, <1>4 DEF Loop!Partial, Loop!air, LoopWellFormed, Ticks, Owed
<1>5. CASE Loop!TurnResumed
    BY <1>0, <1>5 DEF Loop!TurnResumed, Loop!air, LoopWellFormed, Ticks, Owed
<1>6. CASE Loop!KeyPress
    <2> DEFINE on == [settling EXCEPT !["keys"] = IF Loop!Busy THEN answerTask ELSE None]
    <2>1. on \in Awaited /\ on["keys"] = IF Loop!Busy THEN answerTask ELSE None
        BY DEF LoopWellFormed, Awaited, Loop!Settlers
    <2>2. Loop!DogCancelled(on, FALSE) BY <1>6 DEF Loop!KeyPress
    <2>3. clock' = clock /\ spec' = None /\ UNCHANGED <<ending, hungUp>>
      BY <1>6 DEF Loop!KeyPress
    <2> HIDE DEF on
    <2>4. settling' \in Awaited /\ settling'["keys"] = on["keys"]
      BY <2>1, <2>2, DogKeeps
    <2>5. Loop!Abandoned(sp) \in Talks BY AbandonedTalks DEF LoopWellFormed
    <2>6. CASE Loop!Busy
        <3>1. /\ heard' = [heard EXCEPT !["keys"] = "key"]
              /\ sp' = Loop!Abandoned(sp) /\ answerTask' = None
            BY <1>6, <2>6 DEF Loop!KeyPress
        <3>2. settling'["keys"] # None BY <2>1, <2>4, <2>6 DEF Loop!Busy
        <3> QED
          BY <2>3, <2>4, <2>5, <3>1, <3>2
             DEF LoopWellFormed, Ticks, Owed, LastStage, Loop!Words
    <2>7. CASE ~Loop!Busy
        <3>1. Loop!Starts(Loop!Abandoned(sp), "answer", "key", "key") /\ UNCHANGED heard
            BY <1>6, <2>7 DEF Loop!KeyPress
        <3>2. "answer" \in Loop!Kinds /\ "key" \in Loop!Words
          BY DEF Loop!Kinds, Loop!Words
        <3>3. /\ sp' \in Talks /\ answerTask' \in Answers
              /\ \E s \in Loop!Speakers : sp'[s].pc # "off"
            BY <2>5, <3>1, <3>2, StartsTalking
        <3> QED
          BY <2>3, <2>4, <3>1, <3>3
             DEF LoopWellFormed, Ticks, Owed, LastStage, Loop!Running
    <2> QED BY <2>6, <2>7
<1>7. CASE Loop!HangsUp
    BY <1>0, <1>7, SilentLine
    DEF Loop!HangsUp, Loop!Closed, LoopWellFormed, Talks, Awaited, Loop!Words, Ticks
<1>8. ASSUME NEW w \in Loop!Words, Loop!Eager(w) PROVE LoopWellFormed' /\ Ticks
    <2>1. spec' \in Loop!Words \cup {None} BY <1>8 DEF Loop!Eager, LoopWellFormed
    <2>2. /\ clock' = Loop!Stopped /\ sp' = Loop!Unwound /\ utter
          /\ UNCHANGED <<answerTask, settling, heard, utter>>
        BY <1>8 DEF Loop!Eager
    <2> QED BY <1>0, <2>1, <2>2 DEF LoopWellFormed, Ticks, Owed
<1>9. ASSUME NEW w \in Loop!Words, NEW e \in BOOLEAN, Loop!Final(w, e)
      PROVE  LoopWellFormed' /\ Ticks
    <2>1. route' = "segments" /\ UNCHANGED speaking BY <1>9 DEF Loop!Final
    <2>2. CASE Loop!Ends(w, TRUE) BY <2>1, <2>2, EndsKeeps DEF Ticks
    <2>3. CASE /\ clock' = Loop!Stopped /\ sp' = Loop!Unwound
               /\ UNCHANGED <<answerTask, settling, heard, spec>>
        BY <1>0, <2>1, <2>3 DEF LoopWellFormed, Ticks
    <2> QED BY <1>9, <2>2, <2>3 DEF Loop!Final
<1> QED BY <1>1, <1>2, <1>3, <1>4, <1>5, <1>6, <1>7, <1>8, <1>9 DEF Loop!CallerActs

\* The call that is closed.
LEMMA CloseKeeps == ASSUME Loop!Closed PROVE LoopWellFormed' /\ Ticks
<1>1. Loop!Stopped \in Clocks /\ Loop!Stopped.stage # Loop!Stages
  BY StoppedClock DEF Loop!Stages
<1> QED
  BY <1>1, SilentLine DEF Loop!Closed, LoopWellFormed, Talks, Awaited, Loop!Words, Ticks

\* The caller who finishes speaking.
LEMMA FinishesKeeps == ASSUME LoopInv, Loop!FinishesSpeaking PROVE LoopWellFormed' /\ Ticks
<1> USE DEF LoopInv
<1>1. CASE Loop!VoiceEnd
    <2>1. /\ clock' = IF Loop!Listening THEN Loop!Started(clock) ELSE clock
          /\ UNCHANGED <<Loop!tasks, speaking, Loop!turn, utter, ending>>
        BY <1>1 DEF Loop!VoiceEnd, Loop!air
    <2>2. /\ Loop!Started(clock) \in Clocks /\ Loop!Started(clock).stage = clock.stage
          /\ Loop!Started(clock).pc # "off" \/ ending
        BY StartedRuns DEF LoopWellFormed
    <2>3. LoopWellFormed' BY <2>1, <2>2 DEF Loop!tasks, Loop!turn, LoopWellFormed
    <2>4. CASE Loop!Listening BY <2>1, <2>2, <2>3, <2>4 DEF Ticks, LastStage
    <2>5. CASE ~Loop!Listening
        <3>1. speaking' \/ ending' \/ Loop!Busy BY <2>1, <2>5 DEF Loop!Listening
        <3>2. CASE Loop!Busy
            <4>1. answerTask \in Loop!Speakers /\ sp' = sp
              BY <2>1, <3>2 DEF Loop!Busy, LoopWellFormed, Loop!Speakers, Loop!tasks
            <4> QED
              BY <2>1, <2>3, <2>5, <3>2, <4>1
                 DEF Loop!Busy, Loop!Running, Ticks, Owed, LastStage
        <3> QED BY <2>1, <2>3, <2>5, <3>1, <3>2 DEF Ticks, Owed, LastStage
    <2> QED BY <2>3, <2>4, <2>5
<1>2. ASSUME NEW w \in Loop!Words, Loop!EndOfTurn(w) PROVE LoopWellFormed' /\ Ticks
    <2>1. Loop!Ends(w, FALSE) /\ UNCHANGED <<speaking, ending>>
      BY <1>2 DEF Loop!EndOfTurn
    <2> QED BY <2>1, EndsKeeps DEF Ticks, Owed, Loop!Running
<1> QED BY <1>1, <1>2 DEF Loop!FinishesSpeaking

\* The steps of the tasks: who settles, who speaks, and the clock.
LEMMA SettlersKeep ==
    ASSUME LoopInv,
           (\E r \in Loop!Settlers :
              Loop!Settled(r) \/ Loop!DogSettled(r)) \/ Loop!DogGivesUp \/ Loop!DogResumes
    PROVE  LoopWellFormed' /\ Ticks
<1> USE DEF LoopInv
<1>1. ASSUME NEW r \in Loop!Settlers, Loop!Settled(r) PROVE LoopWellFormed' /\ Ticks
    <2>1. /\ settling' = [settling EXCEPT ![r] = None]
          /\ heard' = [heard EXCEPT ![r] = "nothing"]
          /\ Loop!Decide(heard[r], cutPending, sp, clock) /\ UNCHANGED ending
        BY <1>1 DEF Loop!Settled
    <2>2. heard[r] \in Loop!Words /\ sp \in Talks /\ clock \in Clocks
      BY DEF LoopWellFormed
    <2>3. /\ sp' \in Talks /\ answerTask' \in Answers \cup {None}
          /\ spec' \in Loop!Words \cup {None}
          /\ clock' \in Clocks /\ clock'.stage = clock.stage
          /\ clock'.pc # "off" \/ ending \/ \E s \in Loop!Speakers : sp'[s].pc # "off"
        BY <2>1, <2>2, DecideKeeps
    <2>4. settling' \in Awaited /\ heard' \in [Loop!Settlers -> Loop!Words]
        BY <2>1 DEF LoopWellFormed, Awaited, Loop!Words
    <2>5. LoopWellFormed' BY <2>3, <2>4 DEF LoopWellFormed
    <2> QED BY <2>1, <2>3, <2>5 DEF Ticks, Owed, LastStage, Loop!Running
<1>2. ASSUME NEW r \in Loop!Settlers, Loop!DogSettled(r) PROVE LoopWellFormed' /\ Ticks
    <2>1. /\ r \in {"dog", "stray"} /\ settling' = [settling EXCEPT ![r] = None]
          /\ Loop!ResumeRest
          /\ UNCHANGED <<route, heard, speaking, spec, clock, utter, voiced, ending, hungUp>>
        BY <1>2 DEF Loop!DogSettled, Loop!air, Loop!caller
    <2>2. /\ settling' \in Awaited
          /\ settling'["loop"] = settling["loop"] /\ settling'["keys"] = settling["keys"]
        BY <2>1 DEF LoopWellFormed, Awaited, Loop!Settlers
    <2>3. /\ sp' \in Talks /\ answerTask' \in Answers \cup {None}
          /\ sp' = sp \/ \E s \in Loop!Speakers : sp'[s].pc # "off"
        BY <2>1, RestKeeps
    <2>4. LoopWellFormed' BY <2>1, <2>2, <2>3 DEF LoopWellFormed
    <2> QED BY <2>1, <2>2, <2>3, <2>4 DEF Ticks, Owed, Timed, LastStage, Loop!Running
<1>3. CASE Loop!DogGivesUp
    BY <1>3 DEF Loop!DogGivesUp, Loop!air, Loop!turn, Loop!caller, LoopWellFormed,
       Ticks, Owed, Timed, LastStage, Loop!Running
<1>4. CASE Loop!DogResumes
    <2> DEFINE again == Loop!Busy /\ Loop!Cuts /\ ~cancelled
    <2>1. /\ IF ~Loop!Busy THEN Loop!ResumeRest /\ UNCHANGED settling
             ELSE /\ settling' = [settling EXCEPT ![IF again THEN "stray" ELSE "dog"]
                                                      = answerTask]
                  /\ sp' = IF again THEN Loop!CancelTask(sp, answerTask) ELSE sp
                  /\ answerTask' = None
          /\ UNCHANGED <<route, heard, speaking, spec, clock, utter, voiced, ending, hungUp>>
        BY <1>4 DEF Loop!DogResumes, Loop!caller
    <2>2. CASE ~Loop!Busy
        <3>1. /\ sp' \in Talks /\ answerTask' \in Answers \cup {None}
              /\ sp' = sp \/ \E s \in Loop!Speakers : sp'[s].pc # "off"
            BY <2>1, <2>2, RestKeeps
        <3>2. LoopWellFormed' BY <2>1, <2>2, <3>1 DEF LoopWellFormed
        <3> QED
          BY <2>1, <2>2, <3>1, <3>2 DEF Ticks, Owed, Timed, LastStage, Loop!Running
    <2>3. CASE Loop!Busy
        <3>1. settling' \in Awaited BY <2>1, <2>3 DEF LoopWellFormed, Awaited
        <3>2. Loop!CancelTask(sp, answerTask) \in Talks
          BY CancelTalks DEF LoopWellFormed
        <3>3. LoopWellFormed' BY <2>1, <2>3, <3>1, <3>2 DEF LoopWellFormed
        <3>4. Owed'
            <4>1. CASE again BY <2>1, <4>1 DEF Owed, Loop!Cuts
            <4>2. CASE ~again
                <5>1. answerTask \in Loop!Speakers /\ sp' = sp
                    BY <2>1, <2>3, <4>2 DEF Loop!Busy, LoopWellFormed, Loop!Speakers
                <5> QED BY <2>3, <5>1 DEF Owed, Loop!Busy, Loop!Running
            <4> QED BY <4>1, <4>2
        <3> QED BY <2>1, <3>3, <3>4 DEF Ticks, LastStage
    <2> QED BY <2>2, <2>3
<1> QED BY <1>1, <1>2, <1>3, <1>4

\* A speaker who goes on speaking, and one who falls silent.
LEMMA StillRunning ==
    ASSUME LoopInv, NEW s \in Loop!Speakers, NEW x \in Lines, x.pc # "off",
           sp' = [sp EXCEPT ![s] = x],
           UNCHANGED <<answerTask, settling, heard, spec, clock, ending>>
    PROVE  LoopWellFormed' /\ Ticks
<1>1. sp' \in Talks /\ sp'[s] = x BY DEF LoopInv, LoopWellFormed, Talks
<1>2. LoopWellFormed' BY <1>1 DEF LoopInv, LoopWellFormed
<1> QED BY <1>1, <1>2 DEF Ticks, Owed, Loop!Running, LoopInv, LastStage

\* A speaker whose line has been played.
LEMMA PlaybackOver ==
    ASSUME LoopInv, NEW s \in Loop!Speakers, NEW x \in Lines, NEW cut, NEW c \in Clocks,
           c.stage = clock.stage, sp' = [sp EXCEPT ![s] = x], Loop!EndPlayback(s, cut, c),
           UNCHANGED <<answerTask, settling, heard, spec, ending>>
    PROVE  LoopWellFormed' /\ Ticks
<1>1. /\ clock' \in Clocks /\ clock'.stage = c.stage
      /\ clock'.pc # "off" \/ ending
    BY PlaybackEnds
<1>2. sp' \in Talks BY DEF LoopInv, LoopWellFormed, Talks
<1>3. LoopWellFormed' BY <1>1, <1>2 DEF LoopInv, LoopWellFormed
<1> QED BY <1>1, <1>3 DEF Ticks, LoopInv, LastStage

\* The steps of the speakers.
LEMMA SpeakersKeep ==
    ASSUME LoopInv, NEW s \in Loop!Speakers,
           Loop!Speak(s) \/ Loop!Played(s) \/ Loop!Drains(s) \/ Loop!Unwind(s) \/
              Loop!EndOfCall(s)
    PROVE  LoopWellFormed' /\ Ticks
<1>0. sp[s] \in Lines /\ clock \in Clocks BY LineOf DEF LoopInv, LoopWellFormed
<1>1. CASE Loop!Speak(s)
    <2> DEFINE x == [sp[s] EXCEPT !.pc = "playing", !.left = @ - 1]
    <2>1. x \in Lines /\ x.pc = "playing" BY <1>0, LineGoesOn DEF Loop!Pcs
    <2>2. sp' = [sp EXCEPT ![s] = x] BY <1>1 DEF Loop!Speak
    <2> HIDE DEF x
    <2> QED BY <1>1, <2>1, <2>2, StillRunning DEF Loop!Speak, Loop!turn
<1>2. CASE Loop!Played(s)
    <2> DEFINE x == [sp[s] EXCEPT !.pc = "waiting"]
    <2>1. x \in Lines /\ x.pc = "waiting" BY <1>0, LineGoesOn DEF Loop!Pcs
    <2>2. sp' = [sp EXCEPT ![s] = x] BY <1>2 DEF Loop!Played
    <2> HIDE DEF x
    <2> QED BY <1>2, <2>1, <2>2, StillRunning DEF Loop!Played, Loop!turn
<1>3. CASE Loop!Drains(s)
    <2> DEFINE x == [sp[s] EXCEPT !.pc = "draining"]
    <2>1. x \in Lines /\ x.pc = "draining" BY <1>0, LineGoesOn DEF Loop!Pcs
    <2>2. sp' = [sp EXCEPT ![s] = x] BY <1>3 DEF Loop!Drains
    <2> HIDE DEF x
    <2> QED BY <1>3, <2>1, <2>2, StillRunning DEF Loop!Drains, Loop!turn
<1>4. CASE Loop!Unwind(s)
    <2>1. /\ sp' = [sp EXCEPT ![s] = Loop!Silent] /\ Loop!EndPlayback(s, FALSE, clock)
          /\ UNCHANGED <<answerTask, settling, heard, spec, ending>>
        BY <1>4 DEF Loop!Unwind
    <2> QED BY <1>0, <2>1, SilentLine, PlaybackOver
<1>5. CASE Loop!EndOfCall(s) BY <1>5, CloseKeeps DEF Loop!EndOfCall
<1> QED BY <1>1, <1>2, <1>3, <1>4, <1>5

\* The steps of the answers.
LEMMA AnswersKeep ==
    ASSUME LoopInv, NEW a \in Answers,
           Loop!BeginAnswer(a) \/ Loop!EndAnswer(a) \/ Loop!HandoverFails(a)
    PROVE  LoopWellFormed' /\ Ticks
<1>0. a \in Loop!Speakers /\ sp[a] \in Lines /\ clock \in Clocks /\ Loop!Unwound \in Talks
    BY LineOf, UnwoundTalks DEF LoopInv, LoopWellFormed, Loop!Speakers
<1>6. Loop!Unwound[a] \in Lines BY <1>0, LineOf
<1>7. Loop!Stopped \in Clocks /\ Loop!Stopped.stage # Loop!Stages
  BY StoppedClock DEF Loop!Stages
<1>1. CASE Loop!BeginAnswer(a)
    <2> DEFINE x == [Loop!Said(sp[a].kind, sp[a].left) EXCEPT !.pc = "waiting"]
    <2>1. sp[a].kind \in Loop!Kinds /\ sp[a].left \in Int /\ "waiting" \in Loop!Pcs
        BY <1>0 DEF Lines, Loop!Pcs
    <2>2. x \in Lines BY <2>1, SaidLine
    <2>3. sp' = [sp EXCEPT ![a] = x] /\ speaking' = TRUE
          /\ UNCHANGED <<answerTask, settling, heard, spec, clock, ending>>
        BY <1>1 DEF Loop!BeginAnswer, Loop!BeginPlayback
    <2> HIDE DEF x
    <2>4. sp' \in Talks BY <2>2, <2>3 DEF LoopInv, LoopWellFormed, Talks
    <2>5. LoopWellFormed' BY <2>3, <2>4 DEF LoopInv, LoopWellFormed
    <2> QED BY <2>3, <2>5 DEF Ticks, Owed, LoopInv, LastStage
<1>2. CASE Loop!HandoverFails(a)
    <2> DEFINE x == [Loop!Said("line", 1) EXCEPT !.pc = "waiting"]
    <2>1. "line" \in Loop!Kinds /\ 1 \in Int /\ "waiting" \in Loop!Pcs
      BY DEF Loop!Kinds, Loop!Pcs
    <2>2. x \in Lines BY <2>1, SaidLine
    <2>3. sp' = [Loop!Unwound EXCEPT ![a] = x] /\ speaking' = TRUE /\ clock' = Loop!Stopped
          /\ UNCHANGED <<answerTask, settling, heard, spec, ending>>
        BY <1>2 DEF Loop!HandoverFails, Loop!BeginPlayback, Loop!turn
    <2> HIDE DEF x
    <2>4. sp' \in Talks BY <1>0, <2>2, <2>3 DEF Talks
    <2>5. LoopWellFormed' BY <1>7, <2>3, <2>4 DEF LoopInv, LoopWellFormed
    <2> QED BY <1>7, <2>3, <2>5 DEF Ticks, Owed
<1>3. CASE Loop!EndAnswer(a)
    <2>0. UNCHANGED <<answerTask, settling, heard, spec>>
      BY <1>3 DEF Loop!EndAnswer, Loop!Stops
    <2>1. CASE /\ Loop!EndPlayback(a, Loop!CutOff(a), clock)
               /\ sp' = [sp EXCEPT ![a] = Loop!Silent]
               /\ UNCHANGED ending
        BY <1>0, <2>0, <2>1, SilentLine, PlaybackOver
    <2>2. CASE /\ Loop!EndPlayback(a, Loop!CutOff(a), clock)
               /\ sp' = [sp EXCEPT ![a].pc = "handing"]
               /\ UNCHANGED ending
        <3> DEFINE x == [sp[a] EXCEPT !.pc = "handing"]
        <3>1. x \in Lines BY <1>0, LineGoesOn DEF Loop!Pcs
        <3>2. sp' = [sp EXCEPT ![a] = x] BY <2>2
        <3> HIDE DEF x
        <3> QED BY <1>0, <2>0, <2>2, <3>1, <3>2, PlaybackOver
    <2>3. CASE /\ ending' = TRUE /\ clock' = Loop!Stopped
               /\ sp' = [Loop!Unwound EXCEPT ![a].pc = "hanging"]
        <3> DEFINE x == [Loop!Unwound[a] EXCEPT !.pc = "hanging"]
        <3>1. x \in Lines BY <1>6, LineGoesOn DEF Loop!Pcs
        <3>2. sp' = [Loop!Unwound EXCEPT ![a] = x] BY <2>3
        <3> HIDE DEF x
        <3>3. sp' \in Talks BY <1>0, <3>1, <3>2 DEF Talks
        <3>4. LoopWellFormed' BY <1>7, <2>0, <2>3, <3>3 DEF LoopInv, LoopWellFormed
        <3> QED BY <2>3, <3>4 DEF Ticks
    <2> QED BY <1>3, <2>1, <2>2, <2>3 DEF Loop!EndAnswer
<1> QED BY <1>1, <1>2, <1>3

\* The steps of the opening, the ladder and the clock.
LEMMA OthersKeep ==
    ASSUME LoopInv,
           Loop!EndOpening \/ Loop!EndLadder \/ Loop!ProtectionEnds \/ Loop!ClockFires
    PROVE  LoopWellFormed' /\ Ticks
<1>0. "opening" \in Loop!Speakers /\ "ladder" \in Loop!Speakers /\ clock \in Clocks
  BY DEF Loop!Speakers, LoopInv, LoopWellFormed
<1>6. sp["ladder"] \in Lines BY <1>0, LineOf DEF LoopInv, LoopWellFormed
<1>1. CASE Loop!EndOpening
    <2>1. /\ Loop!EndPlayback("opening", Loop!CutOff("opening"), clock)
          /\ sp' = [sp EXCEPT !["opening"] = Loop!Silent]
          /\ UNCHANGED <<answerTask, settling, heard, spec, ending>>
        BY <1>1 DEF Loop!EndOpening, Loop!Stops
    <2> QED BY <1>0, <2>1, SilentLine, PlaybackOver
<1>2. CASE Loop!EndLadder
    <2> DEFINE x == IF sp["ladder"].kind = "prompt" THEN Loop!Silent
                    ELSE [sp["ladder"] EXCEPT !.pc = "hanging"]
               c == IF sp["ladder"].kind = "prompt" THEN [clock EXCEPT !.pc = "waiting"]
                    ELSE clock
    <2>1. [sp["ladder"] EXCEPT !.pc = "hanging"] \in Lines
      BY <1>6, LineGoesOn DEF Loop!Pcs
    <2>2. x \in Lines BY <2>1, SilentLine
    <2>3. c \in Clocks /\ c.stage = clock.stage BY <1>0 DEF Clocks
    <2>4. /\ sp' = [sp EXCEPT !["ladder"] = x]
          /\ Loop!EndPlayback("ladder", Loop!CutOff("ladder"), c)
          /\ UNCHANGED <<answerTask, settling, heard, spec, ending>>
        BY <1>2 DEF Loop!EndLadder, Loop!Stops
    <2> HIDE DEF x, c
    <2> QED BY <1>0, <2>2, <2>3, <2>4, PlaybackOver
<1>3. CASE Loop!ProtectionEnds
    BY <1>3 DEF Loop!ProtectionEnds, Loop!tasks, Loop!turn, Loop!caller, LoopInv,
       LoopWellFormed, Ticks, Owed, Timed, LastStage, Loop!Running
<1>4. CASE Loop!ClockFires
    <2>0. UNCHANGED <<answerTask, settling, heard, spec>>
      BY <1>4 DEF Loop!ClockFires, Loop!turn
    <2>1. CASE /\ speaking \/ clock.stage = Loop!Stages
               /\ clock' = [clock EXCEPT !.pc = "off"]
               /\ UNCHANGED <<sp, speaking, cancelled, ending>>
        <3>1. clock' \in Clocks /\ clock'.stage = clock.stage BY <1>0, <2>1 DEF Clocks
        <3>2. LoopWellFormed' BY <2>0, <2>1, <3>1 DEF LoopInv, LoopWellFormed
        <3> QED BY <2>1, <3>1, <3>2 DEF LoopInv, Ticks, Owed, LastStage
    <2>2. CASE /\ clock.stage < Loop!Stages - 1
               /\ clock' = [pc |-> "speaking", stage |-> clock.stage + 1]
               /\ sp' = [sp EXCEPT !["ladder"] =
                     [Loop!Said("prompt", 1) EXCEPT !.pc = "waiting"]]
               /\ Loop!BeginPlayback
        <3> DEFINE x == [Loop!Said("prompt", 1) EXCEPT !.pc = "waiting"]
        <3>1. "prompt" \in Loop!Kinds /\ 1 \in Int /\ "waiting" \in Loop!Pcs
          BY DEF Loop!Kinds, Loop!Pcs
        <3>2. x \in Lines BY <3>1, SaidLine
        <3>3. sp' = [sp EXCEPT !["ladder"] = x] BY <2>2
        <3> HIDE DEF x
        <3>4. sp' \in Talks BY <1>0, <3>2, <3>3 DEF LoopInv, LoopWellFormed, Talks
        <3>5. clock.stage \in Int BY <1>0 DEF Clocks
        <3>6. clock' \in Clocks /\ clock'.stage # Loop!Stages
          BY <2>2, <3>5 DEF Clocks, Loop!Stages
        <3>7. LoopWellFormed' BY <2>0, <3>4, <3>6 DEF LoopInv, LoopWellFormed
        <3> QED BY <2>2, <3>6, <3>7 DEF Ticks, Owed, Loop!BeginPlayback
    <2>3. CASE /\ ending /\ clock' = [pc |-> "off", stage |-> Loop!Stages]
               /\ UNCHANGED <<sp, speaking, cancelled, ending>>
        <3>1. clock' \in Clocks BY <2>3 DEF Clocks, Loop!Stages
        <3>2. LoopWellFormed' BY <2>0, <2>3, <3>1 DEF LoopInv, LoopWellFormed
        <3> QED BY <2>3, <3>2 DEF Ticks
    <2>4. CASE /\ ending' = TRUE
               /\ clock' = [pc |-> "speaking", stage |-> Loop!Stages]
               /\ sp' = [sp EXCEPT !["ladder"] =
                     [Loop!Said("goodbye", 1) EXCEPT !.pc = "waiting"]]
        <3> DEFINE x == [Loop!Said("goodbye", 1) EXCEPT !.pc = "waiting"]
        <3>1. "goodbye" \in Loop!Kinds /\ 1 \in Int /\ "waiting" \in Loop!Pcs
          BY DEF Loop!Kinds, Loop!Pcs
        <3>2. x \in Lines BY <3>1, SaidLine
        <3>3. sp' = [sp EXCEPT !["ladder"] = x] BY <2>4
        <3> HIDE DEF x
        <3>4. sp' \in Talks BY <1>0, <3>2, <3>3 DEF LoopInv, LoopWellFormed, Talks
        <3>5. clock' \in Clocks BY <2>4 DEF Clocks, Loop!Stages
        <3>6. LoopWellFormed' BY <2>0, <3>4, <3>5 DEF LoopInv, LoopWellFormed
        <3> QED BY <2>4, <3>6 DEF Ticks
    <2> QED BY <1>4, <2>1, <2>2, <2>3, <2>4 DEF Loop!ClockFires
<1> QED BY <1>1, <1>2, <1>3, <1>4

\* The opening is being said at first.
LEMMA LoopInitially == Loop!Init => LoopInv
<1> SUFFICES ASSUME Loop!Init PROVE LoopInv
    OBVIOUS
<1>1. sp \in Talks
    <2>1. "greeting" \in Loop!Kinds /\ 0 \in Int /\ "playing" \in Loop!Pcs
      BY DEF Loop!Kinds, Loop!Pcs
    <2>2. [Loop!Said("greeting", 0) EXCEPT !.pc = "playing"] \in Lines BY <2>1, SaidLine
    <2> QED BY <2>2, SilentLine DEF Loop!Init, Talks
<1>2. clock \in Clocks /\ clock.stage # Loop!Stages
  BY DEF Loop!Init, Clocks, Loop!Stages
<1>3. LoopWellFormed BY <1>1, <1>2 DEF Loop!Init, LoopWellFormed, Awaited, Loop!Words
<1> QED BY <1>2, <1>3 DEF Loop!Init, LoopInv, Timed, LastStage, Owed

\* Every step keeps the invariant.
LEMMA LoopStep == LoopInv /\ [Loop!Next]_(Loop!vars) => LoopInv'
<1> SUFFICES ASSUME LoopInv, [Loop!Next]_(Loop!vars) PROVE LoopInv'
    OBVIOUS
<1>1. CASE UNCHANGED Loop!vars
    <2>1. LoopWellFormed'
      BY <1>1 DEF LoopInv, LoopWellFormed, Loop!vars, Loop!tasks, Loop!turn
    <2>2. Timed' /\ LastStage'
        BY <1>1 DEF LoopInv, Timed, LastStage, Owed, Loop!Running, Loop!vars,
           Loop!tasks, Loop!air, Loop!caller
    <2> QED BY <2>1, <2>2 DEF LoopInv
<1>2. CASE Loop!Next
    <2>1. LoopWellFormed' /\ Ticks
        BY <1>2, CallerKeeps, FinishesKeeps, SettlersKeep, SpeakersKeep, AnswersKeep,
           OthersKeep
        DEF Loop!Next, Loop!Internal
    <2> QED BY <2>1 DEF LoopInv, Ticks, Timed, LastStage
<1> QED BY <1>1, <1>2

\* Which is more than what is wanted.
LEMMA LoopSays == LoopInv => Loop!AnsweredAsAsked /\ Loop!ListeningIsTimed
<1> SUFFICES ASSUME LoopInv PROVE Loop!AnsweredAsAsked /\ Loop!ListeningIsTimed
    OBVIOUS
<1>1. Loop!AnsweredAsAsked
    <2> SUFFICES ASSUME NEW a \in Answers PROVE sp[a].asked = sp[a].words
        BY DEF Loop!AnsweredAsAsked
    <2>1. sp[a] \in Lines BY LineOf DEF LoopInv, LoopWellFormed, Loop!Speakers
    <2> QED BY <2>1 DEF Lines
<1>2. Loop!ListeningIsTimed
    BY DEF LoopInv, Timed, Loop!ListeningIsTimed, Loop!Quiet, Loop!Listening, Owed,
       Loop!Settlers
<1> QED BY <1>1, <1>2

\* A step of the run is a step of the loop, or leaves it alone.
LEMMA DialogueLoop ==
    /\ DialogueInit => Loop!Init
    /\ [DialogueNext]_allVars => [Loop!Next]_(Loop!vars)
BY DEF DialogueInit, DialogueNext, allVars, turns, Loop!vars, Loop!tasks, Loop!air,
       Loop!turn, Loop!caller, InAgent, InTurns, InEars, InGate

\* However turns are cut, merged, prepared for and resumed, no answer is to other
\* words than those it was asked for.
THEOREM DialogueAnsweredAsAsked == DialogueSpec => []AnsweredAsAsked
<1>1. LoopInv => AnsweredAsAsked BY LoopSays DEF AnsweredAsAsked
<1> QED BY <1>1, DialogueLoop, LoopInitially, LoopStep, PTL DEF DialogueSpec

\* A caller who says nothing is under the silence clock: no order of the tasks
\* that speak, settle and are cancelled leaves the line open with nobody to end it.
THEOREM DialogueListeningIsTimed == DialogueSpec => []ListeningIsTimed
<1>1. LoopInv => ListeningIsTimed BY LoopSays DEF ListeningIsTimed
<1> QED BY <1>1, DialogueLoop, LoopInitially, LoopStep, PTL DEF DialogueSpec

-----------------------------------------------------------------------------
(* The recogniser                                                          *)

\* The bounds and the timers of the recogniser.
LEMMA EarsCounts ==
    {MaxWords, MaxGuess, MaxChanges, AfterFinal, AfterStable, QueueMax, MaxWaiting}
        \subseteq Nat
BY DialogueAssumption

\* Words, events and what the pipeline holds.
Texts == Seq(Int)
Events == [type : {"partial", "eager", "resumed", "end", "none"}, text : Texts]
States == [heard : Texts, guess : Texts, told : Texts, gone : BOOLEAN]

\* The final words of a turn are the last ones the vendor has settled.
EarsShapes ==
    /\ final \in Texts /\ pending \in Texts /\ eager \in Texts /\ timer \in Int
    /\ queue \in Seq(Events) /\ waiting \in Seq(Events) /\ Len(queue) <= QueueMax
    /\ pipeline \in States /\ settled \in Nat /\ overtaken \in BOOLEAN
    /\ Len(final) <= settled
    /\ final = [i \in 1..Len(final) |-> (settled - Len(final)) + i]

\* What the pipeline will hold when it has taken all that is queued.
Sound(s) ==
    /\ s.guess # <<>> => s.guess = s.heard
    /\ s.told = [i \in 1..Len(s.told) |-> i]
Follows(p, q, s) ==
    \E P \in [0..Len(q) -> States] :
        /\ P[0] = p /\ P[Len(q)] = s
        /\ \A i \in 1..Len(q) : P[i] = Ears!After(P[i - 1], q[i])
        /\ \A i \in 0..Len(q) : Sound(P[i])
Catches(s) ==
    /\ s.guess = eager
    /\ Len(s.told) = settled - Len(final)
    /\ timer # Ears!Off /\ eager = <<>> /\ Ears!Heard # <<>> => s.heard = Ears!Heard
KeepsUp ==
    ~overtaken =>
       waiting = <<>> /\ \E s \in States : Follows(pipeline, queue, s) /\ Catches(s)

\* What an event changes of what the pipeline holds.
LEMMA AfterDoes ==
    ASSUME NEW s \in States, NEW e \in Events
    PROVE  /\ Ears!After(s, e) \in States
           /\ Ears!After(s, e).heard = IF e.type = "partial" THEN e.text
                                       ELSE IF e.type = "end" THEN <<>> ELSE s.heard
           /\ Ears!After(s, e).guess = IF e.type = "eager" THEN e.text
                                       ELSE IF e.type \in
                                          {"resumed", "end"} THEN <<>> ELSE s.guess
           /\ Ears!After(s, e).told = IF e.type = "end" THEN s.told \o e.text ELSE s.told
<1>1. /\ e.text \in Texts /\ <<>> \in Texts /\ s.told \in Texts
      /\ s.told \o e.text \in Texts
    BY DEF Events, States, Texts
<1>2. CASE e.type = "partial" BY <1>1, <1>2 DEF Ears!After, States
<1>3. CASE e.type = "eager" BY <1>1, <1>3 DEF Ears!After, States
<1>4. CASE e.type = "resumed" BY <1>1, <1>4 DEF Ears!After, States
<1>5. CASE e.type = "end" BY <1>1, <1>5 DEF Ears!After, States
<1>6. CASE e.type = "none" BY <1>1, <1>6 DEF Ears!After, States
<1> QED BY <1>2, <1>3, <1>4, <1>5, <1>6 DEF Events

\* With an empty queue it holds what it will hold.
LEMMA FollowsNothing ==
    ASSUME NEW p \in States, Sound(p) PROVE Follows(p, <<>>, p)
<1> DEFINE R == [i \in 0..0 |-> p]
<1>1. R \in [0..Len(<<>>) -> States] /\ R[0] = p /\ R[Len(<<>>)] = p
      /\ \A i \in 0..Len(<<>>) : R[i] = p
    OBVIOUS
<1> HIDE DEF R
<1> QED BY <1>1 DEF Follows

\* An event more in the queue.
LEMMA FollowsOne ==
    ASSUME NEW p, NEW q \in Seq(Events), NEW s, Follows(p, q, s), NEW e \in Events,
           Sound(Ears!After(s, e))
    PROVE  Follows(p, Append(q, e), Ears!After(s, e))
<1>1. PICK P \in [0..Len(q) -> States] :
        /\ P[0] = p /\ P[Len(q)] = s
        /\ \A i \in 1..Len(q) : P[i] = Ears!After(P[i - 1], q[i])
        /\ \A i \in 0..Len(q) : Sound(P[i])
    BY DEF Follows
<1> DEFINE n == Len(q) + 1
           R == [i \in 0..n |-> IF i = n THEN Ears!After(s, e) ELSE P[i]]
           a == Append(q, e)
<1>2. /\ Len(q) \in Nat /\ Len(a) = n /\ a[n] = e /\ \A i \in 1..Len(q) : a[i] = q[i]
    OBVIOUS
<1>3. s \in States BY <1>1, <1>2
<1>4. Ears!After(s, e) \in States BY <1>3, AfterDoes
<1>5. /\ R \in [0..n -> States] /\ R[n] = Ears!After(s, e)
      /\ \A i \in 0..Len(q) : R[i] = P[i]
    BY <1>1, <1>2, <1>4
<1> HIDE DEF R, a
<1>6. R[0] = p BY <1>1, <1>2, <1>5
<1>7. ASSUME NEW i \in 1..n PROVE R[i] = Ears!After(R[i - 1], a[i])
    <2>1. CASE i = n
        <3>1. i - 1 = Len(q) /\ Len(q) \in 0..Len(q) BY <1>2, <2>1
        <3> QED BY <1>1, <1>2, <1>5, <2>1, <3>1
    <2>2. CASE i # n
        <3>1. i \in 1..Len(q) /\ i \in 0..Len(q) /\ i - 1 \in 0..Len(q) BY <1>2, <2>2
        <3> QED BY <1>1, <1>2, <1>5, <3>1
    <2> QED BY <2>1, <2>2
<1>8. ASSUME NEW i \in 0..n PROVE Sound(R[i])
    <2>1. i = n \/ i \in 0..Len(q) BY <1>2
    <2> QED BY <1>1, <1>5, <2>1
<1>9. Follows(p, a, Ears!After(s, e))
    BY <1>2, <1>5, <1>6, <1>7, <1>8 DEF Follows
<1> QED BY <1>9 DEF a

\* An event less.
LEMMA FollowsTail ==
    ASSUME NEW p, NEW q \in Seq(Events), NEW s, Follows(p, q, s), q # <<>>
    PROVE  Follows(Ears!After(p, Head(q)), Tail(q), s)
<1>1. PICK P \in [0..Len(q) -> States] :
        /\ P[0] = p /\ P[Len(q)] = s
        /\ \A i \in 1..Len(q) : P[i] = Ears!After(P[i - 1], q[i])
        /\ \A i \in 0..Len(q) : Sound(P[i])
    BY DEF Follows
<1> DEFINE t == Tail(q)
           R == [i \in 0..Len(t) |-> P[i + 1]]
<1>2. /\ Len(q) \in Nat /\ Len(q) >= 1 /\ Len(t) = Len(q) - 1 /\ Head(q) = q[1]
      /\ \A i \in 1..Len(t) : t[i] = q[i + 1]
    OBVIOUS
<1> HIDE DEF t
<1>3. \A i \in 0..Len(t) : i + 1 \in 1..Len(q) /\ i + 1 \in 0..Len(q) /\ (i + 1) - 1 = i
  BY <1>2
<1>4. R \in [0..Len(t) -> States] /\ \A i \in 0..Len(t) : R[i] = P[i + 1] BY <1>3
<1> HIDE DEF R
<1>5. R[0] = Ears!After(p, Head(q))
    <2>1. 0 \in 0..Len(t) /\ 1 \in 1..Len(q) BY <1>2
    <2>2. R[0] = P[1] BY <1>4, <2>1
    <2>3. P[1] = Ears!After(P[0], q[1]) BY <1>1, <2>1
    <2> QED BY <1>1, <1>2, <2>2, <2>3
<1>6. R[Len(t)] = s
    <2>1. Len(t) \in 0..Len(t) /\ Len(t) + 1 = Len(q) BY <1>2
    <2> QED BY <1>1, <1>4, <2>1
<1>7. ASSUME NEW i \in 1..Len(t) PROVE R[i] = Ears!After(R[i - 1], t[i])
    <2>1. i \in 0..Len(t) /\ i - 1 \in 0..Len(t) /\ (i - 1) + 1 = i /\ i + 1 \in 1..Len(q)
          /\ (i + 1) - 1 = i
        BY <1>2
    <2>2. R[i] = P[i + 1] /\ R[i - 1] = P[i] /\ t[i] = q[i + 1] BY <1>2, <1>4, <2>1
    <2>3. P[i + 1] = Ears!After(P[i], q[i + 1]) BY <1>1, <2>1
    <2> QED BY <2>2, <2>3
<1>8. \A i \in 0..Len(t) : Sound(R[i]) BY <1>1, <1>3, <1>4
<1> QED BY <1>4, <1>5, <1>6, <1>7, <1>8 DEF Follows, t

\* What it holds is sound now and then.
LEMMA FollowsSound ==
    ASSUME NEW p, NEW q \in Seq(Events), NEW s, Follows(p, q, s)
    PROVE  p \in States /\ s \in States /\ Sound(p) /\ Sound(s)
<1>1. 0 \in 0..Len(q) /\ Len(q) \in 0..Len(q) OBVIOUS
<1> QED BY <1>1 DEF Follows

\* What finds room is in the queue.
LEMMA EmitAll ==
    ASSUME NEW events \in Seq(Events), queue \in Seq(Events), Len(queue) <= QueueMax,
           waiting = <<>>, Ears!Emit(events), ~overtaken'
    PROVE  queue' = queue \o events /\ waiting' = <<>>
<1> DEFINE room == Ears!Least(Len(events), QueueMax - Len(queue))
<1>1. QueueMax \in Nat /\ Len(queue) \in Nat /\ Len(events) \in Nat BY EarsCounts
<1>2. room \in Nat /\ room <= Len(events) BY <1>1 DEF Ears!Least
<1>3. waiting' = <<>> BY DEF Ears!Emit
<1>4. waiting \o SubSeq(events, room + 1, Len(events)) = <<>> BY <1>3 DEF Ears!Emit
<1>5. queue' = queue \o SubSeq(events, 1, room) BY DEF Ears!Emit
<1> HIDE DEF room
<1>6. SubSeq(events, room + 1, Len(events)) = <<>> BY <1>1, <1>2, <1>4
<1>7. room = Len(events)
    <2> SUFFICES ASSUME room < Len(events) PROVE FALSE BY <1>1, <1>2
    <2> DEFINE late == SubSeq(events, room + 1, Len(events))
    <2>1. late \in Seq(Events) /\ Len(late) = Len(events) - room BY <1>1, <1>2
    <2>2. late = <<>> BY <1>6
    <2> HIDE DEF late
    <2>3. Len(late) = 0 BY <2>2
    <2> QED BY <1>1, <1>2, <2>1, <2>3
<1>8. SubSeq(events, 1, Len(events)) = events BY <1>1
<1> QED BY <1>3, <1>5, <1>7, <1>8

\* Numbers in a row, and more of them.
LEMMA Longer ==
    ASSUME NEW a \in Nat, NEW b \in Nat, NEW c \in Nat, b <= c, a <= b
    PROVE  [i \in 1..(b - a) |-> a + i] \o [i \in 1..(c - b) |-> b + i]
             = [i \in 1..(c - a) |-> a + i]
<1> DEFINE x == [i \in 1..(b - a) |-> a + i]
           y == [i \in 1..(c - b) |-> b + i]
           z == [i \in 1..(c - a) |-> a + i]
<1>1. b - a \in Nat /\ c - b \in Nat /\ c - a \in Nat /\ (b - a) + (c - b) = c - a
  OBVIOUS
<1>2. x \in Seq(Int) /\ y \in Seq(Int) /\ z \in Seq(Int) BY <1>1
<1>3. Len(x) = b - a /\ Len(y) = c - b /\ Len(z) = c - a BY <1>1
<1>4. Len(x \o y) = c - a BY <1>1, <1>2, <1>3
<1>5. ASSUME NEW i \in 1..(c - a) PROVE (x \o y)[i] = z[i]
    <2>1. CASE i <= b - a
        <3>1. i \in 1..(b - a) BY <2>1
        <3>2. (x \o y)[i] = x[i] BY <1>2, <1>3, <3>1
        <3> QED BY <3>1, <3>2
    <2>2. CASE ~(i <= b - a)
        <3>1. i - (b - a) \in 1..(c - b) /\ b + (i - (b - a)) = a + i BY <1>1, <2>2
        <3>2. (x \o y)[i] = y[i - (b - a)] BY <1>1, <1>2, <1>3, <2>2
        <3> QED BY <3>1, <3>2
    <2> QED BY <2>1, <2>2
<1> DEFINE w == x \o y
<1>6. w \in Seq(Int) /\ Len(w) = c - a /\ \A i \in 1..(c - a) : w[i] = z[i]
  BY <1>2, <1>4, <1>5
<1> HIDE DEF w, x, y, z
<1>7. w = [i \in 1..(c - a) |-> w[i]] BY <1>6
<1>8. z = [i \in 1..(c - a) |-> z[i]] BY <1>2, <1>3
<1>9. w = z BY <1>6, <1>7, <1>8
<1> QED BY <1>9 DEF w, x, y, z

\* Two texts are one.
LEMMA Joined ==
    ASSUME NEW a \in Seq(Int), NEW b \in Seq(Int)
    PROVE  a \o b \in Seq(Int) /\ Len(a \o b) = Len(a) + Len(b)
OBVIOUS

\* The words heard so far, once more of them are final.
LEMMA MoreFinal ==
    ASSUME EarsShapes, NEW n \in settled..MaxWords
    PROVE  LET more == [i \in 1..(n - settled) |-> settled + i]
               f == final \o more
           IN  /\ more \in Texts /\ f \in Texts /\ Len(f) = Len(final) + (n - settled)
               /\ Len(f) <= n /\ n - Len(f) = settled - Len(final)
               /\ f = [i \in 1..Len(f) |-> (n - Len(f)) + i]
<1> DEFINE more == [i \in 1..(n - settled) |-> settled + i]
           f == final \o more
           a == settled - Len(final)
<1>1. /\ settled \in Nat /\ MaxWords \in Nat /\ n \in Nat /\ settled <= n
      /\ n - settled \in Nat
    BY EarsCounts DEF EarsShapes
<1>2. final \in Seq(Int) /\ Len(final) \in Nat /\ Len(final) <= settled /\ a \in Nat
    BY <1>1 DEF EarsShapes, Texts
<1>3. more \in Seq(Int) /\ Len(more) = n - settled BY <1>1
<1> HIDE DEF more
<1>4. f \in Seq(Int) /\ Len(f) = Len(final) + (n - settled) BY <1>2, <1>3, Joined
<1>5. Len(f) = n - a /\ n - Len(f) = a /\ Len(final) = settled - a BY <1>1, <1>2, <1>4
<1>6. f = [i \in 1..(n - a) |-> a + i]
    <2>1. final = [i \in 1..(settled - a) |-> a + i] BY <1>5 DEF EarsShapes
    <2>2. a <= settled BY <1>1, <1>2
    <2> QED BY <1>1, <1>2, <2>1, <2>2, Longer DEF more
<1> HIDE DEF f
<1>7. f = [i \in 1..Len(f) |-> (n - Len(f)) + i] BY <1>5, <1>6
<1>8. Len(f) <= n BY <1>1, <1>2, <1>5
<1> QED BY <1>1, <1>2, <1>3, <1>4, <1>5, <1>7, <1>8 DEF Texts, f, more

\* A guess of the vendor is a text.
LEMMA GuessIsText == ASSUME NEW n \in Nat, NEW g \in Ears!Guesses(n) PROVE g \in Texts
<1>1. PICK m \in 0..Ears!Least(MaxGuess, MaxWords - n) :
          \E wrong \in [1..m -> BOOLEAN] :
             g = [i \in 1..m |-> IF wrong[i] THEN -(n + i) ELSE n + i]
    BY DEF Ears!Guesses
<1>4. PICK wrong \in [1..m -> BOOLEAN] :
          g = [i \in 1..m |-> IF wrong[i] THEN -(n + i) ELSE n + i]
    BY <1>1
<1>2. m \in Nat
    <2>1. m \in Int /\ m >= 0 BY EarsCounts DEF Ears!Least
    <2> QED BY <2>1
<1>3. \A i \in 1..m : (IF wrong[i] THEN -(n + i) ELSE n + i) \in Int BY <1>2
<1> QED BY <1>2, <1>3, <1>4 DEF Texts

LEMMA EventForm ==
    ASSUME NEW type \in {"partial", "eager", "resumed", "end", "none"}, NEW text \in Texts
    PROVE  /\ Ears!Event(type, text) \in Events
           /\ Ears!Event(type, text).type = type /\ Ears!Event(type, text).text = text
BY DEF Ears!Event, Events

\* An event that is queued is taken in its turn.
LEMMA QueueHas ==
    ASSUME queue \in Seq(Events), NEW e \in Events
    PROVE  /\ queue \o <<e>> = Append(queue, e)
           /\ \A d \in Events : queue \o (<<e>> \o <<d>>) = Append(Append(queue, e), d)
           /\ queue \o <<>> = queue
           /\ queue \o (<<e>> \o <<>>) = Append(queue, e)
           /\ queue \o (<<>> \o <<e>>) = Append(queue, e)
           /\ queue \o (<<>> \o <<>>) = queue
OBVIOUS

\* The mark of the end of the stream changes nothing that was told.
LEMMA NoneFollows ==
    ASSUME EarsShapes, Ears!MarkEnd, NEW s \in States, Follows(pipeline, queue, s)
    PROVE  \E z \in States :
              Follows(pipeline, queue', z) /\ z.guess = s.guess /\ z.told = s.told
<1>1. Ears!EndOfStream \in Events /\ Ears!EndOfStream.type = "none"
  BY DEF Ears!EndOfStream, Events, Texts
<1>2. CASE queue' = queue BY <1>2
<1>3. CASE queue' = Append(queue, Ears!EndOfStream)
    <2> DEFINE z == Ears!After(s, Ears!EndOfStream)
    <2>1. /\ z \in States /\ z.guess = s.guess /\ z.told = s.told /\ z.heard = s.heard
        BY <1>1, AfterDoes
    <2>4. Sound(s) BY FollowsSound DEF EarsShapes
    <2>2. Sound(z) BY <2>1, <2>4 DEF Sound
    <2>3. Follows(pipeline, queue', z) BY <1>1, <1>3, <2>2, FollowsOne DEF EarsShapes
    <2> QED BY <2>1, <2>3
<1> QED BY <1>2, <1>3 DEF Ears!MarkEnd

\* What is emitted is queued or waits.
LEMMA EmitShapes ==
    ASSUME NEW events \in Seq(Events), EarsShapes, Ears!Emit(events)
    PROVE  /\ queue' \in Seq(Events) /\ Len(queue') <= QueueMax
           /\ waiting' \in Seq(Events) /\ overtaken' \in BOOLEAN
           /\ ~overtaken' => ~overtaken
<1> DEFINE room == Ears!Least(Len(events), QueueMax - Len(queue))
<1>1. /\ QueueMax \in Nat /\ Len(queue) \in Nat /\ Len(events) \in Nat
      /\ queue \in Seq(Events) /\ waiting \in Seq(Events) /\ Len(queue) <= QueueMax
    BY EarsCounts DEF EarsShapes
<1>2. room \in Nat /\ room <= Len(events) /\ room <= QueueMax - Len(queue)
    BY <1>1 DEF Ears!Least
<1>3. /\ queue' = queue \o SubSeq(events, 1, room)
      /\ waiting' = waiting \o SubSeq(events, room + 1, Len(events))
    BY DEF Ears!Emit
<1> HIDE DEF room
<1>4. SubSeq(events, 1, room) \in Seq(Events) /\ Len(SubSeq(events, 1, room)) = room
    BY <1>1, <1>2
<1>5. SubSeq(events, room + 1, Len(events)) \in Seq(Events) BY <1>1, <1>2
<1>6. Len(queue') = Len(queue) + room BY <1>1, <1>3, <1>4
<1>7. queue' \in Seq(Events) /\ waiting' \in Seq(Events) BY <1>1, <1>3, <1>4, <1>5, SMTT(15)
<1>8. Len(queue') <= QueueMax BY <1>1, <1>2, <1>6
<1>9. overtaken' = (overtaken \/ waiting' # <<>>) /\ overtaken \in BOOLEAN
    BY DEF Ears!Emit, EarsShapes
<1> QED BY <1>7, <1>8, <1>9

\* A message tells the pipeline the words it is to speculate on.
LEMMA ProgressKeeps ==
    ASSUME EarsShapes, KeepsUp, Ears!Progress
    PROVE  EarsShapes' /\ KeepsUp'
<1>1. PICK n \in settled..MaxWords : \E guess \in Ears!Guesses(n) :
          LET finals == final \o [i \in 1..(n - settled) |-> settled + i]
              words == finals \o guess
              resumed == eager # <<>> /\ Ears!CarriedOn(words, eager)
          IN  /\ final' = finals /\ pending' = guess
              /\ settled' = n
              /\ eager' = IF resumed THEN <<>> ELSE eager
              /\ timer' = IF words # <<>> /\ eager' = <<>> /\ Ears!Changed(words)
                          THEN IF guess = <<>> THEN AfterFinal ELSE AfterStable
                          ELSE timer
              /\ changes' = changes + (IF words = Ears!Heard THEN 0 ELSE 1)
              /\ Ears!Emit((IF resumed THEN <<Ears!Event("resumed", <<>>)>> ELSE <<>>)
                           \o (IF words # <<>> THEN <<Ears!Event("partial", words)>> ELSE <<>>))
    BY DEF Ears!Progress
<1>2. PICK guess \in Ears!Guesses(n) :
          LET finals == final \o [i \in 1..(n - settled) |-> settled + i]
              words == finals \o guess
              resumed == eager # <<>> /\ Ears!CarriedOn(words, eager)
          IN  /\ final' = finals /\ pending' = guess
              /\ settled' = n
              /\ eager' = IF resumed THEN <<>> ELSE eager
              /\ timer' = IF words # <<>> /\ eager' = <<>> /\ Ears!Changed(words)
                          THEN IF guess = <<>> THEN AfterFinal ELSE AfterStable
                          ELSE timer
              /\ Ears!Emit((IF resumed THEN <<Ears!Event("resumed", <<>>)>> ELSE <<>>)
                           \o (IF words # <<>> THEN <<Ears!Event("partial", words)>> ELSE <<>>))
    BY <1>1
<1> DEFINE finals == final \o [i \in 1..(n - settled) |-> settled + i]
           words == finals \o guess
           resumed == eager # <<>> /\ words # eager
           back == IF resumed THEN <<Ears!Event("resumed", <<>>)>> ELSE <<>>
           word == IF words # <<>> THEN <<Ears!Event("partial", words)>> ELSE <<>>
<1>3. /\ final' = finals /\ pending' = guess /\ settled' = n
      /\ eager' = IF resumed THEN <<>> ELSE eager
      /\ timer' \in {AfterFinal, AfterStable, timer}
      /\ Ears!Emit(back \o word)
    BY <1>2 DEF Ears!CarriedOn
<1>4. /\ n \in Nat /\ finals \in Texts /\ Len(finals) <= n
      /\ n - Len(finals) = settled - Len(final)
      /\ finals = [i \in 1..Len(finals) |-> (n - Len(finals)) + i]
    <2>1. settled \in Nat /\ n \in Nat BY EarsCounts DEF EarsShapes
    <2> QED BY <2>1, MoreFinal
<1>5. guess \in Texts /\ words \in Texts
    <2>1. guess \in Texts BY <1>4, GuessIsText
    <2> QED BY <1>4, <2>1 DEF Texts
<1> HIDE DEF finals, words
<1>6. <<>> \in Texts BY DEF Texts
<1>7. /\ Ears!Event("resumed", <<>>) \in Events /\ Ears!Event("partial", words) \in Events
      /\ Ears!Event("resumed", <<>>).type = "resumed"
      /\ Ears!Event("partial", words).type = "partial"
      /\ Ears!Event("partial", words).text = words
    BY <1>5, <1>6, EventForm
<1>8. back \o word \in Seq(Events) BY <1>7
<1>9. /\ queue' \in Seq(Events) /\ Len(queue') <= QueueMax
      /\ waiting' \in Seq(Events) /\ overtaken' \in BOOLEAN
      /\ ~overtaken' => ~overtaken
    BY <1>3, <1>8, EmitShapes
<1>10. EarsShapes'
    <2>1. timer' \in Int BY <1>3, EarsCounts DEF EarsShapes
    <2>2. eager' \in Texts BY <1>3, <1>6 DEF EarsShapes
    <2>3. pipeline' = pipeline /\ pipeline \in States BY DEF Ears!Progress, EarsShapes
    <2> QED BY <1>3, <1>4, <1>5, <1>9, <2>1, <2>2, <2>3 DEF EarsShapes
<1>11. ASSUME ~overtaken'
       PROVE  /\ waiting' = <<>>
              /\ \E z \in States : Follows(pipeline', queue', z) /\ Catches(z)'
    <2>1. waiting = <<>> /\ ~overtaken BY <1>9, <1>11 DEF KeepsUp
    <2>2. PICK s \in States : Follows(pipeline, queue, s) /\ Catches(s)
        BY <2>1 DEF KeepsUp
    <2>3. queue' = queue \o (back \o word) /\ waiting' = <<>>
        BY <1>3, <1>8, <1>11, <2>1, EmitAll DEF EarsShapes
    <2>4. pipeline' = pipeline /\ queue \in Seq(Events) BY DEF Ears!Progress, EarsShapes
    <2>5. Sound(s) BY <2>2, <2>4, FollowsSound
    <2>6. PICK q \in Seq(Events), z \in States :
            /\ Follows(pipeline, q, z) /\ z.guess = eager' /\ z.told = s.told
            /\ q = IF resumed THEN Append(queue, Ears!Event("resumed", <<>>)) ELSE queue
            /\ z.heard = s.heard
        <3>1. CASE resumed
            <4> DEFINE z == Ears!After(s, Ears!Event("resumed", <<>>))
            <4>1. z \in States /\ z.guess = <<>> /\ z.told = s.told /\ z.heard = s.heard
                BY <1>7, AfterDoes
            <4>2. Sound(z) BY <2>5, <4>1 DEF Sound
            <4>3. Follows(pipeline, Append(queue, Ears!Event("resumed", <<>>)), z)
                BY <1>7, <2>2, <2>4, <4>2, FollowsOne
            <4> HIDE DEF z
            <4>4. Append(queue, Ears!Event("resumed", <<>>)) \in Seq(Events)
              BY <1>7, <2>4
            <4>5. z.guess = eager' BY <1>3, <3>1, <4>1
            <4> HIDE DEF resumed
            <4> QED BY <3>1, <4>1, <4>3, <4>4, <4>5
        <3>2. CASE ~resumed BY <1>3, <2>2, <2>4, <3>2 DEF Catches
        <3> QED BY <3>1, <3>2
    <2>7. Len(s.told) = settled' - Len(final') BY <1>3, <1>4, <2>2 DEF Catches
    <2>8. Ears!Heard' = words BY <1>3 DEF Ears!Heard, words
    <2>9. CASE words = <<>>
        <3>1. word = <<>> BY <2>9
        <3>2. queue' = q BY <1>7, <2>3, <2>4, <2>6, <3>1, QueueHas
        <3>3. Catches(z)' BY <2>6, <2>7, <2>8, <2>9 DEF Catches
        <3> QED BY <2>3, <2>4, <2>6, <3>2, <3>3
    <2>10. CASE words # <<>>
        <3>0. PICK y : y = Ears!After(z, Ears!Event("partial", words)) OBVIOUS
        <3>1. y \in States /\ y.guess = z.guess /\ y.told = z.told /\ y.heard = words
            BY <1>7, <3>0, AfterDoes
        <3>2. Sound(z) BY <2>6, FollowsSound
        <3>3. y.guess # <<>> => y.guess = words BY <1>3, <2>6, <3>1
        <3>4. Sound(y) BY <3>1, <3>2, <3>3 DEF Sound
        <3>5. Follows(pipeline, Append(q, Ears!Event("partial", words)), y)
            BY <1>7, <2>6, <3>0, <3>4, FollowsOne
        <3>6. queue' = Append(q, Ears!Event("partial", words))
            <4>1. word = <<Ears!Event("partial", words)>> BY <2>10
            <4>2. CASE resumed
                <5>1. back = <<Ears!Event("resumed", <<>>)>> BY <4>2
                <5> HIDE DEF back, word, resumed
                <5> QED BY <1>7, <2>3, <2>4, <2>6, <4>1, <4>2, <5>1, QueueHas
            <4>3. CASE ~resumed
                <5>1. back = <<>> BY <4>3
                <5> HIDE DEF back, word, resumed
                <5> QED BY <1>7, <2>3, <2>4, <2>6, <4>1, <4>3, <5>1, QueueHas
            <4> QED BY <4>2, <4>3
        <3>7. Catches(y)' BY <2>6, <2>7, <2>8, <3>1 DEF Catches
        <3> QED BY <2>3, <2>4, <3>1, <3>5, <3>6, <3>7
    <2> QED BY <2>9, <2>10
<1> QED BY <1>10, <1>11 DEF KeepsUp

\* A turn that ends is told in full, and nothing is speculated on.
LEMMA EndsTurnKeeps ==
    ASSUME EarsShapes, KeepsUp, Ears!EndsTurn
    PROVE  EarsShapes' /\ KeepsUp'
<1>1. PICK n \in settled..MaxWords :
          LET words == final \o [i \in 1..(n - settled) |-> settled + i]
          IN  words # <<>> /\ settled' = n /\ Ears!Emit(<<Ears!Event("end", words)>>)
    BY DEF Ears!EndsTurn
<1> DEFINE words == final \o [i \in 1..(n - settled) |-> settled + i]
           ev == Ears!Event("end", words)
<1>2. words # <<>> /\ settled' = n /\ Ears!Emit(<<ev>>) BY <1>1
<1>3. /\ final' = <<>> /\ pending' = <<>> /\ eager' = <<>> /\ timer' = Ears!Off
      /\ pipeline' = pipeline
    BY DEF Ears!EndsTurn
<1>4. /\ n \in Nat /\ settled \in Nat /\ words \in Texts /\ Len(words) <= n
      /\ n - Len(words) = settled - Len(final)
      /\ words = [i \in 1..Len(words) |-> (n - Len(words)) + i]
    <2>1. settled \in Nat /\ n \in Nat BY EarsCounts DEF EarsShapes
    <2> QED BY <2>1, MoreFinal
<1> HIDE DEF words, ev
<1>5. ev \in Events /\ ev.type = "end" /\ ev.text = words BY <1>4, EventForm DEF ev
<1>9. <<ev>> \in Seq(Events) BY <1>5
<1>6. /\ queue' \in Seq(Events) /\ Len(queue') <= QueueMax
      /\ waiting' \in Seq(Events) /\ overtaken' \in BOOLEAN
      /\ ~overtaken' => ~overtaken
    BY <1>2, <1>9, EmitShapes
<1>7. EarsShapes'
    <2>1. <<>> \in Texts /\ Ears!Off \in Int /\ Len(<<>>) = 0 BY DEF Texts, Ears!Off
    <2>2. <<>> = [i \in 1..Len(<<>>) |-> (n - Len(<<>>)) + i] OBVIOUS
    <2>3. pipeline \in States BY DEF EarsShapes
    <2> QED BY <1>2, <1>3, <1>4, <1>6, <2>1, <2>2, <2>3 DEF EarsShapes
<1>8. ASSUME ~overtaken'
      PROVE  /\ waiting' = <<>>
             /\ \E z \in States : Follows(pipeline', queue', z) /\ Catches(z)'
    <2>1. waiting = <<>> /\ ~overtaken BY <1>6, <1>8 DEF KeepsUp
    <2>2. PICK s \in States : Follows(pipeline, queue, s) /\ Catches(s)
        BY <2>1 DEF KeepsUp
    <2>3. queue \in Seq(Events) BY DEF EarsShapes
    <2>4. queue' = Append(queue, ev) /\ waiting' = <<>>
        <3>1. queue' = queue \o <<ev>> /\ waiting' = <<>>
            BY <1>2, <1>9, <1>8, <2>1, <2>3, EmitAll DEF EarsShapes
        <3> QED BY <1>5, <2>3, <3>1, QueueHas
    <2>5. PICK z : z = Ears!After(s, ev) OBVIOUS
    <2>6. z \in States /\ z.guess = <<>> /\ z.told = s.told \o words
      BY <1>5, <2>5, AfterDoes
    <2>7. z.told = [i \in 1..n |-> i] /\ Len(z.told) = n
        <3> DEFINE a == settled - Len(final)
        <3>1. Sound(s) BY <2>2, <2>3, FollowsSound
        <3>2. a \in Nat /\ a <= n /\ Len(words) = n - a /\ n - Len(words) = a
            <4>1. Len(final) \in Nat /\ Len(final) <= settled /\ Len(words) \in Nat
                BY <1>4 DEF EarsShapes, Texts
            <4> QED BY <1>4, <4>1
        <3>3. Len(s.told) = a BY <2>2 DEF Catches
        <3> HIDE DEF a
        <3>4. s.told = [i \in 1..a |-> i] BY <3>1, <3>3 DEF Sound
        <3>5. words = [i \in 1..(n - a) |-> a + i] BY <1>4, <3>2
        <3>6. [i \in 1..a |-> i] = [i \in 1..(a - 0) |-> 0 + i] BY <3>2
        <3>7. [i \in 1..n |-> i] = [i \in 1..(n - 0) |-> 0 + i] BY <1>4
        <3>8. [i \in 1..(a - 0) |-> 0 + i] \o [i \in 1..(n - a) |-> a + i]
                = [i \in 1..(n - 0) |-> 0 + i]
            BY <1>4, <3>2, Longer
        <3>9. z.told = [i \in 1..n |-> i] BY <2>6, <3>4, <3>5, <3>6, <3>7, <3>8
        <3> QED BY <1>4, <3>9
    <2>8. Sound(z) BY <2>6, <2>7 DEF Sound
    <2>9. Follows(pipeline, queue', z) BY <1>5, <2>2, <2>3, <2>4, <2>5, <2>8, FollowsOne
    <2>10. Catches(z)'
        <3>1. Len(<<>>) = 0 /\ n - 0 = n BY <1>4
        <3>2. Len(z.told) = settled' - Len(final') BY <1>2, <1>3, <2>7, <3>1
        <3> QED BY <1>3, <2>6, <3>2 DEF Catches, Ears!Off
    <2> QED BY <1>3, <2>4, <2>6, <2>9, <2>10
<1> QED BY <1>7, <1>8 DEF KeepsUp

\* The timer fires for the words the pipeline is told last.
LEMMA FireKeeps ==
    ASSUME EarsShapes, KeepsUp, Ears!FireEager
    PROVE  EarsShapes' /\ KeepsUp'
<1>1. /\ timer = 0 /\ timer' = Ears!Off /\ Ears!Off \in Int /\ Ears!Off # 0
      /\ UNCHANGED <<final, pending, pipeline, settled>>
    BY DEF Ears!FireEager, Ears!Off
<1>2. CASE UNCHANGED <<eager, queue, waiting, overtaken>>
    <2>1. EarsShapes' BY <1>1, <1>2 DEF EarsShapes
    <2>2. \A s : Catches(s) => Catches(s)' BY <1>1, <1>2 DEF Catches
    <2>3. KeepsUp' BY <1>1, <1>2, <2>2 DEF KeepsUp
    <2> QED BY <2>1, <2>3
<1>3. CASE /\ eager = <<>> /\ Ears!Heard # <<>> /\ eager' = Ears!Heard
           /\ Ears!Emit(<<Ears!Event("eager", Ears!Heard)>>)
    <2>1. PICK h : h = Ears!Heard OBVIOUS
    <2>2. h \in Texts BY <2>1 DEF Ears!Heard, EarsShapes, Texts
    <2>3. PICK ev \in Events :
               ev.type = "eager" /\ ev.text = h /\ ev = Ears!Event("eager", h)
        BY <2>2, EventForm
    <2>7. <<ev>> \in Seq(Events) BY <2>3
    <2>8. Ears!Emit(<<ev>>) BY <1>3, <2>1, <2>3
    <2>4. /\ queue' \in Seq(Events) /\ Len(queue') <= QueueMax
          /\ waiting' \in Seq(Events) /\ overtaken' \in BOOLEAN
          /\ ~overtaken' => ~overtaken
        BY <2>7, <2>8, EmitShapes
    <2>5. EarsShapes' BY <1>1, <1>3, <2>1, <2>2, <2>4 DEF EarsShapes
    <2>6. ASSUME ~overtaken'
          PROVE  /\ waiting' = <<>>
                 /\ \E z \in States : Follows(pipeline', queue', z) /\ Catches(z)'
        <3>1. waiting = <<>> /\ ~overtaken BY <2>4, <2>6 DEF KeepsUp
        <3>2. PICK s \in States : Follows(pipeline, queue, s) /\ Catches(s)
            BY <3>1 DEF KeepsUp
        <3>3. queue \in Seq(Events) BY DEF EarsShapes
        <3>4. queue' = Append(queue, ev) /\ waiting' = <<>>
            <4>1. queue' = queue \o <<ev>> /\ waiting' = <<>>
                BY <2>7, <2>8, <2>6, <3>1, <3>3, EmitAll DEF EarsShapes
            <4> QED BY <2>3, <3>3, <4>1, QueueHas
        <3>5. s.heard = h BY <1>1, <1>3, <2>1, <3>2 DEF Catches
        <3>6. PICK z : z = Ears!After(s, ev) OBVIOUS
        <3>7. z \in States /\ z.guess = h /\ z.heard = h /\ z.told = s.told
            BY <2>3, <3>5, <3>6, AfterDoes
        <3>8. Sound(s) BY <3>2, <3>3, FollowsSound
        <3>9. Sound(z) BY <3>7, <3>8 DEF Sound
        <3>10. Follows(pipeline, queue', z) BY <3>2, <3>3, <3>4, <3>6, <3>9, FollowsOne
        <3>11. Catches(z)' BY <1>1, <1>3, <2>1, <3>2, <3>7 DEF Catches
        <3> QED BY <1>1, <3>4, <3>7, <3>10, <3>11
    <2> QED BY <2>5, <2>6 DEF KeepsUp
<1> QED BY <1>2, <1>3 DEF Ears!FireEager

\* The end of the stream stops the timer.
LEMMA StopKeeps ==
    ASSUME EarsShapes, KeepsUp, Ears!StreamEnds \/ Ears!Closes
    PROVE  EarsShapes' /\ KeepsUp'
<1>1. /\ timer' = Ears!Off /\ Ears!MarkEnd
      /\ UNCHANGED <<final, pending, eager, waiting, pipeline, settled, overtaken>>
    BY DEF Ears!StreamEnds, Ears!Closes
<1>2. EarsShapes'
    <2>1. Ears!EndOfStream \in Events BY DEF Ears!EndOfStream, Events, Texts
    <2>2. queue \in Seq(Events) /\ Len(queue) <= QueueMax BY DEF EarsShapes
    <2>3. queue' \in Seq(Events) /\ Len(queue') <= QueueMax
        <3>1. CASE queue' = queue BY <2>2, <3>1
        <3>2. CASE queue' = Append(queue, Ears!EndOfStream) /\ Len(queue) < QueueMax
            <4>1. Len(queue') = Len(queue) + 1 /\ queue' \in Seq(Events)
              BY <2>1, <2>2, <3>2
            <4>2. QueueMax \in Nat /\ Len(queue) \in Nat BY <2>2, EarsCounts
            <4> QED BY <3>2, <4>1, <4>2
        <3> QED BY <1>1, <3>1, <3>2 DEF Ears!MarkEnd
    <2> QED BY <1>1, <2>3 DEF EarsShapes, Ears!Off
<1>3. ASSUME ~overtaken'
      PROVE  /\ waiting' = <<>>
             /\ \E z \in States : Follows(pipeline', queue', z) /\ Catches(z)'
    <2>1. waiting = <<>> /\ ~overtaken BY <1>1, <1>3 DEF KeepsUp
    <2>2. PICK s \in States : Follows(pipeline, queue, s) /\ Catches(s)
        BY <2>1 DEF KeepsUp
    <2>3. PICK z \in States :
               Follows(pipeline, queue', z) /\ z.guess = s.guess /\ z.told = s.told
        BY <1>1, <2>2, NoneFollows
    <2>4. Catches(z)' BY <1>1, <2>2, <2>3 DEF Catches
    <2> QED BY <1>1, <2>1, <2>3, <2>4
<1> QED BY <1>2, <1>3 DEF KeepsUp

\* The pipeline takes what was to come.
LEMMA TakesKeeps ==
    ASSUME EarsShapes, KeepsUp, Ears!Takes
    PROVE  EarsShapes' /\ KeepsUp'
<1>1. /\ queue # <<>> /\ pipeline' = Ears!After(pipeline, Head(queue))
      /\ queue' = Tail(queue)
      /\ UNCHANGED <<final, pending, eager, timer, waiting, settled, overtaken>>
    BY DEF Ears!Takes, Ears!turn
<1>2. queue \in Seq(Events) /\ Len(queue) <= QueueMax /\ QueueMax \in Nat
    BY EarsCounts DEF EarsShapes
<1>3. Head(queue) \in Events /\ queue' \in Seq(Events) /\ Len(queue') = Len(queue) - 1
    BY <1>1, <1>2
<1>4. pipeline' \in States BY <1>1, <1>3, AfterDoes DEF EarsShapes
<1>5. Len(queue') <= QueueMax BY <1>2, <1>3
<1>6. EarsShapes' BY <1>1, <1>3, <1>4, <1>5 DEF EarsShapes
<1>7. ASSUME ~overtaken'
      PROVE  /\ waiting' = <<>>
             /\ \E z \in States : Follows(pipeline', queue', z) /\ Catches(z)'
    <2>1. waiting = <<>> /\ ~overtaken BY <1>1, <1>7 DEF KeepsUp
    <2>2. PICK s \in States : Follows(pipeline, queue, s) /\ Catches(s)
        BY <2>1 DEF KeepsUp
    <2>3. Follows(pipeline', queue', s) BY <1>1, <1>2, <2>2, FollowsTail
    <2>4. Catches(s)' BY <1>1, <2>2 DEF Catches, Ears!Heard
    <2> QED BY <1>1, <2>1, <2>3, <2>4
<1> QED BY <1>6, <1>7 DEF KeepsUp

\* Time passes.
LEMMA TickKeeps ==
    ASSUME EarsShapes, KeepsUp, Ears!Tick
    PROVE  EarsShapes' /\ KeepsUp'
<1>1. /\ timer > 0 /\ timer' = timer - 1 /\ timer # Ears!Off
      /\ UNCHANGED <<final, pending, eager, queue, waiting, pipeline, settled, overtaken>>
    BY DEF Ears!Tick, Ears!Off
<1>2. EarsShapes' BY <1>1 DEF EarsShapes
<1>3. \A s : Catches(s) => Catches(s)' BY <1>1 DEF Catches, Ears!Heard
<1> QED BY <1>1, <1>2, <1>3 DEF KeepsUp

\* Every word whose turn has ended is in one place.
Ends(q) == {i \in DOMAIN q : q[i].type = "end"}
Tells(q, x) == \E i \in Ends(q) : x \in Ears!Range(q[i].text)
Once(t) == \A i, j \in DOMAIN t : t[i] = t[j] => i = j
Apart(t, u) == Ears!Range(t) \cap Ears!Range(u) = {}
Told == pipeline.told

\* The words of the turns that have ended are told, queued or waiting.
AllTold ==
    \A x : x \in 1..(settled - Len(final))
             <=> x \in Ears!Range(Told) \/ Tells(queue, x) \/ Tells(waiting, x)
EachOnce ==
    /\ Once(Told)
    /\ \A i \in Ends(queue) : Once(queue[i].text) /\ Apart(Told, queue[i].text)
    /\ \A i \in Ends(waiting) : Once(waiting[i].text) /\ Apart(Told, waiting[i].text)
    /\ \A i, j \in Ends(queue) : i # j => Apart(queue[i].text, queue[j].text)
    /\ \A i, j \in Ends(waiting) : i # j => Apart(waiting[i].text, waiting[j].text)
    /\ \A i \in Ends(queue), j \in Ends(waiting) : Apart(queue[i].text, waiting[j].text)

Delivered == AllTold /\ EachOnce

\* Where the ends of turns are what they were.
SameEnds(q, r) ==
    /\ \A i \in Ends(r) : i \in Ends(q) /\ r[i] = q[i]
    /\ \A i \in Ends(q) : i \in Ends(r)

\* What moves no end of a turn keeps every word where it is.
LEMMA SameDelivered ==
    ASSUME Delivered, SameEnds(queue, queue'), SameEnds(waiting, waiting'),
           pipeline'.told = Told, settled' - Len(final') = settled - Len(final)
    PROVE  Delivered'
<1>1. AllTold' BY DEF Delivered, AllTold, Told, Tells, SameEnds
<1>2. EachOnce' BY DEF Delivered, EachOnce, Told, SameEnds
<1> QED BY <1>1, <1>2 DEF Delivered

\* Other events are put behind.
LEMMA Appended ==
    ASSUME NEW q \in Seq(Events), NEW r \in Seq(Events),
           \A i \in DOMAIN r : r[i].type # "end"
    PROVE  SameEnds(q, q \o r)
<1>1. Len(q) \in Nat /\ Len(r) \in Nat /\ Len(q \o r) = Len(q) + Len(r)
      /\ \A i \in 1..Len(q) : (q \o r)[i] = q[i]
      /\ q \o r \in Seq(Events)
    OBVIOUS
<1>2. ASSUME NEW i \in Ends(q \o r) PROVE i \in 1..Len(q)
    <2> SUFFICES ASSUME ~(i \in 1..Len(q)) PROVE FALSE OBVIOUS
    <2>1. i \in 1..(Len(q) + Len(r)) /\ i > Len(q) BY <1>1 DEF Ends
    <2>2. i - Len(q) \in DOMAIN r /\ (q \o r)[i] = r[i - Len(q)] BY <1>1, <2>1
    <2> QED BY <1>2, <2>2 DEF Ends
<1> QED BY <1>1, <1>2 DEF SameEnds, Ends

\* A message of a turn that goes on moves no end of a turn.
LEMMA EmitNoEnd ==
    ASSUME EarsShapes, NEW events \in Seq(Events),
           \A i \in DOMAIN events : events[i].type # "end",
           Ears!Emit(events)
    PROVE  SameEnds(queue, queue') /\ SameEnds(waiting, waiting')
<1> DEFINE room == Ears!Least(Len(events), QueueMax - Len(queue))
           now == SubSeq(events, 1, room)
           late == SubSeq(events, room + 1, Len(events))
<1>1. /\ QueueMax \in Nat /\ Len(queue) \in Nat /\ Len(events) \in Nat
      /\ queue \in Seq(Events) /\ waiting \in Seq(Events) /\ Len(queue) <= QueueMax
    BY EarsCounts DEF EarsShapes
<1>2. room \in Nat /\ room <= Len(events) BY <1>1 DEF Ears!Least
<1>3. queue' = queue \o now /\ waiting' = waiting \o late BY DEF Ears!Emit
<1> HIDE DEF room
<1>4. now \in Seq(Events) /\ Len(now) = room /\ \A i \in 1..room : now[i] = events[i]
    BY <1>1, <1>2
<1>5. /\ late \in Seq(Events) /\ Len(late) = Len(events) - room
      /\ \A i \in 1..(Len(events) - room) : late[i] = events[room + i]
    BY <1>1, <1>2
<1> HIDE DEF now, late
<1>6. \A i \in DOMAIN now : now[i].type # "end" BY <1>1, <1>2, <1>4
<1>7. \A i \in DOMAIN late : late[i].type # "end"
    <2> TAKE i \in DOMAIN late
    <2>1. i \in 1..(Len(events) - room) /\ room + i \in DOMAIN events
      BY <1>1, <1>2, <1>5
    <2> QED BY <1>5, <2>1
<1> QED BY <1>1, <1>3, <1>4, <1>5, <1>6, <1>7, Appended

\* The parts of a single event.
LEMMA PartsOfOne ==
    ASSUME NEW e \in Events
    PROVE  /\ SubSeq(<<e>>, 1, 0) = <<>> /\ SubSeq(<<e>>, 0 + 1, 1) = <<e>>
           /\ SubSeq(<<e>>, 1, 1) = <<e>> /\ SubSeq(<<e>>, 1 + 1, 1) = <<>>
<1>0. <<e>> \in Seq(Events) /\ Len(<<e>>) = 1 OBVIOUS
<1>1. PICK s \in Seq(Events) : s = <<e>> BY <1>0
<1>2. SubSeq(s, 1, Len(s)) = s OBVIOUS
<1>3. \A a, b \in Nat : b < a => SubSeq(s, a, b) = <<>> OBVIOUS
<1>4. SubSeq(s, 1, 0) = <<>> /\ SubSeq(s, 2, 1) = <<>> BY <1>3
<1> QED BY <1>0, <1>1, <1>2, <1>4

\* A turn that ends is told of words nobody has been told of.
LEMMA EmitEnd ==
    ASSUME EarsShapes, Delivered, NEW e \in Events, e.type = "end", Once(e.text),
           Ears!Emit(<<e>>), NEW n \in Nat, settled - Len(final) <= n,
           \A x : x \in Ears!Range(e.text) <=>
              x \in 1..n /\ ~(x \in 1..(settled - Len(final))),
           pipeline'.told = Told, settled' - Len(final') = n
    PROVE  Delivered'
<1>1. /\ queue \in Seq(Events) /\ waiting \in Seq(Events) /\ settled - Len(final) \in Nat
    BY DEF EarsShapes, Texts
<1>2. \A x : x \in Ears!Range(e.text) =>
         ~(x \in Ears!Range(Told)) /\ ~Tells(queue, x) /\ ~Tells(waiting, x)
    BY DEF Delivered, AllTold
<1>3. \/ queue' = Append(queue, e) /\ waiting' = waiting
      \/ waiting' = Append(waiting, e) /\ queue' = queue
    <2> DEFINE room == Ears!Least(1, QueueMax - Len(queue))
    <2>1. room \in {0, 1}
        <3>1. QueueMax \in Nat /\ Len(queue) \in Nat /\ Len(queue) <= QueueMax
            BY <1>1, EarsCounts DEF EarsShapes
        <3> QED BY <3>1 DEF Ears!Least
    <2>2. Len(<<e>>) = 1 OBVIOUS
    <2>3. /\ queue' = queue \o SubSeq(<<e>>, 1, room)
          /\ waiting' = waiting \o SubSeq(<<e>>, room + 1, 1)
        BY <2>2 DEF Ears!Emit
    <2> HIDE DEF room
    <2>4. CASE room = 0
        <3>1. SubSeq(<<e>>, 1, 0) = <<>> /\ SubSeq(<<e>>, 0 + 1, 1) = <<e>>
          BY PartsOfOne
        <3>2. queue \o <<>> = queue /\ waiting \o <<e>> = Append(waiting, e) BY <1>1
        <3> QED BY <2>3, <2>4, <3>1, <3>2
    <2>5. CASE room = 1
        <3>1. SubSeq(<<e>>, 1, 1) = <<e>> /\ SubSeq(<<e>>, 1 + 1, 1) = <<>>
          BY PartsOfOne
        <3>2. waiting \o <<>> = waiting /\ queue \o <<e>> = Append(queue, e) BY <1>1
        <3> QED BY <2>3, <2>5, <3>1, <3>2
    <2> QED BY <2>1, <2>4, <2>5
<1>4. \A q \in Seq(Events) :
        LET r == Append(q, e)
        IN  /\ Ends(r) = Ends(q) \cup {Len(q) + 1} /\ ~(Len(q) + 1 \in Ends(q))
            /\ r[Len(q) + 1] = e /\ \A i \in Ends(q) : r[i] = q[i]
    <2> TAKE q \in Seq(Events)
    <2> DEFINE r == Append(q, e)
    <2>1. DOMAIN r = 1..(Len(q) + 1) /\ r[Len(q) + 1] = e /\ DOMAIN q = 1..Len(q)
          /\ Len(q) \in Nat /\ \A i \in 1..Len(q) : r[i] = q[i]
        OBVIOUS
    <2> HIDE DEF r
    <2>2. Ends(r) = Ends(q) \cup {Len(q) + 1} BY <2>1 DEF Ends
    <2> QED BY <2>1, <2>2 DEF r, Ends
<1>5. AllTold'
    <2> SUFFICES ASSUME NEW x
                 PROVE  x \in 1..n
                          <=> x \in Ears!Range(Told) \/ Tells(queue', x) \/
                             Tells(waiting', x)
        BY DEF AllTold, Told
    <2>1. x \in 1..(settled - Len(final))
             <=> x \in Ears!Range(Told) \/ Tells(queue, x) \/ Tells(waiting, x)
        BY DEF Delivered, AllTold
    <2>2. x \in 1..n <=> x \in 1..(settled - Len(final)) \/ x \in Ears!Range(e.text)
        BY <1>1
    <2>3. \A q \in Seq(Events) : Tells(Append(q, e), x) <=>
             Tells(q, x) \/ x \in Ears!Range(e.text)
        <3> TAKE q \in Seq(Events)
        <3> QED BY <1>4 DEF Tells
    <2>4. CASE queue' = Append(queue, e) /\ waiting' = waiting
        <3>1. Tells(Append(queue, e), x) <=> Tells(queue, x) \/ x \in Ears!Range(e.text)
            BY <1>1, <2>3
        <3>2. Tells(queue', x) <=> Tells(queue, x) \/ x \in Ears!Range(e.text)
          BY <2>4, <3>1
        <3>3. Tells(waiting', x) <=> Tells(waiting, x) BY <2>4
        <3> QED BY <2>1, <2>2, <3>2, <3>3
    <2>5. CASE waiting' = Append(waiting, e) /\ queue' = queue
        <3>1. Tells(Append(waiting, e), x) <=> Tells(waiting, x) \/ x \in Ears!Range(e.text)
            BY <1>1, <2>3
        <3>2. Tells(waiting', x) <=> Tells(waiting, x) \/ x \in Ears!Range(e.text)
          BY <2>5, <3>1
        <3>3. Tells(queue', x) <=> Tells(queue, x) BY <2>5
        <3> QED BY <2>1, <2>2, <3>2, <3>3
    <2> QED BY <1>3, <2>4, <2>5
<1>6. Apart(Told, e.text) BY <1>2 DEF Apart
<1>7. \A i \in Ends(queue) : Apart(queue[i].text, e.text) /\ Apart(e.text, queue[i].text)
    BY <1>2 DEF Apart, Tells
<1>8. \A i \in Ends(waiting) :
         Apart(waiting[i].text, e.text) /\ Apart(e.text, waiting[i].text)
    BY <1>2 DEF Apart, Tells
<1>9. EachOnce'
    <2>1. CASE queue' = Append(queue, e) /\ waiting' = waiting
        <3> DEFINE k == Len(queue) + 1
        <3>1. /\ Ends(queue') = Ends(queue) \cup {k} /\ queue'[k] = e
              /\ \A i \in Ends(queue) : queue'[i] = queue[i]
            BY <1>1, <1>4, <2>1
        <3> HIDE DEF k
        <3>2. EachOnce BY DEF Delivered
        <3>3. \A i \in Ends(queue') : Once(queue'[i].text) /\ Apart(Told, queue'[i].text)
            BY <1>6, <3>1, <3>2 DEF EachOnce
        <3>4. ASSUME NEW i \in Ends(queue'), NEW j \in Ends(queue'), i # j
              PROVE  Apart(queue'[i].text, queue'[j].text)
            <4>1. CASE i \in Ends(queue) /\ j \in Ends(queue)
                BY <3>1, <3>2, <3>4, <4>1 DEF EachOnce
            <4>2. CASE i = k /\ j \in Ends(queue) BY <1>7, <1>8, <3>1, <4>2
            <4>3. CASE i \in Ends(queue) /\ j = k BY <1>7, <1>8, <3>1, <4>3
            <4> QED BY <3>1, <3>4, <4>1, <4>2, <4>3
        <3>5. \A i \in Ends(queue'), j \in Ends(waiting') :
                Apart(queue'[i].text, waiting'[j].text)
            BY <1>7, <1>8, <2>1, <3>1, <3>2 DEF EachOnce
        <3>6. \A i \in Ends(waiting') :
                 Once(waiting'[i].text) /\ Apart(Told, waiting'[i].text)
            BY <2>1, <3>2 DEF EachOnce
        <3>7. \A i, j \in Ends(waiting') : i # j =>
                 Apart(waiting'[i].text, waiting'[j].text)
            BY <2>1, <3>2 DEF EachOnce
        <3>8. Once(Told) /\ Told' = Told BY <3>2 DEF EachOnce, Told
        <3> QED BY <3>3, <3>4, <3>5, <3>6, <3>7, <3>8 DEF EachOnce
    <2>2. CASE waiting' = Append(waiting, e) /\ queue' = queue
        <3> DEFINE k == Len(waiting) + 1
        <3>1. /\ Ends(waiting') = Ends(waiting) \cup {k} /\ waiting'[k] = e
              /\ \A i \in Ends(waiting) : waiting'[i] = waiting[i]
            BY <1>1, <1>4, <2>2
        <3> HIDE DEF k
        <3>2. EachOnce BY DEF Delivered
        <3>3. \A i \in Ends(waiting') :
                 Once(waiting'[i].text) /\ Apart(Told, waiting'[i].text)
            BY <1>6, <3>1, <3>2 DEF EachOnce
        <3>4. ASSUME NEW i \in Ends(waiting'), NEW j \in Ends(waiting'), i # j
              PROVE  Apart(waiting'[i].text, waiting'[j].text)
            <4>1. CASE i \in Ends(waiting) /\ j \in Ends(waiting)
                BY <3>1, <3>2, <3>4, <4>1 DEF EachOnce
            <4>2. CASE i = k /\ j \in Ends(waiting) BY <1>7, <1>8, <3>1, <4>2
            <4>3. CASE i \in Ends(waiting) /\ j = k BY <1>7, <1>8, <3>1, <4>3
            <4> QED BY <3>1, <3>4, <4>1, <4>2, <4>3
        <3>5. \A i \in Ends(queue'), j \in Ends(waiting') :
                Apart(queue'[i].text, waiting'[j].text)
            BY <1>7, <1>8, <2>2, <3>1, <3>2 DEF EachOnce
        <3>6. \A i \in Ends(queue') : Once(queue'[i].text) /\ Apart(Told, queue'[i].text)
            BY <2>2, <3>2 DEF EachOnce
        <3>7. \A i, j \in Ends(queue') : i # j => Apart(queue'[i].text, queue'[j].text)
            BY <2>2, <3>2 DEF EachOnce
        <3>8. Once(Told) /\ Told' = Told BY <3>2 DEF EachOnce, Told
        <3> QED BY <3>3, <3>4, <3>5, <3>6, <3>7, <3>8 DEF EachOnce
    <2> QED BY <1>3, <2>1, <2>2
<1> QED BY <1>5, <1>9 DEF Delivered

\* Sequence a is m without its k-th element.
Without(a, m, k) ==
    \E from \in [DOMAIN a -> DOMAIN m] :
        /\ \A i \in DOMAIN a : a[i] = m[from[i]] /\ from[i] # k
        /\ \A i, j \in DOMAIN a : i # j => from[i] # from[j]
        /\ \A j \in DOMAIN m : j # k => \E i \in DOMAIN a : from[i] = j

\* The tail is without the head.
LEMMA TailIsWithout ==
    ASSUME NEW m \in Seq(Events), m # <<>>
    PROVE  Without(Tail(m), m, 1) /\ 1 \in DOMAIN m /\ Head(m) = m[1]
<1> DEFINE a == Tail(m)
           from == [i \in DOMAIN a |-> i + 1]
<1>1. /\ Len(m) \in Nat /\ Len(m) >= 1 /\ DOMAIN m = 1..Len(m) /\ DOMAIN a = 1..(Len(m) - 1)
      /\ \A i \in DOMAIN a : a[i] = m[i + 1]
    OBVIOUS
<1> HIDE DEF a
<1>2. from \in [DOMAIN a -> DOMAIN m] BY <1>1
<1>3. \A i \in DOMAIN a : from[i] = i + 1 OBVIOUS
<1> HIDE DEF from
<1>4. \A i \in DOMAIN a : a[i] = m[from[i]] /\ from[i] # 1 BY <1>1, <1>3
<1>5. \A i, j \in DOMAIN a : i # j => from[i] # from[j] BY <1>1, <1>3
<1>6. ASSUME NEW j \in DOMAIN m, j # 1 PROVE \E i \in DOMAIN a : from[i] = j
    <2>1. j - 1 \in DOMAIN a /\ (j - 1) + 1 = j BY <1>1, <1>6
    <2> QED BY <1>3, <2>1
<1>7. Without(a, m, 1) BY <1>2, <1>4, <1>5, <1>6 DEF Without
<1>8. Head(m) = m[1] OBVIOUS
<1> QED BY <1>1, <1>7, <1>8 DEF a

\* The second half of two sequences of events.
LEMMA LatterPart ==
    ASSUME NEW b \in Seq(Events), NEW c \in Seq(Events), NEW i \in 1..(Len(b) + Len(c)),
           i > Len(b)
    PROVE  (b \o c)[i] = c[i - Len(b)]
OBVIOUS

\* What RemoveAt leaves.
LEMMA RemovedIsWithout ==
    ASSUME NEW m \in Seq(Events), NEW k \in DOMAIN m
    PROVE  Without(Ears!RemoveAt(m, k), m, k) /\ Ears!RemoveAt(m, k) \in Seq(Events)
<1> DEFINE a == Ears!RemoveAt(m, k)
<1>1. k \in 1..Len(m) /\ Len(m) \in Nat OBVIOUS
<1>2. /\ SubSeq(m, 1, k - 1) \in Seq(Events) /\ Len(SubSeq(m, 1, k - 1)) = k - 1
      /\ \A i \in 1..(k - 1) : SubSeq(m, 1, k - 1)[i] = m[i]
    BY <1>1
<1>3. /\ SubSeq(m, k + 1, Len(m)) \in Seq(Events)
      /\ Len(SubSeq(m, k + 1, Len(m))) = Len(m) - k
      /\ \A i \in 1..(Len(m) - k) : SubSeq(m, k + 1, Len(m))[i] = m[k + i]
    BY <1>1
<1> DEFINE b == SubSeq(m, 1, k - 1)
           c == SubSeq(m, k + 1, Len(m))
<1>4. a = b \o c BY DEF Ears!RemoveAt
<1> HIDE DEF a, b, c
<1>5. /\ b \in Seq(Events) /\ Len(b) = k - 1 /\ \A i \in 1..(k - 1) : b[i] = m[i]
      /\ c \in Seq(Events) /\ Len(c) = Len(m) - k
      /\ \A i \in 1..(Len(m) - k) : c[i] = m[k + i]
    BY <1>2, <1>3 DEF b, c
<1>6. a \in Seq(Events) /\ Len(a) = Len(m) - 1 BY <1>1, <1>4, <1>5
<1>7. \A i \in 1..(k - 1) : a[i] = m[i] BY <1>1, <1>4, <1>5
<1>8. \A i \in k..(Len(m) - 1) : a[i] = m[i + 1]
    <2> TAKE i \in k..(Len(m) - 1)
    <2>1. i - (k - 1) \in 1..(Len(m) - k) BY <1>1
    <2>2. i \in 1..(Len(b) + Len(c)) /\ i > Len(b) BY <1>1, <1>5
    <2>3. (b \o c)[i] = c[i - Len(b)] BY <2>2, <1>5, LatterPart
    <2>4. a[i] = c[i - (k - 1)] BY <2>3, <1>4, <1>5
    <2>5. k + (i - (k - 1)) = i + 1 BY <1>1
    <2> QED BY <2>1, <2>4, <2>5, <1>5
<1>9. DOMAIN a = 1..(Len(m) - 1) /\ DOMAIN m = 1..Len(m) BY <1>6
<1> DEFINE from == [i \in DOMAIN a |-> IF i < k THEN i ELSE i + 1]
<1>10. \A i \in DOMAIN a : from[i] = IF i < k THEN i ELSE i + 1 OBVIOUS
<1>11. from \in [DOMAIN a -> DOMAIN m] BY <1>1, <1>9
<1> HIDE DEF from
<1>12. ASSUME NEW i \in DOMAIN a PROVE a[i] = m[from[i]] /\ from[i] # k
    <2>1. CASE i < k
        <3>1. i \in 1..(k - 1) BY <2>1, <1>1, <1>9
        <3> QED BY <3>1, <2>1, <1>1, <1>7, <1>10
    <2>2. CASE ~(i < k)
        <3>1. i \in k..(Len(m) - 1) BY <2>2, <1>1, <1>9
        <3> QED BY <3>1, <2>2, <1>1, <1>8, <1>10
    <2> QED BY <2>1, <2>2
<1>13. \A i, j \in DOMAIN a : i # j => from[i] # from[j] BY <1>1, <1>9, <1>10
<1>14. ASSUME NEW j \in DOMAIN m, j # k PROVE \E i \in DOMAIN a : from[i] = j
    <2>1. CASE j < k
        <3>1. j \in DOMAIN a BY <2>1, <1>1, <1>9
        <3> QED BY <3>1, <2>1, <1>10
    <2>2. CASE ~(j < k)
        <3>1. j - 1 \in DOMAIN a /\ ~(j - 1 < k) /\ (j - 1) + 1 = j
          BY <2>2, <1>1, <1>9, <1>14
        <3> QED BY <3>1, <1>10
    <2> QED BY <2>1, <2>2
<1>15. Without(a, m, k) BY <1>11, <1>12, <1>13, <1>14 DEF Without
<1> QED BY <1>6, <1>15 DEF a

\* The words that one event tells, and those the others do.
LEMMA WithoutTells ==
    ASSUME NEW m, NEW a, NEW k \in DOMAIN m, Without(a, m, k), NEW x
    PROVE  Tells(m, x) <=> Tells(a, x) \/ (m[k].type = "end" /\ x \in Ears!Range(m[k].text))
<1>1. PICK from \in [DOMAIN a -> DOMAIN m] :
        /\ \A i \in DOMAIN a : a[i] = m[from[i]] /\ from[i] # k
        /\ \A j \in DOMAIN m : j # k => \E i \in DOMAIN a : from[i] = j
    BY DEF Without
<1>2. ASSUME Tells(a, x) PROVE Tells(m, x)
    <2>1. PICK i \in DOMAIN a : a[i].type = "end" /\ x \in Ears!Range(a[i].text)
        BY <1>2 DEF Tells, Ends
    <2>2. from[i] \in DOMAIN m /\ a[i] = m[from[i]] BY <1>1
    <2> QED BY <2>1, <2>2 DEF Tells, Ends
<1>3. ASSUME Tells(m, x), ~(m[k].type = "end" /\ x \in Ears!Range(m[k].text))
      PROVE  Tells(a, x)
    <2>1. PICK j \in DOMAIN m : m[j].type = "end" /\ x \in Ears!Range(m[j].text)
        BY <1>3 DEF Tells, Ends
    <2>2. j # k BY <1>3, <2>1
    <2>3. PICK i \in DOMAIN a : from[i] = j BY <1>1, <2>2
    <2>4. a[i] = m[j] BY <1>1, <2>3
    <2> QED BY <2>1, <2>4 DEF Tells, Ends
<1>4. (m[k].type = "end" /\ x \in Ears!Range(m[k].text)) => Tells(m, x)
  BY DEF Tells, Ends
<1> QED BY <1>2, <1>3, <1>4

\* No two events of the rest tell the same word.
LEMMA WithoutApart ==
    ASSUME NEW m, NEW a, NEW k \in DOMAIN m, Without(a, m, k),
           \A i, j \in Ends(m) : i # j => Apart(m[i].text, m[j].text)
    PROVE  /\ \A i, j \in Ends(a) : i # j => Apart(a[i].text, a[j].text)
           /\ \A i \in Ends(a) : \E j \in Ends(m) : j # k /\ a[i] = m[j]
           /\ m[k].type = "end" => \A i \in Ends(a) : Apart(a[i].text, m[k].text)
<1>1. PICK from \in [DOMAIN a -> DOMAIN m] :
        /\ \A i \in DOMAIN a : a[i] = m[from[i]] /\ from[i] # k
        /\ \A i, j \in DOMAIN a : i # j => from[i] # from[j]
    BY DEF Without
<1>2. \A i \in Ends(a) :
         i \in DOMAIN a /\ from[i] \in Ends(m) /\ a[i] = m[from[i]] /\ from[i] # k
    BY <1>1 DEF Ends
<1>3. ASSUME NEW i \in Ends(a), NEW j \in Ends(a), i # j PROVE Apart(a[i].text, a[j].text)
    <2>1. from[i] # from[j] BY <1>1, <1>2, <1>3
    <2>2. Apart(m[from[i]].text, m[from[j]].text) BY <1>2, <2>1
    <2> QED BY <1>2, <2>2
<1>4. ASSUME m[k].type = "end", NEW i \in Ends(a) PROVE Apart(a[i].text, m[k].text)
    <2>1. k \in Ends(m) BY <1>4 DEF Ends
    <2>2. Apart(m[from[i]].text, m[k].text) BY <1>2, <2>1
    <2> QED BY <1>2, <2>2
<1> QED BY <1>2, <1>3, <1>4

\* Sequence r is q and e after it.
With(r, q, e) ==
    /\ \A i \in Ends(r) : \/ i \in Ends(q) /\ r[i] = q[i]
                          \/ i = Len(q) + 1 /\ r[i] = e /\ e.type = "end"
    /\ \A i \in Ends(q) : i \in Ends(r) /\ r[i] = q[i]
    /\ e.type = "end" => Len(q) + 1 \in Ends(r) /\ r[Len(q) + 1] = e

\* What Append adds.
LEMMA AppendHas ==
    ASSUME NEW q \in Seq(Events), NEW e \in Events
    PROVE  With(Append(q, e), q, e)
<1>0. PICK r : r = Append(q, e) OBVIOUS
<1>1. /\ DOMAIN r = 1..(Len(q) + 1) /\ r[Len(q) + 1] = e /\ DOMAIN q = 1..Len(q)
      /\ Len(q) \in Nat /\ \A i \in 1..Len(q) : r[i] = q[i]
    BY <1>0
<1>2. \A i \in Ends(r) : \/ i \in Ends(q) /\ r[i] = q[i]
                         \/ i = Len(q) + 1 /\ r[i] = e /\ e.type = "end"
    BY <1>1 DEF Ends
<1>3. \A i \in Ends(q) : i \in Ends(r) /\ r[i] = q[i] BY <1>1 DEF Ends
<1>4. e.type = "end" => Len(q) + 1 \in Ends(r) /\ r[Len(q) + 1] = e BY <1>1 DEF Ends
<1>5. With(r, q, e) BY <1>2, <1>3, <1>4 DEF With
<1> QED BY <1>0, <1>5

\* What waited is put only when something has waited.
LEMMA PutsLaterKeeps ==
    ASSUME EarsShapes, KeepsUp, Ears!PutsLater
    PROVE  EarsShapes' /\ KeepsUp'
<1>1. PICK k \in DOMAIN waiting :
          queue' = Append(queue, waiting[k]) /\ waiting' = Ears!RemoveAt(waiting, k)
    BY DEF Ears!PutsLater
<1>2. /\ waiting # <<>> /\ Len(queue) < QueueMax
      /\ UNCHANGED <<final, pending, eager, timer, pipeline, settled, overtaken>>
    BY DEF Ears!PutsLater, Ears!turn
<1>3. queue \in Seq(Events) /\ waiting \in Seq(Events) /\ QueueMax \in Nat
    BY EarsCounts DEF EarsShapes
<1>4. waiting[k] \in Events BY <1>3
<1>5. queue' \in Seq(Events) /\ Len(queue') = Len(queue) + 1 BY <1>1, <1>3, <1>4
<1>6. waiting' \in Seq(Events) BY <1>1, <1>3, RemovedIsWithout
<1>7. Len(queue') <= QueueMax BY <1>2, <1>3, <1>5
<1>8. EarsShapes' BY <1>2, <1>5, <1>6, <1>7 DEF EarsShapes
<1> QED BY <1>2, <1>8 DEF KeepsUp

\* An event that waited goes to the queue, whichever it is.
LEMMA PutsLaterDelivers ==
    ASSUME EarsShapes, Delivered, Ears!PutsLater
    PROVE  Delivered'
<1>1. PICK k \in DOMAIN waiting :
          queue' = Append(queue, waiting[k]) /\ waiting' = Ears!RemoveAt(waiting, k)
    BY DEF Ears!PutsLater
<1>2. UNCHANGED <<final, pipeline, settled>> BY DEF Ears!PutsLater, Ears!turn
<1>3. queue \in Seq(Events) /\ waiting \in Seq(Events) BY DEF EarsShapes
<1>4. PICK e \in Events : e = waiting[k] BY <1>3
<1>5. Without(waiting', waiting, k) BY <1>1, <1>3, RemovedIsWithout
<1>6. /\ \A i \in Ends(queue') : \/ i \in Ends(queue) /\ queue'[i] = queue[i]
                                 \/ i = Len(queue) + 1 /\ queue'[i] = e /\ e.type = "end"
      /\ \A i \in Ends(queue) : i \in Ends(queue') /\ queue'[i] = queue[i]
      /\ e.type = "end" => Len(queue) + 1 \in Ends(queue') /\ queue'[Len(queue) + 1] = e
    <2>1. With(queue', queue, e) BY <1>1, <1>3, <1>4, AppendHas
    <2> QED BY <2>1 DEF With
<1>7. EachOnce /\ AllTold BY DEF Delivered
<1>8. /\ \A i, j \in Ends(waiting') : i # j => Apart(waiting'[i].text, waiting'[j].text)
      /\ \A i \in Ends(waiting') : \E j \in Ends(waiting) :
            j # k /\ waiting'[i] = waiting[j]
      /\ e.type = "end" => \A i \in Ends(waiting') : Apart(waiting'[i].text, e.text)
    BY <1>4, <1>5, <1>7, WithoutApart DEF EachOnce
<1>9. e.type = "end" => k \in Ends(waiting) BY <1>4 DEF Ends
<1>10. AllTold'
    <2> SUFFICES ASSUME NEW x
                 PROVE  Tells(queue', x) \/ Tells(waiting', x)
                          <=> Tells(queue, x) \/ Tells(waiting, x)
        BY <1>2, <1>7 DEF AllTold, Told
    <2>1. Tells(waiting, x) <=>
             Tells(waiting', x) \/ (e.type = "end" /\ x \in Ears!Range(e.text))
        BY <1>4, <1>5, WithoutTells
    <2>2. Tells(queue', x) <=>
             Tells(queue, x) \/ (e.type = "end" /\ x \in Ears!Range(e.text))
        BY <1>6 DEF Tells
    <2> QED BY <2>1, <2>2
<1>11. EachOnce'
    <2>1. Told' = Told /\ Once(Told) BY <1>2, <1>7 DEF Told, EachOnce
    <2>2. \A i \in Ends(queue') : Once(queue'[i].text) /\ Apart(Told, queue'[i].text)
        BY <1>4, <1>6, <1>7, <1>9 DEF EachOnce
    <2>3. \A i \in Ends(waiting') : Once(waiting'[i].text) /\ Apart(Told, waiting'[i].text)
        BY <1>7, <1>8 DEF EachOnce
    <2>4. e.type = "end" => \A i \in Ends(queue) : Apart(queue[i].text, e.text)
                                                  /\ Apart(e.text, queue[i].text)
        BY <1>4, <1>7, <1>9 DEF EachOnce, Apart
    <2>5. ASSUME NEW i \in Ends(queue'), NEW j \in Ends(queue'), i # j
          PROVE  Apart(queue'[i].text, queue'[j].text)
        <3>1. CASE i \in Ends(queue) /\ j \in Ends(queue)
            BY <1>6, <1>7, <2>5, <3>1 DEF EachOnce
        <3>2. CASE i \in Ends(queue) /\ ~(j \in Ends(queue)) BY <1>6, <2>4, <3>2
        <3>3. CASE ~(i \in Ends(queue)) /\ j \in Ends(queue) BY <1>6, <2>4, <3>3
        <3>4. CASE ~(i \in Ends(queue)) /\ ~(j \in Ends(queue)) BY <1>6, <2>5, <3>4
        <3> QED BY <3>1, <3>2, <3>3, <3>4
    <2>6. e.type = "end" => \A i \in Ends(waiting') : Apart(e.text, waiting'[i].text)
        BY <1>8 DEF Apart
    <2>7. ASSUME NEW i \in Ends(queue'), NEW j \in Ends(waiting')
          PROVE  Apart(queue'[i].text, waiting'[j].text)
        <3>1. CASE i \in Ends(queue)
            <4>1. PICK w \in Ends(waiting) : waiting'[j] = waiting[w] BY <1>8
            <4>2. Apart(queue[i].text, waiting[w].text) BY <1>7, <3>1 DEF EachOnce
            <4> QED BY <1>6, <3>1, <4>1, <4>2
        <3>2. CASE ~(i \in Ends(queue)) BY <1>6, <2>6, <3>2
        <3> QED BY <3>1, <3>2
    <2> QED BY <1>8, <2>1, <2>2, <2>3, <2>5, <2>7 DEF EachOnce
<1> QED BY <1>10, <1>11 DEF Delivered

\* Two texts without a word in common.
LEMMA JoinedOnce ==
    ASSUME NEW a \in Seq(Int), NEW b \in Seq(Int)
    PROVE  /\ \A x : x \in Ears!Range(a \o b) <=> x \in Ears!Range(a) \/ x \in Ears!Range(b)
           /\ Once(a) /\ Once(b) /\ Apart(a, b) => Once(a \o b)
<1> DEFINE c == a \o b
<1>1. /\ Len(a) \in Nat /\ Len(b) \in Nat /\ DOMAIN a = 1..Len(a) /\ DOMAIN b = 1..Len(b)
      /\ DOMAIN c = 1..(Len(a) + Len(b))
      /\ \A i \in 1..Len(a) : c[i] = a[i]
      /\ \A i \in 1..(Len(a) + Len(b)) : i > Len(a) => c[i] = b[i - Len(a)]
    OBVIOUS
<1> HIDE DEF c
<1>2. ASSUME NEW i \in DOMAIN c
      PROVE  \/ i \in DOMAIN a /\ c[i] = a[i]
             \/ i > Len(a) /\ i - Len(a) \in DOMAIN b /\ c[i] = b[i - Len(a)]
    BY <1>1, SMTT(15)
<1>3. \A i \in DOMAIN a : i \in DOMAIN c /\ c[i] = a[i] BY <1>1
<1>4. ASSUME NEW i \in DOMAIN b PROVE Len(a) + i \in DOMAIN c /\ c[Len(a) + i] = b[i]
    <2>1. /\ Len(a) + i \in 1..(Len(a) + Len(b)) /\ Len(a) + i > Len(a)
          /\ (Len(a) + i) - Len(a) = i
        BY <1>1
    <2> QED BY <1>1, <2>1
<1>5. \A x : x \in Ears!Range(c) <=> x \in Ears!Range(a) \/ x \in Ears!Range(b)
    BY <1>2, <1>3, <1>4 DEF Ears!Range
<1>6. ASSUME Once(a), Once(b), Apart(a, b), NEW i \in DOMAIN c, NEW j \in DOMAIN c,
             c[i] = c[j]
      PROVE  i = j
    <2>1. CASE i \in DOMAIN a /\ c[i] = a[i] /\ j \in DOMAIN a /\ c[j] = a[j]
        BY <1>6, <2>1 DEF Once
    <2>2. CASE /\ i > Len(a) /\ i - Len(a) \in DOMAIN b /\ c[i] = b[i - Len(a)]
               /\ j > Len(a) /\ j - Len(a) \in DOMAIN b /\ c[j] = b[j - Len(a)]
        <3>1. i - Len(a) = j - Len(a) BY <1>6, <2>2 DEF Once
        <3> QED BY <1>1, <3>1
    <2>3. CASE /\ i \in DOMAIN a /\ c[i] = a[i]
               /\ j > Len(a) /\ j - Len(a) \in DOMAIN b /\ c[j] = b[j - Len(a)]
        BY <1>6, <2>3 DEF Apart, Ears!Range
    <2>4. CASE /\ j \in DOMAIN a /\ c[j] = a[j]
               /\ i > Len(a) /\ i - Len(a) \in DOMAIN b /\ c[i] = b[i - Len(a)]
        BY <1>6, <2>4 DEF Apart, Ears!Range
    <2> QED BY <1>2, <2>1, <2>2, <2>3, <2>4
<1>7. Once(a) /\ Once(b) /\ Apart(a, b) => Once(c) BY <1>6 DEF Once
<1> QED BY <1>5, <1>7 DEF c

\* A turn that is taken is told from then on.
LEMMA TakesDelivers ==
    ASSUME EarsShapes, Delivered, Ears!Takes
    PROVE  Delivered'
<1>1. /\ queue # <<>> /\ pipeline' = Ears!After(pipeline, Head(queue))
      /\ queue' = Tail(queue)
      /\ UNCHANGED <<final, waiting, settled>>
    BY DEF Ears!Takes, Ears!turn
<1>2. queue \in Seq(Events) /\ pipeline \in States BY DEF EarsShapes
<1>3. Without(queue', queue, 1) /\ 1 \in DOMAIN queue /\ Head(queue) = queue[1]
    BY <1>1, <1>2, TailIsWithout
<1>4. PICK e \in Events : e = queue[1] BY <1>2, <1>3
<1>5. pipeline' = Ears!After(pipeline, e) BY <1>1, <1>3, <1>4
<1>6. Told' = IF e.type = "end" THEN Told \o e.text ELSE Told
    BY <1>2, <1>5, AfterDoes DEF Told
<1>7. Told \in Seq(Int) /\ e.text \in Seq(Int) BY <1>2 DEF Told, States, Events, Texts
<1>8. EachOnce /\ AllTold BY DEF Delivered
<1>9. e.type = "end" => 1 \in Ends(queue) BY <1>3, <1>4 DEF Ends
<1>10. \A x : x \in Ears!Range(Told')
                <=> x \in Ears!Range(Told) \/ (e.type = "end" /\ x \in Ears!Range(e.text))
    BY <1>6, <1>7, JoinedOnce
<1>11. AllTold'
    <2> SUFFICES ASSUME NEW x
                 PROVE  x \in Ears!Range(Told') \/ Tells(queue', x) \/ Tells(waiting, x)
                          <=> x \in Ears!Range(Told) \/ Tells(queue, x) \/ Tells(waiting, x)
        BY <1>1, <1>8 DEF AllTold
    <2>1. Tells(queue, x) <=>
             Tells(queue', x) \/ (e.type = "end" /\ x \in Ears!Range(e.text))
        BY <1>3, <1>4, WithoutTells
    <2> QED BY <1>10, <2>1
<1>12. /\ \A i, j \in Ends(queue') : i # j => Apart(queue'[i].text, queue'[j].text)
       /\ \A i \in Ends(queue') : \E j \in Ends(queue) : j # 1 /\ queue'[i] = queue[j]
       /\ e.type = "end" => \A i \in Ends(queue') : Apart(queue'[i].text, e.text)
    BY <1>3, <1>4, <1>8, WithoutApart DEF EachOnce
<1>13. EachOnce'
    <2>1. Once(Told')
        <3>1. e.type = "end" => Once(Told) /\ Once(e.text) /\ Apart(Told, e.text)
            BY <1>4, <1>8, <1>9 DEF EachOnce
        <3> QED BY <1>6, <1>7, <1>8, <3>1, JoinedOnce DEF EachOnce
    <2>2. ASSUME NEW i \in Ends(queue')
          PROVE  Once(queue'[i].text) /\ Apart(Told', queue'[i].text)
        <3>1. PICK j \in Ends(queue) : queue'[i] = queue[j] BY <1>12
        <3>2. Once(queue[j].text) /\ Apart(Told, queue[j].text) BY <1>8 DEF EachOnce
        <3>3. e.type = "end" => Apart(queue'[i].text, e.text) BY <1>12
        <3> QED BY <1>10, <3>1, <3>2, <3>3 DEF Apart
    <2>3. ASSUME NEW i \in Ends(waiting)
          PROVE  Once(waiting[i].text) /\ Apart(Told', waiting[i].text)
        <3>1. Once(waiting[i].text) /\ Apart(Told, waiting[i].text) BY <1>8 DEF EachOnce
        <3>2. e.type = "end" => Apart(e.text, waiting[i].text)
          BY <1>4, <1>8, <1>9 DEF EachOnce
        <3> QED BY <1>10, <3>1, <3>2 DEF Apart
    <2>4. \A i, j \in Ends(waiting) : i # j => Apart(waiting[i].text, waiting[j].text)
        BY <1>8 DEF EachOnce
    <2>5. ASSUME NEW i \in Ends(queue'), NEW j \in Ends(waiting)
          PROVE  Apart(queue'[i].text, waiting[j].text)
        <3>1. PICK k \in Ends(queue) : queue'[i] = queue[k] BY <1>12
        <3> QED BY <1>8, <3>1 DEF EachOnce
    <2> QED BY <1>1, <1>12, <2>1, <2>2, <2>3, <2>4, <2>5 DEF EachOnce
<1> QED BY <1>11, <1>13 DEF Delivered

\* Words that become final are of the turn that goes on.
LEMMA ProgressDelivers ==
    ASSUME EarsShapes, Delivered, Ears!Progress
    PROVE  Delivered'
<1>1. PICK n \in settled..MaxWords : \E guess \in Ears!Guesses(n) :
          LET finals == final \o [i \in 1..(n - settled) |-> settled + i]
              words == finals \o guess
              resumed == eager # <<>> /\ Ears!CarriedOn(words, eager)
          IN  /\ final' = finals /\ settled' = n
              /\ Ears!Emit((IF resumed THEN <<Ears!Event("resumed", <<>>)>> ELSE <<>>)
                           \o (IF words # <<>> THEN <<Ears!Event("partial", words)>> ELSE <<>>))
    BY DEF Ears!Progress
<1>2. PICK guess \in Ears!Guesses(n) :
          LET finals == final \o [i \in 1..(n - settled) |-> settled + i]
              words == finals \o guess
              resumed == eager # <<>> /\ Ears!CarriedOn(words, eager)
          IN  /\ final' = finals /\ settled' = n
              /\ Ears!Emit((IF resumed THEN <<Ears!Event("resumed", <<>>)>> ELSE <<>>)
                           \o (IF words # <<>> THEN <<Ears!Event("partial", words)>> ELSE <<>>))
    BY <1>1
<1> DEFINE finals == final \o [i \in 1..(n - settled) |-> settled + i]
           words == finals \o guess
           resumed == eager # <<>> /\ Ears!CarriedOn(words, eager)
           back == IF resumed THEN <<Ears!Event("resumed", <<>>)>> ELSE <<>>
           word == IF words # <<>> THEN <<Ears!Event("partial", words)>> ELSE <<>>
<1>3. final' = finals /\ settled' = n /\ Ears!Emit(back \o word) BY <1>2
<1>4. /\ n \in Nat /\ finals \in Texts /\ n - Len(finals) = settled - Len(final)
    <2>1. settled \in Nat /\ n \in Nat BY EarsCounts DEF EarsShapes
    <2> QED BY <2>1, MoreFinal
<1>5. words \in Texts
    <2>1. guess \in Texts BY <1>4, GuessIsText
    <2> QED BY <1>4, <2>1 DEF Texts
<1> HIDE DEF finals, words
<1>6. <<>> \in Texts BY DEF Texts
<1>7. /\ Ears!Event("resumed", <<>>) \in Events /\ Ears!Event("partial", words) \in Events
      /\ Ears!Event("resumed", <<>>).type = "resumed"
      /\ Ears!Event("partial", words).type = "partial"
    BY <1>5, <1>6, EventForm
<1> HIDE DEF resumed
<1>8. back \o word \in Seq(Events) BY <1>7
<1>9. \A i \in DOMAIN (back \o word) : (back \o word)[i].type # "end" BY <1>7
<1>10. SameEnds(queue, queue') /\ SameEnds(waiting, waiting')
    <2> HIDE DEF back, word
    <2> QED BY <1>3, <1>8, <1>9, EmitNoEnd
<1>11. settled' - Len(final') = settled - Len(final) BY <1>3, <1>4
<1>12. pipeline'.told = Told BY DEF Ears!Progress, Told
<1> QED BY <1>10, <1>11, <1>12, SameDelivered

\* The end of a turn tells the words since the one before.
LEMMA EndsTurnDelivers ==
    ASSUME EarsShapes, Delivered, Ears!EndsTurn
    PROVE  Delivered'
<1>1. PICK n \in settled..MaxWords :
          LET words == final \o [i \in 1..(n - settled) |-> settled + i]
          IN  words # <<>> /\ settled' = n /\ Ears!Emit(<<Ears!Event("end", words)>>)
    BY DEF Ears!EndsTurn
<1> DEFINE words == final \o [i \in 1..(n - settled) |-> settled + i]
           ev == Ears!Event("end", words)
<1>2. settled' = n /\ Ears!Emit(<<ev>>) BY <1>1
<1>3. final' = <<>> /\ pipeline'.told = Told BY DEF Ears!EndsTurn, Told
<1>4. /\ n \in Nat /\ words \in Texts /\ Len(words) <= n
      /\ n - Len(words) = settled - Len(final)
      /\ words = [i \in 1..Len(words) |-> (n - Len(words)) + i]
    <2>1. settled \in Nat /\ n \in Nat BY EarsCounts DEF EarsShapes
    <2> QED BY <2>1, MoreFinal
<1> HIDE DEF words, ev
<1>5. ev \in Events /\ ev.type = "end" /\ ev.text = words BY <1>4, EventForm DEF ev
<1>6. PICK a \in Nat, l \in Nat : /\ a = n - l /\ l = Len(words) /\ l <= n
                                 /\ a = settled - Len(final)
    <2>1. Len(words) \in Nat BY <1>4 DEF Texts
    <2>2. n - Len(words) \in Nat BY <1>4, <2>1
    <2> QED BY <1>4, <2>1, <2>2
<1>7. words = [i \in 1..l |-> a + i] BY <1>4, <1>6
<1>8. DOMAIN words = 1..l /\ \A i \in 1..l : words[i] = a + i BY <1>7
<1>9. Once(ev.text) BY <1>5, <1>6, <1>8 DEF Once
<1>10. ASSUME NEW x PROVE x \in Ears!Range(ev.text) <=> x \in 1..n /\ ~(x \in 1..a)
    <2>1. ASSUME x \in Ears!Range(words) PROVE x \in 1..n /\ ~(x \in 1..a)
        <3>1. PICK i \in 1..l : x = a + i BY <1>8, <2>1 DEF Ears!Range
        <3> QED BY <1>4, <1>6, <3>1
    <2>2. ASSUME x \in 1..n, ~(x \in 1..a) PROVE x \in Ears!Range(words)
        <3>1. x - a \in 1..l /\ a + (x - a) = x BY <1>4, <1>6, <2>2
        <3>2. words[x - a] = x BY <1>8, <3>1
        <3> QED BY <1>8, <3>1, <3>2 DEF Ears!Range
    <2> QED BY <1>5, <2>1, <2>2
<1>11. a <= n BY <1>4, <1>6
<1>12. settled' - Len(final') = n
    <2>1. Len(final') = 0 BY <1>3
    <2> QED BY <1>2, <1>4, <2>1
<1> QED BY <1>2, <1>3, <1>4, <1>5, <1>6, <1>9, <1>10, <1>11, <1>12, EmitEnd

\* The timer ends no turn.
LEMMA FireDelivers ==
    ASSUME EarsShapes, Delivered, Ears!FireEager
    PROVE  Delivered'
<1>1. UNCHANGED <<final, pipeline, settled>> BY DEF Ears!FireEager
<1>2. SameEnds(queue, queue') /\ SameEnds(waiting, waiting')
    <2>1. CASE eager = <<>> /\ Ears!Heard # <<>>
        <3>1. Ears!Emit(<<Ears!Event("eager", Ears!Heard)>>) BY <2>1 DEF Ears!FireEager
        <3>2. Ears!Heard \in Texts BY DEF EarsShapes, Ears!Heard, Texts
        <3>3. /\ Ears!Event("eager", Ears!Heard) \in Events
              /\ Ears!Event("eager", Ears!Heard).type = "eager"
            BY <3>2, EventForm
        <3>4. PICK e \in Events : e = Ears!Event("eager", Ears!Heard) /\ e.type = "eager"
          BY <3>3
        <3>5. <<e>> \in Seq(Events) /\ \A i \in DOMAIN <<e>> : <<e>>[i].type # "end"
            BY <3>4
        <3> QED BY <3>1, <3>4, <3>5, EmitNoEnd
    <2>2. CASE ~(eager = <<>> /\ Ears!Heard # <<>>)
        <3>1. queue' = queue /\ waiting' = waiting BY <2>2 DEF Ears!FireEager
        <3> QED BY <3>1 DEF SameEnds
    <2> QED BY <2>1, <2>2
<1> QED BY <1>1, <1>2, SameDelivered DEF Told

\* Nor does the end of the stream.
LEMMA StopDelivers ==
    ASSUME EarsShapes, Delivered, Ears!StreamEnds \/ Ears!Closes
    PROVE  Delivered'
<1>1. Ears!MarkEnd /\ UNCHANGED <<final, waiting, pipeline, settled>>
  BY DEF Ears!StreamEnds, Ears!Closes
<1>2. SameEnds(queue, queue')
    <2>1. CASE queue' = queue BY <2>1 DEF SameEnds
    <2>2. CASE queue' = Append(queue, Ears!EndOfStream)
        <3>1. Ears!EndOfStream \in Events /\ Ears!EndOfStream.type # "end"
            BY DEF Ears!EndOfStream, Events, Texts
        <3>2. queue \in Seq(Events) BY DEF EarsShapes
        <3> QED BY <2>2, <3>1, <3>2, AppendHas DEF SameEnds, With
    <2> QED BY <1>1, <2>1, <2>2 DEF Ears!MarkEnd
<1>3. SameEnds(waiting, waiting') BY <1>1 DEF SameEnds
<1> QED BY <1>1, <1>2, <1>3, SameDelivered DEF Told

\* No mark of the end of the stream is among these events.
Markless(q) == \A i \in DOMAIN q : q[i].type # "none"
NoEnd(q) == \A i \in DOMAIN q : q[i].type # "end"

\* The end is marked when the reader has stopped; unless something has waited, no
\* end of a turn is behind a mark.
MarksLast ==
    /\ reader = "reads" => ~pipeline.gone /\ Markless(queue)
    /\ reader # "reads" => timer = Ears!Off
    /\ Markless(waiting)
    /\ ~overtaken =>
          /\ waiting = <<>>
          /\ pipeline.gone => NoEnd(queue)
          /\ \A i, j \in DOMAIN queue :
                i < j /\ queue[i].type = "none" => queue[j].type # "end"

\* Two rows of events without a mark.
LEMMA JoinedMarkless ==
    ASSUME NEW q \in Seq(Events), NEW r \in Seq(Events), Markless(q), Markless(r)
    PROVE  Markless(q \o r)
<1> SUFFICES ASSUME NEW i \in DOMAIN (q \o r) PROVE (q \o r)[i].type # "none"
    BY DEF Markless
<1>1. Len(q) \in Nat /\ Len(r) \in Nat /\ i \in 1..(Len(q) + Len(r)) OBVIOUS
<1>2. CASE i <= Len(q)
    <2>1. i \in DOMAIN q /\ (q \o r)[i] = q[i] BY <1>1, <1>2
    <2> QED BY <2>1 DEF Markless
<1>3. CASE i > Len(q)
    <2>1. i - Len(q) \in DOMAIN r /\ (q \o r)[i] = r[i - Len(q)] BY <1>1, <1>3
    <2> QED BY <2>1 DEF Markless
<1> QED BY <1>1, <1>2, <1>3

\* What the reader and the timer emit holds no mark.
LEMMA EmitMarkless ==
    ASSUME EarsShapes, MarksLast, reader = "reads", UNCHANGED <<reader, pipeline>>,
           NEW events \in Seq(Events), Markless(events), Ears!Emit(events)
    PROVE  MarksLast'
<1> DEFINE room == Ears!Least(Len(events), QueueMax - Len(queue))
           now == SubSeq(events, 1, room)
           late == SubSeq(events, room + 1, Len(events))
<1>1. /\ QueueMax \in Nat /\ Len(queue) \in Nat /\ Len(events) \in Nat
      /\ queue \in Seq(Events) /\ waiting \in Seq(Events) /\ Len(queue) <= QueueMax
    BY EarsCounts DEF EarsShapes
<1>2. room \in Nat /\ room <= Len(events) BY <1>1 DEF Ears!Least
<1>3. /\ queue' = queue \o now /\ waiting' = waiting \o late
      /\ overtaken' = (overtaken \/ waiting' # <<>>)
    BY DEF Ears!Emit
<1> HIDE DEF room
<1>4. now \in Seq(Events) /\ Len(now) = room /\ \A i \in 1..room : now[i] = events[i]
    BY <1>1, <1>2
<1>5. /\ late \in Seq(Events) /\ Len(late) = Len(events) - room
      /\ \A i \in 1..(Len(events) - room) : late[i] = events[room + i]
    BY <1>1, <1>2
<1> HIDE DEF now, late
<1>6. Markless(now) BY <1>1, <1>2, <1>4 DEF Markless
<1>7. Markless(late)
    <2> SUFFICES ASSUME NEW i \in DOMAIN late PROVE late[i].type # "none" BY DEF Markless
    <2>1. i \in 1..(Len(events) - room) /\ room + i \in DOMAIN events
      BY <1>1, <1>2, <1>5
    <2> QED BY <1>5, <2>1 DEF Markless
<1>8. Markless(queue) /\ Markless(waiting) /\ ~pipeline.gone BY DEF MarksLast
<1>9. Markless(queue') /\ Markless(waiting')
    BY <1>1, <1>3, <1>4, <1>5, <1>6, <1>7, <1>8, JoinedMarkless
<1>10. reader' = "reads" /\ ~pipeline'.gone BY <1>8
<1>11. ~overtaken' => waiting' = <<>> BY <1>3
<1>12. \A i \in DOMAIN queue' : queue'[i].type # "none" BY <1>9 DEF Markless
<1> QED BY <1>9, <1>10, <1>11, <1>12 DEF MarksLast, Markless

\* Every step keeps the marks behind the turns.
LEMMA MarksStep ==
    ASSUME EarsShapes, MarksLast, KeepsUp, [Ears!Next]_(Ears!vars) PROVE MarksLast'
<1>1. CASE Ears!Progress
    <2>1. PICK n \in settled..MaxWords : \E guess \in Ears!Guesses(n) :
              LET finals == final \o [i \in 1..(n - settled) |-> settled + i]
                  words == finals \o guess
                  resumed == eager # <<>> /\ Ears!CarriedOn(words, eager)
              IN  Ears!Emit((IF resumed THEN <<Ears!Event("resumed", <<>>)>> ELSE <<>>)
                            \o (IF words # <<>> THEN <<Ears!Event("partial", words)>>
                                ELSE <<>>))
        BY <1>1 DEF Ears!Progress
    <2>2. PICK guess \in Ears!Guesses(n) :
              LET finals == final \o [i \in 1..(n - settled) |-> settled + i]
                  words == finals \o guess
                  resumed == eager # <<>> /\ Ears!CarriedOn(words, eager)
              IN  Ears!Emit((IF resumed THEN <<Ears!Event("resumed", <<>>)>> ELSE <<>>)
                            \o (IF words # <<>> THEN <<Ears!Event("partial", words)>>
                                ELSE <<>>))
        BY <2>1
    <2> DEFINE finals == final \o [i \in 1..(n - settled) |-> settled + i]
               words == finals \o guess
               resumed == eager # <<>> /\ Ears!CarriedOn(words, eager)
               back == IF resumed THEN <<Ears!Event("resumed", <<>>)>> ELSE <<>>
               word == IF words # <<>> THEN <<Ears!Event("partial", words)>> ELSE <<>>
    <2>3. Ears!Emit(back \o word) BY <2>2
    <2>4. n \in Nat /\ finals \in Texts
        <3>1. settled \in Nat /\ n \in Nat BY EarsCounts DEF EarsShapes
        <3> QED BY <3>1, MoreFinal
    <2>5. words \in Texts
        <3>1. guess \in Texts BY <2>4, GuessIsText
        <3> QED BY <2>4, <3>1 DEF Texts
    <2> HIDE DEF finals, words
    <2>6. <<>> \in Texts BY DEF Texts
    <2>7. /\ Ears!Event("resumed", <<>>) \in Events /\ Ears!Event("partial", words) \in Events
          /\ Ears!Event("resumed", <<>>).type = "resumed"
          /\ Ears!Event("partial", words).type = "partial"
        BY <2>5, <2>6, EventForm
    <2> HIDE DEF resumed
    <2>8. back \o word \in Seq(Events) BY <2>7
    <2>9. Markless(back \o word) BY <2>7 DEF Markless
    <2>10. reader = "reads" /\ UNCHANGED <<reader, pipeline>> BY <1>1 DEF Ears!Progress
    <2> HIDE DEF back, word
    <2> QED BY <2>3, <2>8, <2>9, <2>10, EmitMarkless
<1>2. CASE Ears!EndsTurn
    <2>1. PICK n \in settled..MaxWords :
              LET words == final \o [i \in 1..(n - settled) |-> settled + i]
              IN  Ears!Emit(<<Ears!Event("end", words)>>)
        BY <1>2 DEF Ears!EndsTurn
    <2> DEFINE words == final \o [i \in 1..(n - settled) |-> settled + i]
    <2>2. words \in Texts
        <3>1. settled \in Nat /\ n \in Nat BY EarsCounts DEF EarsShapes
        <3> QED BY <3>1, MoreFinal
    <2>3. Ears!Emit(<<Ears!Event("end", words)>>) BY <2>1
    <2> HIDE DEF words
    <2>4. PICK e \in Events : e = Ears!Event("end", words) /\ e.type = "end"
        BY <2>2, EventForm
    <2>5. <<e>> \in Seq(Events) /\ Markless(<<e>>) BY <2>4 DEF Markless
    <2>6. reader = "reads" /\ UNCHANGED <<reader, pipeline>> BY <1>2 DEF Ears!EndsTurn
    <2> QED BY <2>3, <2>4, <2>5, <2>6, EmitMarkless
<1>3. CASE Ears!Tick
    <2>1. /\ timer # Ears!Off /\ UNCHANGED <<queue, waiting, reader, pipeline, overtaken>>
        BY <1>3 DEF Ears!Tick, Ears!Off
    <2> QED BY <2>1 DEF MarksLast
<1>4. CASE Ears!FireEager
    <2>1. /\ timer # Ears!Off /\ timer' = Ears!Off /\ UNCHANGED <<reader, pipeline>>
        BY <1>4 DEF Ears!FireEager, Ears!Off
    <2>2. reader = "reads" BY <2>1 DEF MarksLast
    <2>3. CASE eager = <<>> /\ Ears!Heard # <<>>
        <3>1. Ears!Emit(<<Ears!Event("eager", Ears!Heard)>>)
            BY <1>4, <2>3 DEF Ears!FireEager
        <3>2. Ears!Heard \in Texts BY DEF EarsShapes, Ears!Heard, Texts
        <3>3. PICK e \in Events : e = Ears!Event("eager", Ears!Heard) /\ e.type = "eager"
            BY <3>2, EventForm
        <3>4. <<e>> \in Seq(Events) /\ Markless(<<e>>) BY <3>3 DEF Markless
        <3> QED BY <2>1, <2>2, <3>1, <3>3, <3>4, EmitMarkless
    <2>4. CASE ~(eager = <<>> /\ Ears!Heard # <<>>)
        <3>1. UNCHANGED <<queue, waiting, overtaken>> BY <1>4, <2>4 DEF Ears!FireEager
        <3> QED BY <2>1, <3>1 DEF MarksLast
    <2> QED BY <2>3, <2>4
<1>5. CASE Ears!PutsLater
    <2>1. PICK k \in DOMAIN waiting :
              queue' = Append(queue, waiting[k]) /\ waiting' = Ears!RemoveAt(waiting, k)
        BY <1>5 DEF Ears!PutsLater
    <2>2. overtaken /\ UNCHANGED <<timer, reader, pipeline, overtaken>>
        BY <1>5 DEF Ears!PutsLater, Ears!turn, KeepsUp
    <2>3. queue \in Seq(Events) /\ waiting \in Seq(Events) BY DEF EarsShapes
    <2>4. PICK e \in Events : e = waiting[k] /\ e.type # "none"
        BY <2>3 DEF MarksLast, Markless
    <2>5. Markless(waiting')
        <3>1. Without(waiting', waiting, k) BY <2>1, <2>3, RemovedIsWithout
        <3> QED BY <3>1 DEF Without, MarksLast, Markless
    <2>6. Markless(queue) => Markless(queue')
        <3>1. queue' = queue \o <<e>> /\ <<e>> \in Seq(Events) BY <2>1, <2>3, <2>4
        <3>2. Markless(<<e>>) BY <2>4 DEF Markless
        <3> QED BY <2>3, <3>1, <3>2, JoinedMarkless
    <2> QED BY <2>2, <2>5, <2>6 DEF MarksLast
<1>6. CASE Ears!StreamEnds \/ Ears!Closes
    <2>1. /\ reader' # "reads" /\ timer' = Ears!Off /\ Ears!MarkEnd
          /\ UNCHANGED <<waiting, pipeline, overtaken>>
        BY <1>6 DEF Ears!StreamEnds, Ears!Closes
    <2>2. queue \in Seq(Events) BY DEF EarsShapes
    <2>3. CASE queue' = queue BY <2>1, <2>3 DEF MarksLast
    <2>4. CASE queue' = Append(queue, Ears!EndOfStream)
        <3>0. Ears!EndOfStream \in Events /\ Ears!EndOfStream.type # "end"
            BY DEF Ears!EndOfStream, Events, Texts
        <3>1. PICK e \in Events : e = Ears!EndOfStream /\ e.type # "end" BY <3>0
        <3>2. PICK r : r = Append(queue, e) OBVIOUS
        <3>3. /\ DOMAIN r = 1..(Len(queue) + 1) /\ r[Len(queue) + 1] = e
              /\ DOMAIN queue = 1..Len(queue) /\ Len(queue) \in Nat
              /\ \A i \in 1..Len(queue) : r[i] = queue[i]
            BY <2>2, <3>2
        <3>4. \A j \in DOMAIN r : r[j].type = "end" =>
                  j \in DOMAIN queue /\ \A i \in DOMAIN r : i < j => i \in DOMAIN queue
            BY <3>1, <3>3
        <3>5. ~overtaken' =>
                 /\ pipeline'.gone => NoEnd(r)
                 /\ \A i, j \in DOMAIN r : i < j /\ r[i].type = "none" => r[j].type # "end"
            BY <2>1, <3>3, <3>4 DEF MarksLast, NoEnd
        <3>6. queue' = r BY <2>4, <3>1, <3>2
        <3> QED BY <2>1, <3>5, <3>6 DEF MarksLast
    <2> QED BY <2>1, <2>3, <2>4 DEF Ears!MarkEnd
<1>7. CASE Ears!Takes
    <2>1. /\ queue # <<>> /\ ~pipeline.gone /\ pipeline' = Ears!After(pipeline, Head(queue))
          /\ queue' = Tail(queue) /\ UNCHANGED <<timer, reader, waiting, overtaken>>
        BY <1>7 DEF Ears!Takes, Ears!turn
    <2>2. queue \in Seq(Events) /\ pipeline \in States BY DEF EarsShapes
    <2>3. PICK e \in Events : e = Head(queue) /\ e = queue[1] BY <2>1, <2>2
    <2>4. /\ Len(queue) \in Nat /\ DOMAIN queue = 1..Len(queue) /\ 1 \in DOMAIN queue
          /\ DOMAIN queue' = 1..(Len(queue) - 1)
          /\ \A i \in DOMAIN queue' : queue'[i] = queue[i + 1] /\ i + 1 \in DOMAIN queue
                                      /\ 1 < i + 1
        BY <2>1, <2>2
    <2>5. pipeline'.gone => e.type = "none"
        <3>1. pipeline' = Ears!After(pipeline, e) BY <2>1, <2>3
        <3> QED BY <2>1, <2>2, <3>1 DEF Ears!After, States, Events
    <2>6. Markless(queue) => Markless(queue') /\ ~pipeline'.gone
        BY <2>3, <2>4, <2>5 DEF Markless
    <2>7. ~overtaken /\ pipeline'.gone => NoEnd(queue')
        BY <2>3, <2>4, <2>5 DEF MarksLast, NoEnd
    <2>8. ~overtaken => \A i, j \in DOMAIN queue' :
              i < j /\ queue'[i].type = "none" => queue'[j].type # "end"
        <3> SUFFICES ASSUME ~overtaken, NEW i \in DOMAIN queue', NEW j \in DOMAIN queue',
                            i < j, queue'[i].type = "none"
                     PROVE  queue'[j].type # "end"
            OBVIOUS
        <3>1. i + 1 < j + 1 BY <2>4
        <3> QED BY <2>4, <3>1 DEF MarksLast
    <2> QED BY <2>1, <2>6, <2>7, <2>8 DEF MarksLast
<1>8. CASE UNCHANGED Ears!vars
    <2>1. UNCHANGED <<timer, queue, waiting, reader, pipeline, overtaken>>
        BY <1>8 DEF Ears!vars, Ears!turn
    <2> QED BY <2>1 DEF MarksLast
<1> QED BY <1>1, <1>2, <1>3, <1>4, <1>5, <1>6, <1>7, <1>8 DEF Ears!Next

\* The invariant of the recogniser.
EarsInv == EarsShapes /\ KeepsUp /\ Delivered /\ MarksLast

\* Before the first word nothing is queued.
LEMMA EarsInitially == ASSUME Ears!Init PROVE EarsInv
<1>1. <<>> \in Texts /\ Len(<<>>) = 0 /\ <<>> \in Seq(Events) BY DEF Texts
<1>2. pipeline \in States BY <1>1 DEF Ears!Init, States
<1>3. <<>> = [i \in 1..Len(<<>>) |-> (0 - Len(<<>>)) + i] OBVIOUS
<1>4. EarsShapes
    <2>1. /\ final = <<>> /\ pending = <<>> /\ eager = <<>> /\ timer = Ears!Off
          /\ queue = <<>>
          /\ waiting = <<>> /\ settled = 0 /\ overtaken = FALSE
        BY DEF Ears!Init
    <2>2. /\ final \in Texts /\ pending \in Texts /\ eager \in Texts
          /\ queue \in Seq(Events) /\ waiting \in Seq(Events) /\ overtaken \in BOOLEAN
        BY <1>1, <2>1
    <2>3. timer \in Int /\ settled \in Nat BY <2>1 DEF Ears!Off
    <2>4. Len(queue) <= QueueMax /\ Len(final) <= settled BY <1>1, <2>1, EarsCounts
    <2>5. final = [i \in 1..Len(final) |-> (settled - Len(final)) + i] BY <1>3, <2>1
    <2> QED BY <1>2, <2>2, <2>3, <2>4, <2>5 DEF EarsShapes
<1>5. KeepsUp
    <2>1. /\ pipeline.guess = <<>> /\ pipeline.told = <<>> /\ pipeline.heard = <<>>
          /\ queue = <<>> /\ waiting = <<>> /\ eager = <<>> /\ timer = Ears!Off
          /\ settled = 0 /\ final = <<>>
        BY DEF Ears!Init
    <2>2. Sound(pipeline) BY <2>1 DEF Sound
    <2>3. Follows(pipeline, queue, pipeline) BY <1>2, <2>1, <2>2, FollowsNothing
    <2>5. Len(pipeline.told) = settled - Len(final)
        <3>1. Len(pipeline.told) = 0 /\ Len(final) = 0 /\ settled = 0
          BY <1>1, <2>1, Zenon
        <3> QED BY <3>1
    <2>4. Catches(pipeline) BY <2>1, <2>5 DEF Catches
    <2> QED BY <1>2, <2>1, <2>3, <2>4 DEF KeepsUp
<1>6. Delivered
    <2>1. /\ Told = <<>> /\ queue = <<>> /\ waiting = <<>> /\ settled = 0 /\ final = <<>>
        BY DEF Ears!Init, Told
    <2>2. Ends(<<>>) = {} /\ Ears!Range(<<>>) = {} BY DEF Ends, Ears!Range
    <2>3. 1..(settled - Len(final)) = {} BY <2>1
    <2>4. AllTold BY <2>1, <2>2, <2>3 DEF AllTold, Tells
    <2>5. Once(<<>>) BY DEF Once
    <2>6. EachOnce BY <2>1, <2>2, <2>5 DEF EachOnce
    <2> QED BY <2>4, <2>6 DEF Delivered
<1>7. MarksLast BY DEF Ears!Init, MarksLast, Markless, NoEnd
<1> QED BY <1>4, <1>5, <1>6, <1>7 DEF EarsInv

\* Every step keeps the invariant.
LEMMA EarsStep == ASSUME EarsInv, [Ears!Next]_(Ears!vars) PROVE EarsInv'
<1>1. EarsShapes /\ KeepsUp /\ Delivered /\ MarksLast BY DEF EarsInv
<1>0. MarksLast' BY <1>1, MarksStep
<1>2. CASE Ears!Progress BY <1>0, <1>1, <1>2, ProgressKeeps, ProgressDelivers DEF EarsInv
<1>3. CASE Ears!EndsTurn BY <1>0, <1>1, <1>3, EndsTurnKeeps, EndsTurnDelivers DEF EarsInv
<1>4. CASE Ears!Tick
    <2>1. UNCHANGED <<final, queue, waiting, settled, pipeline>> BY <1>4 DEF Ears!Tick
    <2>2. Delivered' BY <1>1, <2>1, SameDelivered DEF SameEnds, Told
    <2> QED BY <1>0, <1>1, <1>4, <2>2, TickKeeps DEF EarsInv
<1>5. CASE Ears!FireEager BY <1>0, <1>1, <1>5, FireKeeps, FireDelivers DEF EarsInv
<1>6. CASE Ears!PutsLater BY <1>0, <1>1, <1>6, PutsLaterKeeps, PutsLaterDelivers DEF EarsInv
<1>7. CASE Ears!StreamEnds \/ Ears!Closes
  BY <1>0, <1>1, <1>7, StopKeeps, StopDelivers DEF EarsInv
<1>8. CASE Ears!Takes BY <1>0, <1>1, <1>8, TakesKeeps, TakesDelivers DEF EarsInv
<1>9. CASE UNCHANGED Ears!vars
    <2>1. UNCHANGED <<final, pending, eager, timer, queue, waiting, settled, pipeline,
                      overtaken>>
        BY <1>9 DEF Ears!vars, Ears!turn
    <2>2. EarsShapes' BY <1>1, <2>1 DEF EarsShapes
    <2>3. Delivered' BY <1>1, <2>1, SameDelivered DEF SameEnds, Told
    <2>4. \A s : Catches(s) => Catches(s)' BY <2>1 DEF Catches, Ears!Heard
    <2>5. KeepsUp' BY <1>1, <2>1, <2>4 DEF KeepsUp
    <2> QED BY <1>0, <2>2, <2>3, <2>5 DEF EarsInv
<1> QED BY <1>2, <1>3, <1>4, <1>5, <1>6, <1>7, <1>8, <1>9 DEF Ears!Next

\* The guess is the words that were told last.
LEMMA EarsPrepare == ASSUME EarsInv PROVE Ears!PreparesForWhatWasSaid
<1> SUFFICES ASSUME ~overtaken
             PROVE  /\ pipeline.guess # <<>> => pipeline.guess = pipeline.heard
                    /\ pipeline.told = [i \in 1..Len(pipeline.told) |-> i]
    BY DEF Ears!PreparesForWhatWasSaid
<1>1. PICK s \in States : Follows(pipeline, queue, s) BY DEF EarsInv, KeepsUp
<1>2. queue \in Seq(Events) BY DEF EarsInv, EarsShapes
<1>3. Sound(pipeline) BY <1>1, <1>2, FollowsSound
<1> QED BY <1>3 DEF Sound

\* Only what had to wait can be behind the mark of the end.
LEMMA EarsStrand == ASSUME EarsInv, Ears!Stranded # {} PROVE overtaken
<1> SUFFICES ASSUME ~overtaken PROVE FALSE OBVIOUS
<1>1. queue \in Seq(Events) /\ waiting = <<>> /\ MarksLast
    BY DEF EarsInv, EarsShapes, MarksLast
<1>2. Ears!Range(waiting) = {} BY <1>1 DEF Ears!Range
<1>3. PICK e \in Ears!Ends : e \notin Ears!Coming BY DEF Ears!Stranded
<1>4. PICK j \in DOMAIN queue : e = queue[j] /\ queue[j].type = "end"
    BY <1>2, <1>3 DEF Ears!Ends, Ears!Range
<1>5. ~pipeline.gone BY <1>1, <1>4 DEF MarksLast, NoEnd
<1>6. PICK i \in 1..j : queue[i] = Ears!EndOfStream
    BY <1>3, <1>4, <1>5 DEF Ears!Coming
<1>7. queue[i].type = "none" BY <1>6 DEF Ears!EndOfStream
<1>8. i \in DOMAIN queue /\ i < j
    <2>1. i \in Int /\ j \in Int /\ i <= j /\ 1 <= i /\ j <= Len(queue) BY <1>1, <1>4, <1>6
    <2>2. i # j BY <1>4, <1>7
    <2> QED BY <1>1, <2>1, <2>2
<1> QED BY <1>1, <1>4, <1>7, <1>8 DEF MarksLast

\* Every word is in one place.
LEMMA EarsDeliver == ASSUME EarsInv PROVE Ears!TurnsArriveOnce
<1> DEFINE told == Ears!Range(pipeline.told) \cup UNION {Ears!Range(e.text) : e \in Ears!Ends}
<1>1. ASSUME NEW x
      PROVE  x \in told <=> x \in Ears!Range(Told) \/ Tells(queue, x) \/ Tells(waiting, x)
    <2>1. x \in UNION {Ears!Range(e.text) : e \in Ears!Ends} <=>
             \E e \in Ears!Ends : x \in Ears!Range(e.text)
        OBVIOUS
    <2>2. \A q : Tells(q, x) <=>
             \E e \in Ears!Range(q) : e.type = "end" /\ x \in Ears!Range(e.text)
        BY DEF Tells, Ends, Ears!Range
    <2>3. (\E e \in Ears!Ends : x \in Ears!Range(e.text)) <=>
             Tells(queue, x) \/ Tells(waiting, x)
        BY <2>2 DEF Ears!Ends
    <2> QED BY <2>1, <2>3 DEF Told
<1>2. \A x : x \in 1..(settled - Len(final))
             <=> x \in Ears!Range(Told) \/ Tells(queue, x) \/ Tells(waiting, x)
    BY DEF EarsInv, Delivered, AllTold
<1>3. \A x : x \in told <=> x \in 1..(settled - Len(final)) BY <1>1, <1>2
<1> HIDE DEF told
<1>4. told = 1..(settled - Len(final)) BY <1>3
<1>5. Once(Told) BY DEF EarsInv, Delivered, EachOnce
<1> QED BY <1>4, <1>5, EarsStrand DEF Ears!TurnsArriveOnce, told, Once, Told

\* A step of the run is a step of the recogniser, or leaves it alone.
LEMMA DialogueEars ==
    /\ DialogueInit => Ears!Init
    /\ [DialogueNext]_allVars => [Ears!Next]_(Ears!vars)
BY DEF DialogueInit, DialogueNext, allVars, ears, Ears!vars, Ears!turn, InAgent, InTurns,
       InEars, InGate

\* Through corrections, timers between two messages and turns that end, an answer
\* is prepared only to the words the pipeline has been told last, as long as no
\* event had to wait for room.
THEOREM DialoguePreparesForWhatWasSaid == DialogueSpec => []PreparesForWhatWasSaid
<1>1. EarsInv => PreparesForWhatWasSaid BY EarsPrepare DEF PreparesForWhatWasSaid
<1> QED BY <1>1, DialogueEars, EarsInitially, EarsStep, PTL DEF DialogueSpec

\* However the events wait for room and overtake one another, every word of a turn
\* that has ended is told once, or comes, or is behind the mark of the end of the
\* stream, where it is lost; and nothing is behind the mark as long as no event waits.
THEOREM DialogueTurnsArriveOnce == DialogueSpec => []TurnsArriveOnce
<1>1. EarsInv => TurnsArriveOnce BY EarsDeliver DEF TurnsArriveOnce
<1> QED BY <1>1, DialogueEars, EarsInitially, EarsStep, PTL DEF DialogueSpec

-----------------------------------------------------------------------------
(* The gate                                                                *)

\* The gate counts frames.
LEMMA GateCount == ASSUME NEW S PROVE Gate!Cardinality(S) = Cardinality(S)
BY Zenon DEF Gate!Cardinality, Cardinality

\* What the variables of the gate may be.
Frames == [voiced : BOOLEAN, level : Gate!Levels]

GateShapes ==
    /\ recent \in Seq(Frames) /\ Len(recent) <= OnsetWindow
    /\ levels \in Seq(Gate!Levels) /\ Len(levels) <= StationaryWindow
    /\ quietRun \in Nat /\ same \in Nat /\ open \in BOOLEAN /\ everVoice \in BOOLEAN

\* A gate that is closed has seen no onset, and without a voice none can be seen;
\* of a noise that lasts, the window is full; and from then on, as from the first
\* frame of silence, an open gate counts to its release.
NoOnsetMissed == ~open => ~Gate!Onset(recent)
OnlyNoise ==
    ~everVoice => \A i \in DOMAIN recent : recent[i].voiced => recent[i].level \in Noise
NoiseSoFar ==
    last = "noise" =>
        /\ \A i \in DOMAIN levels : i > Len(levels) - same => levels[i] \in Noise
        /\ same <= Len(levels) \/ Len(levels) = StationaryWindow
Releasing ==
    open =>
        /\ everVoice /\ quietRun < ReleaseFrames
        /\ last = "noise" => same < quietRun + StationaryWindow
        /\ last = "silence" => quietRun >= same

GateInv == GateShapes /\ NoOnsetMissed /\ OnlyNoise /\ NoiseSoFar /\ Releasing

\* Levels have a greatest and a least.
LEMMA Extremes ==
    ASSUME NEW S, S \subseteq Gate!Levels, S # {}
    PROVE  /\ Gate!Max(S) \in S /\ \A y \in S : Gate!Max(S) >= y
           /\ Gate!Min(S) \in S /\ \A y \in S : Gate!Min(S) <= y
<1>1. PICK top \in Gate!Levels,
           bottom \in Gate!Levels : \A l \in Gate!Levels : bottom <= l /\ l <= top
    BY DialogueAssumption
<1>2. Gate!Levels \subseteq Int BY DialogueAssumption
<1>3. \E x \in S : \A y \in S : x >= y
    <2> DEFINE T == {top - y : y \in S}
    <2>1. \A y \in S : y \in Int /\ top - y \in Nat BY <1>1, <1>2
    <2>2. T \subseteq Nat /\ T # {} BY <2>1
    <2> HIDE DEF T
    <2>3. PICK t \in T : \A u \in T : t <= u BY <2>2, LeastNat
    <2> USE DEF T
    <2>4. PICK x \in S : t = top - x OBVIOUS
    <2>5. \A y \in S : top - x <= top - y BY <2>3, <2>4
    <2> QED BY <2>1, <2>5, <1>2
<1>4. \E x \in S : \A y \in S : x <= y
    <2> DEFINE T == {y - bottom : y \in S}
    <2>1. \A y \in S : y \in Int /\ y - bottom \in Nat BY <1>1, <1>2
    <2>2. T \subseteq Nat /\ T # {} BY <2>1
    <2> HIDE DEF T
    <2>3. PICK t \in T : \A u \in T : t <= u BY <2>2, LeastNat
    <2> USE DEF T
    <2>4. PICK x \in S : t = x - bottom OBVIOUS
    <2>5. \A y \in S : x - bottom <= y - bottom BY <2>3, <2>4
    <2> QED BY <2>1, <2>5, <1>2
<1>5. Gate!Max(S) \in S /\ \A y \in S : Gate!Max(S) >= y BY <1>3, Zenon DEF Gate!Max
<1>6. Gate!Min(S) \in S /\ \A y \in S : Gate!Min(S) <= y BY <1>4, Zenon DEF Gate!Min
<1> QED BY <1>5, <1>6

\* The lesser of two numbers.
LEMMA LeastOfTwo ==
    ASSUME NEW a \in Int, NEW b \in Int
    PROVE  Gate!Min({a, b}) = IF a <= b THEN a ELSE b
<1>1. \E x \in {a, b} : \A y \in {a, b} : x <= y OBVIOUS
<1>2. Gate!Min({a, b}) \in {a, b} /\ \A y \in {a, b} : Gate!Min({a, b}) <= y
  BY <1>1, Zenon DEF Gate!Min
<1> QED BY <1>2

\* Levels that are near to each other spread little.
LEMMA NoiseIsNear ==
    ASSUME NEW S, S \subseteq Noise, S # {}
    PROVE  Gate!Spread(S) < OnsetRange /\ Gate!Spread(S) < StationaryRange
<1>1. S \subseteq Gate!Levels BY DEF Gate!Levels
<1>2. Gate!Max(S) \in Noise /\ Gate!Min(S) \in Noise BY <1>1, Extremes
<1> QED BY <1>2, DialogueAssumption DEF Gate!Spread

\* Fewer levels spread less.
LEMMA SmallerSpread ==
    ASSUME NEW S, NEW T, S \subseteq T, T \subseteq Gate!Levels, S # {}
    PROVE  Gate!Spread(S) <= Gate!Spread(T)
<1>1. /\ Gate!Max(S) \in S /\ Gate!Min(S) \in S
      /\ \A y \in T : Gate!Max(T) >= y
      /\ \A y \in T : Gate!Min(T) <= y
      /\ Gate!Max(T) \in T /\ Gate!Min(T) \in T
    BY Extremes
<1>2. Gate!Max(S) <= Gate!Max(T) /\ Gate!Min(T) <= Gate!Min(S) BY <1>1
<1>3. /\ Gate!Max(S) \in Int /\ Gate!Max(T) \in Int /\ Gate!Min(S) \in Int
      /\ Gate!Min(T) \in Int
    BY <1>1, DialogueAssumption
<1> QED BY <1>2, <1>3 DEF Gate!Spread

\* The spread of some levels is a number.
LEMMA SpreadIsNumber ==
    ASSUME NEW S, S \subseteq Gate!Levels, S # {}
    PROVE  Gate!Spread(S) \in Int
<1>1. Gate!Max(S) \in Gate!Levels /\ Gate!Min(S) \in Gate!Levels BY Extremes
<1>2. Gate!Max(S) \in Int /\ Gate!Min(S) \in Int BY <1>1, DialogueAssumption
<1> QED BY <1>2 DEF Gate!Spread

\* A window after one more frame: the frames it had, moved up, and the new one.
LEMMA WindowMoves ==
    ASSUME NEW S, NEW seq \in Seq(S), NEW x \in S, NEW n \in Nat \ {0}, Len(seq) <= n
    PROVE  LET w == Gate!Latest(Append(seq, x), n)
               d == IF Len(seq) = n THEN 1 ELSE 0
           IN  /\ w \in Seq(S) /\ Len(w) = Len(seq) + 1 - d /\ Len(w) <= n
               /\ w[Len(w)] = x
               /\ \A i \in DOMAIN w : i # Len(w) =>
                     i + d \in DOMAIN seq /\ w[i] = seq[i + d]
<1> DEFINE a == Append(seq, x)
           d == IF Len(seq) = n THEN 1 ELSE 0
           w == Gate!Latest(a, n)
<1>1. /\ a \in Seq(S) /\ Len(a) = Len(seq) + 1 /\ a[Len(seq) + 1] = x
      /\ \A i \in 1..Len(seq) : a[i] = seq[i]
    OBVIOUS
<1>2. d \in {0, 1} /\ Len(seq) \in Nat OBVIOUS
<1>3. w = SubSeq(a, 1 + d, Len(a))
    <2>1. CASE Len(seq) = n
        <3>1. Len(a) > n /\ Len(a) - n + 1 = 1 + d BY <1>1, <2>1
        <3> QED BY <3>1 DEF Gate!Latest
    <2>2. CASE Len(seq) # n
        <3>1. ~(Len(a) > n) BY <1>1, <1>2, <2>2
        <3> QED BY <3>1, <2>2 DEF Gate!Latest
    <2> QED BY <2>1, <2>2
<1> HIDE DEF a, d, w
<1>4. /\ w \in Seq(S) /\ Len(w) = Len(a) - d
      /\ \A i \in 1..(Len(a) - d) : w[i] = a[i + d]
    <2>1. \A i \in (1 + d)..Len(a) : i \in 1..Len(a) BY <1>2
    <2>2. 1 + d \in 1..(Len(a) + 1) BY <1>1, <1>2
    <2> QED BY <1>1, <1>2, <1>3, <2>1, <2>2
<1>5. Len(w) = Len(seq) + 1 - d BY <1>1, <1>2, <1>4
<1>6. Len(w) <= n BY <1>2, <1>5 DEF d
<1>7. w[Len(w)] = x
    <2>1. Len(w) \in 1..(Len(a) - d) /\ Len(w) + d = Len(seq) + 1
      BY <1>1, <1>2, <1>4, <1>5 DEF d
    <2> QED BY <1>1, <1>4, <2>1
<1>8. ASSUME NEW i \in DOMAIN w, i # Len(w) PROVE i + d \in DOMAIN seq /\ w[i] = seq[i + d]
    <2>1. i \in 1..(Len(a) - d) /\ i + d \in 1..Len(seq) BY <1>1, <1>2, <1>4, <1>5, <1>8
    <2> QED BY <1>1, <1>4, <2>1
<1> QED BY <1>4, <1>5, <1>6, <1>7, <1>8 DEF w, d, a

\* The frames that the judge took for a voice.
VoicedAt(frames) == {i \in DOMAIN frames : frames[i].voiced}

\* Two voiced frames have levels to compare.
LEMMA VoicedCount ==
    ASSUME NEW frames \in Seq(Frames)
    PROVE  /\ IsFiniteSet(VoicedAt(frames)) /\
                 Gate!CountVoiced(frames) = Cardinality(VoicedAt(frames))
           /\ Gate!CountVoiced(frames) \in Nat
           /\ Gate!CountVoiced(frames) >= 2 => Gate!Voiced(frames) # {}
           /\ Gate!Voiced(frames) \subseteq Gate!Levels
<1>1. VoicedAt(frames) \subseteq 1..Len(frames) BY DEF VoicedAt
<1>2. IsFiniteSet(VoicedAt(frames)) BY <1>1, FS_Interval, FS_Subset
<1>3. Gate!CountVoiced(frames) = Cardinality(VoicedAt(frames))
  BY GateCount DEF Gate!CountVoiced, VoicedAt
<1>4. Cardinality(VoicedAt(frames)) \in Nat BY <1>2, FS_CardinalityType
<1>5. Gate!CountVoiced(frames) >= 2 => VoicedAt(frames) # {}
    <2>1. Cardinality({}) = 0 BY FS_EmptySet
    <2> SUFFICES ASSUME VoicedAt(frames) = {} PROVE ~(Gate!CountVoiced(frames) >= 2)
      OBVIOUS
    <2>2. Gate!CountVoiced(frames) = 0 BY <1>3, <2>1, Zenon
    <2> QED BY <2>2
<1>6. VoicedAt(frames) # {} => Gate!Voiced(frames) # {} BY DEF Gate!Voiced, VoicedAt
<1>7. Gate!Voiced(frames) \subseteq Gate!Levels
    <2> SUFFICES ASSUME NEW i \in DOMAIN frames PROVE frames[i].level \in Gate!Levels
        BY DEF Gate!Voiced
    <2>1. frames[i] \in Frames OBVIOUS
    <2> QED BY <2>1 DEF Frames
<1> QED BY <1>2, <1>3, <1>4, <1>5, <1>6, <1>7

\* A frame that is no voice is no onset.
LEMMA NoOnsetUnvoiced ==
    ASSUME NEW old \in Seq(Frames), Len(old) <= OnsetWindow, NEW x \in Frames, ~x.voiced,
           ~Gate!Onset(old)
    PROVE  ~Gate!Onset(Gate!Latest(Append(old, x), OnsetWindow))
<1> DEFINE w == Gate!Latest(Append(old, x), OnsetWindow)
           d == IF Len(old) = OnsetWindow THEN 1 ELSE 0
<1>1. OnsetWindow \in Nat \ {0} BY DialogueAssumption
<1>2. /\ w \in Seq(Frames) /\ w[Len(w)] = x
      /\ \A i \in DOMAIN w : i # Len(w) => i + d \in DOMAIN old /\ w[i] = old[i + d]
    BY <1>1, WindowMoves
<1>3. d \in {0, 1} OBVIOUS
<1> HIDE DEF w, d
<1>4. \A i \in VoicedAt(w) : i \in Nat /\ i + d \in VoicedAt(old) /\ w[i] = old[i + d]
    BY <1>2 DEF VoicedAt
<1>5. Gate!Voiced(w) \subseteq Gate!Voiced(old) BY <1>4 DEF Gate!Voiced, VoicedAt
<1>6. Cardinality(VoicedAt(w)) <= Cardinality(VoicedAt(old))
    <2> DEFINE moved == [i \in VoicedAt(w) |-> i + d]
    <2>1. IsFiniteSet(VoicedAt(old)) BY VoicedCount
    <2>2. moved \in Injection(VoicedAt(w), VoicedAt(old))
        <3>1. moved \in [VoicedAt(w) -> VoicedAt(old)] BY <1>4
        <3>2. \A i, j \in VoicedAt(w) : moved[i] = moved[j] => i = j BY <1>3, <1>4
        <3> QED BY <3>1, <3>2 DEF Injection, IsInjective
    <2> QED BY <2>1, <2>2, FS_Injection
<1>7. SUFFICES ASSUME Gate!Onset(w) PROVE FALSE
    BY DEF w
<1>8. /\ Gate!CountVoiced(w) >= OnsetRequired /\ Gate!CountVoiced(w) >= 2
      /\ Gate!Spread(Gate!Voiced(w)) >= OnsetRange
    BY <1>7 DEF Gate!Onset, Gate!OnsetMoves
<1>9. Gate!CountVoiced(w) <= Gate!CountVoiced(old) BY <1>2, <1>6, VoicedCount
<1>10. Gate!Voiced(w) # {} /\ Gate!Voiced(old) \subseteq Gate!Levels
  BY <1>2, <1>8, VoicedCount
<1>11. Gate!Spread(Gate!Voiced(w)) <= Gate!Spread(Gate!Voiced(old))
  BY <1>5, <1>10, SmallerSpread
<1>12. Gate!Spread(Gate!Voiced(w)) \in Int /\ Gate!Spread(Gate!Voiced(old)) \in Int
  BY <1>5, <1>10, SpreadIsNumber
<1>13. Gate!CountVoiced(w) \in Nat /\ Gate!CountVoiced(old) \in Nat BY <1>2, VoicedCount
<1>14. OnsetRange \in Int /\ OnsetRequired \in Nat BY DialogueAssumption
<1>15. Gate!CountVoiced(old) >= OnsetRequired /\ Gate!CountVoiced(old) >= 2
    BY <1>8, <1>9, <1>13, <1>14
<1>16. Gate!Spread(Gate!Voiced(old)) >= OnsetRange BY <1>8, <1>11, <1>12, <1>14
<1> QED BY <1>15, <1>16 DEF Gate!Onset, Gate!OnsetMoves

\* The window of the onset, after one more frame.
LEMMA RecentMoves ==
    ASSUME NEW old \in Seq(Frames), Len(old) <= OnsetWindow, NEW fr \in Frames
    PROVE  LET w == Gate!Latest(Append(old, fr), OnsetWindow)
               d == IF Len(old) = OnsetWindow THEN 1 ELSE 0
           IN  /\ w \in Seq(Frames) /\ Len(w) <= OnsetWindow /\ w[Len(w)] = fr
               /\ \A i \in DOMAIN w :
                     i # Len(w) => i + d \in DOMAIN old /\ w[i] = old[i + d]
<1>1. OnsetWindow \in Nat \ {0} BY DialogueAssumption
<1> QED BY <1>1, WindowMoves

\* No frames are no onset.
LEMMA NothingIsNoOnset == ~Gate!Onset(<<>>) /\ <<>> \in Seq(Frames)
<1>1. VoicedAt(<<>>) = {} BY DEF VoicedAt
<1>2. <<>> \in Seq(Frames) OBVIOUS
<1>3. Gate!CountVoiced(<<>>) = Cardinality(VoicedAt(<<>>)) BY <1>2, VoicedCount, Zenon
<1>4. Cardinality({}) = 0 BY FS_EmptySet
<1>5. Gate!CountVoiced(<<>>) = 0 BY <1>1, <1>3, <1>4, Zenon
<1> QED BY <1>2, <1>5 DEF Gate!Onset, Gate!OnsetMoves

\* At first nothing has been heard.
LEMMA GateInitially == Gate!Init => GateInv
<1> SUFFICES ASSUME Gate!Init PROVE GateInv OBVIOUS
<1>1. GateShapes
    <2>1. OnsetWindow \in Nat /\ StationaryWindow \in Nat BY DialogueAssumption
    <2>2. /\ recent = <<>> /\ levels = <<>> /\ recent \in Seq(Frames)
          /\ levels \in Seq(Gate!Levels)
        BY NothingIsNoOnset DEF Gate!Init
    <2>3. Len(recent) <= OnsetWindow /\ Len(levels) <= StationaryWindow BY <2>1, <2>2
    <2> QED BY <2>2, <2>3 DEF Gate!Init, GateShapes
<1>2. NoOnsetMissed BY NothingIsNoOnset DEF Gate!Init, NoOnsetMissed
<1> QED BY <1>1, <1>2 DEF Gate!Init, GateInv, OnlyNoise, NoiseSoFar, Releasing

\* What one frame does: the sound of the last frames is kept, and the gate opens
\* only on a voiced frame and closes at the end of the release.
LEMMA GateHears ==
    ASSUME GateInv, NEW who \in {"silence", "noise", "voice"}, NEW level \in Gate!Levels,
           Gate!Hears(who, level),
           who = "silence" => level = Silence,
           who = "noise" => level \in Noise
    PROVE  GateInv'
<1> DEFINE seen == Gate!Latest(Append(levels, level), StationaryWindow)
           k == IF Len(levels) = StationaryWindow THEN 1 ELSE 0
           d == IF Len(recent) = OnsetWindow THEN 1 ELSE 0
<1>1. /\ OnsetWindow \in Nat \ {0} /\ StationaryWindow \in Nat \ {0}
      /\ ReleaseFrames \in Nat \ {0} /\ Gate!Cap \in Nat
      /\ Gate!Levels \subseteq Int
    BY DialogueAssumption DEF Gate!Cap
<1>2. PICK verdict \in Gate!MayBeVoice(who, level) :
        LET spoken == verdict /\ ~Gate!Steady(seen)
            frames == Gate!Latest(Append(recent, [voiced |-> spoken, level |-> level]),
                                  OnsetWindow)
            quiet == IF spoken THEN 0 ELSE Gate!Min({quietRun + 1, ReleaseFrames})
            opens == ~open /\ Gate!Onset(frames)
            closes == open /\ quiet = ReleaseFrames
        IN  /\ levels' = seen
            /\ open' = ((open \/ opens) /\ ~closes)
            /\ quietRun' = IF opens THEN 0 ELSE quiet
            /\ recent' = IF closes THEN <<>> ELSE frames
    BY DEF Gate!Hears, Gate!Frame
<1> DEFINE spoken == verdict /\ ~Gate!Steady(seen)
           now == [voiced |-> spoken, level |-> level]
           frames == Gate!Latest(Append(recent, now), OnsetWindow)
           quiet == IF spoken THEN 0 ELSE Gate!Min({quietRun + 1, ReleaseFrames})
           opens == ~open /\ Gate!Onset(frames)
           closes == open /\ quiet = ReleaseFrames
<1>3. /\ levels' = seen
      /\ open' = ((open \/ opens) /\ ~closes)
      /\ quietRun' = IF opens THEN 0 ELSE quiet
      /\ recent' = IF closes THEN <<>> ELSE frames
    BY <1>2
<1>4. /\ last' = who /\ same' = (IF who = last THEN Gate!Min({same + 1, Gate!Cap}) ELSE 1)
      /\ everVoice' = (everVoice \/ who = "voice")
    BY DEF Gate!Hears
<1>5. verdict \in BOOLEAN /\ (who = "silence" => ~verdict)
    BY DialogueAssumption DEF Gate!MayBeVoice
<1>6. now \in Frames /\ now.voiced = spoken /\ now.level = level BY <1>5 DEF Frames
<1>7. /\ recent \in Seq(Frames) /\ Len(recent) <= OnsetWindow
      /\ levels \in Seq(Gate!Levels) /\ Len(levels) <= StationaryWindow
      /\ quietRun \in Nat /\ same \in Nat /\ open \in BOOLEAN /\ everVoice \in BOOLEAN
    BY DEF GateInv, GateShapes
<1>8. /\ seen \in Seq(Gate!Levels) /\ Len(seen) = Len(levels) + 1 - k
      /\ Len(seen) <= StationaryWindow /\ seen[Len(seen)] = level
      /\ \A i \in DOMAIN seen : i # Len(seen) =>
            i + k \in DOMAIN levels /\ seen[i] = levels[i + k]
    BY <1>1, <1>7, WindowMoves
<1>9. /\ frames \in Seq(Frames) /\ Len(frames) <= OnsetWindow
      /\ frames[Len(frames)] = now
      /\ \A i \in DOMAIN frames :
           i # Len(frames) => i + d \in DOMAIN recent /\ frames[i] = recent[i + d]
    <2> HIDE DEF now, spoken
    <2> QED BY <1>6, <1>7, RecentMoves
<1>10. opens => spoken
    <2> SUFFICES ASSUME opens, ~spoken PROVE FALSE OBVIOUS
    <2>1. ~Gate!Onset(recent) BY DEF GateInv, NoOnsetMissed
    <2> QED BY <1>6, <1>7, <2>1, NoOnsetUnvoiced
<1>11. quiet = (IF spoken THEN 0 ELSE IF quietRun + 1 <= ReleaseFrames THEN quietRun + 1
                                      ELSE ReleaseFrames)
    BY <1>1, <1>7, LeastOfTwo
<1>12. same' \in Nat /\ same' <= same + 1 /\ (who # last => same' = 1)
    <2>1. Gate!Min({same + 1, Gate!Cap}) =
             IF same + 1 <= Gate!Cap THEN same + 1 ELSE Gate!Cap
        BY <1>1, <1>7, LeastOfTwo
    <2> QED BY <1>1, <1>4, <1>7, <2>1
<1> HIDE DEF seen, k, d, spoken, now, frames, quiet, opens, closes
<1>13. spoken \in BOOLEAN /\ opens \in BOOLEAN /\ closes \in BOOLEAN
    BY <1>5 DEF spoken, opens, closes
<1>14. GateShapes'
    <2>1. quiet \in Nat BY <1>1, <1>7, <1>11
    <2>2. recent' \in Seq(Frames) /\ Len(recent') <= OnsetWindow
        BY <1>1, <1>3, <1>9, NothingIsNoOnset
    <2>3. open' \in BOOLEAN /\ everVoice' \in BOOLEAN BY <1>3, <1>4, <1>7, <1>13
    <2> QED BY <1>3, <1>8, <1>12, <2>1, <2>2, <2>3 DEF GateShapes
<1>15. NoOnsetMissed'
    <2> SUFFICES ASSUME ~open' PROVE ~Gate!Onset(recent') BY DEF NoOnsetMissed
    <2>1. CASE closes BY <1>3, <2>1, NothingIsNoOnset
    <2>2. CASE ~closes
        <3>1. ~open /\ ~opens /\ recent' = frames BY <1>3, <2>2
        <3> QED BY <3>1 DEF opens
    <2> QED BY <2>1, <2>2
<1>16. ~everVoice' => \A i \in DOMAIN frames : frames[i].voiced => frames[i].level \in Noise
    <2> SUFFICES ASSUME ~everVoice', NEW i \in DOMAIN frames, frames[i].voiced
                 PROVE  frames[i].level \in Noise
        OBVIOUS
    <2>1. ~everVoice /\ who # "voice" BY <1>4
    <2>2. CASE i = Len(frames)
        <3>1. spoken /\ frames[i].level = level BY <1>6, <1>9, <2>2
        <3>2. who = "noise" BY <1>5, <2>1, <3>1 DEF spoken
        <3> QED BY <3>1, <3>2
    <2>3. CASE i # Len(frames)
        <3>1. i + d \in DOMAIN recent /\ frames[i] = recent[i + d] BY <1>9, <2>3
        <3>2. recent[i + d].voiced BY <3>1
        <3>3. recent[i + d].level \in Noise BY <2>1, <3>1, <3>2 DEF GateInv, OnlyNoise
        <3> QED BY <3>1, <3>3
    <2> QED BY <2>2, <2>3
<1>17. OnlyNoise' BY <1>3, <1>16 DEF OnlyNoise
<1>18. NoiseSoFar'
    <2> SUFFICES ASSUME last' = "noise"
                 PROVE  /\ \A i \in DOMAIN seen : i > Len(seen) - same' => seen[i] \in Noise
                        /\ same' <= Len(seen) \/ Len(seen) = StationaryWindow
        BY <1>3 DEF NoiseSoFar
    <2>1. who = "noise" /\ level \in Noise BY <1>4
    <2>2. k \in {0, 1} /\ Len(levels) \in Nat BY <1>7 DEF k
    <2>3. ASSUME NEW i \in DOMAIN seen, i > Len(seen) - same' PROVE seen[i] \in Noise
        <3>1. CASE i = Len(seen) BY <1>8, <2>1, <3>1
        <3>2. CASE i # Len(seen)
            <4>1. i \in Nat /\ i <= Len(seen) /\ Len(seen) \in Nat BY <1>8
            <4>2. same' # 1 BY <2>3, <3>2, <4>1
            <4>3. last = "noise" BY <1>12, <2>1, <4>2
            <4>4. i + k \in DOMAIN levels /\ seen[i] = levels[i + k] BY <1>8, <3>2
            <4>5. i + k > Len(levels) - same BY <1>7, <1>8, <1>12, <2>2, <2>3, <4>1
            <4> QED BY <4>3, <4>4, <4>5 DEF GateInv, NoiseSoFar
        <3> QED BY <3>1, <3>2
    <2>4. same' <= Len(seen) \/ Len(seen) = StationaryWindow
        <3>1. CASE who # last BY <1>1, <1>8, <1>12, <2>2, <3>1 DEF k
        <3>2. CASE who = last
            <4>1. same <= Len(levels) \/ Len(levels) = StationaryWindow
                BY <2>1, <3>2 DEF GateInv, NoiseSoFar
            <4> QED BY <1>1, <1>7, <1>8, <1>12, <2>2, <4>1 DEF k
        <3> QED BY <3>1, <3>2
    <2> QED BY <2>3, <2>4
<1>19. who = "noise" /\ same' >= StationaryWindow => ~spoken
    <2> SUFFICES ASSUME who = "noise", same' >= StationaryWindow PROVE Gate!Steady(seen)
        BY DEF spoken
    <2>1. /\ \A i \in DOMAIN seen : i > Len(seen) - same' => seen[i] \in Noise
          /\ same' <= Len(seen) \/ Len(seen) = StationaryWindow
        BY <1>3, <1>4, <1>18 DEF NoiseSoFar
    <2>2. Len(seen) \in Nat /\ Len(seen) = StationaryWindow BY <1>1, <1>8, <1>12, <2>1
    <2>3. \A i \in DOMAIN seen : seen[i] \in Noise
        <3> TAKE i \in DOMAIN seen
        <3>1. i \in Nat /\ i >= 1 BY <1>8
        <3>2. i > Len(seen) - same' BY <1>1, <1>12, <2>2, <3>1
        <3> QED BY <2>1, <3>2
    <2>4. Gate!Range(seen) \subseteq Noise BY <2>3 DEF Gate!Range
    <2>5. Gate!Range(seen) # {}
        <3>1. 1 \in DOMAIN seen BY <1>1, <1>8, <2>2
        <3> QED BY <3>1 DEF Gate!Range
    <2> QED BY <2>2, <2>4, <2>5, NoiseIsNear DEF Gate!Steady
<1>20. opens => everVoice'
    <2> SUFFICES ASSUME opens, ~everVoice' PROVE FALSE
        BY <1>4, <1>7
    <2>1. Gate!CountVoiced(frames) >= 2 /\ Gate!Spread(Gate!Voiced(frames)) >= OnsetRange
        BY DEF opens, Gate!Onset, Gate!OnsetMoves
    <2>2. Gate!Voiced(frames) # {} BY <1>9, <2>1, VoicedCount
    <2>3. Gate!Voiced(frames) \subseteq Noise BY <1>16 DEF Gate!Voiced
    <2>4. Gate!Voiced(frames) \subseteq Gate!Levels BY <2>3 DEF Gate!Levels
    <2>5. Gate!Spread(Gate!Voiced(frames)) < OnsetRange BY <2>2, <2>3, NoiseIsNear
    <2>6. Gate!Spread(Gate!Voiced(frames)) \in Int /\ OnsetRange \in Int
        BY <2>2, <2>4, SpreadIsNumber, DialogueAssumption
    <2> QED BY <2>1, <2>5, <2>6
<1>21. Releasing'
    <2> SUFFICES ASSUME open'
                 PROVE  /\ everVoice' /\ quietRun' < ReleaseFrames
                        /\ last' = "noise" => same' < quietRun' + StationaryWindow
                        /\ last' = "silence" => quietRun' >= same'
        BY DEF Releasing
    <2>1. CASE opens
        <3>1. spoken /\ quietRun' = 0 BY <1>3, <1>10, <2>1
        <3>2. who # "silence" BY <1>5, <3>1 DEF spoken
        <3>3. who = "noise" => same' < StationaryWindow BY <1>1, <1>12, <1>19, <3>1
        <3> QED BY <1>1, <1>4, <1>12, <1>20, <2>1, <3>1, <3>2, <3>3
    <2>2. CASE ~opens
        <3>1. open /\ ~closes /\ quietRun' = quiet BY <1>3, <2>2
        <3>2. quiet # ReleaseFrames BY <3>1 DEF closes
        <3>3. everVoice' BY <1>4, <3>1 DEF GateInv, Releasing
        <3>4. quiet < ReleaseFrames /\ (~spoken => quiet = quietRun + 1)
              /\ (spoken => quiet = 0)
            BY <1>1, <1>7, <1>11, <1>13, <3>2
        <3>5. ASSUME last' = "noise" PROVE same' < quiet + StationaryWindow
            <4>1. CASE spoken
                <5>1. same' < StationaryWindow BY <1>1, <1>4, <1>12, <1>19, <3>5, <4>1
                <5>2. quiet = 0 BY <3>4, <4>1
                <5>3. same' \in Nat /\ StationaryWindow \in Nat BY <1>1, <1>12
                <5>4. same' < 0 + StationaryWindow BY <5>1, <5>3
                <5> QED BY <5>2, <5>4
            <4>2. CASE ~spoken
                <5>1. CASE who # last BY <1>1, <1>7, <1>12, <3>4, <4>2, <5>1
                <5>2. CASE who = last
                    <6>1. same < quietRun + StationaryWindow
                        BY <1>4, <3>1, <3>5, <5>2 DEF GateInv, Releasing
                    <6>2. quiet = quietRun + 1 BY <3>4, <4>2
                    <6>3. /\ same' \in Nat /\ same \in Nat /\ quietRun \in Nat
                          /\ StationaryWindow \in Nat /\ same' <= same + 1
                        BY <1>1, <1>7, <1>12
                    <6>4. same' < quietRun + 1 + StationaryWindow BY <6>1, <6>3
                    <6> QED BY <6>2, <6>4
                <5> QED BY <5>1, <5>2
            <4> QED BY <4>1, <4>2
        <3>6. ASSUME last' = "silence" PROVE quiet >= same'
            <4>1. ~spoken /\ quiet = quietRun + 1 BY <1>4, <1>5, <3>4, <3>6 DEF spoken
            <4>2. CASE who # last BY <1>7, <1>12, <4>1, <4>2
            <4>3. CASE who = last
                <5>1. quietRun >= same BY <1>4, <3>1, <3>6, <4>3 DEF GateInv, Releasing
                <5> QED BY <1>7, <1>12, <4>1, <5>1
            <4> QED BY <4>2, <4>3
        <3> QED BY <3>1, <3>3, <3>4, <3>5, <3>6
    <2> QED BY <2>1, <2>2
<1> QED BY <1>14, <1>15, <1>17, <1>18, <1>21 DEF GateInv

\* Every step keeps the invariant.
LEMMA GateStep == GateInv /\ [Gate!Next]_(Gate!vars) => GateInv'
<1> SUFFICES ASSUME GateInv, [Gate!Next]_(Gate!vars) PROVE GateInv' OBVIOUS
<1>1. CASE Gate!Hears("silence", Silence)
    <2>1. Silence \in Gate!Levels BY DEF Gate!Levels
    <2> QED BY <1>1, <2>1, GateHears
<1>2. ASSUME NEW level \in Noise, Gate!Hears("noise", level) PROVE GateInv'
    <2>1. level \in Gate!Levels BY DEF Gate!Levels
    <2> QED BY <1>2, <2>1, GateHears
<1>3. ASSUME NEW level \in Voice, Gate!Hears("voice", level) PROVE GateInv'
    <2>1. level \in Gate!Levels BY DEF Gate!Levels
    <2> QED BY <1>3, <2>1, GateHears
<1>4. CASE UNCHANGED Gate!vars
    BY <1>4 DEF GateInv, GateShapes, NoOnsetMissed, OnlyNoise, NoiseSoFar, Releasing,
       Gate!vars
<1> QED BY <1>1, <1>2, <1>3, <1>4 DEF Gate!Next

\* Which bounds how long a noise can keep the gate open.
LEMMA GateHolds == GateInv => Gate!NoiseIsNotSpeech
<1> SUFFICES ASSUME GateInv PROVE Gate!NoiseIsNotSpeech OBVIOUS
<1>1. StationaryWindow \in Nat /\ ReleaseFrames \in Nat BY DialogueAssumption
<1>2. same \in Nat /\ quietRun \in Nat BY DEF GateInv, GateShapes
<1> QED BY <1>1, <1>2 DEF GateInv, Releasing, Gate!NoiseIsNotSpeech

\* A step of the run is a step of the gate, or leaves it alone.
LEMMA DialogueGate ==
    /\ DialogueInit => Gate!Init
    /\ [DialogueNext]_allVars => [Gate!Next]_(Gate!vars)
BY DEF DialogueInit, DialogueNext, allVars, gate, Gate!vars, InAgent, InTurns, InEars,
       InGate

\* Whatever the judge says of its frames, a steady noise neither opens the gate
\* nor keeps it open longer than the window and the release.
THEOREM DialogueNoiseIsNotSpeech == DialogueSpec => []NoiseIsNotSpeech
<1>1. GateInv => NoiseIsNotSpeech BY GateHolds DEF NoiseIsNotSpeech
<1> QED BY <1>1, DialogueGate, GateInitially, GateStep, PTL DEF DialogueSpec
=============================================================================
