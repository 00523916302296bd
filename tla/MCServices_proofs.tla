-------------------------- MODULE MCServices_proofs -------------------------
(***************************************************************************)
(* Proofs about two of the components that MCServices checks: the rows of  *)
(* a data source's runs tell the truth about the catalogue while no two    *)
(* pulls overlap in a process, for any number of requests, runs and        *)
(* faults; and what is taken for heard of an answer that was cut is nearly *)
(* what was heard, for any answer, frame and allowance.                    *)
(***************************************************************************)
EXTENDS MCServices, Sequences, WellFoundedInduction, TLAPS

-----------------------------------------------------------------------------
\* A set of natural numbers that is not empty has a least element.
LEMMA LeastNat ==
  ASSUME NEW T, T \subseteq Nat, T # {}
  PROVE  \E x \in T : \A y \in T : x <= y
<1> DEFINE R == OpToRel(<, Nat)
<1>1. IsWellFoundedOn(R, Nat)
  BY NatLessThanWellFounded
<1>2. \A a, b \in Nat : <<a, b>> \in R <=> a < b
  BY DEF OpToRel
<1> HIDE DEF R
<1>3. PICK x \in T : \A y \in T : ~ (<<y, x>> \in R)
  BY <1>1, WFMin
<1>4. \A y \in T : x <= y
  <2> TAKE y \in T
  <2>1. ~ (<<y, x>> \in R) BY <1>3
  <2>2. x \in Nat /\ y \in Nat OBVIOUS
  <2> QED BY <1>2, <2>1, <2>2
<1> QED BY <1>4

-----------------------------------------------------------------------------
(* The pulls of a source                                                   *)

\* The values that a row and a caller's record take.
SyncRow == [status : {"none", "running", "ok", "failed"}, error : BOOLEAN, stale : BOOLEAN]
SyncCall == [pc : {"idle", "closing", "beginning", "begun", "pulling"},
             run : Sync!Runs \cup {None}, closes : SUBSET Sync!Runs]

SyncTyped ==
    /\ rows \in [Sync!Runs -> SyncRow]
    /\ present \in BOOLEAN
    /\ call \in [Sync!Openers -> SyncCall]
    /\ task \in Sync!Runs \cup {None}
    /\ pull \in [Sync!Runs -> {"off", "made", "pulling", "failing", "closing", "over"}]
    /\ process \in [Sync!Runs -> {"none", "api", "worker"}]
    /\ written \subseteq Sync!Runs
    /\ used \in Nat

\* A run that has not been committed, one that is executed, and a caller that
\* has begun one and handed it to nobody yet.
Unborn(k) == k > used \/ \E c \in Sync!Openers : call[c].pc = "beginning" /\ call[c].run = k
Alive(k) == pull[k] \in {"made", "pulling", "failing", "closing"}
HasRun(c) == call[c].pc \in {"beginning", "begun"}

\* Nobody has seen a run before its commit.
UnbornUnknown ==
    \A k \in Sync!Runs : Unborn(k) =>
        /\ rows[k].status = "none"
        /\ \A d \in Sync!Openers : k \notin call[d].closes

\* A run is handed out once, and is executed only after that.
NumbersFresh ==
    /\ \A k \in Sync!Runs : k > used => pull[k] = "off"
    /\ \A k \in Sync!Runs : pull[k] = "off" <=> process[k] = "none"
    /\ \A c \in Sync!Openers : call[c].pc = "closing" => call[c].run = None
    /\ \A c \in Sync!Openers : HasRun(c) =>
           call[c].run \in Sync!Runs /\ call[c].run <= used /\ pull[call[c].run] = "off"
    /\ \A c, d \in Sync!Openers : HasRun(c) /\ HasRun(d) /\ call[c].run = call[d].run => c = d

\* Whose writes are committed has nothing left to do but end.
WrittenSettled == \A k \in written : pull[k] \in {"closing", "over"}

\* Who closes a run has read that it is two hours old.
ClosesStale == present => \A c \in Sync!Openers : \A k \in call[c].closes : rows[k].stale

\* The API's execution is the one its task slot names, the worker's the one the
\* scheduled pull waits for.
OneInTask == \A k \in Sync!Runs : Alive(k) /\ process[k] = "api" => task = k
OneInCron ==
    \A k \in Sync!Runs : Alive(k) /\ process[k] = "worker" =>
        call["cron"].pc = "pulling" /\ call["cron"].run = k

SyncInv ==
    /\ SyncTyped /\ UnbornUnknown /\ NumbersFresh /\ WrittenSettled
    /\ ClosesStale /\ OneInTask /\ OneInCron /\ Sync!RowsTellTheTruth

\* No run is there at first.
LEMMA SyncInitially == Sync!Init => SyncInv
  BY SyncAssumption DEF Sync!Init, SyncInv, SyncTyped, SyncRow, UnbornUnknown,
     NumbersFresh, WrittenSettled, ClosesStale, OneInTask, OneInCron,
     Sync!RowsTellTheTruth, Sync!NoRow, Sync!NoCall, Unborn, Alive, HasRun, Sync!Runs,
     Sync!Openers, SyncCall

\* The worker executes the run that it has begun.
LEMMA SyncCronStarts == ASSUME SyncInv, Sync!CronStarts PROVE SyncInv'
<1> USE DEF Sync!Openers, Sync!books
<1> DEFINE q == call["cron"]
<1>a. q \in SyncCall /\ "cron" \in Sync!Openers
  BY DEF Sync!CronStarts, SyncInv, SyncTyped, SyncRow
<1>b. [q EXCEPT !.pc = "pulling"] = [pc |-> "pulling", run |-> q.run, closes |-> q.closes]
  BY <1>a DEF SyncCall
<1>c. call' = [call EXCEPT !["cron"] = [q EXCEPT !.pc = "pulling"]]
  BY Zenon DEF Sync!CronStarts
<1> HIDE DEF q
<1>d. call' = [call EXCEPT !["cron"] = [pc |-> "pulling", run |-> q.run, closes |-> q.closes]]
  BY <1>b, <1>c
<1>e. /\ q = call["cron"] /\ q.pc = "begun" /\ q.run \in Sync!Runs /\ q.run <= used
      /\ pull[q.run] = "off"
      /\ pull' = [pull EXCEPT ![q.run] = "made"]
      /\ process' = [process EXCEPT ![q.run] = "worker"]
  BY <1>a DEF q, SyncInv, NumbersFresh, Sync!CronStarts, HasRun
<1>f. UNCHANGED <<Sync!books, task, written, used, faults>> BY DEF Sync!CronStarts
<1>1. SyncTyped' BY <1>a, <1>d, <1>e, <1>f DEF SyncInv, SyncTyped, SyncRow, SyncCall
<1>2. UnbornUnknown'
  BY <1>a, <1>d, <1>e, <1>f
     DEF SyncInv, SyncTyped, SyncRow, UnbornUnknown, Unborn, SyncCall
<1>3. NumbersFresh'
  <2>1. NumbersFresh BY DEF SyncInv
  <2>2. \A k \in Sync!Runs : k > used' => pull'[k] = "off"
    BY <1>e, <1>f, <2>1, SyncAssumption
       DEF SyncInv, SyncTyped, SyncRow, NumbersFresh, Sync!Runs
  <2>3. \A k \in Sync!Runs : pull'[k] = "off" <=> process'[k] = "none"
    BY <1>e, <2>1 DEF SyncInv, SyncTyped, SyncRow, NumbersFresh
  <2>4. \A d \in Sync!Openers : HasRun(d)' => d # "cron" /\ HasRun(d) /\ call'[d] = call[d]
    BY <1>a, <1>d, <1>e DEF SyncInv, SyncTyped, SyncRow, HasRun
  <2>5. \A d \in Sync!Openers : d # "cron" /\ HasRun(d) => call[d].run # q.run
    BY <1>a, <1>e, <2>1 DEF NumbersFresh, HasRun
  <2>6. \A d \in Sync!Openers : HasRun(d)' => call[d].run # q.run /\ call'[d].run \in Sync!Runs /\ call'[d].run <= used'
                                        /\ pull'[call'[d].run] = "off"
    BY <1>e, <1>f, <2>1, <2>4, <2>5 DEF NumbersFresh, SyncInv, SyncTyped, SyncRow
  <2>7. \A d \in Sync!Openers : call'[d].pc = "closing" => call'[d].run = None
    BY <1>a, <1>d, <2>1 DEF NumbersFresh, SyncInv, SyncTyped, SyncRow
  <2> QED BY <2>1, <2>2, <2>3, <2>4, <2>6, <2>7 DEF NumbersFresh
<1>4. WrittenSettled'
  BY <1>a, <1>d, <1>e, <1>f
     DEF SyncInv, SyncTyped, SyncRow, WrittenSettled, NumbersFresh, HasRun, SyncCall
<1>5. ClosesStale'
  BY <1>a, <1>d, <1>e, <1>f DEF SyncInv, SyncTyped, SyncRow, ClosesStale, SyncCall
<1>6. OneInTask'
  BY <1>a, <1>d, <1>e, <1>f
     DEF SyncInv, SyncTyped, SyncRow, OneInTask, NumbersFresh, HasRun, Alive, SyncCall
<1>7. OneInCron'
  BY <1>a, <1>d, <1>e, <1>f
     DEF SyncInv, SyncTyped, SyncRow, OneInCron, NumbersFresh, HasRun, Alive, SyncCall
<1>8. Sync!RowsTellTheTruth'
  BY <1>a, <1>d, <1>e, <1>f
     DEF SyncInv, SyncTyped, SyncRow, Sync!RowsTellTheTruth, SyncCall
<1> QED BY <1>1, <1>2, <1>3, <1>4, <1>5, <1>6, <1>7, <1>8 DEF SyncInv

\* What a caller begins has a new number; what it means to close is stale.
LEMMA SyncChecks == ASSUME SyncInv, NEW c \in Sync!Openers, Sync!Checks(c) PROVE SyncInv'
<1> USE DEF Sync!books
<1>a. /\ call[c].pc = "idle" /\ UNCHANGED <<Sync!books, task, pull, process, written>>
      /\ Sync!Abandoned \subseteq Sync!Runs
      /\ \A k \in Sync!Abandoned : rows[k].stale /\ rows[k].status = "running"
  BY DEF Sync!Checks, Sync!Abandoned, Sync!Running
<1>b. PICK r \in Sync!Runs \cup {None}, b \in BOOLEAN :
         /\ b => r = used + 1 /\ r \in Sync!Runs /\ used' = used + 1
         /\ ~b => r = None /\ used' = used
         /\ call' = [call EXCEPT ![c] = [pc |-> IF b THEN "beginning" ELSE "closing", run |-> r,
                                         closes |-> Sync!Abandoned]]
  <2>1. CASE Sync!Running \ Sync!Abandoned # {}
    BY <2>1, Zenon DEF Sync!Checks
  <2>2. CASE Sync!Running \ Sync!Abandoned = {}
    <3>1. /\ used < MaxRuns /\ used' = used + 1
          /\ call' = [call EXCEPT ![c] = [pc |-> "beginning", run |-> used + 1, closes |-> Sync!Abandoned]]
      BY <2>2 DEF Sync!Checks, Sync!NextRun
    <3>2. used + 1 \in Sync!Runs
      BY <3>1, SyncAssumption DEF Sync!Runs, SyncInv, SyncTyped, SyncRow
    <3> QED BY <3>1, <3>2
  <2> QED BY <2>1, <2>2
<1>c. call'[c] = [pc |-> IF b THEN "beginning" ELSE "closing", run |-> r, closes |-> Sync!Abandoned]
      /\ (b => call'[c].pc = "beginning") /\ (~b => call'[c].pc = "closing")
      /\ call'[c].run = r /\ call'[c].closes = Sync!Abandoned
      /\ \A d \in Sync!Openers : d # c => call'[d] = call[d]
  BY <1>b DEF SyncInv, SyncTyped, SyncRow
<1>1. SyncTyped'
  BY <1>a, <1>b, SyncAssumption DEF SyncInv, SyncTyped, SyncRow, SyncCall
<1>2. UnbornUnknown'
  BY <1>a, <1>b, <1>c, SyncAssumption
     DEF SyncInv, SyncTyped, SyncRow, UnbornUnknown, Unborn, Sync!Runs
<1>3. NumbersFresh'
  BY <1>a, <1>b, <1>c, SyncAssumption
     DEF SyncInv, SyncTyped, SyncRow, NumbersFresh, HasRun, Sync!Runs
<1>4. WrittenSettled' BY <1>a DEF SyncInv, WrittenSettled
<1>5. ClosesStale' BY <1>a, <1>c DEF SyncInv, SyncTyped, SyncRow, ClosesStale
<1>6. OneInTask' BY <1>a DEF SyncInv, OneInTask, Alive
<1>7. OneInCron'
  BY <1>a, <1>b, <1>c DEF SyncInv, SyncTyped, SyncRow, OneInCron, Alive, Sync!Openers
<1>8. Sync!RowsTellTheTruth' BY <1>a DEF SyncInv, Sync!RowsTellTheTruth
<1> QED BY <1>1, <1>2, <1>3, <1>4, <1>5, <1>6, <1>7, <1>8 DEF SyncInv

\* So is what the panel's poll means to close.
LEMMA SyncPolls == ASSUME SyncInv, NEW c \in Requests, Sync!Polls(c) PROVE SyncInv'
<1> USE DEF Sync!Polls, Sync!Running, Sync!Abandoned, Sync!books, Sync!Openers
<1>1. SyncTyped' BY SyncAssumption DEF SyncInv, SyncTyped, SyncRow, SyncCall
<1>2. UnbornUnknown'
  BY SyncAssumption DEF SyncInv, SyncTyped, SyncRow, UnbornUnknown, Unborn, SyncCall
<1>3. NumbersFresh'
  BY SyncAssumption DEF SyncInv, SyncTyped, SyncRow, NumbersFresh, HasRun, SyncCall
<1>4. WrittenSettled'
  BY SyncAssumption
     DEF SyncInv, SyncTyped, SyncRow, WrittenSettled, NumbersFresh, HasRun, SyncCall
<1>5. ClosesStale'
  BY SyncAssumption DEF SyncInv, SyncTyped, SyncRow, ClosesStale, SyncCall
<1>6. OneInTask'
  BY SyncAssumption
     DEF SyncInv, SyncTyped, SyncRow, OneInTask, NumbersFresh, HasRun, Alive, SyncCall
<1>7. OneInCron'
  BY SyncAssumption
     DEF SyncInv, SyncTyped, SyncRow, OneInCron, NumbersFresh, HasRun, Alive, SyncCall
<1>8. Sync!RowsTellTheTruth'
  BY SyncAssumption DEF SyncInv, SyncTyped, SyncRow, Sync!RowsTellTheTruth, SyncCall
<1> QED BY <1>1, <1>2, <1>3, <1>4, <1>5, <1>6, <1>7, <1>8 DEF SyncInv

\* The commit: a begun run gets its row, and no other is closed than stale ones.
LEMMA SyncCommits == ASSUME SyncInv, NEW c \in Sync!Openers, Sync!Commits(c) PROVE SyncInv'
<1> DEFINE m == call[c]
<1>a. /\ call \in [Sync!Openers -> SyncCall] /\ m \in SyncCall
      /\ m.pc \in {"closing", "beginning"} /\ m.closes \subseteq Sync!Runs
      /\ UNCHANGED <<present, task, pull, process, written, used>>
      /\ rows \in [Sync!Runs -> SyncRow]
  BY DEF Sync!Commits, SyncInv, SyncTyped, SyncRow, SyncCall
<1> DEFINE closed == Sync!Closing(rows, m.closes)
<1>b. /\ closed \in [Sync!Runs -> SyncRow]
      /\ \A k \in Sync!Runs : closed[k].stale = rows[k].stale
      /\ \A k \in m.closes : closed[k].status = "failed"
      /\ \A k \in Sync!Runs : k \notin m.closes => closed[k] = rows[k]
  BY <1>a DEF Sync!Closing, Sync!Failed, SyncRow
<1>c. /\ UnbornUnknown /\ NumbersFresh /\ WrittenSettled /\ ClosesStale /\ OneInTask
      /\ OneInCron
      /\ Sync!RowsTellTheTruth /\ SyncTyped
  BY DEF SyncInv
<1>d. CASE ~present \/ m.run = None
  <2>1. /\ rows' = (IF present THEN closed ELSE rows) /\ call' = [call EXCEPT ![c] = Sync!NoCall]
        /\ UNCHANGED lastRun
    BY <1>d DEF Sync!Commits
  <2>2. rows' \in [Sync!Runs -> SyncRow]
        /\ \A k \in Sync!Runs : rows'[k].stale = rows[k].stale
    BY <1>a, <1>b, <2>1
  <2>3. \A k \in Sync!Runs : rows'[k] = rows[k] \/ (present /\ k \in m.closes /\ rows'[k].status = "failed" /\ rows[k].stale)
    <3>1. CASE present
      <4>1. \A k \in m.closes : rows[k].stale BY <3>1, <1>c DEF ClosesStale
      <4>2. rows' = closed BY <3>1, <2>1
      <4> HIDE DEF closed, m
      <4> QED BY <3>1, <4>1, <4>2, <1>b
    <3> QED BY <3>1, <2>1
  <2>4. call'[c].pc = "idle" /\ call'[c].run = None /\ call'[c].closes = {} /\ call' \in [Sync!Openers -> SyncCall]
        /\ \A d \in Sync!Openers : d # c => call'[d] = call[d]
    BY <1>a, <2>1 DEF Sync!NoCall, SyncCall
  <2> HIDE DEF closed
  <2>5. SyncTyped' BY <1>a, <1>c, <2>2, <2>4 DEF SyncTyped, SyncRow
  <2>6. UnbornUnknown' BY <1>a, <1>c, <2>3, <2>4 DEF UnbornUnknown, Unborn
  <2>7. NumbersFresh' BY <1>a, <1>c, <2>4 DEF NumbersFresh, HasRun
  <2>8. WrittenSettled' BY <1>a, <1>c DEF WrittenSettled
  <2>9. ClosesStale' BY <1>a, <1>c, <2>2, <2>4 DEF ClosesStale, SyncCall
  <2>10. OneInTask' BY <1>a, <1>c DEF OneInTask, Alive
  <2>11. OneInCron' BY <1>a, <1>c, <2>4 DEF OneInCron, Alive, Sync!Openers
  <2>12. Sync!RowsTellTheTruth' BY <1>a, <1>c, <2>2, <2>3 DEF Sync!RowsTellTheTruth
  <2> QED BY <2>5, <2>6, <2>7, <2>8, <2>9, <2>10, <2>11, <2>12 DEF SyncInv
<1>e. CASE present /\ m.run # None
  <2>1. /\ rows' = [closed EXCEPT ![m.run] = Sync!NewRow]
        /\ call' = [call EXCEPT ![c] = [pc |-> "begun", run |-> m.run, closes |-> {}]]
    BY <1>e DEF Sync!Commits
  <2>4. m.run \in Sync!Runs BY <1>a, <1>e DEF SyncCall
  <2>5. /\ HasRun(c) /\ pull[m.run] = "off" /\ m.run <= used /\ m.pc = "beginning"
        /\ \A d \in Sync!Openers : m.run \notin call[d].closes
    BY <1>a, <1>c, <1>e, <2>4 DEF HasRun, NumbersFresh, UnbornUnknown, Unborn
  <2>6. /\ call' \in [Sync!Openers -> SyncCall]
        /\ call'[c].pc = "begun" /\ call'[c].run = m.run /\ call'[c].closes = {}
        /\ \A d \in Sync!Openers : d # c => call'[d] = call[d]
    BY <1>a, <2>1, <2>4 DEF SyncCall
  <2>7. /\ rows' \in [Sync!Runs -> SyncRow]
        /\ rows'[m.run].status = "running" /\ ~rows'[m.run].stale
        /\ \A k \in Sync!Runs : k # m.run => rows'[k] = closed[k]
    BY <1>a, <1>b, <2>1, <2>4 DEF Sync!NewRow, SyncRow
  <2>8. \A k \in Sync!Runs : k # m.run =>
           /\ rows'[k].stale = rows[k].stale
           /\ rows'[k] = rows[k] \/ (k \in m.closes /\ rows'[k].status = "failed" /\ rows[k].stale)
    <3>1. \A k \in m.closes : rows[k].stale BY <1>e, <1>c DEF ClosesStale
    <3> HIDE DEF closed, m
    <3> QED BY <1>b, <2>7, <3>1
  <2>9. \A d \in Sync!Openers : call[d].closes \subseteq Sync!Runs /\ call'[d].closes \subseteq call[d].closes
    BY <1>a, <2>6 DEF SyncCall
  <2> HIDE DEF closed
  <2>10. SyncTyped' BY <1>a, <1>c, <2>6, <2>7 DEF SyncTyped, SyncRow
  <2>11. UnbornUnknown'
    <3> SUFFICES ASSUME NEW k \in Sync!Runs, Unborn(k)' PROVE rows'[k].status = "none" /\ \A d \in Sync!Openers : k \notin call'[d].closes
      BY DEF UnbornUnknown
    <3>1. k # m.run
      BY <1>a, <1>c, <2>4, <2>5, <2>6, SyncAssumption, SMTT(15)
         DEF Unborn, NumbersFresh, HasRun, Sync!Runs, SyncTyped, SyncRow
    <3>2. Unborn(k) BY <1>a, <2>6 DEF Unborn
    <3> QED BY <1>c, <2>8, <2>9, <3>1, <3>2 DEF UnbornUnknown
  <2>12. NumbersFresh' BY <1>a, <1>c, <2>5, <2>6 DEF NumbersFresh, HasRun
  <2>13. WrittenSettled' BY <1>a, <1>c DEF WrittenSettled
  <2>14. ClosesStale' BY <1>a, <1>c, <1>e, <2>5, <2>6, <2>8, <2>9 DEF ClosesStale
  <2>15. OneInTask' BY <1>a, <1>c DEF OneInTask, Alive
  <2>16. OneInCron' BY <1>a, <1>c, <2>6 DEF OneInCron, Alive, Sync!Openers
  <2>17. Sync!RowsTellTheTruth' BY <1>a, <1>c, <2>7, <2>8 DEF Sync!RowsTellTheTruth
  <2> QED BY <2>10, <2>11, <2>12, <2>13, <2>14, <2>15, <2>16, <2>17 DEF SyncInv
<1> QED BY <1>d, <1>e

\* A request comes back from its commit; the slot of its process must be free.
LEMMA SyncStarts == ASSUME SyncInv, NEW c \in Requests, Sync!Starts(c) PROVE SyncInv'
<1> DEFINE run == call[c].run
<1>a. /\ c \in Sync!Openers /\ call \in [Sync!Openers -> SyncCall] /\ HasRun(c)
      /\ run \in Sync!Runs /\ pull[run] = "off"
      /\ call' = [call EXCEPT ![c] = Sync!NoCall]
      /\ UNCHANGED <<Sync!books, written, used, faults>>
  BY DEF Sync!Starts, SyncInv, SyncTyped, SyncRow, NumbersFresh, HasRun, Sync!Openers
<1>b. /\ call' \in [Sync!Openers -> SyncCall] /\ call'[c] = Sync!NoCall
      /\ call'[c].pc = "idle" /\ call'[c].closes = {}
      /\ \A d \in Sync!Openers : d # c => call'[d] = call[d]
  BY <1>a DEF Sync!NoCall, SyncCall
<1>c. \/ UNCHANGED <<task, pull, process>>
      \/ /\ task = None /\ task' = run /\ pull' = [pull EXCEPT ![run] = "made"]
         /\ process' = [process EXCEPT ![run] = "api"]
  BY DEF Sync!Starts, Sync!Idle
<1>d. /\ SyncTyped /\ UnbornUnknown /\ NumbersFresh /\ WrittenSettled
      /\ ClosesStale /\ OneInTask /\ OneInCron /\ Sync!RowsTellTheTruth
  BY DEF SyncInv
<1>1. SyncTyped' BY <1>a, <1>b, <1>c, <1>d DEF SyncTyped, SyncRow, Sync!books
<1>2. UnbornUnknown'
  BY <1>a, <1>b, <1>d DEF UnbornUnknown, Unborn, Sync!books, SyncTyped, SyncRow
<1>3. NumbersFresh'
  <2>1. \A d \in Sync!Openers : HasRun(d)' => d # c /\ HasRun(d) /\ call'[d] = call[d] /\ call[d].run # run
    BY <1>a, <1>b, <1>d DEF HasRun, NumbersFresh
  <2>2. run <= used BY <1>a, <1>d DEF NumbersFresh
  <2> HIDE DEF run
  <2>3. \A k \in Sync!Runs : k > used' => pull'[k] = "off"
    BY <1>a, <1>c, <1>d, <2>2, SyncAssumption
       DEF NumbersFresh, SyncTyped, SyncRow, Sync!Runs
  <2> QED
    BY <1>a, <1>b, <1>c, <1>d, <2>1, <2>2, <2>3 DEF NumbersFresh, SyncTyped, SyncRow
<1> HIDE DEF run
<1>4. WrittenSettled' BY <1>a, <1>c, <1>d DEF WrittenSettled, SyncTyped, SyncRow
<1>5. ClosesStale' BY <1>a, <1>b, <1>d DEF ClosesStale, Sync!books
<1>6. OneInTask'
  BY <1>a, <1>c, <1>d, SyncAssumption
     DEF OneInTask, Alive, SyncTyped, SyncRow, Sync!Runs
<1>7. OneInCron'
  BY <1>a, <1>b, <1>c, <1>d
     DEF OneInCron, Alive, SyncTyped, SyncRow, Sync!Openers, HasRun
<1>8. Sync!RowsTellTheTruth' BY <1>a, <1>d DEF Sync!RowsTellTheTruth, Sync!books
<1> QED BY <1>1, <1>2, <1>3, <1>4, <1>5, <1>6, <1>7, <1>8 DEF SyncInv

\* A run is loaded.
LEMMA SyncLoads == ASSUME SyncInv, NEW j \in Sync!Runs, Sync!Loads(j) PROVE SyncInv'
<1> USE DEF Sync!Loads, Sync!Moves, Sync!books
<1>1. SyncTyped' BY SyncAssumption DEF SyncInv, SyncTyped, SyncRow, SyncCall
<1>2. UnbornUnknown'
  BY SyncAssumption DEF SyncInv, SyncTyped, SyncRow, UnbornUnknown, Unborn, SyncCall
<1>3. NumbersFresh'
  BY SyncAssumption DEF SyncInv, SyncTyped, SyncRow, NumbersFresh, HasRun, SyncCall
<1>4. WrittenSettled' BY DEF SyncInv, SyncTyped, SyncRow, WrittenSettled, SyncCall
<1>5. ClosesStale' BY DEF SyncInv, SyncTyped, SyncRow, ClosesStale, SyncCall
<1>6. OneInTask' BY DEF SyncInv, SyncTyped, SyncRow, OneInTask, Alive
<1>7. OneInCron' BY DEF SyncInv, SyncTyped, SyncRow, OneInCron, Alive
<1>8. Sync!RowsTellTheTruth' BY DEF SyncInv, SyncTyped, SyncRow, Sync!RowsTellTheTruth
<1> QED BY <1>1, <1>2, <1>3, <1>4, <1>5, <1>6, <1>7, <1>8 DEF SyncInv

\* The catalogue and the finished run commit together.
LEMMA SyncPulled == ASSUME SyncInv, NEW j \in Sync!Runs, Sync!Pulled(j) PROVE SyncInv'
<1>a. Sync!Good(rows[j]) \in SyncRow /\ Sync!Good(rows[j]).status = "ok" /\ Sync!Good(rows[j]).stale = rows[j].stale
  BY DEF SyncInv, SyncTyped, SyncRow, Sync!Good
<1> USE DEF Sync!Pulled, Sync!Moves
<1>1. SyncTyped' BY <1>a, SyncAssumption DEF SyncInv, SyncTyped, SyncRow, SyncCall
<1>2. UnbornUnknown'
  BY <1>a, SyncAssumption
     DEF SyncInv, SyncTyped, SyncRow, UnbornUnknown, Unborn, SyncCall
<1>3. NumbersFresh'
  BY <1>a, SyncAssumption
     DEF SyncInv, SyncTyped, SyncRow, NumbersFresh, HasRun, SyncCall
<1>4. WrittenSettled' BY <1>a DEF SyncInv, SyncTyped, SyncRow, WrittenSettled, SyncCall
<1>5. ClosesStale' BY <1>a DEF SyncInv, SyncTyped, SyncRow, ClosesStale, SyncCall
<1>6. OneInTask' BY <1>a DEF SyncInv, SyncTyped, SyncRow, OneInTask, Alive
<1>7. OneInCron' BY <1>a DEF SyncInv, SyncTyped, SyncRow, OneInCron, Alive
<1>8. Sync!RowsTellTheTruth'
  BY <1>a DEF SyncInv, SyncTyped, SyncRow, Sync!RowsTellTheTruth
<1> QED BY <1>1, <1>2, <1>3, <1>4, <1>5, <1>6, <1>7, <1>8 DEF SyncInv

\* The catalogue rolls back.
LEMMA SyncPullFails == ASSUME SyncInv, NEW j \in Sync!Runs, Sync!PullFails(j) PROVE SyncInv'
<1> USE DEF Sync!PullFails, Sync!Moves, Sync!books
<1>1. SyncTyped' BY SyncAssumption DEF SyncInv, SyncTyped, SyncRow, SyncCall
<1>2. UnbornUnknown'
  BY SyncAssumption DEF SyncInv, SyncTyped, SyncRow, UnbornUnknown, Unborn, SyncCall
<1>3. NumbersFresh'
  BY SyncAssumption DEF SyncInv, SyncTyped, SyncRow, NumbersFresh, HasRun, SyncCall
<1>4. WrittenSettled' BY DEF SyncInv, SyncTyped, SyncRow, WrittenSettled, SyncCall
<1>5. ClosesStale' BY DEF SyncInv, SyncTyped, SyncRow, ClosesStale, SyncCall
<1>6. OneInTask' BY DEF SyncInv, SyncTyped, SyncRow, OneInTask, Alive
<1>7. OneInCron' BY DEF SyncInv, SyncTyped, SyncRow, OneInCron, Alive
<1>8. Sync!RowsTellTheTruth' BY DEF SyncInv, SyncTyped, SyncRow, Sync!RowsTellTheTruth
<1> QED BY <1>1, <1>2, <1>3, <1>4, <1>5, <1>6, <1>7, <1>8 DEF SyncInv

\* What failed is finished in a transaction of its own, or not at all.
LEMMA SyncFinishedDetached == ASSUME SyncInv, NEW j \in Sync!Runs, Sync!FinishedDetached(j) PROVE SyncInv'
<1>a. /\ pull[j] = "failing" /\ pull' = [pull EXCEPT ![j] = "closing"]
      /\ UNCHANGED <<present, lastRun, call, task, process, written, used>>
      /\ \/ rows' = rows
         \/ (rows[j].status = "running" /\ rows' = [rows EXCEPT ![j] = Sync!Failed(rows[j])])
  BY DEF Sync!FinishedDetached, Sync!Moves
<1>b. /\ SyncTyped /\ UnbornUnknown /\ NumbersFresh /\ WrittenSettled
      /\ ClosesStale /\ OneInTask /\ OneInCron /\ Sync!RowsTellTheTruth
  BY DEF SyncInv
<1>c. /\ rows' \in [Sync!Runs -> SyncRow]
      /\ \A k \in Sync!Runs : rows'[k].stale = rows[k].stale
      /\ \A k \in Sync!Runs : rows'[k] = rows[k]
                           \/ (k = j /\ rows[k].status = "running" /\ rows'[k].status = "failed")
  <2>1. CASE rows' = rows BY <2>1, <1>b DEF SyncTyped, SyncRow
  <2>2. CASE rows[j].status = "running" /\ rows' = [rows EXCEPT ![j] = Sync!Failed(rows[j])]
    <3>1. Sync!Failed(rows[j]) \in SyncRow
          /\ Sync!Failed(rows[j]).status = "failed"
          /\ Sync!Failed(rows[j]).stale = rows[j].stale
      BY <1>b DEF SyncTyped, SyncRow, Sync!Failed
    <3> QED BY <2>2, <3>1, <1>b DEF SyncTyped, SyncRow
  <2> QED BY <1>a, <2>1, <2>2
<1>1. SyncTyped' BY <1>a, <1>b, <1>c DEF SyncTyped, SyncRow
<1>2. UnbornUnknown' BY <1>a, <1>b, <1>c DEF UnbornUnknown, Unborn
<1>3. NumbersFresh' BY <1>a, <1>b DEF NumbersFresh, HasRun, SyncTyped, SyncRow
<1>4. WrittenSettled' BY <1>a, <1>b DEF WrittenSettled, SyncTyped, SyncRow
<1>5. ClosesStale' BY <1>a, <1>b, <1>c DEF ClosesStale, SyncTyped, SyncRow, SyncCall
<1>6. OneInTask' BY <1>a, <1>b DEF OneInTask, Alive, SyncTyped, SyncRow
<1>7. OneInCron' BY <1>a, <1>b DEF OneInCron, Alive, SyncTyped, SyncRow
<1>8. Sync!RowsTellTheTruth'
  BY <1>a, <1>b, <1>c DEF Sync!RowsTellTheTruth, WrittenSettled
<1> QED BY <1>1, <1>2, <1>3, <1>4, <1>5, <1>6, <1>7, <1>8 DEF SyncInv

\* The task ends, and its slot is free.
LEMMA SyncEnds == ASSUME SyncInv, NEW j \in Sync!Runs, Sync!Ends(j) PROVE SyncInv'
<1> USE DEF Sync!Ends, Sync!Moves, Sync!books, Sync!NoCall, Sync!Openers
<1>1. SyncTyped' BY SyncAssumption DEF SyncInv, SyncTyped, SyncRow, SyncCall
<1>2. UnbornUnknown'
  BY SyncAssumption DEF SyncInv, SyncTyped, SyncRow, UnbornUnknown, Unborn, SyncCall
<1>3. NumbersFresh'
  BY SyncAssumption DEF SyncInv, SyncTyped, SyncRow, NumbersFresh, HasRun, SyncCall
<1>4. WrittenSettled' BY DEF SyncInv, SyncTyped, SyncRow, WrittenSettled, SyncCall
<1>5. ClosesStale' BY DEF SyncInv, SyncTyped, SyncRow, ClosesStale, SyncCall
<1>6. OneInTask' BY DEF SyncInv, SyncTyped, SyncRow, OneInTask, Alive
<1>7. OneInCron' BY DEF SyncInv, SyncTyped, SyncRow, OneInCron, Alive
<1>8. Sync!RowsTellTheTruth' BY DEF SyncInv, SyncTyped, SyncRow, Sync!RowsTellTheTruth
<1> QED BY <1>1, <1>2, <1>3, <1>4, <1>5, <1>6, <1>7, <1>8 DEF SyncInv

\* Two hours pass.
LEMMA SyncGrowsStale == ASSUME SyncInv, NEW j \in Sync!Runs, Sync!GrowsStale(j) PROVE SyncInv'
<1> USE DEF Sync!GrowsStale
<1>1. SyncTyped' BY SyncAssumption, ZenonT(30) DEF SyncInv, SyncTyped, SyncRow, SyncCall
<1>2. UnbornUnknown'
  BY SyncAssumption DEF SyncInv, SyncTyped, SyncRow, UnbornUnknown, Unborn, SyncCall
<1>3. NumbersFresh'
  BY SyncAssumption DEF SyncInv, SyncTyped, SyncRow, NumbersFresh, HasRun, SyncCall
<1>4. WrittenSettled' BY DEF SyncInv, SyncTyped, SyncRow, WrittenSettled, SyncCall
<1>5. ClosesStale' BY DEF SyncInv, SyncTyped, SyncRow, ClosesStale, SyncCall
<1>6. OneInTask' BY DEF SyncInv, SyncTyped, SyncRow, OneInTask, Alive
<1>7. OneInCron' BY DEF SyncInv, SyncTyped, SyncRow, OneInCron, Alive
<1>8. Sync!RowsTellTheTruth' BY DEF SyncInv, SyncTyped, SyncRow, Sync!RowsTellTheTruth
<1> QED BY <1>1, <1>2, <1>3, <1>4, <1>5, <1>6, <1>7, <1>8 DEF SyncInv

\* The source is deleted: every row goes.
LEMMA SyncDeletes == ASSUME SyncInv, Sync!Deletes PROVE SyncInv'
<1> USE DEF Sync!Deletes, Sync!books, Sync!NoRow
<1>1. SyncTyped' BY SyncAssumption DEF SyncInv, SyncTyped, SyncRow, SyncCall
<1>2. UnbornUnknown'
  BY SyncAssumption DEF SyncInv, SyncTyped, SyncRow, UnbornUnknown, Unborn, SyncCall
<1>3. NumbersFresh'
  BY SyncAssumption DEF SyncInv, SyncTyped, SyncRow, NumbersFresh, HasRun, SyncCall
<1>4. WrittenSettled' BY DEF SyncInv, SyncTyped, SyncRow, WrittenSettled, SyncCall
<1>5. ClosesStale' BY DEF SyncInv, SyncTyped, SyncRow, ClosesStale, SyncCall
<1>6. OneInTask' BY DEF SyncInv, SyncTyped, SyncRow, OneInTask, Alive
<1>7. OneInCron' BY DEF SyncInv, SyncTyped, SyncRow, OneInCron, Alive
<1>8. Sync!RowsTellTheTruth' BY DEF SyncInv, SyncTyped, SyncRow, Sync!RowsTellTheTruth
<1> QED BY <1>1, <1>2, <1>3, <1>4, <1>5, <1>6, <1>7, <1>8 DEF SyncInv

\* A process dies, and its executions with it.
LEMMA SyncDies == ASSUME SyncInv, NEW p \in {"api", "worker"}, Sync!Dies(p) PROVE SyncInv'
<1> USE DEF Sync!Dies, Sync!books, Sync!NoCall, Sync!Openers, Sync!Fault
<1>1. SyncTyped' BY SyncAssumption DEF SyncInv, SyncTyped, SyncRow, SyncCall
<1>2. UnbornUnknown'
  BY SyncAssumption DEF SyncInv, SyncTyped, SyncRow, UnbornUnknown, Unborn, SyncCall
<1>3. NumbersFresh'
  BY SyncAssumption DEF SyncInv, SyncTyped, SyncRow, NumbersFresh, HasRun, SyncCall
<1>4. WrittenSettled' BY DEF SyncInv, SyncTyped, SyncRow, WrittenSettled, SyncCall
<1>5. ClosesStale' BY DEF SyncInv, SyncTyped, SyncRow, ClosesStale, SyncCall
<1>6. OneInTask' BY DEF SyncInv, SyncTyped, SyncRow, OneInTask, Alive
<1>7. OneInCron' BY DEF SyncInv, SyncTyped, SyncRow, OneInCron, Alive
<1>8. Sync!RowsTellTheTruth' BY DEF SyncInv, SyncTyped, SyncRow, Sync!RowsTellTheTruth
<1> QED BY <1>1, <1>2, <1>3, <1>4, <1>5, <1>6, <1>7, <1>8 DEF SyncInv


\* Every step keeps the invariant.
LEMMA SyncInvariant == SyncInv /\ [Sync!Next]_(Sync!vars) => SyncInv'
<1> SUFFICES ASSUME SyncInv, [Sync!Next]_(Sync!vars) PROVE SyncInv' OBVIOUS
<1>1. CASE UNCHANGED Sync!vars
  BY <1>1 DEF Sync!vars, Sync!books, SyncInv, SyncTyped, SyncRow, UnbornUnknown,
     Unborn, NumbersFresh, HasRun, WrittenSettled, ClosesStale, OneInTask, OneInCron,
     Alive, Sync!RowsTellTheTruth
<1>2. CASE Sync!Executing
  BY <1>2, SyncLoads, SyncPulled, SyncFinishedDetached, SyncEnds, SyncCommits,
     SyncStarts, SyncCronStarts DEF Sync!Executing
<1>3. CASE Sync!Deletes BY <1>3, SyncDeletes
<1>4. CASE \E c \in Sync!Openers : Sync!Checks(c) BY <1>4, SyncChecks
<1>5. CASE \E r \in Requests : Sync!Polls(r) BY <1>5, SyncPolls
<1>6. CASE \E k \in Sync!Runs : Sync!PullFails(k) \/ Sync!GrowsStale(k)
  BY <1>6, SyncPullFails, SyncGrowsStale
<1>7. CASE \E p \in {"api", "worker"} : Sync!Dies(p) BY <1>7, SyncDies
<1> QED BY <1>1, <1>2, <1>3, <1>4, <1>5, <1>6, <1>7 DEF Sync!Next

\* Two executions in one process would both be the one its slot names.
LEMMA SyncTogether == SyncInv => Sync!OnePullPerProcess
  BY SyncAssumption DEF SyncInv, SyncTyped, SyncRow, NumbersFresh, OneInTask,
     OneInCron, Alive, Sync!OnePullPerProcess, Sync!Pulling, Sync!Runs

\* A step of the run is a step of the pulls, or leaves them alone.
LEMMA ServicesSync ==
    /\ ServicesInit => Sync!Init
    /\ [ServicesNext]_allVars => [Sync!Next]_(Sync!vars)
<1>1. ServicesInit => Sync!Init BY DEF ServicesInit
<1>2. [ServicesNext]_allVars => [Sync!Next]_(Sync!vars)
  BY DEF ServicesNext, allVars, sync, Sync!vars, Sync!books, InBreaker, InSync, InSpeech
<1> QED BY <1>1, <1>2

\* The pulls alone: the detailed invariant holds, and with it both properties.
THEOREM SyncSafe == Sync!Spec => [](SyncInv /\ Sync!OnePullPerProcess)
BY SyncInitially, SyncInvariant, SyncTogether, PTL DEF Sync!Spec

\* A good run's rows are in the catalogue, and a failed run's are not unless a
\* reader took it for abandoned and closed its row over it.
THEOREM ServicesRowsTrue == ServicesSpec => []RowsTellTheTruth
<1>1. SyncInv => RowsTellTheTruth BY DEF SyncInv, RowsTellTheTruth
<1> QED BY <1>1, ServicesSync, SyncInitially, SyncInvariant, PTL DEF ServicesSpec

\* No two pulls of the source run in one process, however the requests, the
\* scheduled pulls and the ends of the tasks interleave.
THEOREM ServicesOnePull == ServicesSpec => []OnePullPerProcess
<1>1. SyncInv => OnePullPerProcess BY SyncTogether DEF OnePullPerProcess
<1> QED BY <1>1, ServicesSync, SyncInitially, SyncInvariant, PTL DEF ServicesSpec

-----------------------------------------------------------------------------
(* The playback of an answer                                               *)

\* Where each sentence starts, when the sentences have those lengths.
Starts(s) ==
    CHOOSE f : f = [i \in 1..(MaxSentences + 1) |-> IF i = 1 THEN 0 ELSE f[i - 1] + s[i - 1]]

\* There is such a function: by the least number of sentences there is none for.
LEMMA StartsThere ==
  ASSUME NEW s, NEW N \in Nat
  PROVE  \E f : f = [i \in 1..(N + 1) |-> IF i = 1 THEN 0 ELSE f[i - 1] + s[i - 1]]
<1> DEFINE Is(f, n) == f = [i \in 1..(n + 1) |-> IF i = 1 THEN 0 ELSE f[i - 1] + s[i - 1]]
           T == {n \in Nat : ~\E f : Is(f, n)}
<1>1. SUFFICES ASSUME T # {} PROVE FALSE
  BY DEF T
<1>2. PICK n \in T : \A m \in T : n <= m
  BY <1>1, LeastNat
<1>3. CASE n = 0
  <2>1. Is([i \in 1..1 |-> 0], 0) BY SMT
  <2> HIDE DEF Is
  <2> QED BY <1>3, <2>1
<1>4. CASE n # 0
  <2>5. n \in Nat /\ T \subseteq Nat BY <1>2
  <2>1. n - 1 \in Nat /\ n - 1 \notin T
    <3> HIDE DEF T
    <3> QED BY <1>2, <1>4, <2>5
  <2>2. PICK f : Is(f, n - 1) BY <2>1
  <2> DEFINE g == [i \in 1..(n + 1) |-> IF i = n + 1 THEN f[n] + s[n] ELSE f[i]]
  <2>3. ASSUME NEW i \in 1..(n + 1)
        PROVE  g[i] = IF i = 1 THEN 0 ELSE g[i - 1] + s[i - 1]
    <3>1. DOMAIN f = 1..n /\ \A j \in 1..n : f[j] = IF j = 1 THEN 0 ELSE f[j - 1] + s[j - 1]
      BY <2>1, <2>2
    <3>2. CASE i = n + 1 BY <1>4, <3>2
    <3>3. CASE i # n + 1
      <4>1. i \in 1..n /\ g[i] = f[i] BY <3>3
      <4>2. i # 1 => i - 1 \in 1..(n + 1) /\ i - 1 # n + 1 BY <4>1
      <4>3. i # 1 => g[i - 1] = f[i - 1] BY <4>2
      <4> HIDE DEF g
      <4> QED BY <3>1, <4>1, <4>3
    <3> QED BY <3>2, <3>3
  <2>4. Is(g, n) BY <2>3
  <2> HIDE DEF Is
  <2> QED BY <2>4
<1> QED BY <1>3, <1>4

\* The first starts at nothing, and each where the one before it ends.
LEMMA StartsAre ==
  ASSUME NEW s
  PROVE  /\ Starts(s)[1] = 0
         /\ \A i \in 1..MaxSentences : Starts(s)[i + 1] = Starts(s)[i] + s[i]
<1>1. MaxSentences \in Nat BY PlaybackAssumption
<1>2. Starts(s) = [i \in 1..(MaxSentences + 1) |->
                     IF i = 1 THEN 0 ELSE Starts(s)[i - 1] + s[i - 1]]
  BY <1>1, StartsThere DEF Starts
<1> DEFINE f == Starts(s)
<1>3. f = [i \in 1..(MaxSentences + 1) |-> IF i = 1 THEN 0 ELSE f[i - 1] + s[i - 1]]
  BY <1>2
<1> HIDE DEF f
<1>4. f[1] = 0 BY <1>1, <1>3
<1>5. ASSUME NEW i \in 1..MaxSentences PROVE f[i + 1] = f[i] + s[i]
  <2>1. i + 1 \in 1..(MaxSentences + 1) /\ i + 1 # 1 /\ (i + 1) - 1 = i BY <1>1
  <2>2. f[i + 1] = f[(i + 1) - 1] + s[(i + 1) - 1] BY <1>3, <2>1
  <2> QED BY <2>1, <2>2
<1> QED BY <1>4, <1>5 DEF f

\* Equal lengths, equal starts.
LEMMA StartsAgree ==
  ASSUME NEW s, NEW t, NEW m \in 0..MaxSentences, \A j \in 1..m : s[j] = t[j]
  PROVE  \A i \in 1..(m + 1) : Starts(s)[i] = Starts(t)[i]
<1> DEFINE T == {n \in 1..(m + 1) : Starts(s)[n] # Starts(t)[n]}
<1>0. MaxSentences \in Nat /\ m \in Nat /\ T \subseteq Nat BY PlaybackAssumption
<1>1. SUFFICES ASSUME T # {} PROVE FALSE
  OBVIOUS
<1>2. PICK n \in T : \A k \in T : n <= k
  BY <1>0, <1>1, LeastNat
<1>3. n # 1 BY <1>2, StartsAre
<1>4. n - 1 \in 1..m /\ n - 1 \notin T BY <1>0, <1>2, <1>3
<1>5. Starts(s)[n - 1] = Starts(t)[n - 1] /\ s[n - 1] = t[n - 1] BY <1>0, <1>4
<1>6. n - 1 \in 1..MaxSentences /\ (n - 1) + 1 = n BY <1>0, <1>4
<1>7. Starts(s)[n] = Starts(s)[n - 1] + s[n - 1] /\ Starts(t)[n] = Starts(t)[n - 1] + t[n - 1]
  BY <1>6, StartsAre
<1> QED BY <1>2, <1>5, <1>7

\* Starts are numbers and do not go down.
LEMMA StartsGrow ==
  ASSUME NEW s, NEW m \in 0..MaxSentences, \A j \in 1..m : s[j] \in Nat
  PROVE  /\ \A i \in 1..(m + 1) : Starts(s)[i] \in Nat
         /\ \A i, j \in 1..(m + 1) : i <= j => Starts(s)[i] <= Starts(s)[j]
<1>0. MaxSentences \in Nat /\ m \in Nat BY PlaybackAssumption
<1>1. \A i \in 1..(m + 1) : Starts(s)[i] \in Nat
  <2> DEFINE T == {n \in 1..(m + 1) : Starts(s)[n] \notin Nat}
  <2>0. T \subseteq Nat BY <1>0
  <2>1. SUFFICES ASSUME T # {} PROVE FALSE
    OBVIOUS
  <2>2. PICK n \in T : \A k \in T : n <= k
    BY <2>0, <2>1, LeastNat
  <2>3. n # 1 BY <2>2, StartsAre
  <2>4. n - 1 \in 1..m /\ n - 1 \notin T BY <1>0, <2>2, <2>3
  <2>5. Starts(s)[n - 1] \in Nat /\ s[n - 1] \in Nat BY <1>0, <2>4
  <2>6. n - 1 \in 1..MaxSentences /\ (n - 1) + 1 = n BY <1>0, <2>4
  <2>7. Starts(s)[n] = Starts(s)[n - 1] + s[n - 1] BY <2>6, StartsAre
  <2> QED BY <2>2, <2>5, <2>7
<1>2. ASSUME NEW i \in 1..(m + 1), NEW j \in 1..(m + 1), i <= j
      PROVE  Starts(s)[i] <= Starts(s)[j]
  <2> DEFINE T == {n \in i..(m + 1) : ~(Starts(s)[i] <= Starts(s)[n])}
  <2>0. T \subseteq Nat BY <1>0
  <2>1. SUFFICES ASSUME T # {} PROVE FALSE
    BY <1>2
  <2>2. PICK n \in T : \A k \in T : n <= k
    BY <2>0, <2>1, LeastNat
  <2>3. n # i BY <1>1, <2>2
  <2>4. n - 1 \in i..m /\ n - 1 \in 1..m /\ n - 1 \notin T BY <1>0, <2>2, <2>3
  <2>5. Starts(s)[i] <= Starts(s)[n - 1] /\ s[n - 1] \in Nat BY <1>0, <2>4
  <2>6. n - 1 \in 1..MaxSentences /\ (n - 1) + 1 = n BY <1>0, <2>4
  <2>7. Starts(s)[n] = Starts(s)[n - 1] + s[n - 1] BY <2>6, StartsAre
  <2>8. Starts(s)[i] \in Nat /\ Starts(s)[n - 1] \in Nat BY <1>0, <1>1, <2>4
  <2> QED BY <2>2, <2>5, <2>7, <2>8
<1> QED BY <1>1, <1>2

\* The starts that the tracker computes, and those of the answer.
LEMMA StartIs == Speech!Start = Starts(segments)
  BY DEF Speech!Start, Starts

LEMMA FullStartIs == Speech!FullStart = Starts([j \in 1..MaxSentences |-> answer[j].bytes])
<1> DEFINE s == [j \in 1..MaxSentences |-> answer[j].bytes]
           U(f) == [i \in 1..(MaxSentences + 1) |-> IF i = 1 THEN 0 ELSE f[i - 1] + s[i - 1]]
           V(f) == [i \in 1..(MaxSentences + 1) |->
                      IF i = 1 THEN 0 ELSE f[i - 1] + answer[i - 1].bytes]
<1>0. MaxSentences \in Nat BY PlaybackAssumption
<1>1. ASSUME NEW f PROVE U(f) = V(f)
  <2>1. ASSUME NEW i \in 1..(MaxSentences + 1), i # 1 PROVE s[i - 1] = answer[i - 1].bytes
    <3>1. i - 1 \in 1..MaxSentences BY <1>0, <2>1
    <3> QED BY <3>1
  <2> HIDE DEF s
  <2> QED BY <2>1
<1>2. Speech!FullStart = CHOOSE f : f = V(f) BY DEF Speech!FullStart
<1>3. Starts(s) = CHOOSE f : f = U(f) BY DEF Starts
<1> HIDE DEF U, V, s
<1>4. (CHOOSE f : f = V(f)) = (CHOOSE f : f = U(f)) BY <1>1
<1> QED BY <1>2, <1>3, <1>4 DEF s
-----------------------------------------------------------------------------
\* The bytes of some frames, and the most that padding may add to some sentences.
Frames(n) == Frame * n
Padding(n) == (Frame - 1) * n

\* Multiplication does not turn numbers round.
LEMMA Products ==
  ASSUME NEW a \in Int, NEW b \in Int, a <= b, NEW c \in Nat
  PROVE  c * a <= c * b
<1>1. c * (b - a) >= 0 BY SMT
<1>2. c * (b - a) = c * b - c * a BY SMT
<1>3. c * a \in Int /\ c * b \in Int BY SMT
<1> QED BY <1>1, <1>2, <1>3

\* What the proofs use of the two products.
LEMMA FramesAre ==
    /\ \A n \in Int : Frames(n) \in Int /\ Frames(n + 1) = Frames(n) + Frame
    /\ Frames(0) = 0
    /\ \A a, b \in Int : a <= b => Frames(a) <= Frames(b)
<1> Frame \in Nat /\ Frame > 0 BY PlaybackAssumption
<1>1. \A n \in Int : Frames(n) \in Int /\ Frames(n + 1) = Frames(n) + Frame
  BY DEF Frames
<1>2. Frames(0) = 0 BY DEF Frames
<1>3. \A a, b \in Int : a <= b => Frames(a) <= Frames(b) BY Products DEF Frames
<1> QED BY <1>1, <1>2, <1>3

LEMMA PaddingIs ==
    /\ \A n \in Int : Padding(n) \in Int /\ Padding(n + 1) = Padding(n) + (Frame - 1)
    /\ Padding(0) = 0
    /\ \A a, b \in Int : a <= b => Padding(a) <= Padding(b)
<1> Frame - 1 \in Nat BY PlaybackAssumption
<1>1. \A n \in Int : Padding(n) \in Int /\ Padding(n + 1) = Padding(n) + (Frame - 1)
  BY DEF Padding
<1>2. Padding(0) = 0 BY DEF Padding
<1>3. \A a, b \in Int : a <= b => Padding(a) <= Padding(b) BY Products DEF Padding
<1> QED BY <1>1, <1>2, <1>3

\* The whole frames in some bytes, and what is left of them.
LEMMA WholeFrames ==
  ASSUME NEW a \in Nat
  PROVE  /\ a \div Frame \in Nat /\ a % Frame \in 0..(Frame - 1)
         /\ (a \div Frame) * Frame \in Nat
         /\ ((a \div Frame) * Frame) + (a % Frame) = a
<1> Frame \in Nat /\ Frame > 0 BY PlaybackAssumption
<1>1. a \div Frame \in Nat /\ a % Frame \in 0..(Frame - 1) BY SMT
<1>2. ((a \div Frame) * Frame) + (a % Frame) = a BY SMT
<1>3. (a \div Frame) * Frame \in Nat BY <1>1, SMT
<1> QED BY <1>1, <1>2, <1>3

\* A multiple of a frame that is not nothing is a frame and a multiple.
LEMMA NextFrame ==
  ASSUME NEW k \in Nat, k * Frame > 0
  PROVE  k - 1 \in Nat /\ k * Frame >= Frame /\ k * Frame - Frame = (k - 1) * Frame
<1> Frame \in Nat /\ Frame > 0 BY PlaybackAssumption
<1>1. k # 0 BY SMT
<1>2. k - 1 \in Nat BY <1>1
<1>3. (k - 1) * Frame = k * Frame - Frame BY SMT
<1>4. (k - 1) * Frame >= 0 BY <1>2, SMT
<1>5. k * Frame \in Int BY SMT
<1> QED BY <1>2, <1>3, <1>4, <1>5

-----------------------------------------------------------------------------
\* P[k] is what the first k frames of the buffer hold.
Sums(q, P) ==
    /\ P \in [0..Len(q) -> Nat] /\ P[0] = 0
    /\ \A i \in 1..Len(q) : P[i] = P[i - 1] + q[i]
    /\ \A i, j \in 0..Len(q) : i <= j => P[i] <= P[j]

\* One more frame in the buffer, and one fewer.
LEMMA SumsLonger ==
  ASSUME NEW q \in Seq(Nat), NEW P, Sums(q, P), NEW n \in Nat
  PROVE  LET Q == [k \in 0..(Len(q) + 1) |-> IF k = Len(q) + 1 THEN P[Len(q)] + n ELSE P[k]]
         IN  Sums(Append(q, n), Q)
<1> DEFINE r == Append(q, n)
           Q == [k \in 0..(Len(q) + 1) |-> IF k = Len(q) + 1 THEN P[Len(q)] + n ELSE P[k]]
<1>1. /\ Len(r) = Len(q) + 1 /\ Len(q) \in Nat /\ r[Len(q) + 1] = n
      /\ \A i \in 1..Len(q) : r[i] = q[i]
  OBVIOUS
<1>2. /\ P \in [0..Len(q) -> Nat] /\ P[0] = 0
      /\ \A i \in 1..Len(q) : P[i] = P[i - 1] + q[i]
      /\ \A i, j \in 0..Len(q) : i <= j => P[i] <= P[j]
  BY DEF Sums
<1> HIDE DEF r
<1>3. P[Len(q)] \in Nat /\ \A k \in 0..Len(q) : P[k] \in Nat /\ P[k] <= P[Len(q)]
  BY <1>1, <1>2, SMTT(15)
<1>4. Q \in [0..Len(r) -> Nat] /\ Q[0] = 0 BY <1>1, <1>2, <1>3
<1>5. /\ Q[Len(q) + 1] = P[Len(q)] + n
      /\ \A k \in 0..Len(q) : Q[k] = P[k]
  BY <1>1
<1> HIDE DEF Q
<1>6. ASSUME NEW i \in 1..Len(r) PROVE Q[i] = Q[i - 1] + r[i]
  <2>1. CASE i = Len(q) + 1
    <3>1. i - 1 = Len(q) /\ i - 1 \in 0..Len(q) BY <1>1, <2>1
    <3> QED BY <1>1, <1>5, <2>1, <3>1
  <2>2. CASE i # Len(q) + 1
    <3>1. i \in 1..Len(q) /\ i - 1 \in 0..Len(q) /\ i \in 0..Len(q) BY <1>1, <2>2
    <3> QED BY <1>1, <1>2, <1>5, <3>1
  <2> QED BY <2>1, <2>2
<1>7. ASSUME NEW i \in 0..Len(r), NEW j \in 0..Len(r), i <= j PROVE Q[i] <= Q[j]
  <2>1. CASE j = Len(q) + 1
    <3>1. i \in 0..Len(q) \/ i = j BY <1>1, <2>1
    <3> QED BY <1>3, <1>5, <2>1, <3>1
  <2>2. CASE j # Len(q) + 1
    <3>1. i \in 0..Len(q) /\ j \in 0..Len(q) BY <1>1, <1>7, <2>2
    <3> QED BY <1>2, <1>5, <1>7, <3>1
  <2> QED BY <2>1, <2>2
<1>8. Sums(r, Q) BY <1>4, <1>6, <1>7 DEF Sums
<1> QED BY <1>8 DEF r, Q

LEMMA SumsShorter ==
  ASSUME NEW q \in Seq(Nat), NEW P, Sums(q, P), q # <<>>
  PROVE  /\ P[1] = Head(q) /\ Head(q) \in Nat
         /\ Sums(Tail(q), [k \in 0..(Len(q) - 1) |-> P[k + 1] - Head(q)])
<1> DEFINE r == Tail(q)
           Q == [k \in 0..(Len(q) - 1) |-> P[k + 1] - Head(q)]
<1>1. /\ Len(r) = Len(q) - 1 /\ Len(q) \in Nat /\ Len(q) > 0 /\ Head(q) = q[1]
      /\ q[1] \in Nat
      /\ \A i \in 1..Len(r) : r[i] = q[i + 1]
  OBVIOUS
<1>2. /\ P \in [0..Len(q) -> Nat] /\ P[0] = 0
      /\ \A i \in 1..Len(q) : P[i] = P[i - 1] + q[i]
      /\ \A i, j \in 0..Len(q) : i <= j => P[i] <= P[j]
  BY DEF Sums
<1> HIDE DEF r
<1>3. P[1] = Head(q)
  <2>1. 1 \in 1..Len(q) BY <1>1
  <2>2. P[1] = P[1 - 1] + q[1] BY <1>2, <2>1
  <2> QED BY <1>1, <1>2, <2>2
<1>4. \A k \in 0..Len(r) : k + 1 \in 0..Len(q) /\ k + 1 \in 1..Len(q) /\ P[k + 1] \in Nat
                           /\ P[1] <= P[k + 1]
  <2> SUFFICES ASSUME NEW k \in 0..Len(r) PROVE
         k + 1 \in 0..Len(q) /\ k + 1 \in 1..Len(q) /\ P[k + 1] \in Nat /\ P[1] <= P[k + 1]
    OBVIOUS
  <2>1. k + 1 \in 0..Len(q) /\ k + 1 \in 1..Len(q) /\ 1 \in 0..Len(q) /\ 1 <= k + 1
    BY <1>1
  <2> QED BY <1>2, <2>1
<1>5. DOMAIN Q = 0..Len(r) /\ \A k \in 0..Len(r) : Q[k] = P[k + 1] - P[1]
  BY <1>1, <1>3
<1> Q = [k \in 0..(Len(q) - 1) |-> P[k + 1] - Head(q)] OBVIOUS
<1> HIDE DEF Q
<1>6. Q \in [0..Len(r) -> Nat]
  <2>1. \A k \in 0..Len(r) : Q[k] \in Nat BY <1>1, <1>3, <1>4, <1>5
  <2>2. Q = [k \in 0..Len(r) |-> Q[k]] BY <1>1, <1>5
  <2> QED BY <2>1, <2>2
<1>7. Q[0] = 0
  <2>1. 0 \in 0..Len(r) BY <1>1
  <2>2. Q[0] = P[0 + 1] - P[1] BY <1>5, <2>1
  <2> QED BY <1>1, <1>3, <2>2
<1>8. ASSUME NEW i \in 1..Len(r) PROVE Q[i] = Q[i - 1] + r[i]
  <2>1. /\ i \in 0..Len(r) /\ i - 1 \in 0..Len(r) /\ (i - 1) + 1 = i /\ (i + 1) - 1 = i
        /\ i \in 0..Len(q) /\ i + 1 \in 0..Len(q) /\ i + 1 \in 1..Len(q) /\ 1 \in 0..Len(q)
    BY <1>1
  <2>2. Q[i] = P[i + 1] - P[1] /\ Q[i - 1] = P[i] - P[1] BY <1>5, <2>1
  <2>3. P[i + 1] = P[i] + q[i + 1] BY <1>2, <1>4, <2>1
  <2>4. P[i] \in Nat /\ P[i + 1] \in Nat /\ P[1] \in Nat
    BY <1>2, <2>1
  <2>5. q[i + 1] \in Nat BY <2>1
  <2>6. r[i] = q[i + 1] BY <1>1
  <2>7. P[i + 1] - P[1] = (P[i] - P[1]) + q[i + 1] BY <2>3, <2>4, <2>5, SMTT(15)
  <2> QED BY <2>2, <2>6, <2>7
<1>9. ASSUME NEW i \in 0..Len(r), NEW j \in 0..Len(r), i <= j PROVE Q[i] <= Q[j]
  <2>1. i + 1 <= j + 1 /\ i + 1 \in 0..Len(q) /\ j + 1 \in 0..Len(q) BY <1>1, <1>4, <1>9
  <2>2. P[i + 1] <= P[j + 1] /\ P[i + 1] \in Nat /\ P[j + 1] \in Nat /\ P[1] \in Nat
    BY <1>1, <1>2, <1>3, <1>4, <2>1
  <2>3. Q[i] = P[i + 1] - P[1] /\ Q[j] = P[j + 1] - P[1] BY <1>5
  <2> QED BY <2>2, <2>3, SMTT(15)
<1>10. Sums(r, Q) BY <1>6, <1>7, <1>8, <1>9 DEF Sums
<1> QED BY <1>1, <1>3, <1>10 DEF r
-----------------------------------------------------------------------------
\* One more sentence.
LEMMA StartsLonger ==
  ASSUME NEW s \in Seq(Nat), Len(s) < MaxSentences, NEW n \in Nat
  PROVE  /\ \A m \in 1..(Len(s) + 1) : Starts(Append(s, n))[m] = Starts(s)[m]
         /\ Starts(Append(s, n))[Len(s) + 2] = Starts(s)[Len(s) + 1] + n
<1> DEFINE r == Append(s, n)
<1>0. MaxSentences \in Nat /\ Len(s) \in Nat BY PlaybackAssumption
<1>1. r[Len(s) + 1] = n /\ \A j \in 1..Len(s) : r[j] = s[j] OBVIOUS
<1>2. Len(s) \in 0..MaxSentences /\ Len(s) + 1 \in 1..MaxSentences /\ (Len(s) + 1) + 1 = Len(s) + 2
  BY <1>0
<1> HIDE DEF r
<1>3. \A m \in 1..(Len(s) + 1) : Starts(r)[m] = Starts(s)[m] BY <1>1, <1>2, StartsAgree
<1>4. Starts(r)[(Len(s) + 1) + 1] = Starts(r)[Len(s) + 1] + r[Len(s) + 1]
  BY <1>2, StartsAre
<1>5. Len(s) + 1 \in 1..(Len(s) + 1) BY <1>0
<1>6. Starts(r)[Len(s) + 2] = Starts(s)[Len(s) + 1] + n BY <1>1, <1>2, <1>3, <1>4, <1>5
<1> QED BY <1>3, <1>6 DEF r

\* The last one grows.
LEMMA StartsHigher ==
  ASSUME NEW s \in Seq(Nat), Len(s) > 0, Len(s) <= MaxSentences, NEW n \in Nat,
         NEW r, r[Len(s)] = s[Len(s)] + n, \A j \in 1..(Len(s) - 1) : r[j] = s[j]
  PROVE  /\ \A m \in 1..Len(s) : Starts(r)[m] = Starts(s)[m]
         /\ Starts(r)[Len(s) + 1] = Starts(s)[Len(s) + 1] + n
<1>0. MaxSentences \in Nat /\ Len(s) \in Nat /\ Len(s) > 0 BY PlaybackAssumption
<1>1. r[Len(s)] = s[Len(s)] + n /\ \A j \in 1..(Len(s) - 1) : r[j] = s[j] OBVIOUS
<1>2. Len(s) - 1 \in 0..MaxSentences /\ Len(s) \in 1..MaxSentences /\ (Len(s) - 1) + 1 = Len(s)
  BY <1>0
<1>3. \A m \in 1..Len(s) : Starts(r)[m] = Starts(s)[m]
  <2>1. PICK k : k = Len(s) - 1 OBVIOUS
  <2>2. k \in 0..MaxSentences /\ \A j \in 1..k : r[j] = s[j] BY <1>1, <1>2, <2>1
  <2>3. \A m \in 1..(k + 1) : Starts(r)[m] = Starts(s)[m]
    BY <2>2, StartsAgree
  <2> QED BY <1>2, <2>1, <2>3
<1>4. Starts(r)[Len(s) + 1] = Starts(r)[Len(s)] + r[Len(s)] BY <1>2, StartsAre
<1>5. Starts(s)[Len(s) + 1] = Starts(s)[Len(s)] + s[Len(s)] BY <1>2, StartsAre
<1>6. Len(s) \in 1..Len(s) /\ s[Len(s)] \in Nat BY <1>0
<1>7. Starts(s)[Len(s)] \in Nat /\ Starts(r)[Len(s)] = Starts(s)[Len(s)]
  <2>1. \A j \in 1..Len(s) : s[j] \in Nat OBVIOUS
  <2>2. Len(s) \in 0..MaxSentences /\ Len(s) \in 1..(Len(s) + 1) BY <1>0
  <2> QED BY <1>3, <1>6, <2>1, <2>2, StartsGrow
<1>8. Starts(r)[Len(s) + 1] = Starts(s)[Len(s)] + (s[Len(s)] + n) BY <1>1, <1>4, <1>7
<1>9. Starts(r)[Len(s) + 1] = Starts(s)[Len(s) + 1] + n BY <1>5, <1>6, <1>7, <1>8
<1> QED BY <1>3, <1>9

-----------------------------------------------------------------------------
Sentences == [bytes : Nat, whole : BOOLEAN]

\* What the variables of the playback may be, phase by phase.
SpeechShapes ==
    /\ answer \in Seq(Sentences) /\ Len(answer) \in 1..MaxSentences
    /\ segments \in Seq(Nat) /\ Len(segments) <= Len(answer)
    /\ buffer \in Seq(Nat) /\ Len(buffer) <= Jitter
    /\ at \in 1..(Len(answer) + 1) /\ cancelled \in BOOLEAN
    /\ arrived \in Nat /\ residue \in Nat /\ toSend \in Nat /\ sent \in Nat /\ ear \in Nat
    /\ phase \in {"next", "chunks", "tail", "over"}
Phases ==
    /\ phase = "next" => Len(segments) = at - 1 /\ toSend = 0 /\ residue = 0 /\ arrived = 0
    /\ phase \in {"chunks", "tail"} => Len(segments) = at
    /\ phase = "tail" => residue = 0
    /\ phase = "over" => toSend = 0
    /\ phase = "chunks" =>
          ~answer[at].whole /\ segments[at] = arrived /\ \E k \in Nat : toSend = k * Frame

\* A segment has the bytes of its sentence, unless the sentence was still coming.
Registered ==
    \A i \in 1..Len(segments) :
        \/ segments[i] = answer[i].bytes
        \/ i = Len(segments) /\ phase \in {"chunks", "over"} /\ ~answer[i].whole

\* The sentences whose last frame is sent, and the bytes registered.
Finished == Len(segments) - (IF phase = "chunks" \/ toSend > 0 THEN 1 ELSE 0)
Total(s) == Starts(s)[Len(s) + 1]

\* h bytes of speech are no more frames than they and their padding fill: a frame
\* for each sentence that is finished, and for each that h is past.
Near(s, d, h, f) ==
    /\ f <= h + Padding(d)
    /\ \A m \in 1..Len(s) : h < Starts(s)[m + 1] => f <= h + Padding(m - 1)

\* Until the cut every byte registered is heard, buffered or to be sent, and the
\* frames up to each place of the buffer are near to the speech up to there.
Pace(P) ==
    /\ Sums(buffer, P)
    /\ Total(segments) = ear + P[Len(buffer)] + toSend + residue
    /\ ear + P[Len(buffer)] <= sent
    /\ \A k \in 0..Len(buffer) :
          Near(segments, Finished, ear + P[k], sent - Frames(Len(buffer) - k))
OnAir == ~cancelled => \E P : Pace(P)

\* And after it no more is lost than the buffer held.
Cut ==
    cancelled =>
        /\ buffer = <<>> /\ ear <= sent /\ ear <= Total(segments)
        /\ Near(segments, Finished, ear, sent - Frames(Jitter))

SpeechInv == SpeechShapes /\ Phases /\ Registered /\ OnAir /\ Cut

\* Speech that is registered or finished later does not part what is near.
LEMMA NearStays ==
  ASSUME NEW s \in Seq(Nat), NEW r \in Seq(Nat), Len(s) <= MaxSentences, Len(r) <= MaxSentences,
         NEW d \in Int, NEW e \in Int, d <= e, NEW h \in Int, NEW f \in Int,
         \A m \in 1..Len(r) :
            (m <= Len(s) /\ Starts(r)[m + 1] = Starts(s)[m + 1]) \/ d <= m - 1,
         Near(s, d, h, f)
  PROVE  Near(r, e, h, f)
<1>1. f <= h + Padding(d) /\ Padding(d) \in Int /\ Padding(e) \in Int /\ Padding(d) <= Padding(e)
  BY PaddingIs DEF Near
<1>2. ASSUME NEW m \in 1..Len(r), h < Starts(r)[m + 1] PROVE f <= h + Padding(m - 1)
  <2>1. CASE m <= Len(s) /\ Starts(r)[m + 1] = Starts(s)[m + 1]
    <3>1. m \in 1..Len(s) BY <2>1
    <3> QED BY <1>2, <2>1, <3>1 DEF Near
  <2>2. CASE d <= m - 1
    <3>1. m - 1 \in Int BY <2>2
    <3>2. Padding(d) <= Padding(m - 1) /\ Padding(m - 1) \in Int
      BY <2>2, <3>1, PaddingIs
    <3> QED BY <1>1, <3>2
  <2> QED BY <1>2, <2>1, <2>2
<1> QED BY <1>1, <1>2 DEF Near

\* What is registered is to be sent or waits to make a frame.
LEMMA Exchanged ==
  ASSUME NEW t \in Nat, NEW u \in Nat, NEW a \in Nat, NEW b \in Nat,
         NEW x \in Nat, NEW y \in Nat, NEW z \in Nat, NEW w \in Nat,
         t = a + b + x + y, u + x + y = t + z + w
  PROVE  u = a + b + z + w
  OBVIOUS

\* A step that moves no frame.
LEMMA Registers ==
  ASSUME SpeechInv, SpeechShapes', UNCHANGED <<buffer, sent, ear, cancelled>>,
         Finished <= Finished',
         \A m \in 1..Len(segments') :
            \/ m <= Len(segments) /\ Starts(segments')[m + 1] = Starts(segments)[m + 1]
            \/ Finished <= m - 1,
         ~cancelled => Total(segments') + toSend + residue = Total(segments) + toSend' + residue',
         Total(segments) <= Total(segments')
  PROVE  OnAir' /\ Cut'
<1>0. SpeechShapes /\ MaxSentences \in Nat /\ Jitter \in Nat
  BY PlaybackAssumption DEF SpeechInv
<1>1. /\ segments \in Seq(Nat) /\ segments' \in Seq(Nat)
      /\ Len(segments) \in Nat /\ Len(segments') \in Nat /\ Len(buffer) \in Nat
      /\ Len(segments) <= MaxSentences /\ Len(segments') <= MaxSentences
  BY <1>0, SMTT(15) DEF SpeechShapes
<1>2. Finished \in Int /\ Finished' \in Int BY <1>1 DEF Finished
<1>10. /\ ear \in Nat /\ sent \in Nat /\ toSend \in Nat /\ residue \in Nat
       /\ toSend' \in Nat
       /\ residue' \in Nat
  BY <1>0 DEF SpeechShapes
<1>3. ASSUME NEW h \in Int, NEW f \in Int, Near(segments, Finished, h, f)
      PROVE  Near(segments', Finished', h, f)
  BY <1>1, <1>2, <1>3, NearStays
<1>4. Total(segments) \in Nat /\ Total(segments') \in Nat
  <2>1. ASSUME NEW s \in Seq(Nat), Len(s) <= MaxSentences PROVE Total(s) \in Nat
    <3>1. Len(s) \in 0..MaxSentences /\ Len(s) + 1 \in 1..(Len(s) + 1) BY <1>0, <2>1
    <3>2. \A j \in 1..Len(s) : s[j] \in Nat OBVIOUS
    <3> QED BY <3>1, <3>2, StartsGrow DEF Total
  <2> QED BY <1>1, <2>1
<1>5. ASSUME ~cancelled PROVE \E P : Pace(P)'
  <2>1. PICK P : Pace(P) BY <1>5 DEF SpeechInv, OnAir
  <2>2. Sums(buffer, P) /\ P \in [0..Len(buffer) -> Nat] BY <2>1 DEF Pace, Sums
  <2>3. P[Len(buffer)] \in Nat /\ \A k \in 0..Len(buffer) : P[k] \in Nat
    <3>1. Len(buffer) \in 0..Len(buffer) BY <1>1
    <3> QED BY <2>2, <3>1
  <2>4. Total(segments') = ear + P[Len(buffer)] + toSend' + residue'
    <3>1. Total(segments) = ear + P[Len(buffer)] + toSend + residue BY <2>1 DEF Pace
    <3>2. Total(segments') + toSend + residue = Total(segments) + toSend' + residue'
      BY <1>5
    <3>3. PICK p : p = P[Len(buffer)] /\ p \in Nat BY <2>3
    <3>4. PICK t \in Nat, u \in Nat : t = Total(segments) /\ u = Total(segments')
      BY <1>4
    <3>5. PICK a \in Nat, x \in Nat, y \in Nat, z \in Nat, w \in Nat :
            ear = a /\ toSend = x /\ residue = y /\ toSend' = z /\ residue' = w
      BY <1>10
    <3>6. t = a + p + x + y BY <3>1, <3>3, <3>4, <3>5
    <3>7. u + x + y = t + z + w BY <3>2, <3>4, <3>5
    <3>9. /\ t \in Nat /\ u \in Nat /\ a \in Nat /\ p \in Nat
          /\ x \in Nat /\ y \in Nat /\ z \in Nat /\ w \in Nat
      BY <3>3, <3>4, <3>5
    <3>8. u = a + p + z + w BY ONLY <3>6, <3>7, <3>9, Exchanged
    <3> QED BY <3>3, <3>4, <3>5, <3>8
  <2>5. ASSUME NEW k \in 0..Len(buffer)
        PROVE  Near(segments', Finished', ear + P[k], sent - Frames(Len(buffer) - k))
    <3>1. Near(segments, Finished, ear + P[k], sent - Frames(Len(buffer) - k))
      BY <2>1 DEF Pace
    <3>2. ear + P[k] \in Int BY <1>10, <2>3
    <3>3. Len(buffer) - k \in Int BY <1>1
    <3>5. Frames(Len(buffer) - k) \in Int BY <3>3, FramesAre
    <3>4. sent - Frames(Len(buffer) - k) \in Int BY <1>10, <3>5
    <3> QED BY <1>3, <3>1, <3>2, <3>4
  <2>6. Pace(P)' BY <2>1, <2>2, <2>4, <2>5 DEF Pace
  <2> QED BY <2>6
<1>6. ASSUME cancelled PROVE Near(segments', Finished', ear, sent - Frames(Jitter))
  <2>1. Near(segments, Finished, ear, sent - Frames(Jitter)) BY <1>6 DEF SpeechInv, Cut
  <2>2. ear \in Int /\ Frames(Jitter) \in Int BY <1>0, <1>10, FramesAre
  <2>3. sent - Frames(Jitter) \in Int BY <1>10, <2>2
  <2> QED BY <1>3, <2>1, <2>2, <2>3
<1>7. ASSUME cancelled PROVE buffer = <<>> /\ ear <= sent /\ ear <= Total(segments')
  <2>1. buffer = <<>> /\ ear <= sent /\ ear <= Total(segments)
    BY <1>7 DEF SpeechInv, Cut
  <2> QED BY <1>4, <1>10, <2>1
<1>8. OnAir' BY <1>5 DEF OnAir
<1>9. Cut' BY <1>6, <1>7 DEF Cut
<1> QED BY <1>8, <1>9

\* No more frames than many is no more than fewer.
LEMMA NearLess ==
  ASSUME NEW s \in Seq(Nat), NEW d \in Int, NEW h \in Int, NEW f \in Int, NEW g \in Int,
         g <= f, Near(s, d, h, f)
  PROVE  Near(s, d, h, g)
<1>1. Padding(d) \in Int BY PaddingIs
<1>2. f <= h + Padding(d) BY DEF Near
<1>3. g <= h + Padding(d) BY <1>1, <1>2
<1>4. ASSUME NEW m \in 1..Len(s), h < Starts(s)[m + 1] PROVE g <= h + Padding(m - 1)
  <2>1. m - 1 \in Int OBVIOUS
  <2>2. Padding(m - 1) \in Int BY <2>1, PaddingIs
  <2>3. f <= h + Padding(m - 1) BY <1>4 DEF Near
  <2> QED BY <2>2, <2>3
<1> QED BY <1>3, <1>4 DEF Near

\* The speech of all sentences.
LEMMA Totals ==
  ASSUME NEW s \in Seq(Nat), Len(s) <= MaxSentences
  PROVE  /\ Total(s) \in Nat
         /\ \A i \in 1..(Len(s) + 1) : Starts(s)[i] \in Nat /\ Starts(s)[i] <= Total(s)
<1>0. MaxSentences \in Nat BY PlaybackAssumption
<1>1. Len(s) \in 0..MaxSentences /\ Len(s) + 1 \in 1..(Len(s) + 1) BY <1>0
<1>2. \A j \in 1..Len(s) : s[j] \in Nat OBVIOUS
<1> QED BY <1>1, <1>2, StartsGrow DEF Total

\* At first nothing is said.
LEMMA SpeechInitially == Speech!Init => SpeechInv
<1> SUFFICES ASSUME Speech!Init PROVE SpeechInv
  OBVIOUS
<1>0. MaxSentences \in Nat /\ Jitter \in Nat BY PlaybackAssumption
<1>1. /\ answer \in Speech!Answers /\ at = 1 /\ phase = "next" /\ segments = <<>>
      /\ arrived = 0
      /\ residue = 0 /\ toSend = 0 /\ sent = 0 /\ cancelled = FALSE /\ buffer = <<>>
      /\ ear = 0
  BY DEF Speech!Init
<1>2. answer \in Seq(Sentences) /\ Len(answer) \in 1..MaxSentences
  <2>1. PICK n \in 1..MaxSentences : answer \in [1..n -> Speech!Sentence]
    BY <1>1 DEF Speech!Answers
  <2>2. Speech!Sentence \subseteq Sentences
    BY PlaybackAssumption DEF Speech!Sentence, Sentences
  <2>3. n \in Nat /\ answer \in [1..n -> Sentences] BY <1>0, <2>1, <2>2
  <2>4. answer \in Seq(Sentences) /\ Len(answer) = n BY <2>3
  <2> QED BY <2>1, <2>4
<1>3. SpeechShapes
  <2>1. segments \in Seq(Nat) /\ buffer \in Seq(Nat) /\ Len(segments) = 0 /\ Len(buffer) = 0
    BY <1>1
  <2>2. at \in 1..(Len(answer) + 1) BY <1>0, <1>1, <1>2
  <2>3. Len(segments) <= Len(answer) /\ Len(buffer) <= Jitter BY <1>0, <1>2, <2>1
  <2> QED BY <1>1, <1>2, <2>1, <2>2, <2>3 DEF SpeechShapes
<1>4. Phases BY <1>1 DEF Phases
<1>5. Registered BY <1>1 DEF Registered
<1>6. Len(segments) = 0 /\ Len(buffer) = 0 BY <1>1
<1>7. Pace([k \in 0..0 |-> 0])
  <2> DEFINE P == [k \in 0..0 |-> 0]
  <2>1. P \in [0..0 -> Nat] /\ P[0] = 0 OBVIOUS
  <2>2. \A k \in 0..0 : k = 0 OBVIOUS
  <2> HIDE DEF P
  <2>3. Sums(buffer, P) BY <1>6, <2>1, <2>2 DEF Sums
  <2>4. Total(segments) = 0 BY <1>6, StartsAre DEF Total
  <2>5. Finished = 0 BY <1>1, <1>6 DEF Finished
  <2>6. Near(segments, 0, 0, 0) BY <1>6, PaddingIs DEF Near
  <2>7. Frames(0) = 0 BY FramesAre
  <2>8. \A k \in 0..Len(buffer) : Near(segments, Finished, ear + P[k], sent - Frames(Len(buffer) - k))
    <3>1. ASSUME NEW k \in 0..Len(buffer)
          PROVE  Near(segments, Finished, ear + P[k], sent - Frames(Len(buffer) - k))
      <4>1. k = 0 /\ ear + P[k] = 0 /\ Len(buffer) - k = 0 BY <1>1, <1>6, <2>1, <2>2
      <4>2. sent - Frames(Len(buffer) - k) = 0 BY <1>1, <2>7, <4>1
      <4> QED BY <2>5, <2>6, <4>1, <4>2
    <3> QED BY <3>1
  <2>9. ear + P[Len(buffer)] = 0 BY <1>1, <1>6, <2>1
  <2>10. ear + P[Len(buffer)] + toSend + residue = 0 BY <1>1, <2>9
  <2>11. ear + P[Len(buffer)] <= sent BY <1>1, <2>9
  <2>12. Pace(P) BY <2>3, <2>4, <2>8, <2>10, <2>11 DEF Pace
  <2> QED BY <2>12 DEF P
<1>8. OnAir BY <1>7 DEF OnAir
<1>9. Cut BY <1>1 DEF Cut
<1> QED BY <1>3, <1>4, <1>5, <1>8, <1>9 DEF SpeechInv

\* A whole sentence opens its segment and fills it.
LEMMA SpeechPlaysWhole == SpeechInv /\ Speech!PlaysWhole => SpeechInv'
<1> SUFFICES ASSUME SpeechInv, Speech!PlaysWhole PROVE SpeechInv'
  OBVIOUS
<1>0. MaxSentences \in Nat BY PlaybackAssumption
<1>1. /\ phase = "next" /\ at <= Len(answer) /\ ~cancelled /\ answer[at].whole
      /\ segments' = Append(segments, answer[at].bytes)
      /\ toSend' = answer[at].bytes /\ phase' = "tail"
      /\ UNCHANGED <<answer, at, arrived, residue, sent, cancelled, buffer, ear>>
  BY DEF Speech!PlaysWhole
<1>2. /\ answer \in Seq(Sentences) /\ Len(answer) \in 1..MaxSentences
      /\ segments \in Seq(Nat) /\ at \in 1..(Len(answer) + 1) /\ residue = 0
      /\ Len(segments) = at - 1 /\ toSend = 0
  BY <1>1 DEF SpeechInv, SpeechShapes, Phases
<1> DEFINE n == answer[at].bytes
<1>3. at \in 1..Len(answer) /\ n \in Nat
  <2>1. at \in 1..Len(answer) BY <1>1, <1>2
  <2>2. answer[at] \in Sentences BY <1>2, <2>1
  <2> QED BY <2>1, <2>2 DEF Sentences
<1> HIDE DEF n
<1>4. /\ segments' = Append(segments, n) /\ toSend' = n BY <1>1 DEF n
<1>5. /\ segments' \in Seq(Nat) /\ Len(segments') = at /\ Len(segments) = at - 1
      /\ Len(segments) \in Nat /\ Len(segments) < MaxSentences
      /\ segments'[at] = n /\ \A i \in 1..(at - 1) : segments'[i] = segments[i]
  BY <1>0, <1>2, <1>3, <1>4
<1>6. SpeechShapes'
  BY <1>1, <1>3, <1>4, <1>5 DEF SpeechInv, SpeechShapes
<1>7. Phases' BY <1>1, <1>2, <1>5 DEF Phases
<1>8. Registered'
  <2> SUFFICES ASSUME NEW i \in 1..Len(segments') PROVE segments'[i] = answer'[i].bytes
    BY DEF Registered
  <2>1. CASE i = at BY <1>1, <1>5, <2>1 DEF n
  <2>2. CASE i # at
    <3>1. i \in 1..Len(segments) /\ i \in 1..(at - 1) BY <1>5, <2>2
    <3>2. segments[i] = answer[i].bytes BY <1>1, <3>1 DEF SpeechInv, Registered
    <3> QED BY <1>1, <1>5, <3>1, <3>2
  <2> QED BY <2>1, <2>2
<1>9. /\ \A m \in 1..(Len(segments) + 1) : Starts(segments')[m] = Starts(segments)[m]
      /\ Starts(segments')[Len(segments) + 2] = Starts(segments)[Len(segments) + 1] + n
  BY <1>2, <1>3, <1>4, <1>5, StartsLonger
<1>10. Finished = Len(segments) /\ Finished' \in {Len(segments), Len(segments) + 1}
  BY <1>1, <1>2, <1>5 DEF Finished
<1>11. ASSUME NEW m \in 1..Len(segments')
       PROVE  \/ m <= Len(segments) /\ Starts(segments')[m + 1] = Starts(segments)[m + 1]
              \/ Finished <= m - 1
  <2>1. CASE m <= Len(segments)
    <3>1. m + 1 \in 1..(Len(segments) + 1) BY <1>5, <2>1
    <3> QED BY <1>9, <2>1, <3>1
  <2>2. CASE ~ (m <= Len(segments))
    <3>1. Len(segments) <= m - 1 BY <1>5, <2>2
    <3> QED BY <1>10, <3>1
  <2> QED BY <2>1, <2>2
<1>12. Total(segments') = Total(segments) + n
  <2>1. Len(segments') + 1 = Len(segments) + 2 BY <1>5
  <2> QED BY <1>9, <2>1 DEF Total
<1>13. Total(segments) \in Nat
  <2>1. Len(segments) <= MaxSentences BY <1>0, <1>5
  <2> QED BY <1>2, <2>1, Totals
<1>14. /\ Total(segments') + toSend + residue = Total(segments) + toSend' + residue'
       /\ Total(segments) <= Total(segments')
  BY <1>1, <1>2, <1>3, <1>4, <1>12, <1>13
<1>15. Finished <= Finished' BY <1>5, <1>10
<1>16. UNCHANGED <<buffer, sent, ear, cancelled>> BY <1>1
<1>17. OnAir' /\ Cut' BY <1>6, <1>11, <1>14, <1>15, <1>16, Registers
<1> QED BY <1>6, <1>7, <1>8, <1>17 DEF SpeechInv

\* A chunk opens its sentence's segment, or lengthens it.
LEMMA SpeechChunkArrives == SpeechInv /\ Speech!ChunkArrives => SpeechInv'
<1> SUFFICES ASSUME SpeechInv, Speech!ChunkArrives PROVE SpeechInv'
  OBVIOUS
<1>0. MaxSentences \in Nat BY PlaybackAssumption
<1>1. /\ phase \in {"next", "chunks"} /\ at <= Len(answer) /\ toSend = 0
      /\ ~answer[at].whole /\ arrived < answer[at].bytes
      /\ phase' = "chunks"
      /\ UNCHANGED <<answer, at, sent, cancelled, buffer, ear>>
  BY DEF Speech!ChunkArrives
<1>2. PICK n \in 1..(answer[at].bytes - arrived) :
        /\ arrived' = arrived + n
        /\ segments' = [(IF phase = "next" THEN Append(segments, 0) ELSE segments)
                          EXCEPT ![at] = @ + n]
        /\ toSend' = ((residue + n) \div Frame) * Frame
        /\ residue' = (residue + n) % Frame
  BY DEF Speech!ChunkArrives
<1>3. /\ answer \in Seq(Sentences) /\ Len(answer) \in 1..MaxSentences
      /\ segments \in Seq(Nat) /\ Len(segments) <= Len(answer)
      /\ at \in 1..(Len(answer) + 1)
      /\ residue \in Nat /\ arrived \in Nat /\ Len(segments) \in Nat
      /\ phase = "next" => Len(segments) = at - 1 /\ residue = 0 /\ arrived = 0
      /\ phase = "chunks" => Len(segments) = at /\ segments[at] = arrived
  BY <1>1 DEF SpeechInv, SpeechShapes, Phases
<1>4. at \in 1..Len(answer) /\ n \in Nat
  <2>1. at \in 1..Len(answer) BY <1>1, <1>3
  <2>2. answer[at] \in Sentences BY <1>3, <2>1
  <2>3. answer[at].bytes \in Nat BY <2>2 DEF Sentences
  <2> QED BY <1>3, <2>1, <2>3
<1>5. /\ segments' \in Seq(Nat) /\ Len(segments') = at
      /\ segments'[at] = arrived + n
      /\ \A i \in 1..(at - 1) : segments'[i] = segments[i]
  <2>1. CASE phase = "next"
    <3>1. segments' = [Append(segments, 0) EXCEPT ![at] = @ + n] BY <1>2, <2>1
    <3>2. Append(segments, 0) \in Seq(Nat) /\ Len(Append(segments, 0)) = at
      BY <1>3, <2>1
    <3>3. Append(segments, 0)[at] = 0 /\ \A i \in 1..(at - 1) : Append(segments, 0)[i] = segments[i]
      BY <1>3, <2>1
    <3>4. PICK q : q = Append(segments, 0) OBVIOUS
    <3>5. /\ q \in Seq(Nat) /\ Len(q) = at /\ q[at] = 0
          /\ \A i \in 1..(at - 1) : q[i] = segments[i]
          /\ segments' = [q EXCEPT ![at] = @ + n]
      BY <3>1, <3>2, <3>3, <3>4
    <3>6. /\ segments' \in Seq(Nat) /\ Len(segments') = at /\ segments'[at] = n
          /\ \A i \in 1..(at - 1) : segments'[i] = q[i]
      BY <1>4, <3>5
    <3> QED BY <1>3, <1>4, <2>1, <3>5, <3>6
  <2>2. CASE phase = "chunks"
    <3>1. segments' = [segments EXCEPT ![at] = @ + n] BY <1>2, <2>2
    <3> QED BY <1>3, <1>4, <2>2, <3>1
  <2> QED BY <1>1, <2>1, <2>2
<1> DEFINE b == residue + n
<1>19. b \in Nat /\ toSend' = (b \div Frame) * Frame /\ residue' = b % Frame
  BY <1>2, <1>3, <1>4
<1> HIDE DEF b
<1>6. \E k \in Nat : toSend' = k * Frame
  <2>1. b \div Frame \in Nat BY <1>19, WholeFrames
  <2> QED BY <1>19, <2>1
<1>7. toSend' \in Nat /\ residue' \in Nat /\ toSend' + residue' = residue + n
  <2>1. /\ (b \div Frame) * Frame \in Nat /\ b % Frame \in 0..(Frame - 1)
        /\ ((b \div Frame) * Frame) + (b % Frame) = b
    BY <1>19, WholeFrames
  <2>2. b % Frame \in Nat BY <2>1, PlaybackAssumption
  <2> QED BY <1>19, <2>1, <2>2 DEF b
<1>8. SpeechShapes'
  <2>1. arrived' \in Nat BY <1>2, <1>3, <1>4
  <2> QED BY <1>1, <1>4, <1>5, <1>7, <2>1 DEF SpeechInv, SpeechShapes
<1>9. Phases' BY <1>1, <1>2, <1>5, <1>6 DEF Phases
<1>10. Registered'
  <2> SUFFICES ASSUME NEW i \in 1..Len(segments')
               PROVE  \/ segments'[i] = answer'[i].bytes
                      \/ i = Len(segments') /\ phase' \in {"chunks", "over"} /\ ~answer'[i].whole
    BY DEF Registered
  <2>1. CASE i = at BY <1>1, <1>5, <2>1
  <2>2. CASE i # at
    <3>1. i \in 1..Len(segments) /\ i \in 1..(at - 1) /\ (i # Len(segments) \/ phase = "next")
      BY <1>1, <1>3, <1>5, <2>2
    <3>2. segments[i] = answer[i].bytes BY <3>1 DEF SpeechInv, Registered
    <3> QED BY <1>1, <1>5, <3>1, <3>2
  <2> QED BY <2>1, <2>2
<1>11. Finished = at - 1 /\ Finished' = at - 1
  BY <1>1, <1>3, <1>5 DEF Finished
<1>12. /\ \A m \in 1..at : Starts(segments')[m] = Starts(segments)[m]
       /\ Total(segments') = Total(segments) + n
  <2>1. CASE phase = "next"
    <3>1. /\ at - 1 \in 0..MaxSentences /\ at \in 1..MaxSentences /\ (at - 1) + 1 = at
          /\ Len(segments) + 1 = at
      BY <1>0, <1>3, <1>4, <2>1
    <3>2. \A m \in 1..at : Starts(segments')[m] = Starts(segments)[m]
      <4>1. PICK k : k = at - 1 OBVIOUS
      <4>2. k \in 0..MaxSentences /\ \A j \in 1..k : segments'[j] = segments[j]
        BY <1>5, <3>1, <4>1
      <4>3. \A m \in 1..(k + 1) : Starts(segments')[m] = Starts(segments)[m]
        BY <4>2, StartsAgree
      <4> QED BY <3>1, <4>1, <4>3
    <3>3. Starts(segments')[at + 1] = Starts(segments')[at] + segments'[at]
      BY <3>1, StartsAre
    <3>4. segments'[at] = n BY <1>3, <1>4, <1>5, <2>1
    <3>5. at \in 1..at BY <1>4
    <3>6. Starts(segments')[at + 1] = Starts(segments)[at] + n
      BY <3>2, <3>3, <3>4, <3>5
    <3> QED BY <1>5, <3>1, <3>2, <3>6 DEF Total
  <2>2. CASE phase = "chunks"
    <3>1. Len(segments) = at /\ Len(segments) > 0 /\ Len(segments) <= MaxSentences
      BY <1>0, <1>3, <1>4, <2>2
    <3>2. segments'[Len(segments)] = segments[Len(segments)] + n
      BY <1>3, <1>5, <2>2, <3>1
    <3>3. \A j \in 1..(Len(segments) - 1) : segments'[j] = segments[j] BY <1>5, <3>1
    <3>4. /\ \A m \in 1..Len(segments) : Starts(segments')[m] = Starts(segments)[m]
          /\ Starts(segments')[Len(segments) + 1] = Starts(segments)[Len(segments) + 1] + n
      BY <1>3, <1>4, <3>1, <3>2, <3>3, StartsHigher
    <3> QED BY <1>5, <3>1, <3>4 DEF Total
  <2> QED BY <1>1, <2>1, <2>2
<1>13. ASSUME NEW m \in 1..Len(segments')
       PROVE  \/ m <= Len(segments) /\ Starts(segments')[m + 1] = Starts(segments)[m + 1]
              \/ Finished <= m - 1
  <2>1. CASE m <= at - 1
    <3>1. m + 1 \in 1..at /\ m <= Len(segments) BY <1>1, <1>3, <1>4, <2>1
    <3> QED BY <1>12, <3>1
  <2>2. CASE ~ (m <= at - 1)
    <3>1. at - 1 <= m - 1 BY <1>4, <1>5, <2>2
    <3> QED BY <1>11, <3>1
  <2> QED BY <2>1, <2>2
<1>14. Total(segments) \in Nat
  <2>1. Len(segments) <= MaxSentences BY <1>0, <1>3
  <2> QED BY <1>3, <2>1, Totals
<1>15. /\ Total(segments') + toSend + residue = Total(segments) + toSend' + residue'
       /\ Total(segments) <= Total(segments')
  <2>5. Total(segments') \in Nat BY <1>4, <1>12, <1>14
  <2>1. PICK t \in Nat, u \in Nat : t = Total(segments) /\ u = Total(segments')
    BY <1>14, <2>5
  <2>2. PICK x \in Nat, y \in Nat, z \in Nat : x = residue /\ y = toSend' /\ z = residue'
    BY <1>3, <1>7
  <2>3. u = t + n /\ y + z = x + n BY <1>7, <1>12, <2>1, <2>2
  <2>4. t \in Nat /\ u \in Nat /\ x \in Nat /\ y \in Nat /\ z \in Nat BY <2>1, <2>2
  <2>6. u + 0 + x = t + y + z /\ t <= u BY ONLY <1>4, <2>3, <2>4
  <2> QED BY <1>1, <2>1, <2>2, <2>6
<1>16. Finished <= Finished' BY <1>4, <1>11
<1>17. UNCHANGED <<buffer, sent, ear, cancelled>> BY <1>1
<1>18. OnAir' /\ Cut' BY <1>8, <1>13, <1>15, <1>16, <1>17, Registers
<1> QED BY <1>8, <1>9, <1>10, <1>18 DEF SpeechInv

\* Steps that register nothing.
LEMMA SpeechGoesOn ==
  ASSUME SpeechInv, SpeechShapes', UNCHANGED <<segments, buffer, sent, ear, cancelled>>,
         Finished <= Finished',
         ~cancelled => toSend' + residue' = toSend + residue
  PROVE  OnAir' /\ Cut'
<1>0. MaxSentences \in Nat BY PlaybackAssumption
<1>1. /\ segments \in Seq(Nat) /\ Len(segments) <= MaxSentences
      /\ residue \in Nat /\ toSend \in Nat /\ residue' \in Nat /\ toSend' \in Nat
  BY <1>0 DEF SpeechInv, SpeechShapes
<1>2. Total(segments) \in Nat BY <1>1, Totals
<1>3. segments' = segments /\ UNCHANGED <<buffer, sent, ear, cancelled>> OBVIOUS
<1>4. \A m \in 1..Len(segments') :
         m <= Len(segments) /\ Starts(segments')[m + 1] = Starts(segments)[m + 1]
  BY <1>1, <1>3
<1>5. Total(segments') = Total(segments) /\ Total(segments) <= Total(segments')
  BY <1>2, <1>3
<1>6. ASSUME ~cancelled
      PROVE  Total(segments') + toSend + residue = Total(segments) + toSend' + residue'
  <2>1. toSend' + residue' = toSend + residue BY <1>6
  <2>2. PICK t \in Nat : t = Total(segments) BY <1>2
  <2>3. PICK x \in Nat, y \in Nat, z \in Nat, w \in Nat :
           x = toSend /\ y = residue /\ z = toSend' /\ w = residue'
    BY <1>1
  <2>4. t \in Nat /\ x \in Nat /\ y \in Nat /\ z \in Nat /\ w \in Nat BY <2>2, <2>3
  <2>5. z + w = x + y BY <2>1, <2>3
  <2>6. t + x + y = t + z + w BY ONLY <2>4, <2>5
  <2> QED BY <1>5, <2>2, <2>3, <2>6
<1> QED BY <1>3, <1>4, <1>5, <1>6, Registers

\* What is left of a sentence is sent when it ends.
LEMMA SpeechFlushes == SpeechInv /\ Speech!Flushes => SpeechInv'
<1> SUFFICES ASSUME SpeechInv, Speech!Flushes PROVE SpeechInv'
  OBVIOUS
<1>1. /\ phase = "chunks" /\ toSend = 0 /\ ~cancelled /\ arrived = answer[at].bytes
      /\ toSend' = residue /\ residue' = 0 /\ phase' = "tail"
      /\ UNCHANGED <<answer, at, segments, arrived, sent, cancelled, buffer, ear>>
  BY DEF Speech!Flushes
<1>2. /\ segments \in Seq(Nat) /\ Len(segments) = at /\ Len(segments) \in Nat
      /\ residue \in Nat
      /\ segments[at] = arrived
  BY <1>1 DEF SpeechInv, SpeechShapes, Phases
<1>3. SpeechShapes' BY <1>1 DEF SpeechInv, SpeechShapes
<1>4. Phases' BY <1>1, <1>2 DEF Phases
<1>5. Registered' BY <1>1, <1>2 DEF SpeechInv, Registered
<1>6. Finished <= Finished' /\ toSend' + residue' = toSend + residue
  BY <1>1, <1>2 DEF Finished
<1>7. OnAir' /\ Cut' BY <1>1, <1>3, <1>6, SpeechGoesOn
<1> QED BY <1>3, <1>4, <1>5, <1>7 DEF SpeechInv

\* The next sentence has no segment yet.
LEMMA SpeechNextSentence == SpeechInv /\ Speech!NextSentence => SpeechInv'
<1> SUFFICES ASSUME SpeechInv, Speech!NextSentence PROVE SpeechInv'
  OBVIOUS
<1>0. MaxSentences \in Nat BY PlaybackAssumption
<1>1. /\ phase = "tail" /\ toSend = 0 /\ at' = at + 1 /\ arrived' = 0 /\ phase' = "next"
      /\ UNCHANGED <<answer, segments, residue, toSend, sent, cancelled, buffer, ear>>
  BY DEF Speech!NextSentence
<1>2. /\ segments \in Seq(Nat) /\ Len(segments) = at /\ Len(segments) \in Nat
      /\ Len(segments) <= Len(answer) /\ Len(answer) \in Nat /\ residue = 0
      /\ at \in 1..(Len(answer) + 1)
  BY <1>0, <1>1 DEF SpeechInv, SpeechShapes, Phases
<1>3. at' \in 1..(Len(answer) + 1) /\ at' - 1 = at BY <1>1, <1>2
<1>4. SpeechShapes' BY <1>1, <1>3 DEF SpeechInv, SpeechShapes
<1>5. Phases' BY <1>1, <1>2, <1>3 DEF Phases
<1>6. Registered' BY <1>1 DEF SpeechInv, Registered
<1>7. Finished <= Finished' /\ toSend' + residue' = toSend + residue
  BY <1>1, <1>2 DEF Finished
<1>8. OnAir' /\ Cut' BY <1>1, <1>4, <1>7, SpeechGoesOn
<1> QED BY <1>4, <1>5, <1>6, <1>8 DEF SpeechInv

\* The answer is over, at its end or at a cut.
LEMMA SpeechStops == SpeechInv /\ Speech!Stops => SpeechInv'
<1> SUFFICES ASSUME SpeechInv, Speech!Stops PROVE SpeechInv'
  OBVIOUS
<1>0. MaxSentences \in Nat BY PlaybackAssumption
<1>1. /\ phase # "over" /\ (cancelled \/ (phase = "next" /\ at > Len(answer)))
      /\ phase' = "over" /\ toSend' = 0
      /\ UNCHANGED <<answer, at, segments, arrived, residue, sent, cancelled, buffer, ear>>
  BY DEF Speech!Stops
<1>2. /\ segments \in Seq(Nat) /\ Len(segments) \in Nat /\ residue \in Nat /\ toSend \in Nat
      /\ phase = "next" => toSend = 0
      /\ \A i \in 1..Len(segments) :
            \/ segments[i] = answer[i].bytes
            \/ i = Len(segments) /\ phase \in {"chunks", "over"} /\ ~answer[i].whole
  BY DEF SpeechInv, SpeechShapes, Phases, Registered
<1>3. SpeechShapes' BY <1>1 DEF SpeechInv, SpeechShapes
<1>4. Phases' BY <1>1 DEF Phases
<1>5. Registered' BY <1>1, <1>2 DEF Registered
<1>6. Finished <= Finished' BY <1>1, <1>2 DEF Finished
<1>7. ~cancelled => toSend' + residue' = toSend + residue BY <1>1, <1>2
<1>8. OnAir' /\ Cut' BY <1>1, <1>3, <1>6, <1>7, SpeechGoesOn
<1> QED BY <1>3, <1>4, <1>5, <1>8 DEF SpeechInv

\* Nor is it resumed when the synthesiser failed.
LEMMA SpeechSynthesisFails == SpeechInv /\ Speech!SynthesisFails => SpeechInv'
<1> SUFFICES ASSUME SpeechInv, Speech!SynthesisFails PROVE SpeechInv'
  OBVIOUS
<1>0. MaxSentences \in Nat BY PlaybackAssumption
<1>1. /\ phase = "chunks" /\ toSend = 0 /\ phase' = "over"
      /\ UNCHANGED <<answer, at, segments, arrived, residue, toSend, sent, cancelled, buffer, ear>>
  BY DEF Speech!SynthesisFails
<1>2. /\ segments \in Seq(Nat) /\ Len(segments) \in Nat /\ residue \in Nat /\ toSend \in Nat
      /\ \A i \in 1..Len(segments) :
            \/ segments[i] = answer[i].bytes
            \/ i = Len(segments) /\ phase \in {"chunks", "over"} /\ ~answer[i].whole
  BY DEF SpeechInv, SpeechShapes, Registered
<1>3. SpeechShapes' BY <1>1 DEF SpeechInv, SpeechShapes
<1>4. Phases' BY <1>1 DEF Phases
<1>5. Registered' BY <1>1, <1>2 DEF Registered
<1>6. Finished <= Finished' BY <1>1, <1>2 DEF Finished
<1>7. ~cancelled => toSend' + residue' = toSend + residue BY <1>1, <1>2
<1>8. OnAir' /\ Cut' BY <1>1, <1>3, <1>6, <1>7, SpeechGoesOn
<1> QED BY <1>3, <1>4, <1>5, <1>8 DEF SpeechInv

\* A frame that is sent is a frame of speech, or the last of its sentence.
LEMMA SpeechSendsFrame == SpeechInv /\ Speech!SendsFrame => SpeechInv'
<1> SUFFICES ASSUME SpeechInv, Speech!SendsFrame PROVE SpeechInv'
  OBVIOUS
<1> DEFINE n == Speech!LeastOf(toSend, Frame)
           L == Len(segments)
           B == Len(buffer)
<1>0. /\ MaxSentences \in Nat /\ Jitter \in Nat /\ Frame \in Nat /\ Frame > 0
      /\ Frame - 1 \in Nat
  BY PlaybackAssumption
<1>1. /\ toSend > 0 /\ ~cancelled /\ Len(buffer) < Jitter
      /\ buffer' = Append(buffer, n)
      /\ toSend' = Speech!GreatestOf(0, toSend - Frame) /\ sent' = sent + Frame
      /\ UNCHANGED <<answer, at, phase, segments, arrived, residue, cancelled, ear>>
  BY DEF Speech!SendsFrame
<1>2. /\ segments \in Seq(Nat) /\ L \in Nat /\ L <= MaxSentences
      /\ buffer \in Seq(Nat) /\ B \in Nat
      /\ toSend \in Nat /\ residue \in Nat /\ sent \in Nat /\ ear \in Nat
      /\ phase \in {"next", "chunks", "tail", "over"}
  BY <1>0 DEF SpeechInv, SpeechShapes
<1>3. n \in Nat /\ n > 0 /\ n <= Frame /\ toSend' = toSend - n /\ toSend' \in Nat
  BY <1>0, <1>1, <1>2 DEF Speech!LeastOf, Speech!GreatestOf
<1>4. /\ phase \in {"chunks", "tail"}
      /\ phase = "tail" => residue = 0
      /\ phase = "chunks" => \E k \in Nat : toSend = k * Frame
  BY <1>1, <1>2 DEF SpeechInv, Phases
<1>5. n # Frame => phase = "tail" /\ n = toSend /\ toSend' = 0 /\ residue = 0
  <2> SUFFICES ASSUME n # Frame PROVE phase = "tail" /\ n = toSend /\ toSend' = 0 /\ residue = 0
    OBVIOUS
  <2>1. n = toSend /\ toSend < Frame /\ toSend' = 0
    BY <1>0, <1>1, <1>2 DEF Speech!LeastOf, Speech!GreatestOf
  <2>2. phase # "chunks"
    <3> SUFFICES ASSUME phase = "chunks" PROVE FALSE
      OBVIOUS
    <3>1. PICK k \in Nat : toSend = k * Frame BY <1>4
    <3>2. k * Frame >= Frame BY <1>1, <3>1, NextFrame
    <3> QED BY <1>0, <1>2, <2>1, <3>1, <3>2
  <2> QED BY <1>4, <2>1, <2>2
<1> HIDE DEF n
<1>6. /\ buffer' \in Seq(Nat) /\ Len(buffer') = B + 1 /\ Len(buffer') <= Jitter
  <2>1. buffer' \in Seq(Nat) /\ Len(buffer') = B + 1 BY <1>1, <1>2, <1>3
  <2> QED BY <1>0, <1>1, <1>2, <2>1
<1>7. SpeechShapes'
  <2>1. sent' \in Nat BY <1>0, <1>1, <1>2
  <2> QED BY <1>1, <1>3, <1>6, <2>1 DEF SpeechInv, SpeechShapes
<1>8. Phases'
  <2>1. ASSUME phase = "chunks" PROVE \E k \in Nat : toSend' = k * Frame
    <3>1. PICK k \in Nat : toSend = k * Frame BY <1>4, <2>1
    <3>2. k - 1 \in Nat /\ k * Frame - Frame = (k - 1) * Frame BY <1>1, <3>1, NextFrame
    <3>3. n = Frame BY <1>5, <2>1
    <3> QED BY <1>3, <3>1, <3>2, <3>3
  <2> QED BY <1>1, <1>4, <2>1 DEF SpeechInv, Phases
<1>9. Registered' BY <1>1 DEF SpeechInv, Registered
<1>10. /\ Finished \in Int /\ Finished' \in Int /\ Finished <= Finished'
       /\ n # Frame => Finished' = L /\ Finished = L - 1
  BY <1>1, <1>2, <1>4, <1>5 DEF Finished
<1>11. PICK P : Pace(P) BY <1>1 DEF SpeechInv, OnAir
<1> DEFINE Q == [k \in 0..(B + 1) |-> IF k = B + 1 THEN P[B] + n ELSE P[k]]
<1>12. /\ Sums(buffer, P) /\ Total(segments) = ear + P[B] + toSend + residue
       /\ ear + P[B] <= sent
       /\ \A k \in 0..B : Near(segments, Finished, ear + P[k], sent - Frames(B - k))
  BY <1>11 DEF Pace
<1>13. /\ B \in 0..B /\ P[B] \in Nat /\ \A k \in 0..B : P[k] \in Nat
  <2>1. P \in [0..B -> Nat] BY <1>12 DEF Sums
  <2>2. B \in 0..B BY <1>2
  <2> QED BY <2>1, <2>2
<1>14. Sums(buffer', Q) BY <1>1, <1>2, <1>3, <1>12, SumsLonger
<1>15. Q[B + 1] = P[B] + n /\ \A k \in 0..B : Q[k] = P[k] BY <1>2
<1> HIDE DEF Q
<1>16. Total(segments') = ear' + Q[Len(buffer')] + toSend' + residue'
  <2>1. PICK p \in Nat : p = P[B] BY <1>13
  <2>2. ear + (p + n) + (toSend - n) + residue = ear + p + toSend + residue
    BY <1>2, <1>3
  <2> QED BY <1>1, <1>3, <1>6, <1>12, <1>15, <2>1, <2>2
<1>17. ear' + Q[Len(buffer')] <= sent'
  <2>1. PICK p \in Nat : p = P[B] BY <1>13
  <2>2. ear + p <= sent BY <1>12, <2>1
  <2>3. ear + (p + n) <= sent + Frame BY <1>0, <1>2, <1>3, <2>1, <2>2, SMTT(15)
  <2> QED BY <1>1, <1>6, <1>15, <2>1, <2>3
<1>18. ASSUME NEW k \in 0..Len(buffer')
       PROVE  Near(segments', Finished', ear' + Q[k], sent' - Frames(Len(buffer') - k))
  <2>1. CASE k \in 0..B
    <3>1. Near(segments, Finished, ear + P[k], sent - Frames(B - k)) BY <1>12, <2>1
    <3>2. B - k \in Int /\ Len(buffer') - k = (B - k) + 1 BY <1>2, <1>6, <2>1
    <3>3. Frames(B - k) \in Int /\ Frames(Len(buffer') - k) = Frames(B - k) + Frame
      BY <3>2, FramesAre
    <3>4. sent' - Frames(Len(buffer') - k) = sent - Frames(B - k)
      BY <1>0, <1>1, <1>2, <3>3
    <3>5. ear' + Q[k] = ear + P[k] /\ ear + P[k] \in Int
      BY <1>1, <1>2, <1>13, <1>15, <2>1
    <3>6. sent - Frames(B - k) \in Int BY <1>2, <3>3
    <3>7. Near(segments, Finished', ear + P[k], sent - Frames(B - k))
      BY <1>2, <1>10, <3>1, <3>5, <3>6, NearStays
    <3> QED BY <1>1, <3>4, <3>5, <3>7
  <2>2. CASE k = B + 1
    <3>1. Near(segments, Finished, ear + P[B], sent)
      <4>1. Near(segments, Finished, ear + P[B], sent - Frames(B - B)) BY <1>12, <1>13
      <4>2. B - B = 0 /\ Frames(0) = 0 /\ sent - 0 = sent BY <1>2, FramesAre
      <4> QED BY <4>1, <4>2
    <3>2. PICK h \in Nat : h = ear + P[B] BY <1>2, <1>13
    <3>3. /\ sent <= h + Padding(Finished)
          /\ \A m \in 1..L : h < Starts(segments)[m + 1] => sent <= h + Padding(m - 1)
      BY <3>1, <3>2 DEF Near
    <3>4. /\ Padding(Finished) \in Int /\ Padding(Finished') \in Int
          /\ Padding(Finished) <= Padding(Finished')
          /\ Padding((L - 1) + 1) = Padding(L - 1) + (Frame - 1)
      <4>1. L - 1 \in Int BY <1>2
      <4> QED BY <1>10, <4>1, PaddingIs
    <3>5. sent + Frame <= (h + n) + Padding(Finished')
      <4>1. CASE n = Frame BY <1>0, <1>2, <3>3, <3>4, <4>1, SMTT(15)
      <4>2. CASE n # Frame
        <5>1. Finished' = L /\ Finished = L - 1 /\ (L - 1) + 1 = L BY <1>2, <1>10, <4>2
        <5>2. Padding(Finished') = Padding(Finished) + (Frame - 1) BY <3>4, <5>1
        <5> QED BY <1>0, <1>2, <1>3, <3>3, <3>4, <5>2, SMTT(15)
      <4> QED BY <4>1, <4>2
    <3>6. ASSUME NEW m \in 1..L, h + n < Starts(segments)[m + 1]
          PROVE  sent + Frame <= (h + n) + Padding(m - 1)
      <4>1. m + 1 \in 1..(L + 1) /\ m - 1 \in Int BY <1>2
      <4>2. /\ Starts(segments)[m + 1] \in Nat /\ Starts(segments)[m + 1] <= Total(segments)
            /\ Total(segments) \in Nat
        BY <1>2, <4>1, Totals
      <4>3. h < Starts(segments)[m + 1] BY <1>3, <3>6, <4>2
      <4>4. sent <= h + Padding(m - 1) BY <3>3, <4>3
      <4>5. Padding(m - 1) \in Int BY <4>1, PaddingIs
      <4>6. n = Frame
        <5> SUFFICES ASSUME n # Frame PROVE FALSE
          OBVIOUS
        <5>1. n = toSend /\ residue = 0 BY <1>5
        <5>2. Total(segments) = h + n
          <6>1. PICK p \in Nat : p = P[B] BY <1>13
          <6>2. ear + p + n + 0 = (ear + p) + n BY <1>2, <1>3
          <6> QED BY <1>12, <3>2, <5>1, <6>1, <6>2
        <5> QED BY <1>3, <3>6, <4>2, <5>2
      <4> QED BY <1>0, <1>2, <4>4, <4>5, <4>6
    <3>7. Near(segments, Finished', h + n, sent + Frame) BY <3>5, <3>6 DEF Near
    <3>8. ear' + Q[k] = h + n
      <4>1. PICK p \in Nat : p = P[B] BY <1>13
      <4>2. ear + (p + n) = (ear + p) + n BY <1>2, <1>3
      <4> QED BY <1>1, <1>15, <2>2, <3>2, <4>1, <4>2
    <3>9. sent' - Frames(Len(buffer') - k) = sent + Frame
      <4>1. Len(buffer') - k = 0 BY <1>2, <1>6, <2>2
      <4>2. Frames(Len(buffer') - k) = 0 BY <4>1, FramesAre
      <4>3. sent' - Frames(Len(buffer') - k) = sent + Frame BY <1>0, <1>1, <1>2, <4>2
      <4> QED BY <4>3
    <3> QED BY <1>1, <3>7, <3>8, <3>9
  <2> QED BY <1>2, <1>6, <2>1, <2>2
<1>22. \A k \in 0..Len(buffer') :
          Near(segments', Finished', ear' + Q[k], sent' - Frames(Len(buffer') - k))
  BY <1>18
<1>23. PICK R : R = Q OBVIOUS
<1>19. Pace(R)' BY <1>14, <1>16, <1>17, <1>22, <1>23 DEF Pace
<1>20. OnAir' BY <1>19 DEF OnAir
<1>21. Cut' BY <1>1 DEF Cut
<1> QED BY <1>7, <1>8, <1>9, <1>20, <1>21 DEF SpeechInv

\* A frame that is played is heard.
LEMMA SpeechProviderPlays == SpeechInv /\ Speech!ProviderPlays => SpeechInv'
<1> SUFFICES ASSUME SpeechInv, Speech!ProviderPlays PROVE SpeechInv'
  OBVIOUS
<1> DEFINE B == Len(buffer)
<1>0. MaxSentences \in Nat /\ Jitter \in Nat BY PlaybackAssumption
<1>1. /\ buffer # <<>> /\ ear' = ear + Head(buffer) /\ buffer' = Tail(buffer)
      /\ UNCHANGED <<answer, at, phase, segments, arrived, residue, toSend, sent, cancelled>>
  BY DEF Speech!ProviderPlays
<1>2. /\ segments \in Seq(Nat) /\ buffer \in Seq(Nat) /\ B \in Nat /\ B <= Jitter
      /\ toSend \in Nat /\ residue \in Nat /\ sent \in Nat /\ ear \in Nat
      /\ cancelled \in BOOLEAN
  BY DEF SpeechInv, SpeechShapes
<1>3. ~cancelled BY <1>1 DEF SpeechInv, Cut
<1>4. PICK P : Pace(P) BY <1>3 DEF SpeechInv, OnAir
<1>5. /\ Sums(buffer, P) /\ Total(segments) = ear + P[B] + toSend + residue
      /\ ear + P[B] <= sent
      /\ \A k \in 0..B : Near(segments, Finished, ear + P[k], sent - Frames(B - k))
  BY <1>4 DEF Pace
<1> DEFINE Q == [k \in 0..(B - 1) |-> P[k + 1] - Head(buffer)]
<1>6. Head(buffer) \in Nat /\ Sums(buffer', Q)
  <2>1. Head(buffer) \in Nat /\ Sums(Tail(buffer), Q) BY <1>1, <1>2, <1>5, SumsShorter
  <2> QED BY <1>1, <2>1
<1>7. /\ buffer' \in Seq(Nat) /\ Len(buffer') = B - 1 /\ B > 0 /\ B - 1 \in 0..(B - 1)
  BY <1>1, <1>2
<1>8. \A k \in 0..(B - 1) : Q[k] = P[k + 1] - Head(buffer) OBVIOUS
<1> HIDE DEF Q
<1>9. \A k \in 0..B : P[k] \in Nat BY <1>5 DEF Sums
<1>10. ASSUME NEW k \in 0..(B - 1)
       PROVE  k + 1 \in 0..B /\ ear' + Q[k] = ear + P[k + 1]
  <2>1. k + 1 \in 0..B BY <1>2
  <2>2. PICK p \in Nat, g \in Nat : p = P[k + 1] /\ g = Head(buffer) BY <1>6, <1>9, <2>1
  <2>3. Q[k] = p - g /\ ear' = ear + g BY <1>1, <1>8, <2>2
  <2>4. (ear + g) + (p - g) = ear + p BY <1>2, <2>2
  <2> QED BY <2>1, <2>2, <2>3, <2>4
<1>11. ear' \in Nat BY <1>1, <1>2, <1>6
<1>12. SpeechShapes'
  <2>1. Len(buffer') <= Jitter BY <1>0, <1>2, <1>7
  <2> QED BY <1>1, <1>7, <1>11, <2>1 DEF SpeechInv, SpeechShapes
<1>13. Phases' BY <1>1 DEF SpeechInv, Phases
<1>14. Registered' BY <1>1 DEF SpeechInv, Registered
<1>15. Finished' = Finished BY <1>1 DEF Finished
<1>16. ear' + Q[Len(buffer')] = ear + P[B]
  <2>1. (B - 1) + 1 = B BY <1>2
  <2> QED BY <1>7, <1>10, <2>1
<1>17. Total(segments') = ear' + Q[Len(buffer')] + toSend' + residue'
  BY <1>1, <1>5, <1>16
<1>18. ear' + Q[Len(buffer')] <= sent' BY <1>1, <1>5, <1>16
<1>19. ASSUME NEW k \in 0..Len(buffer')
       PROVE  Near(segments', Finished', ear' + Q[k], sent' - Frames(Len(buffer') - k))
  <2>1. k \in 0..(B - 1) BY <1>7
  <2>2. k + 1 \in 0..B /\ ear' + Q[k] = ear + P[k + 1] BY <1>10, <2>1
  <2>3. Near(segments, Finished, ear + P[k + 1], sent - Frames(B - (k + 1)))
    BY <1>5, <2>2
  <2>4. Len(buffer') - k = B - (k + 1) BY <1>2, <1>7, <2>1
  <2> QED BY <1>1, <1>15, <2>2, <2>3, <2>4
<1>23. \A k \in 0..Len(buffer') :
          Near(segments', Finished', ear' + Q[k], sent' - Frames(Len(buffer') - k))
  BY <1>19
<1>24. PICK R : R = Q OBVIOUS
<1>20. Pace(R)' BY <1>6, <1>17, <1>18, <1>23, <1>24 DEF Pace
<1>21. OnAir' BY <1>20 DEF OnAir
<1>22. Cut' BY <1>1, <1>3 DEF Cut
<1> QED BY <1>12, <1>13, <1>14, <1>21, <1>22 DEF SpeechInv

\* A cut loses no more than the buffer.
LEMMA SpeechBargesIn == SpeechInv /\ Speech!BargesIn => SpeechInv'
<1> SUFFICES ASSUME SpeechInv, Speech!BargesIn PROVE SpeechInv'
  OBVIOUS
<1> DEFINE B == Len(buffer)
<1>0. MaxSentences \in Nat /\ Jitter \in Nat BY PlaybackAssumption
<1>1. /\ phase # "over" /\ ~cancelled /\ cancelled' = TRUE /\ buffer' = <<>>
      /\ UNCHANGED <<answer, at, phase, segments, arrived, residue, toSend, sent, ear>>
  BY DEF Speech!BargesIn
<1>2. /\ segments \in Seq(Nat) /\ Len(segments) \in Nat /\ buffer \in Seq(Nat) /\ B \in Nat
      /\ B <= Jitter /\ toSend \in Nat /\ residue \in Nat /\ sent \in Nat /\ ear \in Nat
  BY DEF SpeechInv, SpeechShapes
<1>3. PICK P : Pace(P) BY <1>1 DEF SpeechInv, OnAir
<1>4. /\ Sums(buffer, P) /\ Total(segments) = ear + P[B] + toSend + residue
      /\ ear + P[B] <= sent
      /\ \A k \in 0..B : Near(segments, Finished, ear + P[k], sent - Frames(B - k))
  BY <1>3 DEF Pace
<1>5. P[0] = 0 /\ P[B] \in Nat
  <2>1. B \in 0..B BY <1>2
  <2> QED BY <1>4, <2>1 DEF Sums
<1>6. SpeechShapes'
  <2>1. buffer' \in Seq(Nat) /\ Len(buffer') = 0 BY <1>1
  <2>2. Len(buffer') <= Jitter BY <1>0, <2>1
  <2> QED BY <1>1, <2>1, <2>2 DEF SpeechInv, SpeechShapes
<1>7. Phases' BY <1>1 DEF SpeechInv, Phases
<1>8. Registered' BY <1>1 DEF SpeechInv, Registered
<1>9. Finished' = Finished /\ Finished \in Int BY <1>1, <1>2 DEF Finished
<1>10. OnAir' BY <1>1 DEF OnAir
<1>11. ear <= sent /\ ear <= Total(segments)
  <2>1. PICK p \in Nat : p = P[B] BY <1>5
  <2>2. ear <= ear + p /\ ear <= ear + p + toSend + residue BY <1>2
  <2>3. ear + p <= sent BY <1>4, <2>1
  <2> QED BY <1>2, <1>4, <2>1, <2>2, <2>3
<1>12. Near(segments, Finished, ear, sent - Frames(Jitter))
  <2>1. 0 \in 0..B /\ B - 0 = B /\ ear + 0 = ear BY <1>2
  <2>2. Near(segments, Finished, ear + P[0], sent - Frames(B - 0)) BY <1>4, <2>1
  <2>3. Near(segments, Finished, ear, sent - Frames(B)) BY <1>5, <2>1, <2>2
  <2>4. Frames(B) \in Int /\ Frames(Jitter) \in Int /\ Frames(B) <= Frames(Jitter)
    BY <1>0, <1>2, FramesAre
  <2>5. /\ sent - Frames(B) \in Int /\ sent - Frames(Jitter) \in Int
        /\ sent - Frames(Jitter) <= sent - Frames(B) /\ ear \in Int
    BY <1>2, <2>4
  <2> QED BY <1>2, <1>9, <2>3, <2>5, NearLess
<1>13. Cut' BY <1>1, <1>9, <1>11, <1>12 DEF Cut
<1> QED BY <1>6, <1>7, <1>8, <1>10, <1>13 DEF SpeechInv

\* Every step keeps the invariant.
LEMMA SpeechInvariant == SpeechInv /\ [Speech!Next]_(Speech!vars) => SpeechInv'
<1> SUFFICES ASSUME SpeechInv, [Speech!Next]_(Speech!vars) PROVE SpeechInv'
  OBVIOUS
<1>1. CASE UNCHANGED Speech!vars
  BY <1>1 DEF Speech!vars, SpeechInv, SpeechShapes, Phases, Registered, OnAir, Pace,
     Cut, Finished
<1> QED
  BY <1>1, SpeechPlaysWhole, SpeechChunkArrives, SpeechSendsFrame, SpeechFlushes,
     SpeechNextSentence, SpeechStops, SpeechSynthesisFails, SpeechProviderPlays,
     SpeechBargesIn DEF Speech!Next

-----------------------------------------------------------------------------
\* What the tracker takes for heard, once a cut answer is over.
LEMMA SpeechHeardBytes ==
  ASSUME SpeechInv, Speech!CutShort
  PROVE  /\ Speech!HeardBytes \in Nat
         /\ Speech!HeardBytes > 0 => Speech!HeardBytes <= sent - Frames(Jitter)
         /\ \/ Speech!HeardBytes >= sent - Frames(Jitter)
            \/ Speech!HeardBytes >= Total(segments) - Frames(Jitter)
         /\ Speech!HeardBytes = 0 \/ Speech!HeardBytes <= sent - Frames(Jitter)
<1>0. MaxSentences \in Nat /\ Jitter \in Nat /\ Frame \in Nat BY PlaybackAssumption
<1>1. /\ segments \in Seq(Nat) /\ Len(segments) \in Nat /\ Len(segments) <= MaxSentences
      /\ sent \in Nat
  BY <1>0 DEF SpeechInv, SpeechShapes
<1>2. Speech!TotalBytes = Total(segments) /\ Total(segments) \in Nat
  BY <1>1, Totals, StartIs DEF Speech!TotalBytes, Total
<1>3. PICK t \in Nat : t = Total(segments) BY <1>2
<1>4. PICK j \in Int : j = Frames(Jitter) BY <1>0, FramesAre
<1>5. Jitter * Frame = j
  <2>1. Jitter * Frame = Frame * Jitter BY <1>0
  <2> QED BY <1>4, <2>1 DEF Frames
<1>6. Speech!HeardBytes = Speech!GreatestOf(0, Speech!LeastOf(sent, t) - j)
  BY <1>2, <1>3, <1>5 DEF Speech!HeardBytes
<1> QED BY <1>1, <1>3, <1>4, <1>6 DEF Speech!GreatestOf, Speech!LeastOf

\* So it is nearly right.
LEMMA SpeechHeard == SpeechInv => Speech!HeardIsNearlyRight
<1> SUFFICES ASSUME SpeechInv, Speech!CutShort
             PROVE  /\ Speech!HeardBytes <= ear + (Frame - 1) * Len(segments)
                    /\ Speech!HeardBytes >= ear - Jitter * Frame
  BY DEF Speech!HeardIsNearlyRight
<1>0. MaxSentences \in Nat /\ Jitter \in Nat /\ Frame \in Nat BY PlaybackAssumption
<1>1. /\ segments \in Seq(Nat) /\ Len(segments) \in Nat /\ Len(segments) <= MaxSentences
      /\ sent \in Nat /\ ear \in Nat
  BY <1>0 DEF SpeechInv, SpeechShapes
<1>2. /\ cancelled /\ ear <= sent /\ ear <= Total(segments)
      /\ sent - Frames(Jitter) <= ear + Padding(Finished)
  BY DEF Speech!CutShort, SpeechInv, Cut, Near
<1>3. Finished \in Int /\ Finished <= Len(segments) BY <1>1 DEF Finished
<1>4. /\ Padding(Finished) \in Int /\ Padding(Len(segments)) \in Int
      /\ Padding(Finished) <= Padding(Len(segments))
      /\ 0 <= Padding(Len(segments))
  BY <1>1, <1>3, PaddingIs
<1>5. PICK j \in Int : j = Frames(Jitter) BY <1>0, FramesAre
<1>6. Jitter * Frame = j
  <2>1. Jitter * Frame = Frame * Jitter BY <1>0
  <2> QED BY <1>5, <2>1 DEF Frames
<1>7. PICK t \in Nat : t = Total(segments) BY <1>1, Totals
<1>8. PICK h \in Nat : /\ h = Speech!HeardBytes
                       /\ h = 0 \/ h <= sent - j
                       /\ h >= sent - j \/ h >= t - j
  BY <1>5, <1>7, SpeechHeardBytes
<1>9. h <= ear + Padding(Len(segments)) BY <1>1, <1>2, <1>4, <1>5, <1>8
<1>10. h >= ear - j BY <1>1, <1>2, <1>5, <1>7, <1>8
<1> QED BY <1>6, <1>8, <1>9, <1>10 DEF Padding

\* A share rounded down that is enough is enough of the audio.
LEMMA EnoughOfIt ==
  ASSUME NEW p \in Nat, NEW b \in Nat, b > 0, NEW W \in Nat, W > 0,
         ((W * p) \div b) * 10 >= W * 6
  PROVE  10 * p >= 6 * b
<1>1. PICK q : q = (W * p) \div b OBVIOUS
<1>2. W * p \in Nat BY SMT
<1>3. q \in Nat /\ q * b <= W * p
  <2>1. PICK x \in Nat : x = W * p BY <1>2
  <2>2. x \div b \in Nat /\ (x \div b) * b <= x BY SMT
  <2> QED BY <1>1, <2>1, <2>2
<1>4. q * 10 >= W * 6 BY <1>1
<1>5. 10 * (q * b) <= 10 * (W * p) /\ q * b \in Nat BY <1>2, <1>3
<1>6. b * (W * 6) <= b * (q * 10)
  <2>1. W * 6 \in Int /\ q * 10 \in Int BY <1>3
  <2> QED BY <1>3, <1>4, <2>1, Products
<1>7. b * (q * 10) = 10 * (q * b) /\ b * (W * 6) = W * (6 * b) /\ 10 * (W * p) = W * (10 * p)
  BY <1>3, SMT
<1>8. W * (6 * b) <= W * (10 * p)
  <2>1. PICK x \in Int, y \in Int, z \in Int : x = W * (6 * b) /\ y = 10 * (q * b) /\ z = W * (10 * p)
    BY <1>2, <1>5, <1>7
  <2> QED BY <1>5, <1>6, <1>7, <2>1
<1>9. ~ (10 * p + 1 <= 6 * b)
  <2> SUFFICES ASSUME 10 * p + 1 <= 6 * b PROVE FALSE
    OBVIOUS
  <2>1. 10 * p + 1 \in Int /\ 6 * b \in Int OBVIOUS
  <2>2. W * (10 * p + 1) <= W * (6 * b) BY <2>1, Products
  <2>3. W * (10 * p + 1) = W * (10 * p) + W BY SMT
  <2>4. PICK x \in Int, y \in Int : x = W * (6 * b) /\ y = W * (10 * p) BY SMT
  <2> QED BY <1>8, <2>2, <2>3, <2>4
<1> QED BY <1>9

\* What is credited, and of a sentence that is not repeated enough.
LEMMA CreditedIs ==
  ASSUME SpeechInv, Speech!CutShort, NEW i \in 1..Len(answer)
  PROVE  /\ Speech!Credited(i) \in Nat
         /\ Speech!Credited(i) * 10 >= Words * 6 =>
               /\ i <= Len(segments) /\ Speech!HeardBytes - Starts(segments)[i] > 0
               /\ 10 * (Speech!HeardBytes - Starts(segments)[i]) >= 6 * segments[i]
<1>0. MaxSentences \in Nat /\ Words \in Nat /\ Words > 0 BY PlaybackAssumption
<1>1. /\ segments \in Seq(Nat) /\ Len(segments) \in Nat /\ Len(segments) <= MaxSentences
      /\ Len(answer) \in Nat
  BY <1>0 DEF SpeechInv, SpeechShapes
<1>2. CASE i > Len(segments) \/ Speech!HeardBytes - Starts(segments)[i] <= 0
  <2>1. Speech!Credited(i) = 0 BY <1>2, StartIs DEF Speech!Credited
  <2> QED BY <1>0, <2>1
<1>3. CASE ~ (i > Len(segments) \/ Speech!HeardBytes - Starts(segments)[i] <= 0)
  <2>1. i \in 1..Len(segments) /\ i \in 1..(Len(segments) + 1) /\ segments[i] \in Nat
    BY <1>1, <1>3
  <2>2. Starts(segments)[i] \in Nat BY <1>1, <2>1, Totals
  <2>3. Speech!HeardBytes \in Nat BY SpeechHeardBytes
  <2>4. PICK p \in Int : p = Speech!HeardBytes - Starts(segments)[i] BY <2>2, <2>3
  <2>5. p \in Nat /\ p > 0 BY <1>3, <2>4
  <2>6. Speech!Credited(i) = IF p >= segments[i] THEN Words ELSE (Words * p) \div segments[i]
    BY <1>3, <2>4, StartIs DEF Speech!Credited
  <2>7. PICK b \in Nat : b = segments[i] BY <2>1
  <2>8. CASE p >= b
    <3>1. 10 * p >= 6 * b BY <2>5, <2>8
    <3>2. Speech!Credited(i) \in Nat BY <1>0, <2>6, <2>7, <2>8
    <3> QED BY <2>1, <2>4, <2>5, <2>7, <3>1, <3>2
  <2>9. CASE ~ (p >= b)
    <3>1. b > 0 BY <2>5, <2>9
    <3>2. Speech!Credited(i) = (Words * p) \div b BY <2>6, <2>7, <2>9
    <3>3. Words * p \in Nat BY <1>0, <2>5, SMT
    <3>4. Speech!Credited(i) \in Nat
      <4>1. PICK x \in Nat : x = Words * p BY <3>3
      <4>2. x \div b \in Nat BY <3>1, SMT
      <4> QED BY <3>2, <4>1, <4>2
    <3>5. Speech!Credited(i) * 10 >= Words * 6 => 10 * p >= 6 * b
      BY <1>0, <2>5, <3>1, <3>2, EnoughOfIt
    <3> QED BY <2>1, <2>4, <2>5, <2>7, <3>4, <3>5
  <2> QED BY <2>8, <2>9
<1> QED BY <1>2, <1>3

\* A sentence that is not repeated was credited with enough.
LEMMA NotRepeated ==
  ASSUME SpeechInv, Speech!CutShort, NEW i \in 1..Speech!LeastOf(Speech!Resumes - 1, Len(answer))
  PROVE  i \in 1..Len(answer) /\ Speech!Credited(i) * 10 >= Words * 6
<1> DEFINE partly == {k \in 1..Len(answer) : Speech!Credited(k) < Words}
           first == CHOOSE k \in partly : \A j \in partly : k <= j
<1>0. Words \in Nat /\ Len(answer) \in Nat
  BY PlaybackAssumption DEF SpeechInv, SpeechShapes
<1>1. Speech!Resumes = IF partly = {} THEN Len(answer) + 1
                       ELSE IF Speech!HeardEnough(Speech!Credited(first)) THEN first + 1 ELSE first
  BY DEF Speech!Resumes
<1>2. partly # {} => first \in partly /\ \A j \in partly : first <= j
  <2>1. partly \subseteq Nat BY <1>0
  <2> HIDE DEF partly
  <2> QED BY <2>1, LeastNat
<1>3. ASSUME NEW k \in 1..Len(answer), k \notin partly PROVE Speech!Credited(k) * 10 >= Words * 6
  <2>1. Speech!Credited(k) \in Nat BY CreditedIs
  <2>2. Speech!Credited(k) >= Words BY <1>0, <1>3, <2>1
  <2> QED BY <1>0, <2>1, <2>2
<1>4. partly \subseteq 1..Len(answer) OBVIOUS
<1> HIDE DEF partly, first
<1>5. CASE partly = {}
  <2>1. Speech!Resumes - 1 = Len(answer) BY <1>0, <1>1, <1>5
  <2>2. i \in 1..Len(answer) BY <1>0, <2>1 DEF Speech!LeastOf
  <2> QED BY <1>3, <1>5, <2>2
<1>6. CASE partly # {}
  <2>1. first \in 1..Len(answer) /\ first \in Nat /\ \A j \in partly : first <= j
    <3>1. first \in partly /\ \A j \in partly : first <= j BY <1>2, <1>6
    <3>2. first \in 1..Len(answer) BY <1>4, <3>1
    <3> QED BY <1>0, <3>1, <3>2
  <2>2. CASE Speech!HeardEnough(Speech!Credited(first))
    <3>1. Speech!Resumes - 1 = first BY <1>1, <1>6, <2>1, <2>2
    <3>2. i \in 1..Len(answer) /\ i <= first BY <1>0, <2>1, <3>1 DEF Speech!LeastOf
    <3>3. CASE i = first BY <2>2, <3>2, <3>3 DEF Speech!HeardEnough
    <3>4. CASE i # first
      <4>1. i \notin partly BY <1>0, <2>1, <3>2, <3>4
      <4> QED BY <1>3, <3>2, <4>1
    <3> QED BY <3>3, <3>4
  <2>3. CASE ~Speech!HeardEnough(Speech!Credited(first))
    <3>1. Speech!Resumes - 1 = first - 1 BY <1>1, <1>6, <2>3
    <3>2. i \in 1..Len(answer) /\ i < first BY <1>0, <2>1, <3>1 DEF Speech!LeastOf
    <3>3. i \notin partly BY <1>0, <2>1, <3>2
    <3> QED BY <1>3, <3>2, <3>3
  <2> QED BY <2>2, <2>3
<1> QED BY <1>5, <1>6

\* What is past its start was heard of a sentence, up to its end, or is padding.
LEMMA HeardOfIt ==
  ASSUME NEW a \in Nat, NEW b \in Nat, NEW s \in Nat, NEW e \in Nat, e = s + b,
         NEW h \in Nat, NEW u \in Int, h <= u, 10 * (h - s) >= 6 * b,
         NEW p \in Nat, NEW q \in Int, q <= p, a < e => u <= a + q
  PROVE  10 * (Speech!LeastOf(b, Speech!GreatestOf(0, a - s)) + p) >= 6 * b
<1>1. CASE a < e
  <2>1. h - s <= (a - s) + p BY <1>1
  <2>2. Speech!LeastOf(b, Speech!GreatestOf(0, a - s)) >= a - s
    BY <1>1 DEF Speech!LeastOf, Speech!GreatestOf
  <2>3. Speech!LeastOf(b, Speech!GreatestOf(0, a - s)) \in Int
    BY DEF Speech!LeastOf, Speech!GreatestOf
  <2> QED BY <2>1, <2>2, <2>3
<1>2. CASE ~ (a < e)
  <2>1. Speech!LeastOf(b, Speech!GreatestOf(0, a - s)) = b
    BY <1>2 DEF Speech!LeastOf, Speech!GreatestOf
  <2> QED BY <2>1
<1> QED BY <1>1, <1>2

\* So of it enough was heard, but for the padding.
LEMMA SpeechUnsaid == SpeechInv => Speech!NothingLeftUnsaid
<1> SUFFICES ASSUME SpeechInv, Speech!CutShort, NEW i \in 1..Speech!LeastOf(Speech!Resumes - 1, Len(answer)),
                    answer[i].whole
             PROVE  10 * (Speech!HeardOf(i) + (Frame - 1) * i) >= 6 * answer[i].bytes
  BY DEF Speech!NothingLeftUnsaid
<1>0. MaxSentences \in Nat /\ Jitter \in Nat /\ Frame \in Nat /\ Frame - 1 \in Nat
  BY PlaybackAssumption
<1>1. /\ segments \in Seq(Nat) /\ Len(segments) \in Nat /\ Len(segments) <= MaxSentences
      /\ Len(segments) <= Len(answer) /\ Len(answer) \in Nat /\ Len(answer) <= MaxSentences
      /\ sent \in Nat /\ ear \in Nat /\ answer \in Seq(Sentences)
  BY <1>0 DEF SpeechInv, SpeechShapes
<1>2. i \in 1..Len(answer) /\ Speech!Credited(i) * 10 >= Words * 6 BY NotRepeated
<1>3. /\ i \in 1..Len(segments) /\ Speech!HeardBytes - Starts(segments)[i] > 0
      /\ 10 * (Speech!HeardBytes - Starts(segments)[i]) >= 6 * segments[i]
  BY <1>1, <1>2, CreditedIs
<1>4. /\ i - 1 \in Nat /\ i \in Nat /\ i + 1 \in 1..(Len(segments) + 1)
      /\ i \in 1..(Len(segments) + 1) /\ i \in 0..MaxSentences /\ i \in 1..MaxSentences
      /\ i \in 1..(i + 1) /\ i + 1 \in 1..(i + 1)
  BY <1>0, <1>1, <1>3
<1>5. \A j \in 1..i : segments[j] = answer[j].bytes
  <2> SUFFICES ASSUME NEW j \in 1..i PROVE segments[j] = answer[j].bytes
    OBVIOUS
  <2>1. j \in 1..Len(segments) /\ (j = Len(segments) => j = i) BY <1>1, <1>3
  <2> QED BY <2>1 DEF SpeechInv, Registered
<1>6. Speech!FullStart[i] = Starts(segments)[i]
  <2> DEFINE b == [j \in 1..MaxSentences |-> answer[j].bytes]
  <2>1. \A j \in 1..i : segments[j] = b[j] BY <1>0, <1>4, <1>5
  <2>2. Speech!FullStart = Starts(b) BY FullStartIs
  <2> HIDE DEF b
  <2>3. Starts(segments)[i] = Starts(b)[i] BY <1>4, <2>1, StartsAgree
  <2> QED BY <2>2, <2>3
<1>7. PICK s \in Nat, b \in Nat, e \in Nat :
         /\ s = Starts(segments)[i] /\ b = segments[i] /\ e = Starts(segments)[i + 1]
         /\ e = s + b
  <2>1. Starts(segments)[i] \in Nat /\ Starts(segments)[i + 1] \in Nat
    BY <1>1, <1>4, Totals
  <2>2. Starts(segments)[i + 1] = Starts(segments)[i] + segments[i] BY <1>4, StartsAre
  <2>3. segments[i] \in Nat BY <1>1, <1>3
  <2> QED BY <2>1, <2>2, <2>3
<1>8. answer[i].bytes = b BY <1>4, <1>5, <1>7
<1>9. Speech!HeardOf(i) = Speech!LeastOf(b, Speech!GreatestOf(0, ear - s))
  BY <1>6, <1>7, <1>8 DEF Speech!HeardOf
<1>10. Padding(i) = Padding(i - 1) + (Frame - 1) /\ Padding(i) \in Nat /\ Padding(i - 1) \in Int
  <2>1. (i - 1) + 1 = i /\ i - 1 \in Int /\ 0 <= i /\ i \in Int BY <1>4
  <2>2. Padding(0) <= Padding(i) /\ Padding(i) \in Int BY <2>1, PaddingIs
  <2>3. Padding((i - 1) + 1) = Padding(i - 1) + (Frame - 1) /\ Padding(i - 1) \in Int
    BY <2>1, PaddingIs
  <2>4. 0 <= Padding(i) BY <2>2, PaddingIs
  <2>5. Padding(i) \in Nat BY <2>2, <2>4
  <2> QED BY <2>1, <2>3, <2>5
<1>11. PICK h \in Nat : h = Speech!HeardBytes /\ h - s > 0 /\ 10 * (h - s) >= 6 * b
  BY <1>3, <1>7, SpeechHeardBytes
<1>12. PICK u \in Int : u = sent - Frames(Jitter) /\ h <= u
  <2>1. Frames(Jitter) \in Int BY <1>0, FramesAre
  <2>2. sent - Frames(Jitter) \in Int BY <1>1, <2>1
  <2>3. Speech!HeardBytes > 0 BY <1>7, <1>11
  <2> QED BY <1>11, <2>2, <2>3, SpeechHeardBytes
<1>13. ear < e => u <= ear + Padding(i - 1)
  BY <1>3, <1>7, <1>12 DEF Speech!CutShort, SpeechInv, Cut, Near
<1>14. PICK p \in Nat, q \in Int : p = Padding(i) /\ q = Padding(i - 1) /\ q <= p
  BY <1>0, <1>10
<1>15. 10 * (Speech!LeastOf(b, Speech!GreatestOf(0, ear - s)) + p) >= 6 * b
  <2>1. PICK a \in Nat : a = ear BY <1>1
  <2>2. s \in Nat /\ b \in Nat /\ e \in Nat /\ e = s + b BY <1>7
  <2>3. h \in Nat /\ h <= u /\ 10 * (h - s) >= 6 * b BY <1>11, <1>12
  <2>4. u \in Int /\ p \in Nat /\ q \in Int /\ q <= p BY <1>12, <1>14
  <2>5. a < e => u <= a + q BY <1>13, <1>14, <2>1
  <2>6. 10 * (Speech!LeastOf(b, Speech!GreatestOf(0, a - s)) + p) >= 6 * b
    BY ONLY <2>1, <2>2, <2>3, <2>4, <2>5, HeardOfIt
  <2> QED BY <2>1, <2>6
<1> QED BY <1>8, <1>9, <1>14, <1>15 DEF Padding

\* Until the part is chosen to be the playback, nothing is cut.
SpeechHolds == IF part = "speech" THEN SpeechInv ELSE ~cancelled

LEMMA ServicesSpeech ==
    /\ ServicesInit => SpeechHolds
    /\ SpeechHolds /\ [ServicesNext]_allVars => SpeechHolds'
<1>1. ServicesInit => SpeechHolds BY SpeechInitially DEF ServicesInit, SpeechHolds
<1>2. ASSUME SpeechHolds, [ServicesNext]_allVars PROVE SpeechHolds'
  <2>1. part' = part BY <1>2 DEF ServicesNext, allVars, InBreaker, InSync, InSpeech
  <2>2. CASE part = "speech"
    <3>1. [Speech!Next]_(Speech!vars)
      BY <1>2, <2>2
         DEF ServicesNext, allVars, speech, Speech!vars, InBreaker, InSync, InSpeech
    <3>2. SpeechInv' BY <1>2, <2>2, <3>1, SpeechInvariant DEF SpeechHolds
    <3> QED BY <2>1, <2>2, <3>2 DEF SpeechHolds
  <2>3. CASE part # "speech"
    <3>1. cancelled' = cancelled
      BY <1>2, <2>3
         DEF ServicesNext, allVars, speech, InBreaker, InSync, InSpeech
    <3> QED BY <1>2, <2>1, <2>3, <3>1 DEF SpeechHolds
  <2> QED BY <2>2, <2>3
<1> QED BY <1>1, <1>2

\* What the tracker takes for heard of an answer that was cut is off by no more
\* than the provider's buffer one way and the padding of its sentences the other,
\* for any answer, chunks, frames and allowance, and wherever the cut falls.
THEOREM ServicesHeardNearlyRight == ServicesSpec => []HeardIsNearlyRight
<1>1. SpeechHolds => HeardIsNearlyRight
  BY SpeechHeard DEF SpeechHolds, HeardIsNearlyRight, Speech!HeardIsNearlyRight, Speech!CutShort
<1> QED BY <1>1, ServicesSpeech, PTL DEF ServicesSpec

\* So a sentence that came whole is taken up again unless enough of it was heard,
\* but for that padding.
THEOREM ServicesNothingUnsaid == ServicesSpec => []NothingLeftUnsaid
<1>1. SpeechHolds => NothingLeftUnsaid
  BY SpeechUnsaid DEF SpeechHolds, NothingLeftUnsaid, Speech!NothingLeftUnsaid, Speech!CutShort
<1> QED BY <1>1, ServicesSpeech, PTL DEF ServicesSpec
=============================================================================
