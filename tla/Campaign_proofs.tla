-------------------------- MODULE Campaign_proofs --------------------------
(***************************************************************************)
(* Theorems about Campaign, for every set of campaigns, farmers, users and *)
(* job slots and every value of the caps and bounds; and, with the mapping *)
(* of MCCampaign, that the dialer implements the ledger of the caps.       *)
(***************************************************************************)
EXTENDS MCCampaign, FiniteSetTheorems, TLAPS

\* What a request in flight carries with it: a campaign that exists, an approver
\* once it is past the guard of start, and the four eyes of an approval.
RequestsSound ==
    \A u \in Users :
        LET k == req[u].camp IN
        /\ req[u].op = "idle" => req[u] = Idle
        /\ req[u].op # "idle" => k \in Campaigns /\ status[k] # "absent"
        /\ req[u].op = "start" => approver[k] # NoUser
        /\ req[u].step = "enqueue" => req[u].op = "start"
        /\ req[u].op = "approve" => /\ req[u].step = "commit"
                                    /\ creator[k] = u => u \in SuperAdmins

\* A slot holds a campaign exactly while it is in use, and tasks only while its
\* run is under way.
JobsSound ==
    \A j \in Jobs :
        /\ pc[j] # "free" => camp[j] \in Campaigns
        /\ pc[j] = "free" => camp[j] = NoCampaign
        /\ pc[j] \in {"free", "queued"} => \A f \in Farmers : task[j][f] = "none"
        /\ pc[j] \in Recheckings => cur[j] \in Farmers
        /\ pc[j] \notin Recheckings => cur[j] = NoFarmer

\* A run takes a contact up once: what it rechecks or dials is no longer to do, and
\* what it dials it does not recheck.
TakenOnce ==
    \A j \in Jobs :
        /\ cur[j] \notin todo[j]
        /\ \A f \in Farmers : task[j][f] # "none" => f \notin todo[j] /\ f # cur[j]

\* A campaign that does not exist yet has neither creator nor approver.
AbsentSound ==
    \A k \in Campaigns : status[k] = "absent" => approver[k] = NoUser /\ creator[k] = NoUser

IInv ==
    /\ TypeOK
    /\ ApprovedBeforeDialled /\ FourEyes
    /\ RequestsSound /\ JobsSound /\ TakenOnce /\ AbsentSound

LEMMA InitIInv == Init => IInv
  <1> USE CampaignAssumption, CapsAssumption
  <1> SUFFICES ASSUME Init PROVE IInv
    OBVIOUS
  <1>1. TypeOK
    BY
       DEF Init, TypeOK, TypeCampaigns, TypeContacts, TypeJobs, TypeTasks, TypePanel, TypeWorld,
           RequestRecord, Idle, CampaignStatus, ContactStatus, Never, Facts, Unseen
  <1>2. ApprovedBeforeDialled /\ FourEyes /\ AbsentSound
    BY DEF Init, ApprovedBeforeDialled, FourEyes, AbsentSound
  <1>3. RequestsSound /\ JobsSound /\ TakenOnce
    BY DEF Init, RequestsSound, JobsSound, TakenOnce, Idle, Recheckings
  <1> QED BY <1>1, <1>2, <1>3 DEF IInv

LEMMA DialTaskHasCampaign ==
  ASSUME TypeJobs, JobsSound, NEW j \in Jobs, NEW f \in Farmers, task[j][f] # "none"
  PROVE  camp[j] \in Campaigns
  BY DEF JobsSound

\* A query of recheck moves its run on and notes what it has seen; nothing else.
LEMMA QueryIs ==
  ASSUME TypeJobs, NEW j \in Jobs, Queries(j)
  PROVE  /\ pc[j] \in Recheckings /\ pc' = [pc EXCEPT ![j] = pc'[j]] /\ pc'[j] \in Recheckings
         /\ seen' = [seen EXCEPT ![j] = seen'[j]]
         /\ UNCHANGED <<camp, todo, cur, reason, tries, campaignVars, contactVars, dnc,
                        control, task, req, phoneVars, now, bounds>>
  BY DEF Queries, ReadRow, ReadSuppression, ReadWeek, ReadElsewhere, Reads, Recheckings, TypeJobs

LEMMA UnseenIsFacts == Unseen \in Facts
  BY DEF Unseen, Facts

\* What it notes are facts about a contact.
LEMMA QuerySeesFacts ==
  ASSUME TypeContacts, TypeJobs, TypeWorld, JobsSound, NEW j \in Jobs, Queries(j)
  PROVE  seen'[j] \in Facts
  <1>1. camp[j] \in Campaigns /\ cur[j] \in Farmers
    BY QueryIs DEF JobsSound, Recheckings
  <1>2. seen[j] \in Facts
    BY DEF TypeJobs
  <1>3. seen'[j] \in Facts
    <2>1. CASE ReadRow(j)
      <3>1. PICK d : d = now \div WeekLength
        OBVIOUS
      <3>2. d \in Int /\ WeekLength \in Int
        BY <3>1, CampaignAssumption DEF TypeWorld
      <3>3. d * WeekLength \in Int
        BY <3>2
      <3>4. PICK week : week = WeekStart(now) /\ week \in Int
        BY <3>1, <3>3 DEF WeekStart
      <3>5. attempts[camp[j]][cur[j]] \in Nat /\ last[camp[j]][cur[j]] \in Nat \cup {Never}
        BY <1>1 DEF TypeContacts
      <3>6. PICK a \in Nat, l \in Nat \cup {Never} :
              seen'[j] = [Unseen EXCEPT !.attempts = a, !.last = l, !.since = week]
        BY <2>1, <3>4, <3>5 DEF ReadRow, Reads, TypeJobs
      <3> QED BY <3>4, <3>6, UnseenIsFacts DEF Facts
    <2>2. CASE ReadSuppression(j)
      <3>1. PICK dnds, dncs : dnds = (cur[j] \in DndRegistered) /\ dncs = (cur[j] \in dnc)
        OBVIOUS
      <3>2. dnds \in BOOLEAN /\ dncs \in BOOLEAN
        BY <3>1
      <3>3. seen'[j] = [seen[j] EXCEPT !.dnd = dnds, !.dnc = dncs]
        BY <2>2, <3>1 DEF ReadSuppression, Reads, TypeJobs
      <3> QED BY <1>2, <3>2, <3>3 DEF Facts
    <2>3. CASE ReadWeek(j)
      <3> DEFINE week == {k \in Campaigns : cur[j] \in list[k] /\ last[k][cur[j]] >= seen[j].since}
      <3>1. Cardinality(week) \in Nat
        BY CampaignAssumption, FS_Subset, FS_CardinalityType
      <3>2. seen'[j] = [seen[j] EXCEPT !.weekly = Cardinality(week)]
        BY <2>3 DEF ReadWeek, Reads, ContactsThisWeek, TypeJobs
      <3> HIDE DEF week
      <3> QED BY <1>2, <3>1, <3>2 DEF Facts
    <2>4. CASE ReadElsewhere(j)
      <3>1. PICK b \in BOOLEAN : seen'[j] = [seen[j] EXCEPT !.elsewhere = b]
        BY <2>4 DEF ReadElsewhere, Reads, InAnotherLiveCampaign, TypeJobs
      <3> QED BY <1>2, <3>1 DEF Facts
    <2> QED BY <2>1, <2>2, <2>3, <2>4 DEF Queries
  <1> QED BY <1>3

LEMMA TypeOKNext == TypeOK /\ JobsSound /\ RequestsSound /\ [Next]_vars => TypeOK'
  <1> USE CampaignAssumption DEF Never, UnderWay, Recheckings
  <1> SUFFICES ASSUME TypeOK, JobsSound, RequestsSound, [Next]_vars PROVE TypeOK'
    OBVIOUS
  <1> TypeCampaigns /\ TypeContacts /\ TypeJobs /\ TypeTasks /\ TypePanel /\ TypeWorld
    BY DEF TypeOK
  <1>1. ASSUME NEW u \in Users, NEW k \in Campaigns, CreateCampaign(u, k) PROVE TypeOK'
    <2>1. TypeJobs' /\ TypeTasks' /\ TypePanel' /\ TypeWorld'
      BY <1>1
         DEF CreateCampaign, TypeJobs, TypeTasks, TypePanel, TypeWorld, jobVars, phoneVars, bounds
    <2>2. TypeCampaigns'
      BY <1>1 DEF CreateCampaign, TypeCampaigns, Imported, CampaignStatus
    <2>3. TypeContacts'
      BY <1>1 DEF CreateCampaign, TypeContacts, Imported, ContactStatus
    <2> QED BY <2>1, <2>2, <2>3 DEF TypeOK
  <1>2. ASSUME NEW u \in Users, NEW k \in Campaigns, QuickDial(u, k) PROVE TypeOK'
    <2>1. TypeJobs' /\ TypeTasks'
      BY <1>2 DEF QuickDial, TypeJobs, TypeTasks, jobVars
    <2>2. TypeCampaigns'
      BY <1>2 DEF QuickDial, TypeCampaigns, Imported, CampaignStatus
    <2>3. TypeContacts'
      BY <1>2 DEF QuickDial, TypeContacts, Imported, ContactStatus
    <2>4. TypePanel'
      BY <1>2 DEF QuickDial, TypePanel, RequestRecord, CampaignStatus
    <2>5. TypeWorld'
      BY <1>2 DEF QuickDial, TypeWorld, phoneVars
    <2> QED BY <2>1, <2>2, <2>3, <2>4, <2>5 DEF TypeOK
  <1>3. ASSUME NEW u \in Users, NEW k \in Campaigns, LoadApprove(u, k) PROVE TypeOK'
    <2>1. TypeCampaigns' /\ TypeContacts' /\ TypeJobs' /\ TypeTasks' /\ TypeWorld'
      BY <1>3
         DEF LoadApprove, TypeCampaigns, TypeContacts, TypeJobs, TypeTasks, TypeWorld,
             campaignVars, contactVars, jobVars, phoneVars, bounds
    <2>2. TypePanel'
      BY <1>3 DEF LoadApprove, TypePanel, Request, RequestRecord, TypeCampaigns
    <2> QED BY <2>1, <2>2 DEF TypeOK
  <1>4. ASSUME NEW u \in Users, NEW k \in Campaigns, NEW op \in {"start", "pause", "stop"},
               LoadControl(u, k, op)
         PROVE  TypeOK'
    <2>1. TypeCampaigns' /\ TypeContacts' /\ TypeJobs' /\ TypeTasks'
      BY <1>4
         DEF LoadControl, TypeCampaigns, TypeContacts, TypeJobs, TypeTasks, campaignVars,
             contactVars, jobVars
    <2>2. TypePanel'
      BY <1>4 DEF LoadControl, TypePanel, Request, RequestRecord, TypeCampaigns
    <2>3. TypeWorld'
      BY <1>4 DEF LoadControl, TypeWorld, phoneVars
    <2> QED BY <2>1, <2>2, <2>3 DEF TypeOK
  <1>5. ASSUME NEW u \in Users, SetControl(u) PROVE TypeOK'
    <2>1. TypeCampaigns' /\ TypeContacts' /\ TypeJobs' /\ TypeTasks' /\ TypeWorld'
      BY <1>5
         DEF SetControl, TypeCampaigns, TypeContacts, TypeJobs, TypeTasks, TypeWorld, campaignVars,
             contactVars, jobVars, phoneVars, bounds
    <2>2. TypePanel'
      BY <1>5 DEF SetControl, TypePanel, RequestsSound, Idle, RequestRecord
    <2> QED BY <2>1, <2>2 DEF TypeOK
  <1>6. ASSUME NEW u \in Users, Enqueue(u) PROVE TypeOK'
    <2>1. TypeCampaigns' /\ TypeContacts' /\ TypeTasks' /\ TypeWorld'
      BY <1>6
         DEF Enqueue, TypeCampaigns, TypeContacts, TypeTasks, TypeWorld, campaignVars, contactVars,
             phoneVars, bounds
    <2>2. TypeJobs'
      <3>1. req[u].camp \in Campaigns \cup {NoCampaign}
        BY DEF TypePanel, RequestRecord
      <3>2. PICK i \in Jobs : /\ pc' = [pc EXCEPT ![i] = "queued"]
                              /\ camp' = [camp EXCEPT ![i] = req[u].camp]
                              /\ tries' = [tries EXCEPT ![i] = 0]
        BY <1>6 DEF Enqueue
      <3>3. UNCHANGED <<todo, cur, seen, reason>>
        BY <1>6 DEF Enqueue
      <3> QED BY <3>1, <3>2, <3>3 DEF TypeJobs
    <2>3. TypePanel'
      BY <1>6 DEF Enqueue, TypePanel, RequestRecord
    <2> QED BY <2>1, <2>2, <2>3 DEF TypeOK
  <1>7. ASSUME NEW u \in Users, CommitApprove(u) PROVE TypeOK'
    <2>1. TypeContacts' /\ TypeJobs' /\ TypeTasks' /\ TypeWorld'
      BY <1>7
         DEF CommitApprove, TypeContacts, TypeJobs, TypeTasks, TypeWorld, contactVars, jobVars,
             phoneVars, bounds
    <2>2. TypeCampaigns'
      BY <1>7 DEF CommitApprove, TypeCampaigns, CampaignStatus
    <2>3. TypePanel'
      BY <1>7 DEF CommitApprove, TypePanel, Idle, RequestRecord
    <2> QED BY <2>1, <2>2, <2>3 DEF TypeOK
  <1>8. ASSUME NEW u \in Users, CommitControl(u) PROVE TypeOK'
    <2>1. TypeContacts' /\ TypeJobs' /\ TypeTasks' /\ TypeWorld'
      BY <1>8
         DEF CommitControl, TypeContacts, TypeJobs, TypeTasks, TypeWorld, contactVars, jobVars,
             phoneVars, bounds
    <2>2. TypeCampaigns'
      BY <1>8 DEF CommitControl, TypeCampaigns, Mark, Target, CampaignStatus
    <2>3. TypePanel'
      BY <1>8 DEF CommitControl, TypePanel, Idle, RequestRecord
    <2> QED BY <2>1, <2>2, <2>3 DEF TypeOK
  <1>9. ASSUME NEW u \in Users, RequestFails(u) PROVE TypeOK'
    <2>1. TypeCampaigns' /\ TypeContacts' /\ TypeJobs' /\ TypeTasks'
      BY <1>9
         DEF RequestFails, TypeCampaigns, TypeContacts, TypeJobs, TypeTasks, campaignVars,
             contactVars, jobVars
    <2>2. TypePanel'
      BY <1>9 DEF RequestFails, TypePanel, Idle, RequestRecord
    <2>3. TypeWorld'
      BY <1>9 DEF RequestFails, TypeWorld, phoneVars
    <2> QED BY <2>1, <2>2, <2>3 DEF TypeOK
  <1>10. ASSUME NEW j \in Jobs, StartRun(j) PROVE TypeOK'
    <2>1. TypeContacts' /\ TypeTasks' /\ TypePanel' /\ TypeWorld'
      BY <1>10
         DEF StartRun, TypeContacts, TypeTasks, TypePanel, TypeWorld, contactVars, phoneVars, bounds
    <2>2. TypeCampaigns'
      BY <1>10 DEF StartRun, TypeCampaigns, Mark, CampaignStatus
    <2>3. TypeJobs'
      <3>1. list[camp[j]] \in SUBSET Farmers
        BY <1>10 DEF StartRun, TypeContacts, JobsSound
      <3>2. UNCHANGED <<camp, cur, seen>>
        BY <1>10 DEF StartRun
      <3>3. CASE Gate(camp[j]).blockedBy # {}
        BY <1>10, <3>2, <3>3 DEF StartRun, TypeJobs
      <3>4. CASE Gate(camp[j]).blockedBy = {}
        <4>1. /\ pc' = [pc EXCEPT ![j] = "loop"]
              /\ reason' = [reason EXCEPT ![j] = "none"]
          BY <1>10, <3>4 DEF StartRun
        <4>2. todo' = [todo EXCEPT ![j] = list[camp[j]]]
          BY <1>10, <3>4 DEF StartRun
        <4>3. todo' \in [Jobs -> SUBSET Farmers]
          BY <4>2, <3>1 DEF TypeJobs
        <4>4. tries' = [tries EXCEPT ![j] = @ + 1]
          BY <1>10, <3>4 DEF StartRun
        <4>5. tries' \in [Jobs -> Nat]
          <5>1. tries \in [Jobs -> Nat]
            BY DEF TypeJobs
          <5>2. tries[j] + 1 \in Nat
            BY <5>1
          <5> QED BY <4>4, <5>1, <5>2
        <4> QED BY <4>1, <4>3, <4>5, <3>2 DEF TypeJobs
      <3> QED BY <3>3, <3>4
    <2> QED BY <2>1, <2>2, <2>3 DEF TypeOK
  <1>11. ASSUME NEW j \in Jobs, NEW i \in {"none", "paused", "cancelled"}, TakeContact(j, i),
                UNCHANGED requests, faults' = faults \/ faults' = faults + 1
         PROVE  TypeOK'
    <2>1. TypeCampaigns' /\ TypeContacts' /\ TypeTasks' /\ TypePanel'
      BY <1>11
         DEF TakeContact, TypeCampaigns, TypeContacts, TypeTasks, TypePanel, campaignVars,
             contactVars
    <2>2. TypeJobs'
      <3>1. StopReason(i) \in {"none", "paused", "cancelled", "outside the calling window"}
        BY DEF StopReason
      <3>2. /\ reason' = [reason EXCEPT ![j] = StopReason(i)]
            /\ UNCHANGED <<camp, tries, seen>>
        BY <1>11 DEF TakeContact
      <3>3. CASE pc' = [pc EXCEPT ![j] = "gather"] /\ UNCHANGED <<todo, cur>>
        BY <3>1, <3>2, <3>3 DEF TypeJobs
      <3>4. ASSUME NEW f \in todo[j],
                   pc' = [pc EXCEPT ![j] = "recheck"],
                   cur' = [cur EXCEPT ![j] = f],
                   todo' = [todo EXCEPT ![j] = @ \ {f}]
            PROVE  TypeJobs'
        BY <3>1, <3>2, <3>4 DEF TypeJobs
      <3> QED BY <1>11, <3>3, <3>4 DEF TakeContact
    <2>3. TypeWorld'
      BY <1>11 DEF TakeContact, TypeWorld, phoneVars
    <2> QED BY <2>1, <2>2, <2>3 DEF TypeOK
  <1>12. ASSUME NEW j \in Jobs, ReadControl(j) PROVE TypeOK'
    <2>1. control[camp[j]] \in {"none", "paused", "cancelled"}
      BY <1>12 DEF TypePanel, ReadControl, TakeContact, JobsSound
    <2> QED
      BY <1>12, <1>11, <2>1 DEF ReadControl, bounds
  <1>13. ASSUME NEW j \in Jobs, ControlUnreachable(j) PROVE TypeOK'
    BY <1>13, <1>11 DEF ControlUnreachable
  <1>14. ASSUME NEW j \in Jobs, RecheckContact(j) PROVE TypeOK'
    <2>1. TypeCampaigns' /\ TypeContacts' /\ TypePanel' /\ TypeWorld'
      BY <1>14
         DEF RecheckContact, TypeCampaigns, TypeContacts, TypePanel, TypeWorld, campaignVars,
             contactVars, phoneVars, bounds
    <2>2. TypeJobs'
      BY <1>14, UnseenIsFacts DEF RecheckContact, TypeJobs
    <2>3. TypeTasks'
      BY <1>14 DEF RecheckContact, TypeTasks, JobsSound
    <2> QED BY <2>1, <2>2, <2>3 DEF TypeOK
  <1>28. ASSUME NEW j \in Jobs, Queries(j) PROVE TypeOK'
    <2> HIDE DEF Recheckings
    <2>1. TypeCampaigns' /\ TypeContacts' /\ TypeTasks' /\ TypePanel' /\ TypeWorld'
      BY <1>28, QueryIs
         DEF TypeCampaigns, TypeContacts, TypeTasks, TypePanel, TypeWorld, campaignVars,
             contactVars, phoneVars, bounds
    <2>2. TypeJobs'
      <3>1. PICK facts \in Facts : seen' = [seen EXCEPT ![j] = facts]
        BY <1>28, QueryIs, QuerySeesFacts
      <3>2. PICK next \in Recheckings : pc' = [pc EXCEPT ![j] = next]
        BY <1>28, QueryIs
      <3>3. UNCHANGED <<camp, todo, cur, reason, tries>>
        BY <1>28, QueryIs
      <3> QED BY <3>1, <3>2, <3>3 DEF TypeJobs
    <2> QED BY <2>1, <2>2 DEF TypeOK
  <1>15. ASSUME NEW j \in Jobs, EndOfList(j) PROVE TypeOK'
    <2>1. TypeCampaigns' /\ TypeContacts' /\ TypeTasks' /\ TypePanel' /\ TypeWorld'
      BY <1>15
         DEF EndOfList, TypeCampaigns, TypeContacts, TypeTasks, TypePanel, TypeWorld, campaignVars,
             contactVars, phoneVars, bounds
    <2>2. TypeJobs'
      BY <1>15 DEF EndOfList, TypeJobs
    <2> QED BY <2>1, <2>2 DEF TypeOK
  <1>16. ASSUME NEW j \in Jobs, FinishRun(j) PROVE TypeOK'
    <2>1. TypeContacts' /\ TypeTasks' /\ TypePanel' /\ TypeWorld'
      BY <1>16
         DEF FinishRun, TypeContacts, TypeTasks, TypePanel, TypeWorld, contactVars, phoneVars,
             bounds
    <2>2. TypeCampaigns'
      BY <1>16 DEF FinishRun, TypeCampaigns, Mark, FinalStatus, CampaignStatus
    <2>3. TypeJobs'
      BY <1>16 DEF FinishRun, TypeJobs
    <2> QED BY <2>1, <2>2, <2>3 DEF TypeOK
  <1>17. ASSUME NEW j \in Jobs, ReleaseSlot(j) PROVE TypeOK'
    <2>1. TypeCampaigns' /\ TypeContacts' /\ TypeTasks' /\ TypePanel' /\ TypeWorld'
      BY <1>17
         DEF ReleaseSlot, TypeCampaigns, TypeContacts, TypeTasks, TypePanel, TypeWorld,
             campaignVars, contactVars, phoneVars, bounds
    <2>2. TypeJobs'
      BY <1>17 DEF ReleaseSlot, TypeJobs
    <2> QED BY <2>1, <2>2 DEF TypeOK
  <1>18. ASSUME NEW j \in Jobs, NEW f \in Farmers, RecordAttempt(j, f) PROVE TypeOK'
    <2>1. TypeCampaigns' /\ TypeJobs' /\ TypePanel' /\ TypeWorld'
      BY <1>18
         DEF RecordAttempt, TypeCampaigns, TypeJobs, TypePanel, TypeWorld, campaignVars, jobVars,
             phoneVars, bounds
    <2>2. TypeContacts'
      <3>1. camp[j] \in Campaigns
        BY <1>18, DialTaskHasCampaign DEF RecordAttempt
      <3> QED BY <1>18, <3>1 DEF RecordAttempt, TypeContacts, NextAttempt, ContactStatus, TypeWorld
    <2>3. TypeTasks'
      BY <1>18 DEF RecordAttempt, TypeTasks
    <2> QED BY <2>1, <2>2, <2>3 DEF TypeOK
  <1>19. ASSUME NEW j \in Jobs, NEW f \in Farmers, OriginateReturns(j, f) PROVE TypeOK'
    <2>1. TypeCampaigns' /\ TypeContacts' /\ TypeJobs' /\ TypePanel'
      BY <1>19
         DEF OriginateReturns, TypeCampaigns, TypeContacts, TypeJobs, TypePanel, campaignVars,
             contactVars, jobVars
    <2>2. TypeTasks'
      BY <1>19 DEF OriginateReturns, TypeTasks
    <2>3. TypeWorld'
      <3>1. camp[j] \in Campaigns
        BY <1>19, DialTaskHasCampaign DEF OriginateReturns
      <3> QED BY <1>19, <3>1 DEF OriginateReturns, TypeWorld, bounds
    <2> QED BY <2>1, <2>2, <2>3 DEF TypeOK
  <1>20. ASSUME NEW j \in Jobs, NEW f \in Farmers, OriginateRaises(j, f) PROVE TypeOK'
    <2>1. TypeCampaigns' /\ TypeJobs' /\ TypePanel'
      BY <1>20 DEF OriginateRaises, TypeCampaigns, TypeJobs, TypePanel, campaignVars, jobVars
    <2>2. TypeContacts'
      BY <1>20 DEF OriginateRaises, TypeContacts, ContactStatus
    <2>3. TypeTasks'
      BY <1>20 DEF OriginateRaises, TypeTasks
    <2>4. TypeWorld'
      <3>1. camp[j] \in Campaigns
        BY <1>20, DialTaskHasCampaign DEF OriginateRaises
      <3>2. CASE UNCHANGED phoneVars
        BY <1>20, <3>2 DEF OriginateRaises, TypeWorld, phoneVars
      <3>3. CASE /\ placed' = [placed EXCEPT ![camp[j]][f] = @ + 1]
                 /\ onCall' = onCall \cup {<<camp[j], f>>}
        BY <1>20, <3>1, <3>3 DEF OriginateRaises, TypeWorld
      <3> QED BY <1>20, <3>2, <3>3 DEF OriginateRaises
    <2> QED BY <2>1, <2>2, <2>3, <2>4 DEF TypeOK
  <1>21. ASSUME NEW j \in Jobs, camp[j] \in Campaigns, MaybePlaced(camp[j], Dialing(j))
         PROVE  /\ placed' \in [Campaigns -> [Farmers -> Nat]]
                /\ onCall' \subseteq Campaigns \X Farmers
    BY <1>21 DEF TypeWorld, MaybePlaced, Dialing
  <1>22. ASSUME NEW j \in Jobs, JobTimesOut(j) PROVE TypeOK'
    <2>1. TypeCampaigns' /\ TypeContacts' /\ TypePanel'
      BY <1>22 DEF JobTimesOut, TypeCampaigns, TypeContacts, TypePanel, campaignVars, contactVars
    <2>2. TypeJobs'
      BY <1>22, UnseenIsFacts DEF JobTimesOut, TypeJobs
    <2>3. TypeTasks'
      BY <1>22 DEF JobTimesOut, TypeTasks
    <2>4. TypeWorld'
      BY <1>22, <1>21 DEF JobTimesOut, TypeWorld, phoneVars, JobsSound
    <2> QED BY <2>1, <2>2, <2>3, <2>4 DEF TypeOK
  <1>23. ASSUME NEW j \in Jobs, WorkerDies(j) PROVE TypeOK'
    <2>1. TypeCampaigns' /\ TypeContacts' /\ TypePanel'
      BY <1>23 DEF WorkerDies, TypeCampaigns, TypeContacts, TypePanel, campaignVars, contactVars
    <2>2. TypeJobs'
      BY <1>23, UnseenIsFacts DEF WorkerDies, TypeJobs
    <2>3. TypeTasks'
      BY <1>23 DEF WorkerDies, TypeTasks
    <2>4. TypeWorld'
      BY <1>23, <1>21 DEF WorkerDies, TypeWorld, JobsSound
    <2> QED BY <2>1, <2>2, <2>3, <2>4 DEF TypeOK
  <1>24. ASSUME NEW k \in Campaigns, NEW f \in Farmers,
                NEW result \in {"completed", "no_answer", "failed", "opted_out"}, CallEnds(k, f, result)
         PROVE  TypeOK'
    <2>1. TypeCampaigns' /\ TypeJobs' /\ TypeTasks' /\ TypePanel'
      BY <1>24 DEF CallEnds, TypeCampaigns, TypeJobs, TypeTasks, TypePanel, campaignVars, jobVars
    <2>2. TypeContacts'
      BY <1>24 DEF CallEnds, TypeContacts, ContactStatus
    <2>3. TypeWorld'
      BY <1>24 DEF CallEnds, TypeWorld, bounds
    <2> QED BY <2>1, <2>2, <2>3 DEF TypeOK
  <1>25. ASSUME NEW f \in Farmers, OptOut(f) PROVE TypeOK'
    <2>1. TypeCampaigns' /\ TypeJobs' /\ TypeTasks' /\ TypePanel' /\ TypeWorld'
      BY <1>25
         DEF OptOut, TypeCampaigns, TypeJobs, TypeTasks, TypePanel, TypeWorld, campaignVars,
             jobVars, phoneVars, bounds
    <2>2. TypeContacts'
      BY <1>25 DEF OptOut, TypeContacts, contactVars
    <2> QED BY <2>1, <2>2 DEF TypeOK
  <1>26. CASE Tick
    <2>1. TypeCampaigns' /\ TypeContacts' /\ TypeJobs' /\ TypeTasks' /\ TypePanel'
      BY <1>26
         DEF Tick, TypeCampaigns, TypeContacts, TypeJobs, TypeTasks, TypePanel, campaignVars,
             contactVars, jobVars
    <2>2. TypeWorld'
      BY <1>26 DEF Tick, TypeWorld, phoneVars, bounds
    <2> QED BY <2>1, <2>2 DEF TypeOK
  <1>27. CASE UNCHANGED vars
    <2>1. TypeCampaigns' /\ TypeContacts' /\ TypeJobs' /\ TypeTasks' /\ TypePanel' /\ TypeWorld'
      BY <1>27
         DEF vars, TypeCampaigns, TypeContacts, TypeJobs, TypeTasks, TypePanel, TypeWorld,
             campaignVars, contactVars, jobVars, phoneVars, bounds
    <2> QED BY <2>1 DEF TypeOK
  <1> QED
    BY <1>1, <1>2, <1>3, <1>4, <1>5, <1>6, <1>7, <1>8, <1>9, <1>10, <1>12, <1>13, <1>14, <1>15,
       <1>16, <1>17, <1>18, <1>19, <1>20, <1>22, <1>23, <1>24, <1>25, <1>26, <1>27, <1>28
    DEF Next, Panel, Run, DialTask, WorkerFault, World

(***************************************************************************)
(* Who writes what: the frame of Next, once for each group of variables.   *)
(***************************************************************************)

\* The writers of a campaigns row are the panel's commits and the two marks of
\* a run.
LEMMA RowWriters ==
  ASSUME [Next]_vars
  PROVE  \/ UNCHANGED campaignVars
         \/ \E u \in Users, k \in Campaigns : CreateCampaign(u, k) \/ QuickDial(u, k)
         \/ \E u \in Users : CommitApprove(u) \/ CommitControl(u)
         \/ \E j \in Jobs : StartRun(j) \/ FinishRun(j)
  <1>1. CASE UNCHANGED vars
    BY <1>1 DEF vars, campaignVars
  <1>2. ASSUME NEW u \in Users, Panel(u)
        PROVE  \/ UNCHANGED campaignVars
               \/ \E k \in Campaigns : CreateCampaign(u, k) \/ QuickDial(u, k)
               \/ CommitApprove(u) \/ CommitControl(u)
    BY <1>2 DEF Panel, LoadApprove, LoadControl, SetControl, Enqueue, RequestFails, campaignVars
  <1>3. ASSUME NEW j \in Jobs, Run(j)
        PROVE  UNCHANGED campaignVars \/ StartRun(j) \/ FinishRun(j)
    BY <1>3 DEF Run, ReadControl, TakeContact, Queries, ReadRow, ReadSuppression, ReadWeek,
                ReadElsewhere, Reads, RecheckContact, EndOfList, ReleaseSlot, campaignVars
  <1>4. ASSUME NEW j \in Jobs, WorkerFault(j) \/ \E f \in Farmers : DialTask(j, f)
        PROVE  UNCHANGED campaignVars
    BY <1>4 DEF WorkerFault, DialTask, ControlUnreachable, TakeContact, OriginateRaises,
                JobTimesOut, WorkerDies, RecordAttempt, OriginateReturns, campaignVars
  <1>5. CASE World
    BY <1>5 DEF World, CallEnds, OptOut, Tick, campaignVars
  <1> QED BY <1>1, <1>2, <1>3, <1>4, <1>5 DEF Next

\* An approver is never taken away, and a row that exists goes on existing.
LEMMA RowsOnlyGrow ==
  ASSUME TypeOK, RequestsSound, JobsSound, AbsentSound, [Next]_vars, NEW k \in Campaigns
  PROVE  /\ approver[k] # NoUser => approver'[k] # NoUser
         /\ status[k] # "absent" => status'[k] # "absent" /\ creator'[k] = creator[k]
  <1> USE CampaignAssumption DEF TypeOK, TypeCampaigns
  <1>1. CASE UNCHANGED campaignVars
    BY <1>1 DEF campaignVars
  <1>2. ASSUME NEW u \in Users, NEW c \in Campaigns, CreateCampaign(u, c) \/ QuickDial(u, c)
        PROVE  /\ approver[k] # NoUser => approver'[k] # NoUser
               /\ status[k] # "absent" => status'[k] # "absent" /\ creator'[k] = creator[k]
    BY <1>2 DEF CreateCampaign, QuickDial, Imported
  <1>3. ASSUME NEW u \in Users, CommitApprove(u) \/ CommitControl(u)
        PROVE  /\ approver[k] # NoUser => approver'[k] # NoUser
               /\ status[k] # "absent" => status'[k] # "absent" /\ creator'[k] = creator[k]
    BY <1>3 DEF CommitApprove, CommitControl, Mark, Target
  <1>4. ASSUME NEW j \in Jobs, StartRun(j) \/ FinishRun(j)
        PROVE  /\ approver[k] # NoUser => approver'[k] # NoUser
               /\ status[k] # "absent" => status'[k] # "absent" /\ creator'[k] = creator[k]
    <2>1. \E s \in {"running", "paused", "completed"} : Mark(camp[j], s)
      BY <1>4 DEF StartRun, FinishRun, FinalStatus
    <2> QED BY <2>1 DEF Mark
  <1> QED BY <1>1, <1>2, <1>3, <1>4, RowWriters

LEMMA AbsentSoundNext ==
  ASSUME TypeOK, RequestsSound, JobsSound, AbsentSound, [Next]_vars
  PROVE  AbsentSound'
  <1> USE CampaignAssumption DEF TypeOK, TypeCampaigns, AbsentSound
  <1>1. CASE UNCHANGED campaignVars
    BY <1>1 DEF campaignVars
  <1>2. ASSUME NEW u \in Users, NEW c \in Campaigns, CreateCampaign(u, c) \/ QuickDial(u, c)
        PROVE  AbsentSound'
    BY <1>2 DEF CreateCampaign, QuickDial, Imported
  <1>3. ASSUME NEW u \in Users, CommitApprove(u) \/ CommitControl(u)
        PROVE  AbsentSound'
    BY <1>3, RowsOnlyGrow DEF CommitApprove, CommitControl, Mark
  <1>4. ASSUME NEW j \in Jobs, StartRun(j) \/ FinishRun(j)
        PROVE  AbsentSound'
    <2>1. UNCHANGED <<creator, approver>>
      BY <1>4 DEF StartRun, FinishRun, Mark
    <2> QED BY <2>1, RowsOnlyGrow
  <1> QED BY <1>1, <1>2, <1>3, <1>4, RowWriters

LEMMA FourEyesNext ==
  ASSUME IInv, [Next]_vars
  PROVE  FourEyes'
  <1> USE CampaignAssumption DEF IInv, TypeOK, TypeCampaigns, FourEyes
  <1>1. CASE UNCHANGED <<creator, approver, selfApproved>>
    BY <1>1
  <1>2. ASSUME NEW u \in Users, NEW c \in Campaigns, CreateCampaign(u, c)
        PROVE  FourEyes'
    BY <1>2 DEF CreateCampaign, Imported, AbsentSound
  <1>3. ASSUME NEW u \in Users, NEW c \in Campaigns, QuickDial(u, c)
        PROVE  FourEyes'
    BY <1>3 DEF QuickDial, Imported
  <1>4. ASSUME NEW u \in Users, CommitApprove(u)
        PROVE  FourEyes'
    BY <1>4, ZenonT(30) DEF CommitApprove, RequestsSound
  <1> QED
    BY <1>1, <1>2, <1>3, <1>4, RowWriters
    DEF campaignVars, CommitControl, StartRun, FinishRun, Mark

(***************************************************************************)
(* The requests and the jobs.                                              *)
(***************************************************************************)

LEMMA RequestsSoundNext ==
  ASSUME IInv, [Next]_vars
  PROVE  RequestsSound'
  <1> DEFINE Sound(u) ==
        LET k == req[u].camp IN
        /\ req[u].op = "idle" => req[u] = Idle
        /\ req[u].op # "idle" => k \in Campaigns /\ status[k] # "absent"
        /\ req[u].op = "start" => approver[k] # NoUser
        /\ req[u].step = "enqueue" => req[u].op = "start"
        /\ req[u].op = "approve" => /\ req[u].step = "commit"
                                    /\ creator[k] = u => u \in SuperAdmins
  <1> SUFFICES ASSUME NEW u \in Users PROVE Sound(u)'
    BY DEF RequestsSound
  <1> TypeOK /\ RequestsSound /\ JobsSound /\ AbsentSound /\ ApprovedBeforeDialled
    BY DEF IInv
  <1>1. Sound(u)
    BY DEF RequestsSound
  <1>2. CASE req'[u] = req[u]
    BY <1>1, <1>2, RowsOnlyGrow DEF Idle
  <1>3. CASE req'[u] = Idle
    BY <1>3 DEF Idle
  <1>4. ASSUME NEW v \in Users, NEW k \in Campaigns, QuickDial(v, k), req'[u] # req[u]
        PROVE  Sound(u)'
    <2>1. req'[u] = [op |-> "start", camp |-> k, saw |-> "approved", step |-> "control"]
      BY <1>4 DEF QuickDial, TypeOK, TypePanel
    <2>2. status'[k] # "absent" /\ approver'[k] # NoUser
      BY <1>4, CampaignAssumption DEF QuickDial, TypeOK, TypeCampaigns
    <2> QED BY <2>1, <2>2
  <1>5. ASSUME NEW v \in Users, NEW k \in Campaigns, LoadApprove(v, k), req'[u] # req[u]
        PROVE  Sound(u)'
    <2>1. u = v /\ req'[u] = [op |-> "approve", camp |-> k, saw |-> status[k], step |-> "commit"]
      BY <1>5 DEF LoadApprove, Request, TypeOK, TypePanel
    <2>2. status'[k] # "absent" /\ (creator'[k] = u => u \in SuperAdmins)
      BY <1>5, <2>1 DEF LoadApprove, MayApprove, campaignVars
    <2> QED BY <2>1, <2>2
  <1>6. ASSUME NEW v \in Users, NEW k \in Campaigns, NEW op \in {"start", "pause", "stop"},
               LoadControl(v, k, op), req'[u] # req[u]
        PROVE  Sound(u)'
    <2>1. req'[u] = [op |-> op, camp |-> k, saw |-> status[k], step |-> "control"]
      BY <1>6 DEF LoadControl, Request, TypeOK, TypePanel
    <2>2. status'[k] # "absent" /\ (op = "start" => approver'[k] # NoUser)
      BY <1>6 DEF LoadControl, Startable, ApprovedBeforeDialled, campaignVars
    <2> QED BY <2>1, <2>2
  <1>7. ASSUME NEW v \in Users, SetControl(v) \/ Enqueue(v), req'[u] # req[u]
        PROVE  Sound(u)'
    <2>1. u = v /\ UNCHANGED campaignVars
      BY <1>7 DEF SetControl, Enqueue, TypeOK, TypePanel
    <2>2. /\ req'[u].op = req[u].op /\ req'[u].camp = req[u].camp
          /\ req'[u].step = IF req[u].step = "control" /\ req[u].op = "start"
                            THEN "enqueue" ELSE "commit"
      BY <1>7, <2>1 DEF SetControl, Enqueue, TypeOK, TypePanel, RequestRecord
    <2>3. req[u].op # "idle"
      BY <1>7, <1>1, <2>1 DEF SetControl, Enqueue, Idle
    <2> QED BY <1>1, <2>1, <2>2, <2>3 DEF campaignVars
  <1>8. ASSUME NEW v \in Users, CommitApprove(v) \/ CommitControl(v) \/ RequestFails(v)
        PROVE  req'[u] = req[u] \/ req'[u] = Idle
    BY <1>8 DEF CommitApprove, CommitControl, RequestFails, TypeOK, TypePanel
  <1>9. ASSUME NEW v \in Users, NEW k \in Campaigns, CreateCampaign(v, k)
        PROVE  req' = req
    BY <1>9 DEF CreateCampaign
  <1>10. ASSUME NEW j \in Jobs, Run(j) \/ WorkerFault(j) \/ \E f \in Farmers : DialTask(j, f)
         PROVE  req' = req
    BY <1>10 DEF Run, WorkerFault, DialTask, StartRun, ReadControl, TakeContact, Queries,
                 ReadRow, ReadSuppression, ReadWeek, ReadElsewhere, Reads, RecheckContact,
                 EndOfList, FinishRun, ReleaseSlot, ControlUnreachable, OriginateRaises,
                 JobTimesOut, WorkerDies, RecordAttempt, OriginateReturns
  <1>11. CASE World \/ UNCHANGED vars
    BY <1>2, <1>11 DEF World, CallEnds, OptOut, Tick, vars
  <1> QED
    BY <1>2, <1>3, <1>4, <1>5, <1>6, <1>7, <1>8, <1>9, <1>10, <1>11 DEF Next, Panel

LEMMA JobsSoundNext ==
  ASSUME IInv, [Next]_vars
  PROVE  JobsSound'
  <1> USE CampaignAssumption DEF UnderWay, Recheckings
  <1> DEFINE Sound(i) ==
        /\ pc[i] # "free" => camp[i] \in Campaigns
        /\ pc[i] = "free" => camp[i] = NoCampaign
        /\ pc[i] \in {"free", "queued"} => \A f \in Farmers : task[i][f] = "none"
        /\ pc[i] \in Recheckings => cur[i] \in Farmers
        /\ pc[i] \notin Recheckings => cur[i] = NoFarmer
  <1> SUFFICES ASSUME NEW i \in Jobs PROVE Sound(i)'
    BY DEF JobsSound
  <1> TypeJobs /\ TypeTasks /\ TypePanel /\ RequestsSound /\ JobsSound
    BY DEF IInv, TypeOK
  <1>1. Sound(i)
    BY DEF JobsSound
  <1>2. CASE UNCHANGED <<pc, camp, cur, task>>
    BY <1>1, <1>2
  <1>3. ASSUME NEW u \in Users, Enqueue(u) PROVE Sound(i)'
    <2>1. req[u].camp \in Campaigns
      BY <1>3 DEF Enqueue, RequestsSound, Idle
    <2>2. PICK j \in Jobs : /\ pc[j] = "free"
                            /\ pc' = [pc EXCEPT ![j] = "queued"]
                            /\ camp' = [camp EXCEPT ![j] = req[u].camp]
      BY <1>3 DEF Enqueue
    <2>3. UNCHANGED <<cur, task>>
      BY <1>3 DEF Enqueue
    <2> QED BY <1>1, <2>1, <2>2, <2>3 DEF TypeJobs
  <1>4. ASSUME NEW j \in Jobs, StartRun(j) PROVE Sound(i)'
    <2>1. /\ pc[j] = "queued" /\ UNCHANGED <<camp, cur, task>>
          /\ \E next \in {"over", "loop"} : pc' = [pc EXCEPT ![j] = next]
      BY <1>4 DEF StartRun
    <2> QED BY <1>1, <2>1 DEF TypeJobs
  <1>5. ASSUME NEW j \in Jobs, ReadControl(j) \/ ControlUnreachable(j) PROVE Sound(i)'
    <2>1. /\ pc[j] = "loop" /\ UNCHANGED <<camp, task>>
          /\ \/ pc' = [pc EXCEPT ![j] = "gather"] /\ UNCHANGED cur
             \/ /\ pc' = [pc EXCEPT ![j] = "recheck"]
                /\ \E f \in todo[j] : cur' = [cur EXCEPT ![j] = f]
      BY <1>5 DEF ReadControl, ControlUnreachable, TakeContact
    <2>2. CASE pc' = [pc EXCEPT ![j] = "gather"] /\ UNCHANGED cur
      BY <1>1, <2>1, <2>2 DEF TypeJobs
    <2>3. ASSUME NEW f \in todo[j], cur' = [cur EXCEPT ![j] = f],
                 pc' = [pc EXCEPT ![j] = "recheck"]
          PROVE  Sound(i)'
      <3>1. f \in Farmers
        BY DEF TypeJobs
      <3> QED BY <1>1, <2>1, <2>3, <3>1 DEF TypeJobs
    <2> QED BY <2>1, <2>2, <2>3
  <1>6. ASSUME NEW j \in Jobs, RecheckContact(j) PROVE Sound(i)'
    <2>1. /\ pc[j] = "rechecked" /\ pc' = [pc EXCEPT ![j] = "loop"] /\ UNCHANGED camp
          /\ cur' = [cur EXCEPT ![j] = NoFarmer]
          /\ i # j => task'[i] = task[i]
      BY <1>6 DEF RecheckContact, TypeTasks
    <2> QED BY <1>1, <2>1 DEF TypeJobs
  <1>7. ASSUME NEW j \in Jobs, EndOfList(j) \/ FinishRun(j) PROVE Sound(i)'
    <2>1. /\ pc[j] \in {"loop", "gather"} /\ UNCHANGED <<camp, cur, task>>
          /\ \E next \in {"over", "gather"} : pc' = [pc EXCEPT ![j] = next]
      BY <1>7 DEF EndOfList, FinishRun
    <2> QED BY <1>1, <2>1 DEF TypeJobs
  <1>8. ASSUME NEW j \in Jobs, ReleaseSlot(j) PROVE Sound(i)'
    BY <1>1, <1>8 DEF ReleaseSlot, TypeJobs
  <1>9. ASSUME NEW j \in Jobs, NEW f \in Farmers,
               RecordAttempt(j, f) \/ OriginateReturns(j, f) \/ OriginateRaises(j, f)
        PROVE  Sound(i)'
    <2>1. /\ task[j][f] # "none" /\ UNCHANGED <<pc, camp, cur>>
          /\ i # j => task'[i] = task[i]
      BY <1>9 DEF RecordAttempt, OriginateReturns, OriginateRaises, TypeTasks, jobVars
    <2>2. pc[j] \notin {"free", "queued"}
      BY <2>1 DEF JobsSound
    <2> QED BY <1>1, <2>1, <2>2
  <1>10. ASSUME NEW j \in Jobs, JobTimesOut(j) \/ WorkerDies(j) PROVE Sound(i)'
    <2>1. /\ pc[j] # "free" /\ UNCHANGED camp
          /\ \E next \in {"over", "queued"} :
                /\ pc' = [pc EXCEPT ![j] = next]
                /\ next = "queued" => \A f \in Farmers : task'[j][f] = "none"
          /\ i # j => task'[i] = task[i]
          /\ cur' = [cur EXCEPT ![j] = NoFarmer]
      BY <1>10 DEF JobTimesOut, WorkerDies, TypeTasks
    <2> QED BY <1>1, <2>1 DEF TypeJobs
  <1>11. ASSUME NEW u \in Users, Panel(u), ~Enqueue(u) PROVE UNCHANGED <<pc, camp, cur, task>>
    BY <1>11 DEF Panel, CreateCampaign, QuickDial, LoadApprove, LoadControl, SetControl,
                 CommitApprove, CommitControl, RequestFails, jobVars
  <1>12. ASSUME NEW j \in Jobs, Queries(j) PROVE Sound(i)'
    <2> HIDE DEF Recheckings
    <2>1. {"free", "queued"} \cap Recheckings = {}
      BY DEF Recheckings
    <2> QED BY <1>1, <1>12, <2>1, QueryIs DEF TypeJobs
  <1>13. CASE World \/ UNCHANGED vars
    BY <1>2, <1>13 DEF World, CallEnds, OptOut, Tick, vars, jobVars
  <1> QED
    BY <1>2, <1>3, <1>4, <1>5, <1>6, <1>7, <1>8, <1>9, <1>10, <1>11, <1>12, <1>13
    DEF Next, Run, WorkerFault, DialTask

\* Only the head of the loop takes a contact, and only recheck hands one on.
LEMMA TakenOnceNext ==
  ASSUME IInv, [Next]_vars
  PROVE  TakenOnce'
  <1> USE CampaignAssumption
  <1> DEFINE Once(i) ==
        /\ cur[i] \notin todo[i]
        /\ \A f \in Farmers : task[i][f] # "none" => f \notin todo[i] /\ f # cur[i]
  <1> SUFFICES ASSUME NEW i \in Jobs PROVE Once(i)'
    BY DEF TakenOnce
  <1> TypeJobs /\ TypeTasks /\ TypeContacts /\ JobsSound
    BY DEF IInv, TypeOK
  <1>1. Once(i)
    BY DEF IInv, TakenOnce
  <1>2. CASE UNCHANGED <<todo, cur, task>>
    BY <1>1, <1>2
  <1>3. ASSUME NEW u \in Users, Panel(u) PROVE UNCHANGED <<todo, cur, task>>
    BY <1>3 DEF Panel, CreateCampaign, QuickDial, LoadApprove, LoadControl, SetControl, Enqueue,
                CommitApprove, CommitControl, RequestFails, jobVars
  <1>4. ASSUME NEW j \in Jobs, StartRun(j) PROVE Once(i)'
    <2>1. cur[j] = NoFarmer /\ \A f \in Farmers : task[j][f] = "none"
      BY <1>4 DEF StartRun, JobsSound, Recheckings
    <2>2. NoFarmer \notin todo'[j]
      <3>1. camp[j] \in Campaigns
        BY <1>4 DEF StartRun, JobsSound
      <3>2. NoFarmer \notin list[camp[j]] /\ NoFarmer \notin todo[j]
        BY <3>1 DEF TypeContacts, TypeJobs
      <3>3. todo' = todo \/ todo' = [todo EXCEPT ![j] = list[camp[j]]]
        BY <1>4 DEF StartRun
      <3> QED BY <3>2, <3>3 DEF TypeJobs
    <2>3. UNCHANGED <<cur, task>> /\ \A k \in Jobs : k # j => todo'[k] = todo[k]
      BY <1>4 DEF StartRun, TypeJobs
    <2> QED BY <1>1, <2>1, <2>2, <2>3
  <1>5. ASSUME NEW j \in Jobs, ReadControl(j) \/ ControlUnreachable(j) PROVE Once(i)'
    <2>1. /\ task' = task
          /\ \/ UNCHANGED <<todo, cur>>
             \/ \E f \in todo[j] : /\ cur' = [cur EXCEPT ![j] = f]
                                   /\ todo' = [todo EXCEPT ![j] = @ \ {f}]
      BY <1>5 DEF ReadControl, ControlUnreachable, TakeContact
    <2>2. ASSUME NEW f \in todo[j], cur' = [cur EXCEPT ![j] = f],
                 todo' = [todo EXCEPT ![j] = @ \ {f}]
          PROVE  Once(i)'
      BY <1>1, <2>1, <2>2 DEF TypeJobs
    <2> QED BY <1>2, <2>1, <2>2
  <1>6. ASSUME NEW j \in Jobs, RecheckContact(j) PROVE Once(i)'
    <2>1. /\ todo' = todo /\ cur' = [cur EXCEPT ![j] = NoFarmer]
          /\ \A f \in Farmers : f # cur[j] => task'[j][f] = task[j][f]
          /\ i # j => task'[i] = task[i]
      BY <1>6 DEF RecheckContact, TypeTasks
    <2> QED BY <1>1, <2>1 DEF TypeJobs
  <1>7. ASSUME NEW j \in Jobs, Queries(j) \/ EndOfList(j) \/ FinishRun(j)
        PROVE  UNCHANGED <<todo, cur, task>>
    BY <1>7, QueryIs DEF EndOfList, FinishRun
  <1>8. ASSUME NEW j \in Jobs, ReleaseSlot(j) PROVE Once(i)'
    BY <1>1, <1>8 DEF ReleaseSlot, TypeJobs
  <1>9. ASSUME NEW j \in Jobs, NEW f \in Farmers,
               RecordAttempt(j, f) \/ OriginateReturns(j, f) \/ OriginateRaises(j, f)
        PROVE  Once(i)'
    <2>1. /\ task[j][f] # "none" /\ UNCHANGED <<todo, cur>>
          /\ \E s \in {"none", "dialing"} : task' = [task EXCEPT ![j][f] = s]
      BY <1>9 DEF RecordAttempt, OriginateReturns, OriginateRaises, jobVars
    <2>2. ASSUME NEW g \in Farmers, task'[i][g] # "none" PROVE task[i][g] # "none"
      BY <2>1, <2>2 DEF TypeTasks
    <2> QED BY <1>1, <2>1, <2>2
  <1>10. ASSUME NEW j \in Jobs, JobTimesOut(j) \/ WorkerDies(j) PROVE Once(i)'
    <2>1. /\ cur' = [cur EXCEPT ![j] = NoFarmer]
          /\ \A f \in Farmers : task'[i][f] \in {task[i][f], "none"}
          /\ todo' = todo \/ todo' = [todo EXCEPT ![j] = {}]
      BY <1>10 DEF JobTimesOut, WorkerDies, TypeTasks
    <2>2. /\ todo'[i] \subseteq todo[i] /\ todo[i] \subseteq Farmers
          /\ cur'[i] \in {cur[i], NoFarmer}
      BY <2>1 DEF TypeJobs
    <2> QED BY <1>1, <2>1, <2>2
  <1>11. CASE World \/ UNCHANGED vars
    BY <1>2, <1>11 DEF World, CallEnds, OptOut, Tick, vars, jobVars
  <1> QED
    BY <1>2, <1>3, <1>4, <1>5, <1>6, <1>7, <1>8, <1>9, <1>10, <1>11
    DEF Next, Run, WorkerFault, DialTask

(***************************************************************************)
(* Nothing is dialled unapproved.                                          *)
(***************************************************************************)

LEMMA ApprovedBeforeDialledNext ==
  ASSUME IInv, [Next]_vars
  PROVE  ApprovedBeforeDialled'
  <1> USE CampaignAssumption
  <1> DEFINE Untouched(k) ==
        /\ status[k] \in {"absent", "pending_approval", "cancelled"}
        /\ \A j \in Jobs : camp[j] # k
        /\ \A f \in Farmers : attempts[k][f] = 0 /\ placed[k][f] = 0
  <1> SUFFICES ASSUME NEW k \in Campaigns, approver'[k] = NoUser
               PROVE  Untouched(k)'
    BY DEF ApprovedBeforeDialled
  <1> TypeCampaigns /\ TypeContacts /\ TypeJobs /\ TypePanel /\ TypeWorld
    BY DEF IInv, TypeOK
  <1>1. approver[k] = NoUser
    BY RowsOnlyGrow DEF IInv
  <1>2. Untouched(k)
    BY <1>1 DEF IInv, ApprovedBeforeDialled
  <1>3. status'[k] \in {"absent", "pending_approval", "cancelled"}
    <2>1. CASE UNCHANGED campaignVars
      BY <1>2, <2>1 DEF campaignVars
    <2>2. ASSUME NEW u \in Users, NEW c \in Campaigns, CreateCampaign(u, c) \/ QuickDial(u, c)
          PROVE  status'[k] \in {"absent", "pending_approval", "cancelled"}
      BY <1>2, <2>2 DEF CreateCampaign, QuickDial, TypeCampaigns
    <2>3. ASSUME NEW u \in Users, CommitApprove(u)
          PROVE  status'[k] \in {"absent", "pending_approval", "cancelled"}
      BY <1>2, <2>3 DEF CommitApprove, TypeCampaigns
    <2>4. ASSUME NEW u \in Users, CommitControl(u)
          PROVE  status'[k] \in {"absent", "pending_approval", "cancelled"}
      <3>1. CASE req[u].camp # k
        BY <1>2, <2>4, <3>1 DEF CommitControl, Mark, TypeCampaigns
      <3>2. CASE req[u].camp = k
        <4>1. req[u].op # "start"
          BY <1>1, <3>2 DEF IInv, RequestsSound
        <4> QED
          BY <1>1, <1>2, <2>4, <3>2, <4>1
          DEF CommitControl, Mark, Target, ConstraintAllows, TypeCampaigns
      <3> QED BY <3>1, <3>2
    <2>5. ASSUME NEW j \in Jobs, StartRun(j) \/ FinishRun(j)
          PROVE  status'[k] \in {"absent", "pending_approval", "cancelled"}
      BY <1>2, <2>5 DEF StartRun, FinishRun, Mark, TypeCampaigns
    <2> QED BY <2>1, <2>2, <2>3, <2>4, <2>5, RowWriters
  <1>4. \A j \in Jobs : camp'[j] # k
    <2>1. CASE UNCHANGED camp
      BY <1>2, <2>1
    <2>2. ASSUME NEW u \in Users, Enqueue(u)
          PROVE  \A j \in Jobs : camp'[j] # k
      <3>1. req[u].camp # k
        BY <1>1, <2>2 DEF Enqueue, IInv, RequestsSound
      <3> QED BY <1>2, <2>2, <3>1 DEF Enqueue, TypeJobs
    <2>3. ASSUME NEW j \in Jobs, ReleaseSlot(j)
          PROVE  \A i \in Jobs : camp'[i] # k
      BY <1>2, <2>3 DEF ReleaseSlot, TypeJobs
    <2>4. ASSUME NEW u \in Users, Panel(u), ~Enqueue(u) PROVE UNCHANGED camp
      BY <2>4 DEF Panel, CreateCampaign, QuickDial, LoadApprove, LoadControl, SetControl,
                  CommitApprove, CommitControl, RequestFails, jobVars
    <2>5. ASSUME NEW j \in Jobs, Run(j) \/ WorkerFault(j) \/ \E f \in Farmers : DialTask(j, f),
                 ~ReleaseSlot(j)
          PROVE  UNCHANGED camp
      BY <2>5, QueryIs
              DEF Run, WorkerFault, DialTask, StartRun, ReadControl, TakeContact, RecheckContact,
                  EndOfList, FinishRun, ControlUnreachable, OriginateRaises, JobTimesOut,
                  WorkerDies, RecordAttempt, OriginateReturns, jobVars
    <2>6. CASE World \/ UNCHANGED vars
      BY <2>1, <2>6 DEF World, CallEnds, OptOut, Tick, vars, jobVars
    <2> QED BY <2>1, <2>2, <2>3, <2>4, <2>5, <2>6 DEF Next
  <1>5. UNCHANGED <<attempts[k], placed[k]>>
    <2>1. ASSUME NEW u \in Users, Panel(u) PROVE UNCHANGED <<attempts, placed>>
      BY <2>1 DEF Panel, CreateCampaign, QuickDial, LoadApprove, LoadControl, SetControl,
                  Enqueue, CommitApprove, CommitControl, RequestFails, contactVars, phoneVars
    <2>2. ASSUME NEW j \in Jobs, Run(j) PROVE UNCHANGED <<attempts, placed>>
      BY <2>2, QueryIs
              DEF Run, StartRun, ReadControl, TakeContact, RecheckContact, EndOfList, FinishRun,
                  ReleaseSlot, contactVars, phoneVars
    <2>3. ASSUME NEW j \in Jobs, WorkerFault(j)
          PROVE  UNCHANGED <<attempts[k], placed[k]>>
      <3>1. camp[j] # k
        BY <1>2
      <3>2. CASE ControlUnreachable(j)
        BY <3>2 DEF ControlUnreachable, TakeContact, contactVars, phoneVars
      <3>3. ASSUME NEW f \in Farmers, OriginateRaises(j, f)
            PROVE  UNCHANGED <<attempts[k], placed[k]>>
        BY <3>1, <3>3 DEF OriginateRaises, phoneVars, TypeWorld
      <3>4. CASE JobTimesOut(j) \/ WorkerDies(j)
        BY <3>1, <3>4 DEF JobTimesOut, WorkerDies, MaybePlaced, contactVars, phoneVars, TypeWorld
      <3> QED BY <2>3, <3>2, <3>3, <3>4 DEF WorkerFault
    <2>4. ASSUME NEW j \in Jobs, NEW f \in Farmers, DialTask(j, f)
          PROVE  UNCHANGED <<attempts[k], placed[k]>>
      BY <1>2, <2>4 DEF DialTask, RecordAttempt, OriginateReturns, contactVars, phoneVars,
                        TypeContacts, TypeWorld
    <2>5. CASE World \/ UNCHANGED vars
      BY <2>5 DEF World, CallEnds, OptOut, Tick, vars, contactVars, phoneVars
    <2> QED BY <2>1, <2>2, <2>3, <2>4, <2>5 DEF Next
  <1> QED BY <1>2, <1>3, <1>4, <1>5

(***************************************************************************)
(* The theorems.                                                           *)
(***************************************************************************)

\* The strengthened invariant holds in every reachable state.
THEOREM Invariance == Spec => []IInv
  <1>1. IInv /\ [Next]_vars => IInv'
    BY TypeOKNext, ApprovedBeforeDialledNext, FourEyesNext, RequestsSoundNext, JobsSoundNext,
       TakenOnceNext, AbsentSoundNext
    DEF IInv
  <1> QED BY InitIInv, <1>1, PTL DEF Spec

\* Type correctness, for any number of campaigns, farmers, users and jobs.
THEOREM TypeCorrect == Spec => []TypeOK
  <1>1. IInv => TypeOK
    BY DEF IInv
  <1> QED BY Invariance, <1>1, PTL

\* No campaign is attempted, or has a job, without an approver: the dialer never
\* looks at the status, and need not.
THEOREM NothingDialledUnapproved == Spec => []ApprovedBeforeDialled
  <1>1. IInv => ApprovedBeforeDialled
    BY DEF IInv
  <1> QED BY Invariance, <1>1, PTL

\* An approval by the creator is marked as one, and was the creator's to give.
THEOREM FourEyesHold == Spec => []FourEyes
  <1>1. IInv => FourEyes
    BY DEF IInv
  <1> QED BY Invariance, <1>1, PTL

(***************************************************************************)
(* The gate at dial time.                                                  *)
(***************************************************************************)

\* A contact that passes has no failure at all.
LEMMA PassedHasNoFailure ==
  ASSUME NEW c, NEW s, NEW t, FirstFailure(c, s, t) = Passed
  PROVE  \A n \in 1..5 : ReportOrder[n] \notin ContactFailures(c, s, t)
  <1> DEFINE failures == {n \in 1..5 : ReportOrder[n] \in ContactFailures(c, s, t)}
  <1> SUFFICES ASSUME failures # {} PROVE FALSE
    OBVIOUS
  <1>1. \E n \in failures : \A m \in failures : n <= m
    <2>1. \A n \in failures : n \in {1, 2, 3, 4, 5}
      OBVIOUS
    <2> HIDE DEF failures
    <2>2. CASE 1 \in failures
      BY <2>1, <2>2
    <2>3. CASE 1 \notin failures /\ 2 \in failures
      BY <2>1, <2>3
    <2>4. CASE 1 \notin failures /\ 2 \notin failures /\ 3 \in failures
      BY <2>1, <2>4
    <2>5. CASE {1, 2, 3} \cap failures = {} /\ 4 \in failures
      BY <2>1, <2>5
    <2>6. CASE {1, 2, 3, 4} \cap failures = {}
      BY <2>1, <2>6
    <2> QED BY <2>1, <2>2, <2>3, <2>4, <2>5, <2>6
  <1>2. PICK n \in failures : n = CHOOSE m \in failures : \A l \in failures : m <= l
    BY <1>1
  <1>3. FirstFailure(c, s, t) = ReportOrder[n]
    BY <1>2 DEF FirstFailure
  <1>4. n \in 1..5 /\ \A m \in {1, 2, 3, 4, 5} : ReportOrder[m] # Passed
    BY DEF ReportOrder, Passed
  <1> QED BY <1>3, <1>4

\* What the verdict on a contact looks at, among others: the opt-out, the cap and
\* the gap.
LEMMA VerdictPassed ==
  ASSUME NEW c \in Facts, FirstFailure(c, Settings, now) = Passed
  PROVE  /\ ~c.dnc
         /\ ~(c.attempts >= MaxAttempts)
         /\ ~(c.last # Never /\ now - c.last < MinGap)
  <1>1. \A n \in 1..5 : ReportOrder[n] \notin ContactFailures(c, Settings, now)
    BY PassedHasNoFailure
  <1>2. ReportOrder[3] = "internal_dnc" /\ ReportOrder[4] = "frequency_cap"
    BY DEF ReportOrder
  <1>3. /\ "internal_dnc" \notin ContactFailures(c, Settings, now)
        /\ "frequency_cap" \notin ContactFailures(c, Settings, now)
    BY <1>1, <1>2
  <1>4. ~c.dnc /\ ~OverFrequencyCap(c, now)
    BY <1>3 DEF ContactFailures
  <1> QED BY <1>4 DEF OverFrequencyCap

\* Only a contact whose facts pass gets a dial task.
LEMMA TasksAreRechecked ==
  ASSUME IInv, [Next]_vars, NEW j \in Jobs, NEW f \in Farmers,
         task'[j][f] = "waiting", task[j][f] # "waiting"
  PROVE  /\ RecheckContact(j) /\ f = cur[j] /\ camp[j] \in Campaigns
         /\ seen[j] \in Facts /\ FirstFailure(seen[j], Settings, now) = Passed
  <1> TypeTasks /\ JobsSound /\ TypeJobs
    BY DEF IInv, TypeOK
  <1>1. ASSUME NEW i \in Jobs, RecheckContact(i)
        PROVE  /\ i = j /\ f = cur[j] /\ camp[j] \in Campaigns
               /\ FirstFailure(seen[j], Settings, now) = Passed
    <2>1. task' # task /\ cur[i] \in Farmers
      BY <1>1 DEF RecheckContact, JobsSound, Recheckings
    <2>2. /\ FirstFailure(seen[i], Settings, now) = Passed
          /\ task' = [task EXCEPT ![i][cur[i]] = "waiting"]
      BY <1>1, <2>1 DEF RecheckContact
    <2>3. i = j /\ f = cur[j]
      BY <2>2 DEF TypeTasks
    <2> QED BY <1>1, <2>2, <2>3 DEF RecheckContact, JobsSound
  <1>2. ASSUME NEW u \in Users, Panel(u) PROVE task' = task
    BY <1>2 DEF Panel, CreateCampaign, QuickDial, LoadApprove, LoadControl, SetControl, Enqueue,
                CommitApprove, CommitControl, RequestFails
  <1>3. ASSUME NEW i \in Jobs, Run(i), ~RecheckContact(i) PROVE task' = task
    BY <1>3, QueryIs DEF Run, StartRun, ReadControl, TakeContact, EndOfList, FinishRun, ReleaseSlot
  <1>4. ASSUME NEW i \in Jobs, WorkerFault(i) PROVE task'[j][f] \in {task[j][f], "none"}
    <2>1. CASE ControlUnreachable(i)
      BY <2>1 DEF ControlUnreachable, TakeContact
    <2>2. ASSUME NEW g \in Farmers, OriginateRaises(i, g)
          PROVE  task'[j][f] \in {task[j][f], "none"}
      BY <2>2 DEF OriginateRaises, TypeTasks
    <2>3. CASE JobTimesOut(i) \/ WorkerDies(i)
      BY <2>3 DEF JobTimesOut, WorkerDies, TypeTasks
    <2> QED BY <1>4, <2>1, <2>2, <2>3 DEF WorkerFault
  <1>5. ASSUME NEW i \in Jobs, NEW g \in Farmers, DialTask(i, g)
        PROVE  task'[j][f] \in {task[j][f], "none", "dialing"}
    BY <1>5 DEF DialTask, RecordAttempt, OriginateReturns, TypeTasks
  <1>6. CASE World \/ UNCHANGED vars
    BY <1>6 DEF World, CallEnds, OptOut, Tick, vars
  <1>7. seen[j] \in Facts
    BY DEF TypeJobs
  <1> QED BY <1>1, <1>2, <1>3, <1>4, <1>5, <1>6, <1>7 DEF Next, Run

\* The run has asked for its contact's row, and not yet decided.
PastRow(j) == pc[j] \in Recheckings \ {"recheck"}

LEMMA RowIsSeen ==
  ASSUME TypeJobs, NEW j \in Jobs, ReadRow(j)
  PROVE  /\ seen'[j].attempts = attempts[camp[j]][cur[j]]
         /\ seen'[j].last = last[camp[j]][cur[j]]
  BY DEF ReadRow, Reads, Unseen, TypeJobs

\* The queries after it leave that alone.
LEMMA RowIsKeptInMind ==
  ASSUME TypeJobs, NEW j \in Jobs, Queries(j), ~ReadRow(j)
  PROVE  PastRow(j) /\ seen'[j].attempts = seen[j].attempts /\ seen'[j].last = seen[j].last
  <1>1. PastRow(j)
    BY DEF Queries, ReadSuppression, ReadWeek, ReadElsewhere, Reads, PastRow, Recheckings
  <1>2. PICK c : c = seen[j] /\ c \in Facts
    BY DEF TypeJobs
  <1>3. CASE ReadSuppression(j)
    <2>1. PICK x, y : x = (cur[j] \in DndRegistered) /\ y = (cur[j] \in dnc)
      OBVIOUS
    <2>2. seen'[j] = [c EXCEPT !.dnd = x, !.dnc = y]
      BY <1>2, <1>3, <2>1 DEF ReadSuppression, Reads, TypeJobs
    <2> QED BY <1>1, <1>2, <2>2 DEF Facts
  <1>4. CASE ReadWeek(j)
    <2>1. PICK x : x = ContactsThisWeek(cur[j], c.since)
      OBVIOUS
    <2>2. seen'[j] = [c EXCEPT !.weekly = x]
      BY <1>2, <1>4, <2>1 DEF ReadWeek, Reads, TypeJobs
    <2> QED BY <1>1, <1>2, <2>2 DEF Facts
  <1>5. CASE ReadElsewhere(j)
    <2>1. PICK x : x = InAnotherLiveCampaign(camp[j], cur[j])
      OBVIOUS
    <2>2. seen'[j] = [c EXCEPT !.elsewhere = x]
      BY <1>2, <1>5, <2>1 DEF ReadElsewhere, Reads, TypeJobs
    <2> QED BY <1>1, <1>2, <2>2 DEF Facts
  <1> QED BY <1>3, <1>4, <1>5 DEF Queries

\* It gets there by the query for the row, and keeps what that has seen.
LEMMA RowIsReadOnce ==
  ASSUME IInv, [Next]_vars, NEW j \in Jobs, PastRow(j)'
  PROVE  /\ camp'[j] = camp[j] /\ cur'[j] = cur[j]
         /\ \/ ReadRow(j)
            \/ /\ PastRow(j) /\ seen'[j].attempts = seen[j].attempts
               /\ seen'[j].last = seen[j].last
  <1> TypeJobs
    BY DEF IInv, TypeOK
  <1> USE DEF PastRow, Recheckings
  <1>1. CASE UNCHANGED <<pc, camp, cur, seen>>
    BY <1>1
  <1>2. ASSUME NEW u \in Users, Panel(u), ~Enqueue(u) PROVE UNCHANGED <<pc, camp, cur, seen>>
    BY <1>2 DEF Panel, CreateCampaign, QuickDial, LoadApprove, LoadControl, SetControl,
                CommitApprove, CommitControl, RequestFails, jobVars
  <1>3. ASSUME NEW u \in Users, Enqueue(u)
        PROVE  PastRow(j) /\ camp'[j] = camp[j] /\ cur'[j] = cur[j] /\ seen'[j] = seen[j]
    <2>1. PICK i \in Jobs : /\ pc[i] = "free" /\ pc' = [pc EXCEPT ![i] = "queued"]
                            /\ camp' = [camp EXCEPT ![i] = req[u].camp]
      BY <1>3 DEF Enqueue
    <2>2. UNCHANGED <<cur, seen>>
      BY <1>3 DEF Enqueue
    <2> QED BY <2>1, <2>2 DEF TypeJobs
  <1>4. ASSUME NEW i \in Jobs,
               \/ StartRun(i) \/ ReadControl(i) \/ ControlUnreachable(i) \/ RecheckContact(i)
               \/ EndOfList(i) \/ FinishRun(i) \/ ReleaseSlot(i)
               \/ JobTimesOut(i) \/ WorkerDies(i)
        PROVE  PastRow(j) /\ camp'[j] = camp[j] /\ cur'[j] = cur[j] /\ seen'[j] = seen[j]
    <2>1. \E next \in {"free", "queued", "over", "loop", "gather", "recheck"} :
             pc' = [pc EXCEPT ![i] = next]
      BY <1>4 DEF StartRun, ReadControl, ControlUnreachable, TakeContact, RecheckContact,
                  EndOfList, FinishRun, ReleaseSlot, JobTimesOut, WorkerDies
    <2>2. i # j /\ pc'[j] = pc[j]
      BY <2>1 DEF TypeJobs
    <2>3. camp'[j] = camp[j]
      BY <1>4, <2>2
      DEF StartRun, ReadControl, ControlUnreachable, TakeContact, RecheckContact,
          EndOfList, FinishRun, ReleaseSlot, JobTimesOut, WorkerDies, TypeJobs
    <2>4. cur'[j] = cur[j]
      BY <1>4, <2>2
      DEF StartRun, ReadControl, ControlUnreachable, TakeContact, RecheckContact,
          EndOfList, FinishRun, ReleaseSlot, JobTimesOut, WorkerDies, TypeJobs
    <2>5. seen'[j] = seen[j]
      BY <1>4, <2>2
      DEF StartRun, ReadControl, ControlUnreachable, TakeContact, RecheckContact,
          EndOfList, FinishRun, ReleaseSlot, JobTimesOut, WorkerDies, TypeJobs
    <2> QED BY <2>2, <2>3, <2>4, <2>5
  <1>5. ASSUME NEW i \in Jobs, Queries(i)
        PROVE  /\ camp' = camp /\ cur' = cur
               /\ \/ ReadRow(j)
                  \/ /\ PastRow(j) /\ seen'[j].attempts = seen[j].attempts
                     /\ seen'[j].last = seen[j].last
    <2>1. camp' = camp /\ cur' = cur
      BY <1>5, QueryIs
    <2>2. CASE i # j
      BY <1>5, <2>1, <2>2, QueryIs DEF TypeJobs
    <2>3. CASE i = j /\ ~ReadRow(i)
      BY <1>5, <2>1, <2>3, RowIsKeptInMind
    <2> QED BY <2>1, <2>2, <2>3
  <1>6. ASSUME NEW i \in Jobs, NEW f \in Farmers, DialTask(i, f) \/ OriginateRaises(i, f)
        PROVE  UNCHANGED <<pc, camp, cur, seen>>
    BY <1>6 DEF DialTask, RecordAttempt, OriginateReturns, OriginateRaises, jobVars
  <1>7. CASE World \/ UNCHANGED vars
    BY <1>1, <1>7 DEF World, CallEnds, OptOut, Tick, vars, jobVars
  <1> QED BY <1>1, <1>2, <1>3, <1>4, <1>5, <1>6, <1>7 DEF Next, Run, WorkerFault

(***************************************************************************)
(* The end of a run.                                                       *)
(***************************************************************************)

\* A run that nothing stopped has taken every contact when it gathers.
ListDone == \A j \in Jobs : pc[j] = "gather" /\ reason[j] = "none" => todo[j] = {}

\* Only a stop and the end of the list lead to the gathering.
LEMMA ListDoneNext ==
  ASSUME IInv, ListDone, [Next]_vars
  PROVE  ListDone'
  <1> SUFFICES ASSUME NEW i \in Jobs, pc'[i] = "gather", reason'[i] = "none"
               PROVE  todo'[i] = {}
    BY DEF ListDone
  <1> TypeJobs
    BY DEF IInv, TypeOK
  <1>1. pc[i] = "gather" /\ reason[i] = "none" => todo[i] = {}
    BY DEF ListDone
  <1>2. CASE UNCHANGED <<pc, reason, todo>>
    BY <1>1, <1>2
  <1>3. ASSUME NEW u \in Users, Panel(u), ~Enqueue(u) PROVE UNCHANGED <<pc, reason, todo>>
    BY <1>3 DEF Panel, CreateCampaign, QuickDial, LoadApprove, LoadControl, SetControl,
                CommitApprove, CommitControl, RequestFails, jobVars
  <1>4. ASSUME NEW u \in Users, Enqueue(u) PROVE todo'[i] = {}
    BY <1>1, <1>4 DEF Enqueue, TypeJobs
  <1>5. ASSUME NEW j \in Jobs, StartRun(j) PROVE todo'[i] = {}
    BY <1>1, <1>5 DEF StartRun, TypeJobs
  <1>6. ASSUME NEW j \in Jobs, ReadControl(j) \/ ControlUnreachable(j) PROVE todo'[i] = {}
    BY <1>1, <1>6 DEF ReadControl, ControlUnreachable, TakeContact, TypeJobs
  <1>7. ASSUME NEW j \in Jobs, RecheckContact(j) \/ EndOfList(j) \/ FinishRun(j) \/ ReleaseSlot(j)
        PROVE  todo'[i] = {}
    BY <1>1, <1>7 DEF RecheckContact, EndOfList, FinishRun, ReleaseSlot, TypeJobs
  <1>8. ASSUME NEW j \in Jobs, Queries(j) PROVE todo'[i] = {}
    BY <1>1, <1>8, QueryIs DEF TypeJobs, Recheckings
  <1>9. ASSUME NEW j \in Jobs, JobTimesOut(j) \/ WorkerDies(j) PROVE todo'[i] = {}
    BY <1>1, <1>9 DEF JobTimesOut, WorkerDies, TypeJobs
  <1>10. ASSUME NEW j \in Jobs, NEW f \in Farmers, DialTask(j, f) \/ OriginateRaises(j, f)
        PROVE  UNCHANGED <<pc, reason, todo>>
    BY <1>10 DEF DialTask, RecordAttempt, OriginateReturns, OriginateRaises, jobVars
  <1>11. CASE World \/ UNCHANGED vars
    BY <1>2, <1>11 DEF World, CallEnds, OptOut, Tick, vars, jobVars
  <1> QED
    BY <1>2, <1>3, <1>4, <1>5, <1>6, <1>7, <1>8, <1>9, <1>10, <1>11 DEF Next, Run, WorkerFault

\* Only the end of a run writes COMPLETED.
LEMMA CompletedByFinish ==
  ASSUME IInv, [Next]_vars, NEW k \in Campaigns, status[k] # "completed",
         status'[k] = "completed"
  PROVE  \E j \in Jobs : FinishRun(j) /\ camp[j] = k /\ reason[j] = "none"
  <1> TypeCampaigns
    BY DEF IInv, TypeOK
  <1>1. CASE UNCHANGED campaignVars
    BY <1>1 DEF campaignVars
  <1>2. ASSUME NEW u \in Users, NEW c \in Campaigns, CreateCampaign(u, c) \/ QuickDial(u, c)
        PROVE  FALSE
    BY <1>2 DEF CreateCampaign, QuickDial, TypeCampaigns
  <1>3. ASSUME NEW u \in Users, CommitApprove(u) PROVE FALSE
    BY <1>3 DEF CommitApprove, TypeCampaigns
  <1>4. ASSUME NEW u \in Users, CommitControl(u) PROVE FALSE
    BY <1>4 DEF CommitControl, Mark, Target, TypeCampaigns
  <1>5. ASSUME NEW j \in Jobs, StartRun(j) PROVE FALSE
    BY <1>5 DEF StartRun, Mark, TypeCampaigns
  <1>6. ASSUME NEW j \in Jobs, FinishRun(j) PROVE camp[j] = k /\ reason[j] = "none"
    BY <1>6 DEF FinishRun, Mark, FinalStatus, TypeCampaigns
  <1> QED BY <1>1, <1>2, <1>3, <1>4, <1>5, <1>6, RowWriters

\* COMPLETED is written only by a run at the end of its list, with no dial task
\* left, whatever stopped, killed or outlived it on the way.
THEOREM CompletedIsTheEnd == Spec => CompletedAtEndOfList
  <1>1. ASSUME IInv, ListDone, [Next]_vars
        PROVE  \A k \in Campaigns :
                  status[k] # "completed" /\ status'[k] = "completed" =>
                     \E j \in Jobs : /\ camp[j] = k /\ pc[j] = "gather" /\ todo[j] = {}
                                     /\ \A f \in Farmers : task[j][f] = "none"
    <2> SUFFICES ASSUME NEW k \in Campaigns, status[k] # "completed", status'[k] = "completed"
                 PROVE  \E j \in Jobs : /\ camp[j] = k /\ pc[j] = "gather" /\ todo[j] = {}
                                        /\ \A f \in Farmers : task[j][f] = "none"
      OBVIOUS
    <2>1. PICK j \in Jobs : FinishRun(j) /\ camp[j] = k /\ reason[j] = "none"
      BY <1>1, CompletedByFinish
    <2>2. pc[j] = "gather" /\ \A f \in Farmers : task[j][f] = "none"
      BY <2>1 DEF FinishRun
    <2> QED BY <1>1, <2>1, <2>2 DEF ListDone
  <1>2. Init => ListDone
    BY DEF Init, ListDone
  <1> QED BY <1>1, <1>2, ListDoneNext, Invariance, PTL DEF Spec, CompletedAtEndOfList

(***************************************************************************)
(* The frequency caps' ledger (DialLedger), as long as no contact is in    *)
(* the hands of two runs at a time.                                        *)
(***************************************************************************)

\* A run has a contact in hand from the moment it has read its row until the call is
\* placed or given up.
InHand(j, f) == task[j][f] # "none" \/ (PastRow(j) /\ cur[j] = f)

\* No contact is in the hands of two runs: what a second run of one campaign may
\* break (AttemptsSpaced), and two runs after one another do not.
OneDialEach ==
    \A i, j \in Jobs, f \in Farmers :
        InHand(i, f) /\ InHand(j, f) /\ camp[i] = camp[j] => i = j

\* The caps leave room for another attempt.
MayTry(k, f) ==
    /\ attempts[k][f] < MaxAttempts
    /\ last[k][f] = Never \/ now - last[k][f] >= MinGap

\* What a waiting task was rechecked for still holds, and so does what a run has
\* read of its contact's row; the attempts written down cover the calls placed and
\* those about to be.
Waits == \A j \in Jobs, f \in Farmers : task[j][f] = "waiting" => MayTry(camp[j], f)
RowStands ==
    \A j \in Jobs : PastRow(j) => /\ seen[j].attempts = attempts[camp[j]][cur[j]]
                                  /\ seen[j].last = last[camp[j]][cur[j]]
Covered ==
    \A k \in Campaigns, f \in Farmers :
        /\ attempts[k][f] <= MaxAttempts /\ placed[k][f] <= attempts[k][f]
        /\ \A j \in Jobs : camp[j] = k /\ task[j][f] = "dialing" => placed[k][f] < attempts[k][f]

LedgerInv == IInv /\ Waits /\ RowStands /\ Covered

\* The steps that neither dial nor change what the ledger says.
LEMMA Others ==
  ASSUME IInv, [Next]_vars
  PROVE  \/ UNCHANGED <<attempts, last, placed, now>> /\ \A j \in Jobs : task'[j] = task[j]
         \/ \E j \in Jobs : RecheckContact(j)
         \/ \E j \in Jobs, f \in Farmers :
               RecordAttempt(j, f) \/ OriginateReturns(j, f) \/ OriginateRaises(j, f)
         \/ \E j \in Jobs : JobTimesOut(j) \/ WorkerDies(j)
         \/ Tick
  <1>1. ASSUME NEW u \in Users, Panel(u) PROVE UNCHANGED <<attempts, last, placed, now, task>>
    BY <1>1 DEF Panel, CreateCampaign, QuickDial, LoadApprove, LoadControl, SetControl, Enqueue,
                CommitApprove, CommitControl, RequestFails, contactVars, phoneVars
  <1>2. ASSUME NEW j \in Jobs, Run(j), ~RecheckContact(j)
        PROVE  UNCHANGED <<attempts, last, placed, now, task>>
    <2> TypeJobs
      BY DEF IInv, TypeOK
    <2> QED
      BY <1>2, QueryIs
      DEF Run, StartRun, ReadControl, TakeContact, EndOfList, FinishRun, ReleaseSlot,
                contactVars, phoneVars
  <1>3. ASSUME NEW j \in Jobs, ControlUnreachable(j)
        PROVE  UNCHANGED <<attempts, last, placed, now, task>>
    BY <1>3 DEF ControlUnreachable, TakeContact, contactVars, phoneVars
  <1>4. CASE UNCHANGED vars \/ (World /\ ~Tick)
    BY <1>4 DEF World, CallEnds, OptOut, vars, contactVars, phoneVars
  <1> QED BY <1>1, <1>2, <1>3, <1>4 DEF Next, Run, WorkerFault, DialTask, World

\* A slot that has dial tasks keeps its campaign.
LEMMA TasksKeepCampaign ==
  ASSUME IInv, [Next]_vars, NEW j \in Jobs, NEW f \in Farmers, task'[j][f] # "none"
  PROVE  camp'[j] = camp[j] /\ camp[j] \in Campaigns
  <1> TypeJobs /\ TypeTasks /\ JobsSound /\ JobsSound'
    BY JobsSoundNext DEF IInv, TypeOK
  <1>1. camp'[j] \in Campaigns
    BY DEF JobsSound
  <1>2. CASE UNCHANGED camp
    BY <1>1, <1>2
  <1>3. ASSUME NEW u \in Users, Enqueue(u) PROVE camp'[j] = camp[j]
    <2>1. PICK i \in Jobs : pc[i] = "free" /\ camp' = [camp EXCEPT ![i] = req[u].camp]
      BY <1>3 DEF Enqueue
    <2>2. task' = task
      BY <1>3 DEF Enqueue
    <2>3. CASE i = j
      BY <2>1, <2>2, <2>3 DEF JobsSound
    <2>4. CASE i # j
      BY <2>1, <2>4 DEF TypeJobs
    <2> QED BY <2>3, <2>4
  <1>4. ASSUME NEW i \in Jobs, ReleaseSlot(i) PROVE camp'[j] = camp[j]
    BY <1>4 DEF ReleaseSlot, TypeJobs
  <1>5. ASSUME NEW u \in Users, Panel(u), ~Enqueue(u) PROVE UNCHANGED camp
    BY <1>5 DEF Panel, CreateCampaign, QuickDial, LoadApprove, LoadControl, SetControl,
                CommitApprove, CommitControl, RequestFails, jobVars
  <1>6. ASSUME NEW i \in Jobs, Run(i) \/ WorkerFault(i) \/ \E g \in Farmers : DialTask(i, g),
               ~ReleaseSlot(i)
        PROVE  UNCHANGED camp
    BY <1>6, QueryIs
            DEF Run, WorkerFault, DialTask, StartRun, ReadControl, TakeContact, RecheckContact,
                EndOfList, FinishRun, ControlUnreachable, OriginateRaises, JobTimesOut,
                WorkerDies, RecordAttempt, OriginateReturns, jobVars
  <1>7. CASE World \/ UNCHANGED vars
    BY <1>2, <1>7 DEF World, CallEnds, OptOut, Tick, vars, jobVars
  <1> QED BY <1>2, <1>3, <1>4, <1>5, <1>6, <1>7, <1>1 DEF Next

\* A task that dials is one that dialled, or has just written its attempt down.
LEMMA StillDialing ==
  ASSUME IInv, [Next]_vars, NEW j \in Jobs, NEW f \in Farmers, task'[j][f] = "dialing"
  PROVE  task[j][f] = "dialing" \/ RecordAttempt(j, f)
  <1> TypeTasks
    BY DEF IInv, TypeOK
  <1>1. CASE \A i \in Jobs : task'[i] = task[i]
    BY <1>1
  <1>2. ASSUME NEW i \in Jobs, RecheckContact(i) PROVE task[j][f] = "dialing"
    BY <1>2 DEF RecheckContact, TypeTasks
  <1>3. ASSUME NEW i \in Jobs, NEW g \in Farmers,
               RecordAttempt(i, g) \/ OriginateReturns(i, g) \/ OriginateRaises(i, g)
        PROVE  task[j][f] = "dialing" \/ RecordAttempt(j, f)
    <2>1. CASE i = j /\ g = f
      BY <1>3, <2>1 DEF RecordAttempt, OriginateReturns, OriginateRaises, TypeTasks
    <2>2. CASE ~(i = j /\ g = f)
      <3>1. \E s \in {"none", "dialing"} : task' = [task EXCEPT ![i][g] = s]
        BY <1>3 DEF RecordAttempt, OriginateReturns, OriginateRaises
      <3>2. task'[j][f] = task[j][f]
        BY <2>2, <3>1 DEF TypeTasks
      <3> QED BY <3>2
    <2> QED BY <2>1, <2>2
  <1>4. ASSUME NEW i \in Jobs, JobTimesOut(i) \/ WorkerDies(i) PROVE task[j][f] = "dialing"
    BY <1>4 DEF JobTimesOut, WorkerDies, TypeTasks
  <1>5. CASE Tick
    BY <1>5 DEF Tick
  <1> QED BY <1>1, <1>2, <1>3, <1>4, <1>5, Others

\* An originate that ends, and a run that is cut down, may place the calls that
\* its tasks were dialling, once each.
LEMMA Placing ==
  ASSUME IInv, NEW i \in Jobs,
         \/ \E g \in Farmers : OriginateReturns(i, g) \/ OriginateRaises(i, g)
         \/ JobTimesOut(i) \/ WorkerDies(i)
  PROVE  /\ UNCHANGED <<attempts, last, now, camp>>
         /\ \A j \in Jobs : j # i => task'[j] = task[j]
         /\ \E out \in SUBSET Dialing(i) :
               /\ \A f \in out : task'[i][f] = "none"
               /\ \A k \in Campaigns, f \in Farmers :
                     placed'[k][f] = IF k = camp[i] /\ f \in out THEN placed[k][f] + 1
                                     ELSE placed[k][f]
  <1> TypeTasks /\ TypeWorld
    BY DEF IInv, TypeOK
  <1>1. UNCHANGED <<attempts, last, now, camp>>
    BY DEF OriginateReturns, OriginateRaises, JobTimesOut, WorkerDies, contactVars, jobVars
  <1>2. \A j \in Jobs : j # i => task'[j] = task[j]
    BY DEF OriginateReturns, OriginateRaises, JobTimesOut, WorkerDies, TypeTasks
  <1> DEFINE Out(out) ==
        /\ \A f \in out : task'[i][f] = "none"
        /\ \A k \in Campaigns, f \in Farmers :
              placed'[k][f] = IF k = camp[i] /\ f \in out THEN placed[k][f] + 1
                              ELSE placed[k][f]
  <1>3. ASSUME NEW g \in Farmers, OriginateReturns(i, g) \/ OriginateRaises(i, g)
        PROVE  \E out \in SUBSET Dialing(i) : Out(out)
    <2>1. g \in Dialing(i) /\ task'[i][g] = "none"
      BY <1>3 DEF OriginateReturns, OriginateRaises, Dialing, TypeTasks
    <2>2. CASE placed' = placed
      <3>1. Out({}) /\ {} \in SUBSET Dialing(i)
        BY <2>2
      <3> HIDE DEF Out
      <3> QED BY <3>1
    <2>3. CASE placed' = [placed EXCEPT ![camp[i]][g] = @ + 1]
      <3>1. Out({g})
        BY <2>1, <2>3 DEF TypeWorld
      <3>2. {g} \in SUBSET Dialing(i)
        BY <2>1
      <3> HIDE DEF Out
      <3> QED BY <3>1, <3>2
    <2> QED BY <1>3, <2>2, <2>3 DEF OriginateReturns, OriginateRaises, phoneVars
  <1>4. ASSUME JobTimesOut(i) \/ WorkerDies(i)
        PROVE  \E out \in SUBSET Dialing(i) : Out(out)
    <2>1. CASE UNCHANGED <<task, phoneVars>>
      <3>1. Out({}) /\ {} \in SUBSET Dialing(i)
        BY <2>1 DEF phoneVars
      <3> HIDE DEF Out
      <3> QED BY <3>1
    <2>2. CASE /\ task' = [task EXCEPT ![i] = [f \in Farmers |-> "none"]]
               /\ MaybePlaced(camp[i], Dialing(i))
      <3>1. PICK out \in SUBSET Dialing(i) :
              placed' = [placed EXCEPT ![camp[i]] =
                           [f \in Farmers |-> IF f \in out THEN @[f] + 1 ELSE @[f]]]
        BY <2>2 DEF MaybePlaced
      <3>2. \A f \in out : task'[i][f] = "none"
        BY <2>2 DEF TypeTasks, Dialing
      <3>3. \A k \in Campaigns, f \in Farmers :
              placed'[k][f] = IF k = camp[i] /\ f \in out THEN placed[k][f] + 1
                              ELSE placed[k][f]
        BY <3>1 DEF TypeWorld
      <3>4. Out(out) /\ out \in SUBSET Dialing(i)
        BY <3>2, <3>3
      <3> HIDE DEF Out
      <3> QED BY <3>4
    <2> QED BY <1>4, <2>1, <2>2 DEF JobTimesOut, WorkerDies
  <1> QED BY <1>1, <1>2, <1>3, <1>4

\* The caps' view of a row changes only when its attempt is written down.
LEMMA RowKept ==
  ASSUME IInv, [Next]_vars, NEW k \in Campaigns, NEW f \in Farmers,
         \A j \in Jobs : RecordAttempt(j, f) => camp[j] # k
  PROVE  /\ attempts'[k][f] = attempts[k][f] /\ last'[k][f] = last[k][f]
         /\ now' = now \/ now' = now + 1
  <1> TypeContacts
    BY DEF IInv, TypeOK
  <1>1. ASSUME NEW i \in Jobs, RecheckContact(i) PROVE UNCHANGED <<attempts, last, now>>
    BY <1>1 DEF RecheckContact, contactVars
  <1>2. ASSUME NEW i \in Jobs, NEW g \in Farmers, RecordAttempt(i, g)
        PROVE  attempts'[k][f] = attempts[k][f] /\ last'[k][f] = last[k][f] /\ now' = now
    BY <1>2 DEF RecordAttempt, TypeContacts
  <1>3. CASE Tick
    BY <1>3 DEF Tick, contactVars
  <1> QED BY <1>1, <1>2, <1>3, Others, Placing

\* No step takes from a waiting task what it was rechecked for.
LEMMA WaitsNext ==
  ASSUME LedgerInv, OneDialEach, [Next]_vars
  PROVE  Waits'
  <1> SUFFICES ASSUME NEW j \in Jobs, NEW f \in Farmers, task'[j][f] = "waiting",
                      NEW k, k = camp'[j]
               PROVE  MayTry(k, f)'
    BY DEF Waits, MayTry
  <1> IInv /\ TypeContacts /\ TypeWorld /\ TypeTasks
    BY DEF LedgerInv, IInv, TypeOK
  <1>1. camp'[j] = camp[j] /\ camp[j] \in Campaigns
    BY TasksKeepCampaign
  <1>2. k = camp[j] /\ k \in Campaigns
    BY <1>1
  <1>3. MayTry(k, f)
    <2>1. CASE task[j][f] = "waiting"
      BY <1>2, <2>1 DEF LedgerInv, Waits
    <2>2. CASE task[j][f] # "waiting"
      <3>1. /\ RecheckContact(j) /\ f = cur[j] /\ seen[j] \in Facts
            /\ FirstFailure(seen[j], Settings, now) = Passed
        BY <2>2, TasksAreRechecked
      <3>2. PastRow(j)
        BY <3>1 DEF RecheckContact, PastRow, Recheckings
      <3>3. seen[j].attempts = attempts[k][f] /\ seen[j].last = last[k][f]
        BY <1>2, <3>1, <3>2 DEF LedgerInv, RowStands
      <3>4. attempts[k][f] \in Nat /\ MaxAttempts \in Nat /\ MinGap \in Nat /\ now \in Nat
            /\ last[k][f] \in Nat \cup {Never}
        BY <1>2, CapsAssumption DEF TypeContacts, TypeWorld
      <3> QED BY <3>1, <3>3, <3>4, VerdictPassed DEF MayTry, Never
    <2> QED BY <2>1, <2>2
  <1>4. \A i \in Jobs : RecordAttempt(i, f) => camp[i] # k
    <2> SUFFICES ASSUME NEW i \in Jobs, RecordAttempt(i, f), camp[i] = k PROVE FALSE
      OBVIOUS
    <2>1. task'[i][f] = "dialing" /\ task[i][f] = "waiting"
      BY DEF RecordAttempt, TypeTasks
    <2>2. i # j
      BY <2>1
    <2>3. task'[j][f] = task[j][f]
      BY <2>2 DEF RecordAttempt, TypeTasks
    <2> QED BY <1>2, <2>1, <2>2, <2>3 DEF OneDialEach, InHand
  <1>5. /\ attempts'[k][f] = attempts[k][f] /\ last'[k][f] = last[k][f]
        /\ now' = now \/ now' = now + 1
    BY <1>2, <1>4, RowKept
  <1>6. now \in Nat /\ last[k][f] \in Nat \cup {Never} /\ MinGap \in Nat
    BY <1>2, CapsAssumption DEF TypeContacts, TypeWorld
  <1>7. MayTry(k, f)'
    BY <1>3, <1>5, <1>6 DEF MayTry, Never
  <1> QED BY <1>7

\* Nor changes a row under a run that has read it.
LEMMA RowStandsNext ==
  ASSUME LedgerInv, OneDialEach, [Next]_vars
  PROVE  RowStands'
  <1> SUFFICES ASSUME NEW j \in Jobs, PastRow(j)', NEW k, k = camp[j], NEW f, f = cur[j]
               PROVE  seen'[j].attempts = attempts'[k][f] /\ seen'[j].last = last'[k][f]
    BY RowIsReadOnce DEF RowStands, LedgerInv
  <1> IInv /\ TypeJobs /\ TypeTasks /\ JobsSound /\ TakenOnce
    BY DEF LedgerInv, IInv, TypeOK
  <1>1. CASE ReadRow(j)
    <2>1. seen'[j].attempts = attempts[k][f] /\ seen'[j].last = last[k][f]
      BY <1>1, RowIsSeen
    <2>2. UNCHANGED <<attempts, last>>
      BY <1>1 DEF ReadRow, Reads, contactVars
    <2> QED BY <2>1, <2>2
  <1>2. CASE PastRow(j) /\ seen'[j].attempts = seen[j].attempts /\ seen'[j].last = seen[j].last
    <2>1. k \in Campaigns /\ f \in Farmers /\ task[j][f] = "none"
      BY <1>2 DEF PastRow, Recheckings, JobsSound, TakenOnce
    <2>2. \A i \in Jobs : RecordAttempt(i, f) => camp[i] # k
      <3> SUFFICES ASSUME NEW i \in Jobs, RecordAttempt(i, f), camp[i] = k PROVE FALSE
        OBVIOUS
      <3>1. task[i][f] # "none"
        BY DEF RecordAttempt
      <3>2. i = j
        BY <1>2, <2>1, <3>1 DEF OneDialEach, InHand
      <3> QED BY <2>1, <3>1, <3>2
    <2>3. attempts'[k][f] = attempts[k][f] /\ last'[k][f] = last[k][f]
      BY <2>1, <2>2, RowKept
    <2>4. seen[j].attempts = attempts[k][f] /\ seen[j].last = last[k][f]
      BY <1>2 DEF LedgerInv, RowStands
    <2> QED BY <1>2, <2>3, <2>4
  <1> QED BY <1>1, <1>2, RowIsReadOnce

\* Nor leaves a call that no attempt covers.
LEMMA CoveredNext ==
  ASSUME LedgerInv, OneDialEach, [Next]_vars
  PROVE  Covered'
  <1> IInv /\ TypeContacts /\ TypeWorld /\ TypeTasks
    BY DEF LedgerInv, IInv, TypeOK
  <1> DEFINE Cover(k, f) ==
        /\ attempts[k][f] <= MaxAttempts /\ placed[k][f] <= attempts[k][f]
        /\ \A j \in Jobs : camp[j] = k /\ task[j][f] = "dialing" => placed[k][f] < attempts[k][f]
  <1> SUFFICES ASSUME NEW k \in Campaigns, NEW f \in Farmers PROVE Cover(k, f)'
    BY DEF Covered
  <1>1. Cover(k, f) /\ MaxAttempts \in Nat /\ attempts[k][f] \in Nat /\ placed[k][f] \in Nat
    BY CapsAssumption DEF LedgerInv, Covered, TypeContacts, TypeWorld
  <1>2. ASSUME NEW j \in Jobs, camp'[j] = k, task'[j][f] = "dialing", ~RecordAttempt(j, f)
        PROVE  camp[j] = k /\ task[j][f] = "dialing"
    BY <1>2, StillDialing, TasksKeepCampaign
  <1>3. ASSUME NEW i \in Jobs, RecordAttempt(i, f), camp[i] = k PROVE Cover(k, f)'
    <2>1. task[i][f] = "waiting" /\ attempts'[k][f] = attempts[k][f] + 1 /\ placed' = placed
      BY <1>3 DEF RecordAttempt, NextAttempt, TypeContacts, phoneVars
    <2>2. attempts[k][f] < MaxAttempts
      BY <1>3, <2>1 DEF LedgerInv, Waits, MayTry
    <2> QED BY <1>1, <2>1, <2>2
  <1>4. ASSUME \A i \in Jobs : RecordAttempt(i, f) => camp[i] # k PROVE Cover(k, f)'
    <2>1. attempts'[k][f] = attempts[k][f]
      BY <1>4, RowKept
    <2>2. ASSUME NEW j \in Jobs, camp'[j] = k, task'[j][f] = "dialing"
          PROVE  camp[j] = k /\ task[j][f] = "dialing"
      BY <1>2, <1>4, <2>2, TasksKeepCampaign
    <2>3. CASE placed'[k][f] = placed[k][f]
      BY <1>1, <2>1, <2>2, <2>3
    <2>4. ASSUME NEW i \in Jobs,
                 \/ \E g \in Farmers : OriginateReturns(i, g) \/ OriginateRaises(i, g)
                 \/ JobTimesOut(i) \/ WorkerDies(i)
          PROVE  Cover(k, f)'
      <3>1. PICK out \in SUBSET Dialing(i) :
              /\ \A g \in out : task'[i][g] = "none"
              /\ placed'[k][f] = IF k = camp[i] /\ f \in out THEN placed[k][f] + 1
                                 ELSE placed[k][f]
        BY <2>4, Placing
      <3>2. CASE ~(k = camp[i] /\ f \in out)
        BY <2>3, <3>1, <3>2
      <3>3. CASE k = camp[i] /\ f \in out
        <4>1. task[i][f] = "dialing" /\ task'[i][f] = "none"
          BY <3>1, <3>3 DEF Dialing
        <4>2. placed[k][f] < attempts[k][f] /\ placed'[k][f] = placed[k][f] + 1
          BY <1>1, <3>1, <3>3, <4>1
        <4>3. ASSUME NEW j \in Jobs, camp'[j] = k, task'[j][f] = "dialing" PROVE FALSE
          <5>1. camp[j] = k /\ task[j][f] = "dialing"
            BY <2>2, <4>3
          <5>2. i = j
            BY <3>3, <4>1, <5>1 DEF OneDialEach, InHand
          <5> QED BY <4>1, <4>3, <5>2
        <4> QED BY <1>1, <2>1, <4>2, <4>3
      <3> QED BY <3>2, <3>3
    <2>5. ASSUME NEW i \in Jobs, RecheckContact(i) PROVE placed' = placed
      BY <2>5 DEF RecheckContact, phoneVars
    <2>6. ASSUME NEW i \in Jobs, NEW g \in Farmers, RecordAttempt(i, g) PROVE placed' = placed
      BY <2>6 DEF RecordAttempt, phoneVars
    <2>7. CASE Tick
      BY <2>3, <2>7 DEF Tick, phoneVars
    <2> QED BY <2>3, <2>4, <2>5, <2>6, <2>7, Others
  <1> QED BY <1>3, <1>4

\* The invariant is inductive while no contact has two dial tasks.
LEMMA LedgerInvNext ==
  ASSUME LedgerInv, OneDialEach, [Next]_vars
  PROVE  LedgerInv'
  <1>1. IInv'
    BY TypeOKNext, ApprovedBeforeDialledNext, FourEyesNext, RequestsSoundNext, JobsSoundNext,
       TakenOnceNext, AbsentSoundNext
    DEF IInv, LedgerInv
  <1> QED BY <1>1, WaitsNext, RowStandsNext, CoveredNext DEF LedgerInv

\* Before the first campaign the ledger is empty.
LEMMA LedgerInvInitially ==
  ASSUME Init
  PROVE  LedgerInv
  <1>1. Waits /\ RowStands
    BY DEF Init, Waits, RowStands, PastRow, Recheckings
  <1>2. Covered
    BY CapsAssumption DEF Init, Covered
  <1> QED BY <1>1, <1>2, InitIInv DEF LedgerInv

\* The row of a contact, in the ledger.
LEMMA LedgerRow ==
  ASSUME NEW k \in Campaigns, NEW f \in Farmers, NEW fun
  PROVE  /\ <<k, f>> \in Rows
         /\ [c \in Rows |-> fun[c[1]][c[2]]][<<k, f>>] = fun[k][f]
  BY DEF Rows

\* An attempt that is written down is one the ledger allows.
LEMMA AttemptIsOne ==
  ASSUME LedgerInv, NEW j \in Jobs, NEW f \in Farmers, RecordAttempt(j, f)
  PROVE  \E c \in Rows : Ledger!Attempt(c)
  <1> TypeContacts
    BY DEF LedgerInv, IInv, TypeOK
  <1>1. PICK k \in Campaigns : k = camp[j]
    BY DEF RecordAttempt, LedgerInv, IInv, JobsSound
  <1>2. /\ attempts' = [attempts EXCEPT ![k] = [attempts[k] EXCEPT ![f] = attempts[k][f] + 1]]
        /\ last' = [last EXCEPT ![k] = [last[k] EXCEPT ![f] = now]]
        /\ UNCHANGED <<placed, now>> /\ task[j][f] = "waiting"
    BY <1>1 DEF RecordAttempt, NextAttempt, phoneVars, TypeContacts
  <1>3. attempts[k][f] < MaxAttempts /\ (last[k][f] = Never \/ now - last[k][f] >= MinGap)
    BY <1>1, <1>2 DEF LedgerInv, Waits, MayTry
  <1> DEFINE c == <<k, f>>
             A == [d \in Rows |-> attempts[d[1]][d[2]]]
             L == [d \in Rows |-> last[d[1]][d[2]]]
  <1>4. c \in Rows /\ A[c] = attempts[k][f] /\ L[c] = last[k][f]
    BY LedgerRow
  <1>5. [d \in Rows |-> attempts'[d[1]][d[2]]] = [A EXCEPT ![c] = A[c] + 1]
    <2>1. ASSUME NEW d \in Rows
          PROVE  attempts'[d[1]][d[2]] = IF d = c THEN A[c] + 1 ELSE A[d]
      <3>1. PICK m \in Campaigns, g \in Farmers : d = <<m, g>>
        BY DEF Rows
      <3> QED BY <1>2, <1>4, <3>1 DEF TypeContacts
    <2> QED BY <1>4, <2>1
  <1>6. [d \in Rows |-> last'[d[1]][d[2]]] = [L EXCEPT ![c] = now]
    <2>1. ASSUME NEW d \in Rows
          PROVE  last'[d[1]][d[2]] = IF d = c THEN now ELSE L[d]
      <3>1. PICK m \in Campaigns, g \in Farmers : d = <<m, g>>
        BY DEF Rows
      <3> QED BY <1>2, <1>4, <3>1 DEF TypeContacts
    <2> QED BY <1>4, <2>1
  <1>7. Ledger!MayAttempt(c)
    BY <1>3, <1>4 DEF Ledger!MayAttempt
  <1>8. Ledger!Attempt(c)
    BY <1>2, <1>5, <1>6, <1>7 DEF Ledger!Attempt
  <1> QED BY <1>4, <1>8

\* What is placed was written down before.
LEMMA PlacedIsCovered ==
  ASSUME LedgerInv, LedgerInv', UNCHANGED <<attempts, last, now>>,
         \A k \in Campaigns, f \in Farmers :
            placed'[k][f] = placed[k][f] \/ placed'[k][f] = placed[k][f] + 1
  PROVE  Ledger!Place
  <1> DEFINE A == [d \in Rows |-> attempts[d[1]][d[2]]]
             P == [d \in Rows |-> placed[d[1]][d[2]]]
             Q == [d \in Rows |-> placed'[d[1]][d[2]]]
  <1>1. ASSUME NEW d \in Rows
        PROVE  Q[d] \in 0..MaxAttempts /\ Q[d] \in P[d]..A[d]
    <2>1. PICK k \in Campaigns, f \in Farmers : d = <<k, f>>
      BY DEF Rows
    <2>2. /\ placed[k][f] \in Nat /\ placed'[k][f] \in Nat /\ attempts[k][f] \in Nat
          /\ MaxAttempts \in Nat
      BY CapsAssumption DEF LedgerInv, IInv, TypeOK, TypeWorld, TypeContacts
    <2>3. placed'[k][f] <= attempts'[k][f] /\ attempts'[k][f] <= MaxAttempts
      BY DEF LedgerInv, Covered
    <2>4. Q[d] = placed'[k][f] /\ P[d] = placed[k][f] /\ A[d] = attempts[k][f]
      BY <2>1
    <2>5. placed'[k][f] = placed[k][f] \/ placed'[k][f] = placed[k][f] + 1
      OBVIOUS
    <2> HIDE DEF A, P, Q
    <2> QED BY <2>2, <2>3, <2>4, <2>5
  <1>2. Q \in {p \in [Rows -> 0..MaxAttempts] : \A c \in Rows : p[c] \in P[c]..A[c]}
    BY <1>1
  <1> QED BY <1>2 DEF Ledger!Place

\* Every step is an attempt, a placing, an hour, or nothing to the ledger.
LEMMA LedgerStep ==
  ASSUME LedgerInv, LedgerInv', [Next]_vars
  PROVE  [Ledger!Next]_(Ledger!ledgerVars)
  <1> IInv
    BY DEF LedgerInv
  <1>1. CASE UNCHANGED <<attempts, last, placed, now>>
    BY <1>1 DEF Ledger!ledgerVars
  <1>2. ASSUME NEW j \in Jobs, RecheckContact(j) PROVE UNCHANGED <<attempts, last, placed, now>>
    BY <1>2 DEF RecheckContact, contactVars, phoneVars
  <1>3. ASSUME NEW j \in Jobs, NEW f \in Farmers, RecordAttempt(j, f) PROVE Ledger!Next
    BY <1>3, AttemptIsOne DEF Ledger!Next
  <1>4. ASSUME NEW j \in Jobs,
               \/ \E f \in Farmers : OriginateReturns(j, f) \/ OriginateRaises(j, f)
               \/ JobTimesOut(j) \/ WorkerDies(j)
        PROVE  Ledger!Next
    <2>1. /\ UNCHANGED <<attempts, last, now>>
          /\ \A k \in Campaigns, f \in Farmers :
                placed'[k][f] = placed[k][f] \/ placed'[k][f] = placed[k][f] + 1
      BY <1>4, Placing
    <2> QED BY <2>1, PlacedIsCovered DEF Ledger!Next
  <1>5. CASE Tick
    BY <1>5 DEF Tick, Ledger!Next, Ledger!Tick, contactVars, phoneVars
  <1> QED BY <1>1, <1>2, <1>3, <1>4, <1>5, Others

\* The ledger begins empty.
LEMMA LedgerInitially == ASSUME Init PROVE Ledger!Init
  <1>1. \A c \in Rows : c[1] \in Campaigns /\ c[2] \in Farmers
    BY DEF Rows
  <1> QED BY <1>1 DEF Init, Ledger!Init

\* As long as no contact is in the hands of two runs, the dialer implements the ledger
\* of the frequency caps: every attempt was allowed when it was written down, and
\* no call is placed without one, whatever fails, times out or is killed.
THEOREM LedgerIsKept == Spec /\ []OneDialEach => ImplementsLedger
  <1>1. LedgerInv /\ OneDialEach /\ [Next]_vars => LedgerInv'
    BY LedgerInvNext
  <1>2. LedgerInv /\ LedgerInv' /\ [Next]_vars => [Ledger!Next]_(Ledger!ledgerVars)
    BY LedgerStep
  <1> QED
    BY <1>1, <1>2, LedgerInvInitially, LedgerInitially, PTL
    DEF Spec, ImplementsLedger, Ledger!Spec

(***************************************************************************)
(* What is left of the ledger when a contact is in the hands of two runs.  *)
(* A second run of one campaign breaks the gap and the cap                 *)
(* (AttemptsSpaced); this much no number of runs can break.                *)
(***************************************************************************)

\* The runs that are dialling a contact, and those that wait to or have seen that the
\* cap has room.
Calling(k, f) == {j \in Jobs : camp[j] = k /\ task[j][f] = "dialing"}
Intends(j, f) ==
    \/ task[j][f] = "waiting"
    \/ PastRow(j) /\ cur[j] = f /\ seen[j].attempts < MaxAttempts
InLine(k, f) == {j \in Jobs : camp[j] = k /\ Intends(j, f)}

\* Every call that is placed, or may yet be, has an attempt of its own.
CallsCovered ==
    \A k \in Campaigns, f \in Farmers :
        /\ IsFiniteSet(Calling(k, f))
        /\ placed[k][f] + Cardinality(Calling(k, f)) <= attempts[k][f]

\* The attempts of a contact, with one more for each run in line, pass the cap by n at
\* most.
CapMissedBy(n) ==
    \A k \in Campaigns, f \in Farmers :
        attempts[k][f] + Cardinality(InLine(k, f)) <= MaxAttempts + n

\* A call leaves the set of those that may be placed as it is placed.
LEMMA CallsCoveredNext ==
  ASSUME IInv, CallsCovered, [Next]_vars
  PROVE  CallsCovered'
  <1> TypeContacts /\ TypeWorld /\ TypeTasks
    BY DEF IInv, TypeOK
  <1> SUFFICES ASSUME NEW k \in Campaigns, NEW f \in Farmers
               PROVE  /\ IsFiniteSet(Calling(k, f)')
                      /\ placed'[k][f] + Cardinality(Calling(k, f)') <= attempts'[k][f]
    BY DEF CallsCovered, Calling
  <1> DEFINE C == Calling(k, f)
  <1>1. PICK D : D = Calling(k, f)'
    OBVIOUS
  <1>2. /\ IsFiniteSet(C) /\ Cardinality(C) \in Nat
        /\ attempts[k][f] \in Nat /\ placed[k][f] \in Nat
        /\ placed[k][f] + Cardinality(C) <= attempts[k][f]
    BY FS_CardinalityType DEF CallsCovered, TypeContacts, TypeWorld
  <1>3. ASSUME NEW j \in D PROVE j \in C \/ (RecordAttempt(j, f) /\ camp[j] = k)
    <2>1. j \in Jobs /\ camp'[j] = k /\ task'[j][f] = "dialing"
      BY <1>1, <1>3 DEF Calling
    <2>2. camp[j] = k
      BY <2>1, TasksKeepCampaign
    <2>3. task[j][f] = "dialing" \/ RecordAttempt(j, f)
      BY <2>1, StillDialing
    <2> QED BY <2>1, <2>2, <2>3 DEF Calling
  <1>4. ASSUME NEW i \in Jobs, RecordAttempt(i, f), camp[i] = k
        PROVE  IsFiniteSet(D) /\ placed'[k][f] + Cardinality(D) <= attempts'[k][f]
    <2>1. attempts'[k][f] = attempts[k][f] + 1 /\ placed' = placed
      BY <1>4 DEF RecordAttempt, NextAttempt, TypeContacts, phoneVars
    <2>2. \A j \in Jobs : RecordAttempt(j, f) => j = i
      <3> SUFFICES ASSUME NEW j \in Jobs, RecordAttempt(j, f), j # i PROVE FALSE
        OBVIOUS
      <3>1. task'[i][f] = "dialing" /\ task[i][f] = "waiting"
        BY <1>4 DEF RecordAttempt, TypeTasks
      <3>2. task'[i][f] = task[i][f]
        BY DEF RecordAttempt, TypeTasks
      <3> QED BY <3>1, <3>2
    <2>3. D \subseteq C \cup {i}
      <3>1. ASSUME NEW j \in D PROVE j \in C \cup {i}
        <4>1. j \in Jobs
          BY <1>1 DEF Calling
        <4> QED BY <1>3, <2>2, <4>1
      <3> QED BY <3>1
    <2>4. IsFiniteSet(C \cup {i}) /\ Cardinality(C \cup {i}) <= Cardinality(C) + 1
      <3>1. IsFiniteSet(C)
        BY <1>2
      <3>2. /\ IsFiniteSet(C \cup {i})
            /\ Cardinality(C \cup {i}) = IF i \in C THEN Cardinality(C) ELSE Cardinality(C) + 1
        BY <3>1, FS_AddElement
      <3> HIDE DEF C
      <3> QED BY <1>2, <3>2
    <2>5. IsFiniteSet(D) /\ Cardinality(D) <= Cardinality(C \cup {i})
      BY <2>3, <2>4, FS_Subset
    <2>6. Cardinality(D) \in Nat /\ Cardinality(C \cup {i}) \in Nat
      BY <2>4, <2>5, FS_CardinalityType
    <2> HIDE DEF C
    <2> QED BY <1>2, <2>1, <2>4, <2>5, <2>6
  <1>5. ASSUME \A i \in Jobs : RecordAttempt(i, f) => camp[i] # k
        PROVE  IsFiniteSet(D) /\ placed'[k][f] + Cardinality(D) <= attempts'[k][f]
    <2>1. attempts'[k][f] = attempts[k][f]
      BY <1>5, RowKept
    <2>2. D \subseteq C
      <3>1. ASSUME NEW j \in D PROVE j \in C
        <4>1. j \in Jobs
          BY <1>1 DEF Calling
        <4> QED BY <1>3, <1>5, <4>1
      <3> QED BY <3>1
    <2>3. IsFiniteSet(D) /\ Cardinality(D) <= Cardinality(C) /\ Cardinality(D) \in Nat
      BY <1>2, <2>2, FS_Subset, FS_CardinalityType
    <2>4. CASE placed'[k][f] = placed[k][f]
      <3> HIDE DEF C
      <3> QED BY <1>2, <2>1, <2>3, <2>4
    <2>5. ASSUME NEW i \in Jobs,
                 \/ \E g \in Farmers : OriginateReturns(i, g) \/ OriginateRaises(i, g)
                 \/ JobTimesOut(i) \/ WorkerDies(i)
          PROVE  placed'[k][f] + Cardinality(D) <= attempts'[k][f]
      <3>1. PICK out \in SUBSET Dialing(i) :
              /\ \A g \in out : task'[i][g] = "none"
              /\ placed'[k][f] = IF k = camp[i] /\ f \in out THEN placed[k][f] + 1
                                 ELSE placed[k][f]
        BY <2>5, Placing
      <3>2. CASE ~(k = camp[i] /\ f \in out)
        BY <2>4, <3>1, <3>2
      <3>3. CASE k = camp[i] /\ f \in out
        <4>1. i \in C /\ i \notin D
          BY <1>1, <3>1, <3>3 DEF Dialing, Calling
        <4>2. D \subseteq C \ {i}
          BY <2>2, <4>1
        <4>3. IsFiniteSet(C \ {i}) /\ Cardinality(C \ {i}) = Cardinality(C) - 1
          BY <1>2, <4>1, FS_RemoveElement
        <4>4. Cardinality(D) <= Cardinality(C \ {i})
          BY <4>2, <4>3, FS_Subset
        <4>5. placed'[k][f] = placed[k][f] + 1
          BY <3>1, <3>3
        <4> HIDE DEF C
        <4> QED BY <1>2, <2>1, <2>3, <4>3, <4>4, <4>5
      <3> QED BY <3>2, <3>3
    <2>6. ASSUME NEW i \in Jobs, RecheckContact(i) PROVE placed' = placed
      BY <2>6 DEF RecheckContact, phoneVars
    <2>7. ASSUME NEW i \in Jobs, NEW g \in Farmers, RecordAttempt(i, g) PROVE placed' = placed
      BY <2>7 DEF RecordAttempt, phoneVars
    <2>8. CASE Tick
      BY <2>3, <2>4, <2>8 DEF Tick, phoneVars
    <2> QED BY <2>3, <2>4, <2>5, <2>6, <2>7, <2>8, Others
  <1> QED BY <1>1, <1>4, <1>5

\* No call is placed without an attempt written down before it, and no attempt
\* stands for two calls, whatever fails or is killed and however many runs dial.
THEOREM EveryCallHasAnAttempt == Spec => []CallsAreWrittenDown
  <1>1. Init => CallsCovered
    <2> SUFFICES ASSUME Init PROVE CallsCovered
      OBVIOUS
    <2>1. ASSUME NEW k \in Campaigns, NEW f \in Farmers
          PROVE  Calling(k, f) = {} /\ placed[k][f] = 0 /\ attempts[k][f] = 0
      BY DEF Init, Calling
    <2> QED BY <2>1, FS_EmptySet DEF CallsCovered
  <1>2. ASSUME IInv, CallsCovered
        PROVE  CallsAreWrittenDown
    <2> SUFFICES ASSUME NEW k \in Campaigns, NEW f \in Farmers
                 PROVE  placed[k][f] <= attempts[k][f]
      BY DEF CallsAreWrittenDown
    <2>1. /\ Cardinality(Calling(k, f)) \in Nat
          /\ placed[k][f] + Cardinality(Calling(k, f)) <= attempts[k][f]
      BY <1>2, FS_CardinalityType DEF CallsCovered
    <2>2. placed[k][f] \in Nat /\ attempts[k][f] \in Nat
      BY <1>2 DEF IInv, TypeOK, TypeContacts, TypeWorld
    <2> QED BY <2>1, <2>2
  <1> QED BY <1>1, <1>2, CallsCoveredNext, Invariance, PTL DEF Spec

\* A run gets in line for a contact while the cap has room, and once.
LEMMA CapMissedByNext ==
  ASSUME IInv, IsFiniteSet(Jobs), CapMissedBy(Cardinality(Jobs) - 1), [Next]_vars
  PROVE  CapMissedBy(Cardinality(Jobs) - 1)'
  <1> TypeContacts /\ TypeTasks /\ TypeJobs
    BY DEF IInv, TypeOK
  <1>1. PICK n : n = Cardinality(Jobs) /\ n \in Nat
    BY FS_CardinalityType
  <1> SUFFICES ASSUME NEW k \in Campaigns, NEW f \in Farmers
               PROVE  attempts'[k][f] + Cardinality(InLine(k, f)') <= MaxAttempts + (n - 1)
    BY <1>1 DEF CapMissedBy, InLine, Intends, PastRow
  <1>2. PICK L : L = InLine(k, f)
    OBVIOUS
  <1>3. PICK M : M = InLine(k, f)'
    OBVIOUS
  <1>4. /\ IsFiniteSet(L) /\ Cardinality(L) \in Nat
        /\ IsFiniteSet(M) /\ Cardinality(M) \in Nat /\ Cardinality(M) <= n
    <2>1. L \subseteq Jobs /\ M \subseteq Jobs
      BY <1>2, <1>3 DEF InLine
    <2> QED BY <1>1, <2>1, FS_Subset, FS_CardinalityType
  <1>5. /\ attempts[k][f] \in Nat /\ MaxAttempts \in Nat
        /\ attempts[k][f] + Cardinality(L) <= MaxAttempts + (n - 1)
    BY <1>1, <1>2, CapsAssumption DEF CapMissedBy, TypeContacts
  <1>6. ASSUME NEW i \in Jobs, RecordAttempt(i, f), camp[i] = k
        PROVE  attempts'[k][f] + Cardinality(M) <= MaxAttempts + (n - 1)
    <2>1. attempts'[k][f] = attempts[k][f] + 1 /\ i \in L /\ task'[i][f] = "dialing"
      BY <1>2, <1>6 DEF RecordAttempt, NextAttempt, TypeContacts, TypeTasks, InLine, Intends
    <2>2. ASSUME NEW j \in M PROVE j \in L \ {i}
      <3>1. /\ j \in Jobs /\ camp'[j] = k /\ Intends(j, f)' /\ UNCHANGED jobVars
            /\ j # i => task'[j] = task[j]
        BY <1>3, <1>6, <2>2 DEF InLine, RecordAttempt, TypeTasks
      <3>2. task[i][f] # "none"
        BY <1>6 DEF RecordAttempt
      <3>3. ~(PastRow(i) /\ cur[i] = f)
        BY <3>2 DEF IInv, TakenOnce
      <3>4. j # i
        BY <2>1, <3>1, <3>3 DEF Intends, PastRow, jobVars
      <3> QED BY <1>2, <3>1, <3>4 DEF InLine, Intends, PastRow, jobVars
    <2>3. M \subseteq L \ {i}
      BY <2>2
    <2>4. IsFiniteSet(L \ {i}) /\ Cardinality(L \ {i}) = Cardinality(L) - 1
      BY <1>4, <2>1, FS_RemoveElement
    <2>5. Cardinality(M) <= Cardinality(L \ {i})
      BY <2>3, <2>4, FS_Subset
    <2> QED BY <1>1, <1>4, <1>5, <2>1, <2>4, <2>5
  <1>7. ASSUME \A i \in Jobs : RecordAttempt(i, f) => camp[i] # k
        PROVE  attempts'[k][f] + Cardinality(M) <= MaxAttempts + (n - 1)
    <2>1. attempts'[k][f] = attempts[k][f]
      BY <1>7, RowKept
    <2>2. CASE M \subseteq L
      <3>1. Cardinality(M) <= Cardinality(L)
        BY <1>4, <2>2, FS_Subset
      <3> QED BY <1>1, <1>4, <1>5, <2>1, <3>1
    <2>3. ASSUME NEW j \in M, j \notin L
          PROVE  attempts'[k][f] + Cardinality(M) <= MaxAttempts + (n - 1)
      <3>1. j \in Jobs /\ camp'[j] = k /\ Intends(j, f)' /\ ~(camp[j] = k /\ Intends(j, f))
        BY <1>2, <1>3, <2>3 DEF InLine
      <3>2. CASE task'[j][f] = "waiting"
        <4>1. camp[j] = k
          BY <3>1, <3>2, TasksKeepCampaign
        <4>2. task[j][f] # "waiting"
          BY <3>1, <4>1 DEF Intends
        <4>3. /\ RecheckContact(j) /\ f = cur[j] /\ seen[j] \in Facts
              /\ FirstFailure(seen[j], Settings, now) = Passed
          BY <3>1, <3>2, <4>2, TasksAreRechecked
        <4>4. PastRow(j) /\ seen[j].attempts < MaxAttempts
          <5>1. PastRow(j)
            BY <4>3 DEF RecheckContact, PastRow, Recheckings
          <5>2. seen[j].attempts \in Nat /\ ~(seen[j].attempts >= MaxAttempts)
            BY <4>3, VerdictPassed DEF Facts
          <5> QED BY <1>5, <5>1, <5>2
        <4> QED BY <3>1, <4>1, <4>3, <4>4 DEF Intends
      <3>3. CASE PastRow(j)' /\ cur'[j] = f /\ seen'[j].attempts < MaxAttempts
        <4>1. camp[j] = k /\ cur[j] = f /\ ReadRow(j)
          BY <3>1, <3>3, RowIsReadOnce DEF Intends
        <4>2. seen'[j].attempts = attempts[k][f]
          BY <3>1, <4>1, RowIsSeen
        <4>3. attempts[k][f] < MaxAttempts
          BY <3>3, <4>2
        <4> QED BY <1>1, <1>4, <1>5, <2>1, <4>3
      <3> QED BY <3>1, <3>2, <3>3 DEF Intends
    <2> QED BY <2>2, <2>3
  <1> QED BY <1>3, <1>6, <1>7

\* The runs that share a contact, however they came to be (nothing stops a second
\* dial_campaign of one campaign), pass its cap by at most one attempt for each job slot
\* but the first: each rechecked it before its attempt, and holds one task for it.
THEOREM RacingRunsMissTheCapByOneEach ==
  ASSUME IsFiniteSet(Jobs)
  PROVE  Spec => []CapMissedByOneEach
  <1>1. Init => CapMissedBy(Cardinality(Jobs) - 1)
    <2> SUFFICES ASSUME Init PROVE CapMissedBy(Cardinality(Jobs) - 1)
      OBVIOUS
    <2>1. ASSUME NEW k \in Campaigns, NEW f \in Farmers
          PROVE  InLine(k, f) = {} /\ attempts[k][f] = 0
      BY DEF Init, InLine, Intends, PastRow, Recheckings
    <2>2. Cardinality(Jobs) \in Nat /\ MaxAttempts \in Nat \ {0}
      BY FS_CardinalityType, CapsAssumption
    <2>3. Cardinality({}) = 0
      BY FS_EmptySet
    <2>4. PICK n : n = Cardinality(Jobs) /\ n \in Nat
      BY <2>2
    <2>5. 0 + 0 <= MaxAttempts + (n - 1)
      BY <2>2, <2>4
    <2> QED BY <2>1, <2>3, <2>4, <2>5 DEF CapMissedBy
  <1>2. ASSUME IInv, CapMissedBy(Cardinality(Jobs) - 1)
        PROVE  CapMissedByOneEach
    <2> SUFFICES ASSUME NEW k \in Campaigns, NEW f \in Farmers
                 PROVE  attempts[k][f] <= MaxAttempts + (Cardinality(Jobs) - 1)
      BY DEF CapMissedByOneEach
    <2>1. Cardinality(InLine(k, f)) \in Nat
      <3>1. InLine(k, f) \subseteq Jobs
        BY DEF InLine
      <3> QED BY <3>1, FS_Subset, FS_CardinalityType
    <2>2. attempts[k][f] \in Nat /\ Cardinality(Jobs) \in Nat /\ MaxAttempts \in Nat
      BY <1>2, FS_CardinalityType, CapsAssumption DEF IInv, TypeOK, TypeContacts
    <2>3. attempts[k][f] + Cardinality(InLine(k, f)) <= MaxAttempts + (Cardinality(Jobs) - 1)
      BY <1>2 DEF CapMissedBy
    <2> QED BY <2>1, <2>2, <2>3
  <1>3. IInv /\ CapMissedBy(Cardinality(Jobs) - 1) /\ [Next]_vars
           => CapMissedBy(Cardinality(Jobs) - 1)'
    BY CapMissedByNext
  <1> QED BY <1>1, <1>2, <1>3, Invariance, PTL DEF Spec

\* Where jobs are run one at a time nothing more is asked: the dialer implements
\* the ledger of the caps.
THEOREM OneSlotKeepsLedger ==
  ASSUME \A i, j \in Jobs : i = j
  PROVE  Spec => ImplementsLedger
  <1>1. IInv => OneDialEach
    BY DEF OneDialEach
  <1> QED BY <1>1, Invariance, LedgerIsKept, PTL
=============================================================================
