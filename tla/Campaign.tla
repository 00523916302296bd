------------------------------ MODULE Campaign ------------------------------
(***************************************************************************)
(* Running an outbound campaign: the panel's requests (apps/api), the      *)
(* control key and the job queue in Redis, and the background worker's     *)
(* dialer (apps/worker).  Panel and worker share nothing but PostgreSQL    *)
(* rows and Redis, and every action below is one transaction, one Redis    *)
(* command or one stretch of a coroutine between two awaits, so the steps  *)
(* of the requests, of the jobs and of a job's dial tasks interleave as    *)
(* they do in the three processes.                                         *)
(*                                                                         *)
(* A job slot carries one run of run_campaign.  Its pc:                    *)
(*   free     no job                                                       *)
(*   queued   dial_campaign is in the ARQ queue                            *)
(*   loop     at the top of Dialer.run's loop, about to read the control   *)
(*   recheck, suppression, weekly, elsewhere                               *)
(*            inside recheck(cur), awaiting the query of that name           *)
(*   rechecked  the last of them has been answered                         *)
(*   gather   awaiting the dial tasks, no more contacts are taken          *)
(*   over     returned, failed or timed out                                *)
(* A dial task is waiting (on the semaphore), dialing (originate awaited)  *)
(* or none (not created, or finished).                                     *)
(***************************************************************************)
EXTENDS Compliance

CONSTANTS
    Campaigns, Farmers, Users, Jobs,
    SuperAdmins,     \* the users whose role is SUPER_ADMIN
    NoCampaign, NoFarmer, NoUser,
    Concurrency,     \* min(settings.max_concurrent_calls, campaign's own)
    WeekLength,      \* hours in an ISO week
    DndRegistered,   \* farmers on the national DND list
    ConsentExpires,  \* the hour at which the attested consents run out
    QuickDialSelfApprove,  \* settings.outbound_quick_dial_self_approve
    MaxTries,        \* ARQ's max_tries
    \* Bounds of the model, not of the program.
    MaxTime, MaxRequests, MaxFaults

ASSUME CampaignAssumption ==
    /\ IsFiniteSet(Campaigns) /\ NoCampaign \notin Campaigns
    /\ IsFiniteSet(Farmers) /\ NoFarmer \notin Farmers
    /\ NoUser \notin Users
    /\ SuperAdmins \subseteq Users
    /\ DndRegistered \subseteq Farmers
    /\ QuickDialSelfApprove \in BOOLEAN
    /\ {Concurrency, WeekLength, MaxTries} \subseteq Nat \ {0}
    /\ {ConsentExpires, MaxTime, MaxRequests, MaxFaults} \subseteq Nat

VARIABLES
    \* campaigns
    status, creator, approver, selfApproved,
    \* campaign_contacts and dnd_status.internal_dnc
    list, cstatus, attempts, last, dnc,
    \* Redis
    control,
    \* the worker's jobs and their dial tasks
    pc, camp, todo, cur, seen, reason, tries, task,
    \* the panel's requests, one at a time per user
    req,
    \* the telephone network: calls placed so far, calls in progress
    placed, onCall,
    now,
    requests, faults  \* counters of the bounds

campaignVars == <<status, creator, approver, selfApproved>>
contactVars == <<list, cstatus, attempts, last>>
jobVars == <<pc, camp, todo, cur, seen, reason, tries>>
phoneVars == <<placed, onCall>>
bounds == <<requests, faults>>
vars == <<campaignVars, contactVars, dnc, control, jobVars, task, req,
          phoneVars, now, bounds>>

CampaignStatus == {"pending_approval", "approved", "scheduled", "running",
                   "paused", "completed", "cancelled"}
ContactStatus == {"pending", "scrubbed_out", "dialing", "completed",
                  "no_answer", "failed", "opted_out"}

(***************************************************************************)
(* The gate's view of a contact, read from the rows (load_contacts).       *)
(***************************************************************************)

WeekStart(t) == (t \div WeekLength) * WeekLength

\* _contacts_this_week: contact ROWS attempted since Monday, all campaigns.
ContactsThisWeek(f, since) ==
    Cardinality({k \in Campaigns : f \in list[k] /\ last[k][f] >= since})

\* _in_another_live_campaign; every modelled campaign is under seven days old.
InAnotherLiveCampaign(k, f) ==
    \E other \in Campaigns \ {k} :
        f \in list[other] /\ status[other] \in {"running", "scheduled"}

LoadContact(k, f) ==
    [ consent   |-> "promotional_voice",  \* import_campaign attests it
      revoked   |-> FALSE,
      expires   |-> ConsentExpires,
      dnd       |-> f \in DndRegistered,
      dnc       |-> f \in dnc,
      attempts  |-> attempts[k][f],
      last      |-> last[k][f],
      weekly    |-> ContactsThisWeek(f, WeekStart(now)),
      elsewhere |-> InAnotherLiveCampaign(k, f) ]

\* Panel campaigns are promotional, with the deployment's CLI and DLT ids, and
\* no scheduled_start: nothing in the repository writes that column.
Settings == [ promotional |-> TRUE, cli140 |-> TRUE, dltEntity |-> TRUE,
              dltTemplate |-> TRUE, dialAt |-> Never ]

\* What recheck's queries have gathered of its contact before the first of them:
\* the consent and the national list are facts of the instance.
Unseen == [ consent |-> "promotional_voice", revoked |-> FALSE, expires |-> ConsentExpires,
            dnd |-> FALSE, dnc |-> FALSE, attempts |-> 0, last |-> Never, since |-> 0,
            weekly |-> 0, elsewhere |-> FALSE ]

\* The verdict of the gate on a contact at the import, where its facts are taken as
\* read together (so are the approval's): whatever changes between those queries is
\* judged again by the dialer's recheck, whose queries are steps of their own.
Recheck(k, f) == FirstFailure(LoadContact(k, f), Settings, now)

\* evaluate_campaign
Gate(k) == Evaluate([f \in list[k] |-> LoadContact(k, f)], Settings, now)

(***************************************************************************)
(* Writes to a campaigns row.                                              *)
(***************************************************************************)

\* The CHECK constraint running_campaign_requires_approval.
ConstraintAllows(s, who) ==
    s \in {"draft", "pending_approval", "cancelled"} \/ who # NoUser

\* _mark: an unconditional UPDATE of the status column.
Mark(k, s) ==
    /\ status' = [status EXCEPT ![k] = s]
    /\ UNCHANGED <<creator, approver, selfApproved>>

(***************************************************************************)
(* The panel.  A request loads the row, writes Redis, and commits when it  *)
(* returns (scoped_db).  The session remembers the status it loaded and    *)
(* emits the column only if the handler changed it.                        *)
(***************************************************************************)

Idle == [op |-> "idle", camp |-> NoCampaign, saw |-> "absent", step |-> "none"]

Request(op, k, step) == [op |-> op, camp |-> k, saw |-> status[k], step |-> step]

\* import_campaign: a list becomes a campaign waiting for approval.
Imported(u, k, farmers) ==
    /\ status[k] = "absent"
    /\ creator' = [creator EXCEPT ![k] = u]
    /\ list' = [list EXCEPT ![k] = farmers]

\* POST /admin/campaigns.  _scrub marks the contacts the gate removes.
CreateCampaign(u, k) ==
    /\ req[u] = Idle
    /\ \E farmers \in SUBSET Farmers \ {{}} :
          /\ Imported(u, k, farmers)
          /\ cstatus' = [cstatus EXCEPT ![k] =
                [f \in Farmers |-> IF f \in farmers /\ Recheck(k, f) # Passed
                                   THEN "scrubbed_out" ELSE "pending"]]
    /\ status' = [status EXCEPT ![k] = "pending_approval"]
    /\ UNCHANGED <<approver, selfApproved, attempts, last, dnc, control,
                   jobVars, task, req, phoneVars, now, bounds>>

\* POST /admin/dial up to its own commit: imported, gated and approved by its
\* creator in one transaction.  What follows is what start_campaign does.
QuickDial(u, k) ==
    /\ QuickDialSelfApprove
    /\ req[u] = Idle
    /\ requests < MaxRequests
    /\ \E farmers \in SUBSET Farmers \ {{}} :
          /\ Imported(u, k, farmers)
          /\ cstatus' = [cstatus EXCEPT ![k] =
                [f \in Farmers |-> IF f \in farmers /\ Recheck(k, f) # Passed
                                   THEN "scrubbed_out" ELSE "pending"]]
          /\ BlockedBy(Settings, now) = {}
          /\ \E f \in farmers : Recheck(k, f) = Passed
    /\ status' = [status EXCEPT ![k] = "approved"]
    /\ approver' = [approver EXCEPT ![k] = u]
    /\ selfApproved' = [selfApproved EXCEPT ![k] = TRUE]
    /\ req' = [req EXCEPT ![u] =
                 [op |-> "start", camp |-> k, saw |-> "approved", step |-> "control"]]
    /\ requests' = requests + 1
    /\ UNCHANGED <<attempts, last, dnc, control, jobVars, task, phoneVars, now, faults>>

\* Mutant: four eyes left to the database constraint.
AnyoneMayApprove(u, k) == status[k] = "pending_approval"

\* approve_campaign's refusals that look at the row.
MayApprove(u, k) ==
    /\ status[k] = "pending_approval"
    /\ creator[k] = u => u \in SuperAdmins

\* approve_campaign up to its commit.
LoadApprove(u, k) ==
    /\ req[u] = Idle
    /\ MayApprove(u, k)
    /\ GatePassed(Gate(k))
    /\ req' = [req EXCEPT ![u] = Request("approve", k, "commit")]
    /\ UNCHANGED <<campaignVars, contactVars, dnc, control, jobVars, task,
                   phoneVars, now, bounds>>

\* Mutant: an unapproved campaign may be started too.
StartableUnapproved == {"pending_approval", "approved", "scheduled", "paused"}

Startable == {"approved", "scheduled", "paused"}

\* start_campaign (resume_campaign is the same handler) refuses every other
\* status; pause_campaign and stop_campaign look at none.
LoadControl(u, k, op) ==
    /\ req[u] = Idle
    /\ requests < MaxRequests
    /\ status[k] # "absent"
    /\ op = "start" => status[k] \in Startable
    /\ req' = [req EXCEPT ![u] = Request(op, k, "control")]
    /\ requests' = requests + 1
    /\ UNCHANGED <<campaignVars, contactVars, dnc, control, jobVars, task,
                   phoneVars, now, faults>>

\* jobs.set_control: clear the key, or leave an instruction for the dialer.
SetControl(u) ==
    /\ req[u].step = "control"
    /\ control' = [control EXCEPT ![req[u].camp] =
                     CASE req[u].op = "start" -> "none"
                       [] req[u].op = "pause" -> "paused"
                       [] req[u].op = "stop"  -> "cancelled"]
    /\ req' = [req EXCEPT ![u].step = IF req[u].op = "start" THEN "enqueue" ELSE "commit"]
    /\ UNCHANGED <<campaignVars, contactVars, dnc, jobVars, task, phoneVars, now, bounds>>

\* jobs.enqueue("dial_campaign"): no job id is given, so ARQ never folds two
\* enqueues of one campaign into one job.
Enqueue(u) ==
    /\ req[u].step = "enqueue"
    /\ \E j \in Jobs :
          /\ pc[j] = "free"
          /\ pc' = [pc EXCEPT ![j] = "queued"]
          /\ camp' = [camp EXCEPT ![j] = req[u].camp]
          /\ tries' = [tries EXCEPT ![j] = 0]
    /\ req' = [req EXCEPT ![u].step = "commit"]
    /\ UNCHANGED <<campaignVars, contactVars, dnc, control, todo, cur, seen, reason,
                   task, phoneVars, now, bounds>>

\* The status each handler assigns.
Target(op) == CASE op = "approve" -> "approved"
                [] op = "start"   -> "running"
                [] op = "pause"   -> "paused"
                [] op = "stop"    -> "cancelled"

\* The commit at the end of approve_campaign: the approver is always written,
\* self_approved only when the handler changes what it loaded (FALSE).
CommitApprove(u) ==
    LET k == req[u].camp IN
    /\ req[u].op = "approve"
    /\ status' = [status EXCEPT ![k] = "approved"]
    /\ approver' = [approver EXCEPT ![k] = u]
    /\ selfApproved' = [selfApproved EXCEPT ![k] = @ \/ creator[k] = u]
    /\ req' = [req EXCEPT ![u] = Idle]
    /\ UNCHANGED <<creator, contactVars, dnc, control, jobVars, task,
                   phoneVars, now, bounds>>

\* The commit of start, pause and stop.  A status equal to the loaded one is
\* not written; one the CHECK constraint refuses rolls the transaction back.
CommitControl(u) ==
    LET k == req[u].camp
        target == Target(req[u].op)
    IN
    /\ req[u].op \in {"start", "pause", "stop"}
    /\ req[u].step = "commit"
    /\ Mark(k, IF target # req[u].saw /\ ConstraintAllows(target, approver[k])
               THEN target ELSE status[k])
    /\ req' = [req EXCEPT ![u] = Idle]
    /\ UNCHANGED <<contactVars, dnc, control, jobVars, task, phoneVars, now, bounds>>

\* Redis or the database fails under the request: rolled back, while what was
\* already written to Redis stays.
RequestFails(u) ==
    /\ req[u] # Idle
    /\ faults < MaxFaults
    /\ req' = [req EXCEPT ![u] = Idle]
    /\ faults' = faults + 1
    /\ UNCHANGED <<campaignVars, contactVars, dnc, control, jobVars, task,
                   phoneVars, now, requests>>

(***************************************************************************)
(* The worker: run_campaign and Dialer.run.                                *)
(***************************************************************************)

\* run_campaign's first transaction: the gate, the contact list, the mark.  A
\* blocked campaign is marked PAUSED and the job returns; the exception is
\* swallowed so that ARQ does not try again.
StartRun(j) ==
    LET k == camp[j] IN
    /\ pc[j] = "queued"
    /\ \/ /\ Gate(k).blockedBy # {}
          /\ Mark(k, "paused")
          /\ pc' = [pc EXCEPT ![j] = "over"]
          /\ UNCHANGED <<todo, reason, tries>>
       \/ /\ Gate(k).blockedBy = {}
          /\ Mark(k, "running")
          /\ pc' = [pc EXCEPT ![j] = "loop"]
          /\ todo' = [todo EXCEPT ![j] = list[k]]
          /\ reason' = [reason EXCEPT ![j] = "none"]
          /\ tries' = [tries EXCEPT ![j] = @ + 1]
    /\ UNCHANGED <<camp, cur, seen, contactVars, dnc, control, task, req,
                   phoneVars, now, bounds>>

\* Why the loop breaks before its next contact, "none" if it does not.
StopReason(instruction) ==
    CASE instruction = "cancelled" -> "cancelled"
      [] instruction = "paused" -> "paused"
      [] OTHER -> IF WithinCallingWindow(now) THEN "none" ELSE "outside the calling window"

\* The head of the loop: _apply_control, then the window, with no await between
\* them.  The list has no ORDER BY, so any contact may be the next one.
TakeContact(j, instruction) ==
    /\ pc[j] = "loop"
    /\ todo[j] # {}
    /\ reason' = [reason EXCEPT ![j] = StopReason(instruction)]
    /\ \/ /\ StopReason(instruction) # "none"
          /\ pc' = [pc EXCEPT ![j] = "gather"]
          /\ UNCHANGED <<todo, cur>>
       \/ /\ StopReason(instruction) = "none"
          /\ pc' = [pc EXCEPT ![j] = "recheck"]
          /\ \E f \in todo[j] :
                /\ cur' = [cur EXCEPT ![j] = f]
                /\ todo' = [todo EXCEPT ![j] = @ \ {f}]
    /\ UNCHANGED <<camp, tries, seen, campaignVars, contactVars, dnc, control, task,
                   req, phoneVars, now>>

ReadControl(j) == TakeContact(j, control[camp[j]]) /\ UNCHANGED bounds

\* A control channel that is down is treated as silence.
ControlUnreachable(j) ==
    /\ faults < MaxFaults
    /\ TakeContact(j, "none")
    /\ faults' = faults + 1
    /\ UNCHANGED requests

\* One query of load_contacts returns.  Each is a statement with a snapshot of its
\* own, and other runs, calls and requests commit between them.
Reads(j, query, facts, next) ==
    /\ pc[j] = query
    /\ seen' = [seen EXCEPT ![j] = facts]
    /\ pc' = [pc EXCEPT ![j] = next]
    /\ UNCHANGED <<camp, todo, cur, reason, tries, campaignVars, contactVars, dnc,
                   control, task, req, phoneVars, now, bounds>>

\* Mutant: the contact is judged by the row that the run loaded when it began.
StaleRow(j) == Reads(j, "recheck", [Unseen EXCEPT !.since = WeekStart(now)], "suppression")

\* The contact's own row; the week counts from the moment this query is asked.
ReadRow(j) ==
    Reads(j, "recheck", [Unseen EXCEPT !.attempts = attempts[camp[j]][cur[j]],
                                       !.last = last[camp[j]][cur[j]],
                                       !.since = WeekStart(now)], "suppression")

\* _dnd_by_hash.  The consent before it is attested at import and never revoked.
ReadSuppression(j) ==
    Reads(j, "suppression", [seen[j] EXCEPT !.dnd = cur[j] \in DndRegistered,
                                            !.dnc = cur[j] \in dnc], "weekly")

ReadWeek(j) ==
    Reads(j, "weekly",
          [seen[j] EXCEPT !.weekly = ContactsThisWeek(cur[j], seen[j].since)], "elsewhere")

ReadElsewhere(j) ==
    Reads(j, "elsewhere",
          [seen[j] EXCEPT !.elsewhere = InAnotherLiveCampaign(camp[j], cur[j])], "rechecked")

Queries(j) == ReadRow(j) \/ ReadSuppression(j) \/ ReadWeek(j) \/ ReadElsewhere(j)

\* recheck returns, and the contact is skipped or gets its dial task, by what the
\* queries have seen.
RecheckContact(j) ==
    /\ pc[j] = "rechecked"
    /\ task' = IF FirstFailure(seen[j], Settings, now) = Passed
               THEN [task EXCEPT ![j][cur[j]] = "waiting"] ELSE task
    /\ cur' = [cur EXCEPT ![j] = NoFarmer]
    /\ seen' = [seen EXCEPT ![j] = Unseen]
    /\ pc' = [pc EXCEPT ![j] = "loop"]
    /\ UNCHANGED <<camp, todo, reason, tries, campaignVars, contactVars, dnc,
                   control, req, phoneVars, now, bounds>>

\* The for loop runs out of contacts.
EndOfList(j) ==
    /\ pc[j] = "loop"
    /\ todo[j] = {}
    /\ pc' = [pc EXCEPT ![j] = "gather"]
    /\ UNCHANGED <<camp, todo, cur, seen, reason, tries, campaignVars, contactVars,
                   dnc, control, task, req, phoneVars, now, bounds>>

Dialing(j) == {f \in Farmers : task[j][f] = "dialing"}

\* Mutant: a task counts against the semaphore while it waits for it.
SlotFreeForNobody(j) ==
    Cardinality({f \in Farmers : task[j][f] # "none"}) < Concurrency

\* asyncio.Semaphore(max_concurrent)
SlotFree(j) == Cardinality(Dialing(j)) < Concurrency

\* Mutant: the retry policy counts the attempt when its call has ended.
CountedAfterwards(k, f) == attempts[k][f]

NextAttempt(k, f) == attempts[k][f] + 1

\* dial's transaction, inside the semaphore: _plaintext_number, _record_attempt,
\* commit.  Nothing is looked at again.
RecordAttempt(j, f) ==
    LET k == camp[j] IN
    /\ task[j][f] = "waiting"
    /\ SlotFree(j)
    /\ attempts' = [attempts EXCEPT ![k][f] = NextAttempt(k, f)]
    /\ last' = [last EXCEPT ![k][f] = now]
    /\ cstatus' = [cstatus EXCEPT ![k][f] = "dialing"]
    /\ task' = [task EXCEPT ![j][f] = "dialing"]
    /\ UNCHANGED <<list, campaignVars, dnc, control, jobVars, req, phoneVars, now, bounds>>

\* originate returns the provider's call id.
OriginateReturns(j, f) ==
    LET k == camp[j] IN
    /\ task[j][f] = "dialing"
    /\ placed' = [placed EXCEPT ![k][f] = @ + 1]
    /\ onCall' = onCall \cup {<<k, f>>}
    /\ task' = [task EXCEPT ![j][f] = "none"]
    /\ UNCHANGED <<campaignVars, contactVars, dnc, control, jobVars, req, now, bounds>>

\* originate raises.  The provider refused, or accepted and its answer was
\* lost; _attempt_failed writes FAILED either way.
OriginateRaises(j, f) ==
    LET k == camp[j] IN
    /\ task[j][f] = "dialing"
    /\ faults < MaxFaults
    /\ \/ UNCHANGED phoneVars
       \/ /\ placed' = [placed EXCEPT ![k][f] = @ + 1]
          /\ onCall' = onCall \cup {<<k, f>>}
    /\ cstatus' = [cstatus EXCEPT ![k][f] = "failed"]
    /\ task' = [task EXCEPT ![j][f] = "none"]
    /\ faults' = faults + 1
    /\ UNCHANGED <<list, attempts, last, campaignVars, dnc, control, jobVars,
                   req, now, requests>>

\* Mutant: the end of the calling hours is the end of the campaign.
FinalAtNightfall(j) ==
    IF reason[j] \in {"none", "outside the calling window"} THEN "completed" ELSE "paused"

\* Paused stays paused; only a run that nothing stopped is complete.
FinalStatus(j) == IF reason[j] = "none" THEN "completed" ELSE "paused"

\* gather returns and the run's last transaction marks the campaign.
FinishRun(j) ==
    /\ pc[j] = "gather"
    /\ \A f \in Farmers : task[j][f] = "none"
    /\ Mark(camp[j], FinalStatus(j))
    /\ pc' = [pc EXCEPT ![j] = "over"]
    /\ UNCHANGED <<camp, todo, cur, seen, reason, tries, contactVars, dnc, control,
                   task, req, phoneVars, now, bounds>>

\* A call that a cancelled originate may or may not have placed.
MaybePlaced(k, dialled) ==
    \E out \in SUBSET dialled :
        /\ placed' = [placed EXCEPT ![k] =
                        [f \in Farmers |-> IF f \in out THEN @[f] + 1 ELSE @[f]]]
        /\ onCall' = onCall \cup {<<k, f>> : f \in out}

Recheckings == {"recheck", "suppression", "weekly", "elsewhere", "rechecked"}

\* What a run is at between its first transaction and its last.
UnderWay == {"loop", "gather"} \cup Recheckings

\* ARQ cancels a job that outlives job_timeout, and does not run it again.  In
\* the loop only the loop dies: its dial tasks were created with create_task
\* and carry on alone.  In gather the cancellation reaches the tasks.
JobTimesOut(j) ==
    /\ pc[j] \in UnderWay
    /\ faults < MaxFaults
    /\ pc' = [pc EXCEPT ![j] = "over"]
    /\ cur' = [cur EXCEPT ![j] = NoFarmer]
    /\ seen' = [seen EXCEPT ![j] = Unseen]
    /\ IF pc[j] = "gather"
       THEN /\ task' = [task EXCEPT ![j] = [f \in Farmers |-> "none"]]
            /\ MaybePlaced(camp[j], Dialing(j))
       ELSE UNCHANGED <<task, phoneVars>>
    /\ faults' = faults + 1
    /\ UNCHANGED <<camp, todo, reason, tries, campaignVars, contactVars, dnc,
                   control, req, now, requests>>

\* The worker process dies with the run and its tasks.  ARQ still holds the
\* job and runs it again from the top, up to max_tries times.
WorkerDies(j) ==
    /\ \/ pc[j] \in UnderWay
       \/ pc[j] = "over" /\ \E f \in Farmers : task[j][f] # "none"
    /\ faults < MaxFaults
    /\ pc' = [pc EXCEPT ![j] = IF @ # "over" /\ tries[j] < MaxTries
                               THEN "queued" ELSE "over"]
    /\ cur' = [cur EXCEPT ![j] = NoFarmer]
    /\ seen' = [seen EXCEPT ![j] = Unseen]
    /\ todo' = [todo EXCEPT ![j] = {}]
    /\ task' = [task EXCEPT ![j] = [f \in Farmers |-> "none"]]
    /\ MaybePlaced(camp[j], Dialing(j))
    /\ faults' = faults + 1
    /\ UNCHANGED <<camp, reason, tries, campaignVars, contactVars, dnc,
                   control, req, now, requests>>

\* The job's slot is free for the next one: a device of the model.
ReleaseSlot(j) ==
    /\ pc[j] = "over"
    /\ \A f \in Farmers : task[j][f] = "none"
    /\ pc' = [pc EXCEPT ![j] = "free"]
    /\ camp' = [camp EXCEPT ![j] = NoCampaign]
    /\ todo' = [todo EXCEPT ![j] = {}]
    /\ reason' = [reason EXCEPT ![j] = "none"]
    /\ tries' = [tries EXCEPT ![j] = 0]
    /\ UNCHANGED <<cur, seen, campaignVars, contactVars, dnc, control, task, req,
                   phoneVars, now, bounds>>

(***************************************************************************)
(* The world: calls end, farmers opt out on other calls, hours pass.       *)
(***************************************************************************)

\* A placed call ends, and the media path, the post-call pipeline or
\* reconcile_contacts settles the contact's card (module ContactLifecycle).
\* An opt-out is in dnd_status before the call goes on, unless the provider sent
\* no number to suppress.
CallEnds(k, f, result) ==
    /\ <<k, f>> \in onCall
    /\ onCall' = onCall \ {<<k, f>>}
    /\ cstatus' = [cstatus EXCEPT ![k][f] = result]
    /\ dnc' \in {dnc} \cup (IF result = "opted_out" THEN {dnc \cup {f}} ELSE {})
    /\ UNCHANGED <<list, attempts, last, campaignVars, control, jobVars, task,
                   req, placed, now, bounds>>

\* suppress, reached from a call that is not one of this model's.
OptOut(f) ==
    /\ f \notin dnc
    /\ dnc' = dnc \cup {f}
    /\ UNCHANGED <<campaignVars, contactVars, control, jobVars, task, req,
                   phoneVars, now, bounds>>

Tick ==
    /\ now < MaxTime
    /\ now' = now + 1
    /\ UNCHANGED <<campaignVars, contactVars, dnc, control, jobVars, task, req,
                   phoneVars, bounds>>

-----------------------------------------------------------------------------

Init ==
    /\ status = [k \in Campaigns |-> "absent"]
    /\ creator = [k \in Campaigns |-> NoUser]
    /\ approver = [k \in Campaigns |-> NoUser]
    /\ selfApproved = [k \in Campaigns |-> FALSE]
    /\ list = [k \in Campaigns |-> {}]
    /\ cstatus = [k \in Campaigns |-> [f \in Farmers |-> "pending"]]
    /\ attempts = [k \in Campaigns |-> [f \in Farmers |-> 0]]
    /\ last = [k \in Campaigns |-> [f \in Farmers |-> Never]]
    /\ dnc = {}
    /\ control = [k \in Campaigns |-> "none"]
    /\ pc = [j \in Jobs |-> "free"]
    /\ camp = [j \in Jobs |-> NoCampaign]
    /\ todo = [j \in Jobs |-> {}]
    /\ cur = [j \in Jobs |-> NoFarmer]
    /\ seen = [j \in Jobs |-> Unseen]
    /\ reason = [j \in Jobs |-> "none"]
    /\ tries = [j \in Jobs |-> 0]
    /\ task = [j \in Jobs |-> [f \in Farmers |-> "none"]]
    /\ req = [u \in Users |-> Idle]
    /\ placed = [k \in Campaigns |-> [f \in Farmers |-> 0]]
    /\ onCall = {}
    /\ now = 0
    /\ requests = 0
    /\ faults = 0

Panel(u) ==
    \/ \E k \in Campaigns :
          \/ CreateCampaign(u, k)
          \/ QuickDial(u, k)
          \/ LoadApprove(u, k)
          \/ \E op \in {"start", "pause", "stop"} : LoadControl(u, k, op)
    \/ SetControl(u)
    \/ Enqueue(u)
    \/ CommitApprove(u)
    \/ CommitControl(u)
    \/ RequestFails(u)

\* What a job does of itself, each step once the last one's await returns.
Run(j) ==
    \/ StartRun(j)
    \/ ReadControl(j)
    \/ Queries(j)
    \/ RecheckContact(j)
    \/ EndOfList(j)
    \/ FinishRun(j)
    \/ ReleaseSlot(j)

DialTask(j, f) == RecordAttempt(j, f) \/ OriginateReturns(j, f)

WorkerFault(j) ==
    \/ ControlUnreachable(j)
    \/ \E f \in Farmers : OriginateRaises(j, f)
    \/ JobTimesOut(j)
    \/ WorkerDies(j)

World ==
    \/ \E k \in Campaigns, f \in Farmers :
          \E result \in {"completed", "no_answer", "failed", "opted_out"} :
             CallEnds(k, f, result)
    \/ \E f \in Farmers : OptOut(f)
    \/ Tick

Next ==
    \/ \E u \in Users : Panel(u)
    \/ \E j \in Jobs : Run(j) \/ WorkerFault(j) \/ \E f \in Farmers : DialTask(j, f)
    \/ World

\* The event loop resumes a coroutine whose await has returned, and originate
\* has a timeout of its own; nobody owes the system a request, a fault, an
\* opt-out or the end of a call.
Fairness ==
    \A j \in Jobs :
        /\ WF_vars(Run(j))
        /\ \A f \in Farmers : WF_vars(DialTask(j, f))

Spec == Init /\ [][Next]_vars /\ Fairness

-----------------------------------------------------------------------------
(***************************************************************************)
(* Properties.                                                             *)
(***************************************************************************)

RequestRecord == [ op   : {"idle", "approve", "start", "pause", "stop"},
                   camp : Campaigns \cup {NoCampaign},
                   saw  : CampaignStatus \cup {"absent"},
                   step : {"none", "control", "enqueue", "commit"} ]

Facts == [ consent : {"promotional_voice"}, revoked : {FALSE}, expires : {ConsentExpires},
           dnd : BOOLEAN, dnc : BOOLEAN, attempts : Nat, last : Nat \cup {Never},
           since : Int, weekly : Nat, elsewhere : BOOLEAN ]

TypeCampaigns ==
    /\ status \in [Campaigns -> CampaignStatus \cup {"absent"}]
    /\ creator \in [Campaigns -> Users \cup {NoUser}]
    /\ approver \in [Campaigns -> Users \cup {NoUser}]
    /\ selfApproved \in [Campaigns -> BOOLEAN]

TypeContacts ==
    /\ list \in [Campaigns -> SUBSET Farmers]
    /\ cstatus \in [Campaigns -> [Farmers -> ContactStatus]]
    /\ attempts \in [Campaigns -> [Farmers -> Nat]]
    /\ last \in [Campaigns -> [Farmers -> Nat \cup {Never}]]
    /\ dnc \subseteq Farmers

TypeJobs ==
    /\ pc \in [Jobs -> {"free", "queued", "over"} \cup UnderWay]
    /\ camp \in [Jobs -> Campaigns \cup {NoCampaign}]
    /\ todo \in [Jobs -> SUBSET Farmers]
    /\ cur \in [Jobs -> Farmers \cup {NoFarmer}]
    /\ seen \in [Jobs -> Facts]
    /\ reason \in [Jobs -> {"none", "paused", "cancelled", "outside the calling window"}]
    /\ tries \in [Jobs -> Nat]

TypeTasks == task \in [Jobs -> [Farmers -> {"none", "waiting", "dialing"}]]

TypePanel ==
    /\ control \in [Campaigns -> {"none", "paused", "cancelled"}]
    /\ req \in [Users -> RequestRecord]

TypeWorld ==
    /\ placed \in [Campaigns -> [Farmers -> Nat]]
    /\ onCall \subseteq Campaigns \X Farmers
    /\ now \in Nat
    /\ requests \in Nat
    /\ faults \in Nat

\* The type invariant.
TypeOK == TypeCampaigns /\ TypeContacts /\ TypeJobs /\ TypeTasks /\ TypePanel /\ TypeWorld

\* No campaign reaches the dialer without an approver: not one that was
\* attempted, not one with a job queued or running, however the panel's
\* requests, the jobs' marks and the faults interleave.  The database promises
\* the status half (running_campaign_requires_approval); the job queue and the
\* dialer, which never look at the status, rest on start_campaign's guard.
ApprovedBeforeDialled ==
    \A k \in Campaigns :
        \/ approver[k] # NoUser
        \/ /\ status[k] \in {"absent", "pending_approval", "cancelled"}
           /\ \A j \in Jobs : camp[j] # k
           /\ \A f \in Farmers : attempts[k][f] = 0 /\ placed[k][f] = 0

\* Four eyes: an approver who is also the creator is on a row that says so, and
\* had the right to: the owner's account, or a quick dial where the deployment
\* waives the rule.  Two approvals of one campaign may race.
FourEyes ==
    \A k \in Campaigns :
        approver[k] # NoUser /\ approver[k] = creator[k] =>
            /\ selfApproved[k]
            /\ approver[k] \in SuperAdmins \/ QuickDialSelfApprove

\* COMPLETED is written only by a run that came to the end of its list with
\* nothing still to dial: a run stopped by the window or an operator never
\* loses the rest of the list.
CompletedAtEndOfList ==
    [][\A k \in Campaigns :
          status[k] # "completed" /\ status'[k] = "completed" =>
             \E j \in Jobs : /\ camp[j] = k /\ pc[j] = "gather" /\ todo[j] = {}
                             /\ \A f \in Farmers : task[j][f] = "none"]_vars

\* No call is placed without an attempt written down before it, and no attempt
\* stands for two calls: however many runs, retries and lost answers there are, a
\* farmer is not rung more often than the card says.
CallsAreWrittenDown ==
    \A k \in Campaigns, f \in Farmers : placed[k][f] <= attempts[k][f]

\* What is left of the cap when several runs have one contact in hand, each between
\* its recheck and its attempt: it is passed by one attempt at most for each run but
\* the first (nothing stops a second dial_campaign of one campaign).
CapMissedByOneEach ==
    \A k \in Campaigns, f \in Farmers :
        attempts[k][f] <= MaxAttempts + (Cardinality(Jobs) - 1)

\* Every job ends: no semaphore, gather or retry keeps a run for ever.
EveryRunEnds == \A j \in Jobs : pc[j] = "queued" ~> pc[j] \in {"over", "free"}

(***************************************************************************)
(* Promises of the documentation that the code does not keep.              *)
(***************************************************************************)

\* Stopping "cannot be undone" (the panel's stop dialog).  The run that the
\* stop ends marks the campaign PAUSED, which resume accepts.
StopIsFinal ==
    [][\A k \in Campaigns : status[k] = "cancelled" => status'[k] = "cancelled"]_vars

\* The calling window is checked "at dial time" (COMPLIANCE.md): no attempt
\* outside it.  It is checked before the semaphore, not after.
DialInsideWindow ==
    [][attempts' # attempts => WithinCallingWindow(now)]_vars

\* An attempt is recorded first so that no contact "gets dialled twice"
\* (campaign.py), with a minimum gap between attempts (COMPLIANCE.md).  Two
\* live runs of one campaign both pass the recheck before either records.
AttemptsSpaced ==
    [][\A k \in Campaigns, f \in Farmers :
          attempts'[k][f] # attempts[k][f] =>
              last[k][f] = Never \/ now - last[k][f] >= MinGap]_vars

\* Not so: "the gate is re-evaluated at dial time, per contact, every time" because
\* some "have opted out on another call" (dialer.py).  It is asked before the task is
\* made: the farmer who opts out after that query, while the task may wait for the
\* semaphore, is rung.
OptOutStopsDialling ==
    [][\A k \in Campaigns, f \in dnc : attempts'[k][f] = attempts[k][f]]_vars
=============================================================================
