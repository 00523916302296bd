----------------------------- MODULE Compliance -----------------------------
(***************************************************************************)
(* The outbound compliance gate of packages/domain/.../compliance.py: pure *)
(* policy, no state.  A contact is a record of what load_contacts gathers  *)
(* about one farmer, a campaign's settings a record of the campaign-level  *)
(* facts, and time a count of hours.  The API evaluates the whole gate to  *)
(* approve a campaign, the worker re-runs the per-contact half before      *)
(* every dial.                                                             *)
(***************************************************************************)
EXTENDS Integers, FiniteSets

CONSTANTS
    MaxAttempts,    \* MAX_ATTEMPTS_PER_CONTACT
    MinGap,         \* MIN_HOURS_BETWEEN_ATTEMPTS
    WeeklyCap,      \* MAX_CONTACTS_PER_FARMER_PER_WEEK
    CallingHours    \* the hours of the clock inside WINDOW_OPEN..WINDOW_CLOSE

ASSUME CapsAssumption ==
    /\ MaxAttempts \in Nat \ {0}
    /\ MinGap \in Nat \ {0}
    /\ WeeklyCap \in Nat \ {0}
    /\ CallingHours \subseteq Nat

\* last_attempt_at, consent_expires_at: the SQL NULL.
Never == -1

Check == {"consent", "dnd", "internal_dnc", "caller_id_series",
          "dlt_registration", "calling_window", "frequency_cap",
          "duplicate_suppression"}

\* The checks that fail the campaign rather than remove a contact.
CampaignLevel == {"caller_id_series", "dlt_registration", "calling_window"}

\* No check failed (None in the code).
Passed == "passed"

WithinCallingWindow(t) == t \in CallingHours

\* Each contact-level check as a predicate on the contact that it excludes.
NoConsent(c, s, t) ==
    /\ s.promotional
    /\ ~ /\ c.consent = "promotional_voice"
         /\ ~c.revoked
         /\ c.expires # Never
         /\ c.expires > t

\* Mutant: one attempt too many.
OverFrequencyCapByOne(c, t) ==
    \/ c.attempts > MaxAttempts
    \/ c.last # Never /\ t - c.last < MinGap
    \/ c.weekly >= WeeklyCap

OverFrequencyCap(c, t) ==
    \/ c.attempts >= MaxAttempts
    \/ c.last # Never /\ t - c.last < MinGap
    \/ c.weekly >= WeeklyCap

\* _contact_failures: every reason this contact is excluded.
ContactFailures(c, s, t) ==
      {check \in {"consent"} : NoConsent(c, s, t)}
 \cup {check \in {"dnd"} : s.promotional /\ c.dnd}
 \cup {check \in {"internal_dnc"} : c.dnc}
 \cup {check \in {"frequency_cap"} : OverFrequencyCap(c, t)}
 \cup {check \in {"duplicate_suppression"} : c.elsewhere}

\* The order in which the code appends the reasons.
ReportOrder == <<"consent", "dnd", "internal_dnc", "frequency_cap",
                 "duplicate_suppression">>

\* first_failure: the dial-time question about one contact.
FirstFailure(c, s, t) ==
    LET failures == {n \in 1..5 : ReportOrder[n] \in ContactFailures(c, s, t)}
    IN  IF failures = {} THEN Passed
        ELSE ReportOrder[CHOOSE n \in failures : \A m \in failures : n <= m]

\* The campaign-level half of evaluate.  dialAt is scheduled_start or Never,
\* which reads as "now".
BlockedBy(s, t) ==
      (IF s.promotional /\ ~s.cli140 THEN {"caller_id_series"} ELSE {})
 \cup (IF s.promotional /\ ~(s.dltEntity /\ s.dltTemplate)
       THEN {"dlt_registration"} ELSE {})
 \cup (IF ~WithinCallingWindow(IF s.dialAt = Never THEN t ELSE s.dialAt)
       THEN {"calling_window"} ELSE {})

\* evaluate: the whole report over the contacts, a function from their ids.
Evaluate(contacts, s, t) ==
    LET ids == DOMAIN contacts
        failures(i) == ContactFailures(contacts[i], s, t)
    IN  [ total     |-> Cardinality(ids),
          blockedBy |-> BlockedBy(s, t),
          removed   |-> [check \in Check |->
                            Cardinality({i \in ids : check \in failures(i)})],
          eligible  |-> {i \in ids : failures(i) = {}} ]

\* GateReport.passed
GatePassed(report) == report.blockedBy = {} /\ report.eligible # {}

=============================================================================
