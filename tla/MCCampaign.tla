----------------------------- MODULE MCCampaign -----------------------------
(***************************************************************************)
(* Small instances of Campaign for TLC.                                    *)
(***************************************************************************)
EXTENDS Campaign, TLC

CONSTANTS f1, f2, k1, j1, j2, owner, ops

\* Farmers and job slots are interchangeable; users are not (owner is a super
\* admin).
Symmetry == Permutations(Farmers) \cup Permutations(Jobs)

\* The frequency caps' ledger, one contact per row of campaign_contacts.
Rows == Campaigns \X Farmers
Ledger == INSTANCE DialLedger WITH
    Contacts <- Rows,
    attempts <- [c \in Rows |-> attempts[c[1]][c[2]]],
    last     <- [c \in Rows |-> last[c[1]][c[2]]],
    placed   <- [c \in Rows |-> placed[c[1]][c[2]]]

\* One run at a time implements the ledger: whatever faults, crashes and
\* retries a run meets, its attempts keep the cap and the gap and cover the
\* calls.
ImplementsLedger == Ledger!Spec
=============================================================================
