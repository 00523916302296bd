--------------------------- MODULE ScriptVersions ---------------------------
(***************************************************************************)
(* The versions of one flow's script: the panel's routes that clone, edit  *)
(* and publish them (routers/panel_flows.py), the campaign that is pinned  *)
(* to one (routers/panel_campaigns.py), and the calls that speak them      *)
(* (voice_worker/runtime/assembly.py).                                     *)
(*                                                                         *)
(* A request reads what it decides on, and its writes become visible when  *)
(* it commits; it writes only the columns it changed.  The words of a      *)
(* version are one value, new with every edit.                             *)
(***************************************************************************)
EXTENDS Integers, FiniteSets

CONSTANTS
    MaxVersions,  \* versions of the flow (bound)
    MaxEdits,     \* edits of words, those of a clone included (bound)
    Requests,     \* panel requests served at once
    None

Versions == 1..MaxVersions
Words == 0..MaxEdits

VARIABLES
    rows,      \* agent_configs of the flow, by version
    req,       \* per request: what it does, and what it read
    edits,     \* edits begun so far
    campaign,  \* the version it is pinned to, and the words it was approved with
    call,      \* the call being answered: the words it speaks
    everLive   \* some version has been published (history)

vars == <<rows, req, edits, campaign, call, everLive>>

NoRow == [exists |-> FALSE, published |-> FALSE, words |-> 0]
NoReq == [op |-> "idle", v |-> None, live |-> None, words |-> 0]

Init ==
    /\ rows = [v \in Versions |-> [NoRow EXCEPT !.exists = (v = 1)]]
    /\ req = [r \in Requests |-> NoReq]
    /\ edits = 0
    /\ campaign = [v |-> None, approved |-> FALSE, words |-> 0]
    /\ call = [of |-> "none", words |-> None]
    /\ everLive = FALSE

Made == {v \in Versions : rows[v].exists}
Published == {v \in Made : rows[v].published}
Live == IF Published = {} THEN None ELSE CHOOSE v \in Published : TRUE
Highest == CHOOSE v \in Made : \A w \in Made : w <= v

-----------------------------------------------------------------------------
(* The flow routes: what a request reads, then its commit                  *)

\* new_version: the next number after the highest, the base's words or new ones.
Clones(r, base) ==
    /\ req[r].op = "idle" /\ base \in Made /\ Highest < MaxVersions
    /\ \E edited \in BOOLEAN :
          /\ edited => edits < MaxEdits
          /\ edits' = IF edited THEN edits + 1 ELSE edits
          /\ req' = [req EXCEPT ![r] =
                        [op |-> "clone", v |-> Highest + 1, live |-> None,
                         words |-> IF edited THEN edits + 1 ELSE rows[base].words]]
    /\ UNCHANGED <<rows, campaign, call, everLive>>

\* uq_agent_config_version refuses the second of two clones with one number.
Adds(r) ==
    /\ req[r].op = "clone"
    /\ rows' = IF rows[req[r].v].exists THEN rows
               ELSE [rows EXCEPT ![req[r].v] =
                        [exists |-> TRUE, published |-> FALSE, words |-> req[r].words]]
    /\ req' = [req EXCEPT ![r] = NoReq]
    /\ UNCHANGED <<edits, campaign, call, everLive>>

Editable(v) == ~rows[v].published

\* patch_flow: a draft, or a version that was published once and is no longer.
Opens(r, v) ==
    /\ req[r].op = "idle" /\ v \in Made /\ Editable(v) /\ edits < MaxEdits
    /\ edits' = edits + 1
    /\ req' = [req EXCEPT ![r] = [op |-> "edit", v |-> v, live |-> None, words |-> edits + 1]]
    /\ UNCHANGED <<rows, campaign, call, everLive>>

\* The words are written, whatever the row has become since it was read.
Edits(r) ==
    /\ req[r].op = "edit"
    /\ rows' = [rows EXCEPT ![req[r].v].words = req[r].words]
    /\ req' = [req EXCEPT ![r] = NoReq]
    /\ UNCHANGED <<edits, campaign, call, everLive>>

\* publish_flow: the version that is live now is to be taken down.
Chooses(r, v) ==
    /\ req[r].op = "idle" /\ v \in Made /\ ~rows[v].published
    /\ req' = [req EXCEPT ![r] = [op |-> "publish", v |-> v, live |-> Live,
                                  words |-> rows[v].words]]
    /\ UNCHANGED <<rows, edits, campaign, call, everLive>>

\* Down first, flushed, then up, in one transaction.
Swapped(v, live) ==
    [w \in Versions |-> [rows[w] EXCEPT !.published =
                            IF w = v THEN TRUE ELSE IF w = live THEN FALSE ELSE @]]

\* Mutant: the index of the database is gone.
NoIndex(after) == TRUE

\* uq_agent_config_published: at most one version of a flow is published.
IndexAllows(after) == Cardinality({v \in Versions : after[v].published}) <= 1

\* The index refuses a publication that raced another, which is rolled back.
Publishes(r) ==
    /\ req[r].op = "publish"
    /\ LET after == Swapped(req[r].v, req[r].live)
       IN  IF IndexAllows(after)
           THEN rows' = after /\ everLive' = TRUE
           ELSE UNCHANGED <<rows, everLive>>
    /\ req' = [req EXCEPT ![r] = NoReq]
    /\ UNCHANGED <<edits, campaign, call>>

-----------------------------------------------------------------------------
(* The campaign and the calls                                              *)

\* import_campaign, with the script that is live, or one chosen and published.
Imports ==
    /\ campaign.v = None /\ Live # None
    /\ campaign' = [campaign EXCEPT !.v = Live]
    /\ UNCHANGED <<rows, req, edits, call, everLive>>

\* The second person approves it: these are the words they could read.
Approves ==
    /\ campaign.v # None /\ ~campaign.approved
    /\ campaign' = [campaign EXCEPT !.approved = TRUE, !.words = rows[campaign.v].words]
    /\ UNCHANGED <<rows, req, edits, call, everLive>>

\* load_agent_settings: the pinned version of a campaign's call, whether it is
\* published or not; for any other call the published one, or nothing.
Answers(of) ==
    /\ call.of = "none"
    /\ of = "campaign" => campaign.approved
    /\ LET v == IF of = "campaign" THEN campaign.v ELSE Live
       IN  call' = [of |-> of, words |-> IF v = None THEN None ELSE rows[v].words]
    /\ UNCHANGED <<rows, req, edits, campaign, everLive>>

HangsUp ==
    /\ call.of # "none"
    /\ call' = [of |-> "none", words |-> None]
    /\ UNCHANGED <<rows, req, edits, campaign, everLive>>

Next ==
    \/ \E r \in Requests :
          \/ \E v \in Versions : Clones(r, v) \/ Opens(r, v) \/ Chooses(r, v)
          \/ Adds(r) \/ Edits(r) \/ Publishes(r)
    \/ Imports \/ Approves
    \/ \E of \in {"campaign", "helpline"} : Answers(of)
    \/ HangsUp

Spec == Init /\ [][Next]_vars

-----------------------------------------------------------------------------
(* Properties                                                              *)

\* Versions, requests and the campaign hold values of their kinds.
TypeOK ==
    /\ rows \in [Versions -> [exists : BOOLEAN, published : BOOLEAN, words : Words]]
    /\ \A r \in Requests : /\ req[r].op \in {"idle", "clone", "edit", "publish"}
                           /\ req[r].op # "idle" => req[r].v \in Versions
    /\ edits \in Words
    /\ campaign \in [v : Versions \cup {None}, approved : BOOLEAN, words : Words]
    /\ call.words \in Words \cup {None}
    /\ everLive \in BOOLEAN

\* From the first publication on exactly one version is live, however
\* publications race: two would speak by chance, none would leave the helpline
\* without an agent.
FlowStaysLive ==
    /\ Cardinality(Published) <= 1
    /\ everLive => Published # {}

\* Not so: a version that a newer one replaced can be edited in place, and the
\* campaigns pinned to it speak the edited words.  load_agent_settings says a
\* campaign keeps speaking the version it was approved with.
KeepsItsWords == call.of = "campaign" => call.words = campaign.words
=============================================================================
