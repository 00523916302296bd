----------------------------- MODULE DialLedger -----------------------------
(***************************************************************************)
(* What section 13.1's frequency caps promise about one campaign's list,   *)
(* whatever the machinery behind it: attempts are written down one by one, *)
(* never more than MaxAttempts for a contact, never two within MinGap      *)
(* hours, and the network places no call that is not in the ledger.        *)
(***************************************************************************)
EXTENDS Integers

CONSTANTS Contacts, MaxAttempts, MinGap, Never

VARIABLES
    attempts, last,  \* the ledger
    placed,          \* calls the network has placed
    now

ledgerVars == <<attempts, last, placed, now>>

Init ==
    /\ attempts = [c \in Contacts |-> 0]
    /\ last = [c \in Contacts |-> Never]
    /\ placed = [c \in Contacts |-> 0]
    /\ now = 0

MayAttempt(c) ==
    /\ attempts[c] < MaxAttempts
    /\ last[c] = Never \/ now - last[c] >= MinGap

Attempt(c) ==
    /\ MayAttempt(c)
    /\ attempts' = [attempts EXCEPT ![c] = @ + 1]
    /\ last' = [last EXCEPT ![c] = now]
    /\ UNCHANGED <<placed, now>>

\* Several calls may be in doubt at once when a process dies.
Place ==
    /\ placed' \in {p \in [Contacts -> 0..MaxAttempts] :
                       \A c \in Contacts : p[c] \in placed[c]..attempts[c]}
    /\ UNCHANGED <<attempts, last, now>>

Tick == now' = now + 1 /\ UNCHANGED <<attempts, last, placed>>

Next == (\E c \in Contacts : Attempt(c)) \/ Place \/ Tick

Spec == Init /\ [][Next]_ledgerVars
=============================================================================
