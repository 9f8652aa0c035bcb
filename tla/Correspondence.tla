----------------------------- MODULE Correspondence -----------------------------
(***************************************************************************)
(* What a customer on WhatsApp is promised, with no webhooks, redeliveries *)
(* or workers in sight: a message is taken up at most once, the assistant  *)
(* runs at most once for it, the parts of the one reply arrive in order    *)
(* and without repetition, and once the message is closed nothing more is  *)
(* said or done about it.                                                  *)
(***************************************************************************)
EXTENDS Naturals, Sequences

CONSTANTS
    Messages    \* WhatsApp message ids (wamids)

VARIABLES
    ledger,   \* ledger[m]: "absent", "received", "processed" or "failed"
    runs,     \* runs[m]: how often the assistant was run for m
    parts,    \* parts[m]: parts the reply to m has, 0 while there is no reply
    inbox     \* inbox[m]: numbers of the parts the customer received, in order

correspondenceVars == <<ledger, runs, parts, inbox>>

CorrespondenceInit ==
    /\ ledger = [m \in Messages |-> "absent"]
    /\ runs = [m \in Messages |-> 0]
    /\ parts = [m \in Messages |-> 0]
    /\ inbox = [m \in Messages |-> << >>]

Take(m) ==
    /\ ledger[m] = "absent"
    /\ ledger' = [ledger EXCEPT ![m] = "received"]
    /\ UNCHANGED <<runs, parts, inbox>>

Run(m) ==
    /\ ledger[m] = "received" /\ runs[m] = 0
    /\ runs' = [runs EXCEPT ![m] = 1]
    /\ UNCHANGED <<ledger, parts, inbox>>

Compose(m) ==
    /\ ledger[m] = "received" /\ runs[m] = 1 /\ parts[m] = 0
    /\ parts'[m] \in Nat \ {0}
    /\ parts' = [parts EXCEPT ![m] = parts'[m]]
    /\ UNCHANGED <<ledger, runs, inbox>>

\* The next part arrives: no gap, no repetition, none after the last.
Receive(m) ==
    /\ ledger[m] = "received"
    /\ Len(inbox[m]) < parts[m]
    /\ inbox' = [inbox EXCEPT ![m] = Append(@, Len(@) + 1)]
    /\ UNCHANGED <<ledger, runs, parts>>

\* "processed" is only said of a message whose whole reply arrived; either way the
\* assistant has run.
Close(m) ==
    /\ ledger[m] = "received" /\ runs[m] = 1
    /\ \/ /\ parts[m] > 0 /\ Len(inbox[m]) = parts[m]
          /\ ledger' = [ledger EXCEPT ![m] = "processed"]
       \/ ledger' = [ledger EXCEPT ![m] = "failed"]
    /\ UNCHANGED <<runs, parts, inbox>>

CorrespondenceNext ==
    \E m \in Messages : Take(m) \/ Run(m) \/ Compose(m) \/ Receive(m) \/ Close(m)

CorrespondenceSpec == CorrespondenceInit /\ [][CorrespondenceNext]_correspondenceVars
================================================================================
