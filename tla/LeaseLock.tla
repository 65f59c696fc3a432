----------------------------- MODULE LeaseLock -----------------------------
(***************************************************************************)
(* What a lease promises its users, without Consul's calls and answers,    *)
(* without clocks and polling: the life of one lease from grant to         *)
(* removal, who acts on it, and who has started to remove it.              *)
(***************************************************************************)
CONSTANTS Holders, Challengers

VARIABLES state,      \* none, or the mark on the lease: A, C or I
          claimants,  \* the holders that act as if they held the lease
          removing    \* the challengers that proceed as if nobody held it

lockVars == <<state, claimants, removing>>

Init == state = "none" /\ claimants = {} /\ removing = {}

\* The lease is granted when there is none, nobody acts on one, and nobody cleans up
\* after one.  The new holder may never learn of it.
Grant(h) ==
    /\ state = "none" /\ claimants = {} /\ removing = {}
    /\ state' = "A"
    /\ claimants' \in {{}, {h}}
    /\ UNCHANGED removing

\* It is contested while it is held ...
Contest == state = "A" /\ state' = "C" /\ UNCHANGED <<claimants, removing>>

\* ... its holder, and no one else, may assert it again ...
Assert(h) ==
    /\ state = "C" /\ h \in claimants
    /\ state' = "A"
    /\ UNCHANGED <<claimants, removing>>

\* ... and once it is invalidated nobody may.
Invalidate == state \in {"A", "C"} /\ state' = "I" /\ UNCHANGED <<claimants, removing>>

\* A process stops acting on the lease: it lost it, gave up, or crashed.
Drop(h) ==
    /\ h \in claimants
    /\ claimants' = claimants \ {h}
    /\ UNCHANGED <<state, removing>>

\* A challenger begins to clean up when the lease is contested or invalidated and
\* nobody acts on it any more.  Then it removes the lease, or leaves it there.
Begin(c) ==
    /\ state \in {"C", "I"} /\ claimants = {}
    /\ removing' = removing \cup {c}
    /\ UNCHANGED <<state, claimants>>

Remove(c) ==
    /\ c \in removing /\ state \in {"C", "I"}
    /\ state' = "none"
    /\ removing' = removing \ {c}
    /\ UNCHANGED claimants

Leave(c) ==
    /\ c \in removing
    /\ removing' = removing \ {c}
    /\ UNCHANGED <<state, claimants>>

Next ==
    \/ \E h \in Holders : Grant(h) \/ Assert(h) \/ Drop(h)
    \/ Contest \/ Invalidate
    \/ \E c \in Challengers : Begin(c) \/ Remove(c) \/ Leave(c)

Spec == Init /\ [][Next]_lockVars
=============================================================================
