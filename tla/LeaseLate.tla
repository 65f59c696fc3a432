----------------------------- MODULE LeaseLate -----------------------------
(***************************************************************************)
(* The lease protocol over a network that holds requests back: client.Do   *)
(* of pkg/consul returns an error, or its process crashes, while the       *)
(* request is still on its way (src/pkg/consul/consul.go:61, 136), and     *)
(* Consul handles it at any later time, or never.  Consul's answer then    *)
(* reaches nobody, so that a write is all such a request can do.           *)
(***************************************************************************)
EXTENDS LeaseInv, FiniteSets

CONSTANT MaxLate  \* bound: the requests that are on their way without a caller

ASSUME MaxLateAssumption == MaxLate \in Nat

VARIABLES late,   \* those requests
          sound   \* history: no two challengers have been busy at once, and
                  \* no Delete has outlived its caller

lateVars == <<vars, late, sound>>

Writes == {"acquire", "m_cas", "c_cas", "i_cas", "delete"}
InFlight(p) == pc[p] \in Writes /\ reply[p] = NoReply
Written == [acquire |-> "A", m_cas |-> "A", c_cas |-> "C", i_cas |-> "I", delete |-> "none"]

\* The write p has asked for, a CAS at an index or a Delete.
Request(p) == [val |-> Written[pc[p]], idx |-> IF pc[p] = "acquire" THEN 0 ELSE item[p].idx]

LateInit == Init /\ late = {} /\ sound = TRUE

OneBusy == \A c, d \in Challengers : pc[c] = "idle" \/ pc[d] = "idle" \/ c = d

LeaseStep ==
    /\ Next
    /\ sound' = (sound /\ OneBusy')
    /\ UNCHANGED late

\* p's request stays on its way.
Outlives(p) ==
    /\ InFlight(p)
    /\ late' = late \cup {Request(p)}
    /\ Cardinality(late') <= MaxLate
    /\ sound' = (sound /\ pc[p] # "delete")

\* client.Do returns an error.
GiveUp(p) ==
    /\ Outlives(p)
    /\ Reply(p, Err)
    /\ wait' = [wait EXCEPT ![p] = 0]
    /\ UNCHANGED <<store, index, pc, item, left, attempts, calls>>

CrashInFlight(p) == Outlives(p) /\ Return(p)

\* MUTANT: Consul does not compare the index of a request that comes late.
ApplyBlindly(r) ==
    /\ index' = index + 1 /\ store' = Item(r.val, index')
    /\ late' = late \ {r}
    /\ UNCHANGED <<reply, pc, wait, item, left, attempts, calls, sound>>

\* Consul handles a request nobody waits for: a compare-and-set at another
\* index has no effect.
ApplyLate(r) ==
    /\ \/ r.val = "none" /\ store' = NoItem /\ UNCHANGED index
       \/ /\ r.val # "none" /\ store.idx = r.idx
          /\ index' = index + 1 /\ store' = Item(r.val, index')
       \/ r.val # "none" /\ store.idx # r.idx /\ UNCHANGED <<store, index>>
    /\ late' = late \ {r}
    /\ UNCHANGED <<reply, pc, wait, item, left, attempts, calls, sound>>

LateNext ==
    \/ LeaseStep
    \/ \E p \in Flaky : GiveUp(p)
    \/ \E p \in Proc : CrashInFlight(p)
    \/ \E r \in late : ApplyLate(r)

LateSpec == LateInit /\ [][LateNext]_lateVars

\* What is held back may stay so for ever.
LateFairSpec == LateSpec /\ Fairness
-----------------------------------------------------------------------------
\* A CAS that arrives late does no harm: while challengers come one after the
\* other and no Delete is late, no two processes act on the lease, and none does
\* when the cleanup function runs (lease.go:33-37, 101-104), whatever
\* compare-and-sets of failed calls and crashed processes come in between.
LateCASHarmless == sound => MutualExclusion /\ SafeToProceed
-----------------------------------------------------------------------------
(* The inductive invariant. *)

\* The indexes requests ask for are of the past, and none is that of an item that
\* is invalidated: nobody sends a CAS for such an item.
RequestsSeen ==
    \A r \in late :
        \/ r.val = "none"
        \/ r.val \in Value /\ r.idx \in 0..index /\ (r.idx = store.idx => store.val # "I")

\* What holds while c is on its way to remove the lease.  Late requests may put
\* any item in the place of one that is not invalidated, but no item is put in
\* the place of none but by an Acquire; c finds out, or nobody acts on the lease.
LateRemoval(c) ==
    /\ pc[c] = "c_look" /\ (GotItem(c, "C") \/ GotItem(c, "I")) =>
           store # NoItem /\ (reply[c].item.val = "I" => store = reply[c].item)
    /\ pc[c] = "c_wait" /\ reply[c] = NoReply =>
           /\ store # NoItem /\ (item[c].val = "I" => store = item[c])
           /\ store = item[c] => ClaimsEndFirst(c)
    /\ pc[c] = "c_wait" /\ Got(c, "found") =>
           /\ reply[c].item.idx = item[c].idx => store # NoItem /\ Claimants = {}
           /\ reply[c].item.val = "I" => store.val = "I"
           /\ item[c].val = "I" => reply[c].item.idx = item[c].idx
    /\ (pc[c] = "i_get" /\ GotItem(c, "I")) \/ (pc[c] = "i_cas" /\ Got(c, "true")) =>
           store.val = "I"
    /\ pc[c] = "sleep" => store.val = "I" /\ ClaimsEndFirst(c)
    /\ pc[c] = "cleanup" \/ (pc[c] = "delete" /\ reply[c] = NoReply) =>
           store # NoItem /\ Claimants = {}

OneByOne ==
    /\ OneBusy
    /\ \A r \in late : r.val # "none"
    /\ MutualExclusion
    /\ ClaimsAreStored
    /\ \A c \in Challengers : LateRemoval(c)

LateInv == BaseInv /\ RequestsSeen /\ (sound => OneByOne)
=============================================================================
