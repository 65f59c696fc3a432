------------------------------ MODULE LeaseInv ------------------------------
(***************************************************************************)
(* The properties of the lease protocol, and the inductive invariant that  *)
(* carries the safety properties in the setting the code is sound in: one  *)
(* challenger at a time, and holders whose lateness is small against the   *)
(* lease duration.                                                         *)
(***************************************************************************)
EXTENDS Lease

\* A process acts on the lease from the moment its Acquire succeeded at Consul
\* until its Maintain returns.
Claims(h) == pc[h] \in InMaintain \/ (pc[h] = "acquire" /\ Got(h, "true"))
Claimants == {h \in Holders : Claims(h)}

\* A challenger proceeds as if the lease were no longer valid from the moment the
\* cleanup function is called until the key is removed.
Removes(c) == pc[c] = "cleanup" \/ (pc[c] = "delete" /\ reply[c] = NoReply)
Removers == {c \in Challengers : Removes(c)}

TypeOK ==
    /\ store \in ItemType /\ index \in Nat
    /\ reply \in [Proc -> ReplyType]
    /\ pc \in [Proc -> HolderPC \cup ChallengerPC]
    /\ \A h \in Holders : pc[h] \in HolderPC
    /\ \A c \in Challengers : pc[c] \in ChallengerPC
    /\ wait \in [Proc -> Int]
    /\ item \in [Proc -> ItemType]
    /\ left \in [Proc -> (-1)..Period]
    /\ attempts \in [Proc -> 0..(MaxAttempts - 1)]
    /\ calls \in [Proc -> Nat]
-----------------------------------------------------------------------------
(* What the lease is for. *)

\* No two processes act on the lease at once: the reason for the waiting of
\* Contest and Invalidate before they remove it (lease.go:33-37, 101-104).
MutualExclusion == \A g, h \in Claimants : g = h

\* A challenger that has waited the lease duration may proceed as if the lease
\* were no longer valid (lease.go:101-104): from the moment the cleanup
\* function is called until the key is removed no process acts on the lease.
SafeToProceed ==
    \A c \in Challengers :
        pc[c] = "cleanup" \/ (pc[c] = "delete" /\ reply[c] = NoReply) => Claimants = {}

\* The key is removed only while it is contested or invalidated, never while a
\* holder has it acquired (lease.go:33-37).
OnlyDefeatedLeaseRemoved ==
    [][store # NoItem /\ store' = NoItem => store.val \in {"C", "I"}]_vars

\* An invalidated lease is never asserted or contested again, it can only be
\* removed: a Maintain that read it before the Invalidate cannot take it back.
InvalidationIsFinal ==
    [][store.val = "I" => store' \in {store, NoItem}]_vars

\* Every Contest and Invalidate returns: no interplay of holder, callback and
\* blocking query leaves a challenger waiting for ever.
ChallengesReturn == \A c \in Challengers : (pc[c] # "idle") ~> (pc[c] = "idle")

\* A holder whose lease was invalidated stops acting on it (lease.go:132-133),
\* unless another challenger removes the lease under it.
InvalidatedHolderStops ==
    \A h \in Holders : (store.val = "I" /\ Claims(h)) ~> (store.val # "I" \/ ~Claims(h))

\* The protocol implements the life of a lease: behind lost answers and late holders
\* it is granted, contested, asserted by its holder alone, invalidated for good and
\* removed only by a challenger that began when nobody acted on it (lease.go:33-37).
Lock == INSTANCE LeaseLock
          WITH state <- store.val, claimants <- Claimants, removing <- Removers
LockSpec == Lock!Spec
-----------------------------------------------------------------------------
(* The inductive invariant. *)

SingleChallenger == \A c, d \in Challengers : c = d

\* The longest round of Maintain: the sleep, and five steps that are Lag late.
Round == Poll + 5 * Lag

\* The time k rounds take.
Rounds(k) == k * Round

\* The longest a claim lasts once the key is no longer 'A'; small holders' lag
\* keeps it below the lease duration.
LongestClaim == Rounds(MaxAttempts) + Lag
Timely == LongestClaim < Period

Due(h) == wait[h] + Lag

\* An upper bound of the time until h's claim ends or its next compare-and-set
\* is decided, whatever errors it meets, if no answer yet to come says 'A'.
Rest(h) ==
    LET later == Rounds(MaxAttempts - attempts[h] - 1) IN
    CASE pc[h] = "m_sleep" -> Due(h) + 4 * Lag + later
      [] pc[h] = "m_get" /\ reply[h] = NoReply -> Due(h) + 3 * Lag + later
      [] pc[h] = "m_get" /\ GotItem(h, "C") -> Due(h) + 2 * Lag + later
      [] pc[h] = "m_get" /\ GotItem(h, "A") -> Due(h) + Rounds(MaxAttempts)
      [] pc[h] = "m_cas" /\ reply[h] = NoReply -> Due(h) + Lag + later
      [] pc[h] \in {"m_get", "m_cas"} /\ Got(h, "err") -> Due(h) + later
      [] pc[h] \in {"m_cas", "acquire"} /\ Got(h, "true") -> Due(h) + Rounds(MaxAttempts)
      [] OTHER -> Due(h)

\* The items processes remember are, at most, as new as the one stored, and
\* the same where the index is the same.
Seen(it) == it.idx <= index /\ (it.idx = store.idx => it = store)
ItemsSeen ==
    /\ store = NoItem \/ (store.val \in Value /\ store.idx > 0)
    /\ store.idx <= index
    /\ \A p \in Proc :
         /\ item[p] = NoItem \/ (item[p].val \in Value /\ item[p].idx > 0 /\ Seen(item[p]))
         /\ Got(p, "found") => reply[p].item.val \in Value /\ reply[p].item.idx > 0
                               /\ Seen(reply[p].item)

\* What each answer can be, and where items come from.
Protocol ==
    \A p \in Proc :
        /\ pc[p] \notin HolderCalls \cup ChallengerCalls => reply[p] = NoReply
        /\ pc[p] \in {"m_get", "c_get", "c_look", "c_wait", "i_get"} =>
               reply[p].tag \in {"none", "err", "notfound", "found"}
        /\ pc[p] \in {"acquire", "m_cas", "c_cas", "i_cas"} =>
               reply[p].tag \in {"none", "err", "true", "false"}
        /\ reply[p].tag = "none" => reply[p] = NoReply
        /\ pc[p] = "m_cas" => item[p].val = "C"
        /\ pc[p] = "i_cas" => item[p].val \in {"A", "C"}
        /\ pc[p] = "c_cas" => item[p].val = "A"
        /\ pc[p] = "c_wait" => item[p].val \in {"C", "I"}

Timers ==
    /\ \A h \in Holders :
         /\ pc[h] # "idle" => wait[h] >= -Lag
         /\ pc[h] = "m_sleep" => wait[h] <= Poll
         /\ pc[h] \in HolderCalls => wait[h] <= 0
    /\ \A c \in Challengers : wait[c] >= 0

\* Holds for every number of challengers and any lag.
BaseInv == TypeOK /\ Timers /\ ItemsSeen /\ Protocol

\* Nobody acts on a lease that is not in Consul.
ClaimsAreStored == store = NoItem => Claimants = {}

\* Every claim is over before c has waited out its interval.
ClaimsEndFirst(c) == \A h \in Claimants : Rest(h) < wait[c]

\* The item c read as contested or invalidated is still there, or a holder has
\* asserted itself since.
StillThere(it) == store # NoItem /\ (store = it \/ store.val = "A")

\* What holds while c is on its way to remove the lease.
Removal(c) ==
    /\ pc[c] = "c_look" /\ (GotItem(c, "C") \/ GotItem(c, "I")) =>
           StillThere(reply[c].item)
    /\ pc[c] = "c_wait" /\ reply[c] = NoReply =>
           StillThere(item[c]) /\ (store = item[c] => ClaimsEndFirst(c))
    /\ pc[c] = "c_wait" /\ Got(c, "found") =>
           \/ reply[c].item = item[c] /\ store = item[c] /\ Claimants = {}
           \/ reply[c].item.idx # item[c].idx /\ reply[c].item.val = "A"
    /\ (pc[c] = "i_get" /\ GotItem(c, "I")) \/ (pc[c] = "i_cas" /\ Got(c, "true")) =>
           store.val = "I"
    /\ pc[c] = "sleep" => store.val = "I" /\ ClaimsEndFirst(c)
    /\ pc[c] = "cleanup" \/ (pc[c] = "delete" /\ reply[c] = NoReply) =>
           store.val \in {"C", "I"} /\ Claimants = {}

IInv ==
    /\ BaseInv
    /\ MutualExclusion
    /\ ClaimsAreStored
    /\ \A c \in Challengers : Removal(c)
=============================================================================
