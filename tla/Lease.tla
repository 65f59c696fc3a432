-------------------------------- MODULE Lease --------------------------------
(***************************************************************************)
(* The lease protocol of src/pkg/lease/lease.go over one Consul key.       *)
(*                                                                         *)
(* A holder runs Acquire and, if it succeeds, Maintain with the expiry     *)
(* Acquire returned.  A challenger runs Contest or Invalidate.  pc[p] is   *)
(* the call or sleep p is in.  A Consul call takes three steps (the        *)
(* request is sent, Serve handles it, the next step of the function        *)
(* consumes reply[p]), so other processes and the clock run in between.    *)
(*                                                                         *)
(* Time is discrete.  wait[p] counts down to the moment p's sleep, or the  *)
(* interval of its blocking query, ends.  Below zero it counts how late a  *)
(* holder's pending step is; a holder is never more than Lag late.         *)
(* Challengers and the cleanup callback may be arbitrarily slow.           *)
(***************************************************************************)
EXTENDS Consul

CONSTANTS Holders, Challengers,
          Period,       \* Entry.period
          Poll,         \* period / 7, the sleep between two rounds of Maintain
          MaxAttempts,  \* 6, the consecutive errors that make Maintain give up
          Lag,          \* how late a step of a holder may be
          MaxCalls      \* bound: the API calls each process starts

ASSUME RolesAssumption ==
    /\ Proc = Holders \cup Challengers
    /\ Holders \cap Challengers = {}
ASSUME TimeAssumption ==
    /\ Period \in Nat \ {0} /\ Poll \in Nat \ {0} /\ Poll <= Period
    /\ MaxAttempts \in Nat \ {0}
    /\ Lag \in Nat
    /\ MaxCalls \in Nat

VARIABLES pc,        \* where each process is
          wait,      \* time left to sleep (holders: lateness below 0)
          item,      \* the *consul.Item i of the running function
          left,      \* expiry - now of Acquire/Maintain, -1 once it has passed
          attempts,  \* the failed rounds of Maintain in a row
          calls      \* calls started so far, see MaxCalls

vars == <<store, index, reply, pc, wait, item, left, attempts, calls>>

InMaintain == {"m_sleep", "m_get", "m_cas"}
HolderCalls == {"acquire", "m_get", "m_cas"}
ChallengerCalls == {"c_get", "c_cas", "c_look", "c_wait", "i_get", "i_cas", "delete"}
HolderPC == {"idle", "m_sleep"} \cup HolderCalls
ChallengerPC == {"idle", "sleep", "cleanup"} \cup ChallengerCalls

Init ==
    /\ store = NoItem /\ index = 0
    /\ reply = [p \in Proc |-> NoReply]
    /\ pc = [p \in Proc |-> "idle"]
    /\ wait = [p \in Proc |-> 0]
    /\ item = [p \in Proc |-> NoItem]
    /\ left = [p \in Proc |-> -1]
    /\ attempts = [p \in Proc |-> 0]
    /\ calls = [p \in Proc |-> 0]
-----------------------------------------------------------------------------
\* p goes on to l: the request of a call is sent (d = 0), a sleep of d starts.
Goto(p, l, d) ==
    /\ pc' = [pc EXCEPT ![p] = l]
    /\ wait' = [wait EXCEPT ![p] = d]
    /\ Reply(p, NoReply)

Keep(p, it) == item' = [item EXCEPT ![p] = it]

\* The function p runs returns and forgets its local variables.
Return(p) ==
    /\ Goto(p, "idle", 0)
    /\ Keep(p, NoItem)
    /\ left' = [left EXCEPT ![p] = -1]
    /\ attempts' = [attempts EXCEPT ![p] = 0]
    /\ UNCHANGED <<store, index, calls>>

\* p goes on to l and holds on to the item it.
Proceed(p, l, d, it) ==
    /\ Goto(p, l, d)
    /\ Keep(p, it)
    /\ UNCHANGED <<store, index, left, attempts, calls>>

Start(p, l) ==
    /\ pc[p] = "idle" /\ calls[p] < MaxCalls
    /\ calls' = [calls EXCEPT ![p] = @ + 1]
    /\ Goto(p, l, 0)
    /\ UNCHANGED <<store, index, item, attempts>>

Answered(p, l) == pc[p] = l /\ reply[p] # NoReply
Got(p, t) == reply[p].tag = t
GotItem(p, v) == Got(p, "found") /\ reply[p].item.val = v
-----------------------------------------------------------------------------
\* Consul handles the request p has in flight.
Serve(p) ==
    /\ reply[p] = NoReply
    /\ \/ pc[p] = "acquire" /\ CAS(p, "A", 0)
       \/ pc[p] = "m_cas"   /\ CAS(p, "A", item[p].idx)
       \/ pc[p] = "c_cas"   /\ CAS(p, "C", item[p].idx)
       \/ pc[p] = "i_cas"   /\ CAS(p, "I", item[p].idx)
       \/ pc[p] \in {"m_get", "c_get", "c_look", "i_get"} /\ Get(p)
       \/ pc[p] = "c_wait"  /\ Wait(p, item[p].idx, wait[p])
       \/ pc[p] = "delete"  /\ Delete(p)
    /\ wait' = [wait EXCEPT ![p] = 0]
    /\ UNCHANGED <<pc, item, left, attempts, calls>>
-----------------------------------------------------------------------------
(* Acquire, then Maintain. *)

\* The expiry is taken before the request is sent.
Acquire(h) ==
    /\ Start(h, "acquire")
    /\ left' = [left EXCEPT ![h] = Period]

AcquireReturns(h) ==
    /\ Answered(h, "acquire")
    /\ \/ Got(h, "true") /\ Proceed(h, "m_sleep", Poll, NoItem)
       \/ ~Got(h, "true") /\ Return(h)

MaintainWakes(h) ==
    /\ pc[h] = "m_sleep" /\ wait[h] <= 0
    /\ \/ left[h] >= 0 /\ Proceed(h, "m_get", 0, NoItem)
       \/ left[h] < 0 /\ Return(h)

\* A round that found the lease acquired, or acquired it again.
Extend(h) ==
    /\ Goto(h, "m_sleep", Poll)
    /\ Keep(h, NoItem)
    /\ left' = [left EXCEPT ![h] = Period]
    /\ attempts' = [attempts EXCEPT ![h] = 0]
    /\ UNCHANGED <<store, index, calls>>

\* MUTANT: errors are retried without ever giving up.
RetryForever(h) ==
    /\ attempts' = [attempts EXCEPT ![h] = @ + 1]
    /\ Goto(h, "m_sleep", Poll)
    /\ Keep(h, NoItem)
    /\ UNCHANGED <<store, index, left, calls>>

\* A round that failed with an error.
Retry(h) ==
    \/ /\ attempts[h] + 1 = MaxAttempts
       /\ Return(h)
    \/ /\ attempts[h] + 1 # MaxAttempts
       /\ attempts' = [attempts EXCEPT ![h] = @ + 1]
       /\ Goto(h, "m_sleep", Poll)
       /\ Keep(h, NoItem)
       /\ UNCHANGED <<store, index, left, calls>>

\* MUTANT: only a missing key ends Maintain, not an invalidated one.
MaintainIgnoresI(h) ==
    /\ Answered(h, "m_get")
    /\ \/ Got(h, "err") /\ Retry(h)
       \/ Got(h, "notfound") /\ Return(h)
       \/ (GotItem(h, "A") \/ GotItem(h, "I")) /\ Extend(h)
       \/ GotItem(h, "C") /\ left[h] < 0 /\ Return(h)
       \/ GotItem(h, "C") /\ left[h] >= 0 /\ Proceed(h, "m_cas", 0, reply[h].item)

MaintainReads(h) ==
    /\ Answered(h, "m_get")
    /\ \/ Got(h, "err") /\ Retry(h)
       \/ (Got(h, "notfound") \/ GotItem(h, "I")) /\ Return(h)
       \/ GotItem(h, "A") /\ Extend(h)
       \/ GotItem(h, "C") /\ left[h] < 0 /\ Return(h)
       \/ GotItem(h, "C") /\ left[h] >= 0 /\ Proceed(h, "m_cas", 0, reply[h].item)

MaintainAsserts(h) ==
    /\ Answered(h, "m_cas")
    /\ \/ Got(h, "err") /\ Retry(h)
       \/ Got(h, "true") /\ Extend(h)
       \/ Got(h, "false") /\ Return(h)
-----------------------------------------------------------------------------
(* Contest, Invalidate and Cleanup. *)

Contest(c) == Start(c, "c_get") /\ UNCHANGED left

\* MUTANT: Contest marks whatever it finds as contested.
ContestOverrides(c) ==
    /\ Answered(c, "c_get")
    /\ \/ ~Got(c, "found") /\ Return(c)
       \/ (GotItem(c, "A") \/ GotItem(c, "I")) /\ Proceed(c, "c_cas", 0, reply[c].item)
       \/ GotItem(c, "C") /\ Proceed(c, "c_look", 0, NoItem)

ContestReads(c) ==
    /\ Answered(c, "c_get")
    /\ \/ ~Got(c, "found") /\ Return(c)
       \/ GotItem(c, "A") /\ Proceed(c, "c_cas", 0, reply[c].item)
       \/ (GotItem(c, "C") \/ GotItem(c, "I")) /\ Proceed(c, "c_look", 0, NoItem)

\* Whether the key still was at that index does not matter to Contest.
ContestRaises(c) ==
    /\ Answered(c, "c_cas")
    /\ \/ Got(c, "err") /\ Return(c)
       \/ ~Got(c, "err") /\ Proceed(c, "c_look", 0, NoItem)

ContestLooks(c) ==
    /\ Answered(c, "c_look")
    /\ \/ (~Got(c, "found") \/ GotItem(c, "A")) /\ Return(c)
       \/ (GotItem(c, "C") \/ GotItem(c, "I"))
          /\ Proceed(c, "c_wait", Period, reply[c].item)

\* MUTANT: Contest does not compare the two ModifyIndexes.
ContestIgnoresIndex(c) ==
    /\ Answered(c, "c_wait")
    /\ \/ ~Got(c, "found") /\ Return(c)
       \/ GotItem(c, "I") /\ item[c].val # "I" /\ Proceed(c, "sleep", Period, NoItem)
       \/ GotItem(c, "I") /\ item[c].val = "I" /\ Proceed(c, "cleanup", 0, NoItem)
       \/ Got(c, "found") /\ ~GotItem(c, "I") /\ Proceed(c, "cleanup", 0, NoItem)

ContestDecides(c) ==
    /\ Answered(c, "c_wait")
    /\ LET same == reply[c].item.idx = item[c].idx IN
       \/ ~Got(c, "found") /\ Return(c)
       \/ GotItem(c, "I") /\ item[c].val # "I" /\ Proceed(c, "sleep", Period, NoItem)
       \/ GotItem(c, "I") /\ item[c].val = "I" /\ Proceed(c, "cleanup", 0, NoItem)
       \/ Got(c, "found") /\ ~GotItem(c, "I") /\ same /\ Proceed(c, "cleanup", 0, NoItem)
       \/ Got(c, "found") /\ ~GotItem(c, "I") /\ ~same /\ Return(c)

Invalidate(c) == Start(c, "i_get") /\ UNCHANGED left

InvalidateReads(c) ==
    /\ Answered(c, "i_get")
    /\ \/ ~Got(c, "found") /\ Return(c)
       \/ GotItem(c, "I") /\ Proceed(c, "sleep", Period, NoItem)
       \/ (GotItem(c, "A") \/ GotItem(c, "C"))
          /\ Proceed(c, "i_cas", 0, reply[c].item)

\* MUTANT: Invalidate cleans up without waiting for the lease duration.
InvalidateNoSleep(c) ==
    /\ Answered(c, "i_cas")
    /\ \/ Got(c, "true") /\ Proceed(c, "cleanup", 0, NoItem)
       \/ ~Got(c, "true") /\ Return(c)

InvalidateRaises(c) ==
    /\ Answered(c, "i_cas")
    /\ \/ Got(c, "true") /\ Proceed(c, "sleep", Period, NoItem)
       \/ ~Got(c, "true") /\ Return(c)

\* time.Sleep(e.period) is over.
RevokedSleepEnds(c) ==
    pc[c] = "sleep" /\ wait[c] = 0 /\ Proceed(c, "cleanup", 0, NoItem)

\* MUTANT: a cleanup function that fails is called again later.
CleanupRetries(c) ==
    /\ pc[c] = "cleanup"
    /\ Proceed(c, "delete", 0, NoItem) \/ Proceed(c, "sleep", Period, NoItem)

\* The registered cleanup function returns: an error keeps the lease.
RunCleanup(c) ==
    pc[c] = "cleanup" /\ (Proceed(c, "delete", 0, NoItem) \/ Return(c))

DeleteReturns(c) == Answered(c, "delete") /\ Return(c)
-----------------------------------------------------------------------------
\* p crashes, and may be restarted; what is in Consul stays.
Crash(p) == pc[p] # "idle" /\ Return(p)

\* Time passes, but never so far that a holder would be later than Lag.
Tick ==
    /\ \A h \in Holders : pc[h] # "idle" => wait[h] > -Lag
    /\ wait' = [p \in Proc |->
                  IF pc[p] # "idle" /\ (p \in Holders \/ wait[p] > 0)
                  THEN wait[p] - 1 ELSE wait[p]]
    /\ left' = [p \in Proc |-> IF left[p] >= 0 THEN left[p] - 1 ELSE -1]
    /\ UNCHANGED <<store, index, reply, pc, item, attempts, calls>>

HolderStep(h) ==
    AcquireReturns(h) \/ MaintainWakes(h) \/ MaintainReads(h) \/ MaintainAsserts(h)

ChallengerStep(c) ==
    \/ ContestReads(c) \/ ContestRaises(c) \/ ContestLooks(c) \/ ContestDecides(c)
    \/ InvalidateReads(c) \/ InvalidateRaises(c)
    \/ RevokedSleepEnds(c) \/ RunCleanup(c) \/ DeleteReturns(c)

Next ==
    \/ \E h \in Holders : Acquire(h) \/ HolderStep(h)
    \/ \E c \in Challengers : Contest(c) \/ Invalidate(c) \/ ChallengerStep(c)
    \/ \E p \in Proc : Serve(p) \/ Crash(p)
    \/ Tick

Spec == Init /\ [][Next]_vars

\* The scheduler runs every goroutine that is ready, every request is answered
\* (or fails), callbacks return and time goes on.
Fairness ==
    /\ WF_vars(Tick)
    /\ \A p \in Proc : WF_vars(Serve(p))
    /\ \A h \in Holders : WF_vars(HolderStep(h))
    /\ \A c \in Challengers : WF_vars(ChallengerStep(c))
=============================================================================
