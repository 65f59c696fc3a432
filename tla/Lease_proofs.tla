---------------------------- MODULE Lease_proofs ----------------------------
(***************************************************************************)
(* Proofs about the lease protocol, for every number of holders, every     *)
(* lease duration and every bound on the calls: what holds for any number  *)
(* of challengers, then the safety of the lease for one challenger at a    *)
(* time and holders whose lateness is small against the lease duration,    *)
(* and last that requests which arrive late do no harm to it, however many *)
(* there are.                                                              *)
(***************************************************************************)
EXTENDS LeaseLate, TLAPS

-----------------------------------------------------------------------------
(* Items and answers *)

Tags == {"none", "err", "notfound", "found", "true", "false", "done"}

\* Items are what their fields say, and there is no item with the value "none"
\* but NoItem.
LEMMA ItemFields ==
    /\ NoItem \in ItemType /\ NoItem.val = "none" /\ NoItem.idx = 0
    /\ \A v \in Value, i \in Nat :
           Item(v, i) \in ItemType /\ Item(v, i).val = v /\ Item(v, i).idx = i
    /\ \A it \in ItemType : it.idx \in Nat /\ it.val \in Value \cup {"none"}
  BY DEF NoItem, Item, ItemType, Value

LEMMA AnswerFields ==
    /\ \A t \in Tags : Answer(t) \in ReplyType /\ Answer(t).tag = t
    /\ \A it \in ItemType : Found(it) \in ReplyType /\ Found(it).tag = "found"
                            /\ Found(it).item = it
    /\ \A r \in ReplyType : r.tag \in Tags /\ r.item \in ItemType
<1>1. NoItem \in ItemType
  BY ItemFields
<1> QED
  BY <1>1 DEF Answer, Found, ReplyType, Tags

LEMMA SpecialAnswers ==
    /\ NoReply \in ReplyType /\ NoReply.tag = "none"
    /\ Err \in ReplyType /\ Err.tag = "err"
    /\ NotFound \in ReplyType /\ NotFound.tag = "notfound"
  BY AnswerFields DEF NoReply, Err, NotFound, Tags
-----------------------------------------------------------------------------
(* Typing *)

StoreTypes == store \in ItemType /\ index \in Nat /\ reply \in [Proc -> ReplyType]

\* Consul's side of a call, and the answer it leaves.
LEMMA CASType ==
    ASSUME StoreTypes, NEW p \in Proc, NEW v \in Value, NEW i, CAS(p, v, i)
    PROVE  StoreTypes'
<1>1. Answer("true") \in ReplyType /\ Answer("false") \in ReplyType /\ Err \in ReplyType
  BY AnswerFields, SpecialAnswers DEF Tags
<1>2. index + 1 \in Nat /\ Item(v, index + 1) \in ItemType
  BY ItemFields DEF StoreTypes
<1> QED
  BY <1>1, <1>2 DEF StoreTypes, CAS, Fails, Reply

LEMMA ReadType ==
    ASSUME StoreTypes, NEW p \in Proc, NEW i, NEW rest, Get(p) \/ Wait(p, i, rest)
    PROVE  StoreTypes'
<1>1. Found(store) \in ReplyType /\ NotFound \in ReplyType /\ Err \in ReplyType
  BY AnswerFields, SpecialAnswers DEF StoreTypes
<1> QED
  BY <1>1 DEF StoreTypes, Get, Wait, Fails, Reply

LEMMA DeleteType ==
    ASSUME StoreTypes, NEW p \in Proc, Delete(p)
    PROVE  StoreTypes'
<1>1. Answer("done") \in ReplyType /\ Err \in ReplyType /\ NoItem \in ItemType
  BY AnswerFields, SpecialAnswers, ItemFields DEF Tags
<1> QED
  BY <1>1 DEF StoreTypes, Delete, Fails, Reply

LEMMA ServeType ==
    ASSUME TypeOK, NEW p \in Proc, Serve(p)
    PROVE  TypeOK'
<1>1. StoreTypes
  BY DEF TypeOK, StoreTypes
<1>0. wait' = [wait EXCEPT ![p] = 0] /\ UNCHANGED <<pc, item, left, attempts, calls>>
  BY DEF Serve
<1> SUFFICES StoreTypes'
  BY <1>0 DEF TypeOK, StoreTypes
<1>2. \/ \E v \in Value, i \in {0, item[p].idx} : CAS(p, v, i)
      \/ Get(p) \/ Wait(p, item[p].idx, wait[p]) \/ Delete(p)
  BY DEF Serve, Value
<1>3. CASE \E v \in Value, i \in {0, item[p].idx} : CAS(p, v, i)
  BY <1>1, <1>3, CASType DEF TypeOK, StoreTypes
<1>4. CASE Get(p)
  BY <1>1, <1>4, ReadType
<1>5. CASE Wait(p, item[p].idx, wait[p])
  BY <1>1, <1>5, ReadType
<1>6. CASE Delete(p)
  BY <1>1, <1>6, DeleteType
<1> QED
  BY <1>2, <1>3, <1>4, <1>5, <1>6

\* The three ways a function moves on: to another call or sleep, out, or (only
\* Maintain) round again after an error.
LEMMA ProceedType ==
    ASSUME TypeOK, NEW p \in Proc, NEW l, NEW d \in Int, NEW it \in ItemType,
           Proceed(p, l, d, it),
           p \in Holders => l \in HolderPC, p \in Challengers => l \in ChallengerPC
    PROVE  TypeOK'
  BY RolesAssumption, SpecialAnswers DEF Proceed, Goto, Keep, Reply, TypeOK

LEMMA ReturnType ==
    ASSUME TypeOK, NEW p \in Proc, Return(p)
    PROVE  TypeOK'
  BY RolesAssumption, TimeAssumption, SpecialAnswers, ItemFields
  DEF Return, Goto, Keep, Reply, TypeOK, HolderPC, ChallengerPC

LEMMA RetryType ==
    ASSUME TypeOK, NEW h \in Holders, Retry(h)
    PROVE  TypeOK'
<1>1. h \in Proc /\ h \notin Challengers
  BY RolesAssumption
<1>2. CASE Return(h)
  BY <1>1, <1>2, ReturnType
<1>3. CASE ~Return(h)
  <2>1. attempts[h] + 1 \in 0..(MaxAttempts - 1)
    BY <1>1, <1>3, TimeAssumption DEF Retry, TypeOK
  <2>2. attempts' \in [Proc -> 0..(MaxAttempts - 1)]
    BY <1>1, <1>3, <2>1 DEF Retry, TypeOK
  <2>3. /\ Goto(h, "m_sleep", Poll) /\ Keep(h, NoItem)
        /\ UNCHANGED <<store, index, left, calls>>
    BY <1>3 DEF Retry
  <2> QED
    BY <1>1, <2>2, <2>3, TimeAssumption, SpecialAnswers, ItemFields
    DEF Goto, Keep, Reply, TypeOK, HolderPC
<1> QED
  BY <1>2, <1>3

LEMMA ExtendType ==
    ASSUME TypeOK, NEW h \in Holders, Extend(h)
    PROVE  TypeOK'
<1>1. h \in Proc /\ h \notin Challengers
  BY RolesAssumption
<1> QED
  BY <1>1, TimeAssumption, SpecialAnswers, ItemFields
  DEF Extend, Goto, Keep, Reply, TypeOK, HolderPC

LEMMA StartType ==
    ASSUME TypeOK, NEW p \in Proc, NEW l, Start(p, l),
           left' = left \/ left' = [left EXCEPT ![p] = Period],
           p \in Holders => l \in HolderPC, p \in Challengers => l \in ChallengerPC
    PROVE  TypeOK'
  BY RolesAssumption, TimeAssumption, SpecialAnswers
  DEF Start, Goto, Reply, TypeOK

LEMMA TickType ==
    ASSUME TypeOK, Tick
    PROVE  TypeOK'
  BY TimeAssumption DEF Tick, TypeOK

\* Every step keeps the types.
LEMMA Typing == TypeOK /\ [Next]_vars => TypeOK'
<1> SUFFICES ASSUME TypeOK, [Next]_vars PROVE TypeOK'
  OBVIOUS
<1> USE RolesAssumption
<1>0. /\ Poll \in Int /\ Period \in Int /\ NoItem \in ItemType
      /\ \A p \in Proc : reply[p].item \in ItemType
  BY TimeAssumption, ItemFields, AnswerFields DEF TypeOK
<1>1. ASSUME NEW h \in Holders, Acquire(h) PROVE TypeOK'
  BY <1>1, StartType DEF Acquire, HolderPC, HolderCalls
<1>2. ASSUME NEW h \in Holders, HolderStep(h) PROVE TypeOK'
  <2> USE <1>0, ReturnType, ProceedType DEF HolderPC, HolderCalls
  <2>1. CASE AcquireReturns(h)
    BY <2>1 DEF AcquireReturns
  <2>2. CASE MaintainWakes(h)
    BY <2>2 DEF MaintainWakes
  <2>3. CASE MaintainReads(h)
    BY <2>3, RetryType, ExtendType DEF MaintainReads
  <2>4. CASE MaintainAsserts(h)
    BY <2>4, RetryType, ExtendType DEF MaintainAsserts
  <2> QED
    BY <1>2, <2>1, <2>2, <2>3, <2>4 DEF HolderStep
<1>3. ASSUME NEW c \in Challengers, Contest(c) \/ Invalidate(c) PROVE TypeOK'
  BY <1>3, StartType DEF Contest, Invalidate, ChallengerPC, ChallengerCalls
<1>4. ASSUME NEW c \in Challengers, ChallengerStep(c) PROVE TypeOK'
  <2> USE <1>0, ReturnType, ProceedType DEF ChallengerPC, ChallengerCalls
  <2>1. CASE ContestReads(c)
    BY <2>1 DEF ContestReads
  <2>2. CASE ContestRaises(c)
    BY <2>2 DEF ContestRaises
  <2>3. CASE ContestLooks(c)
    BY <2>3 DEF ContestLooks
  <2>4. CASE ContestDecides(c)
    BY <2>4 DEF ContestDecides
  <2>5. CASE InvalidateReads(c)
    BY <2>5 DEF InvalidateReads
  <2>6. CASE InvalidateRaises(c)
    BY <2>6 DEF InvalidateRaises
  <2>7. CASE RevokedSleepEnds(c) \/ RunCleanup(c) \/ DeleteReturns(c)
    BY <2>7 DEF RevokedSleepEnds, RunCleanup, DeleteReturns
  <2> QED
    BY <1>4, <2>1, <2>2, <2>3, <2>4, <2>5, <2>6, <2>7 DEF ChallengerStep
<1>5. ASSUME NEW p \in Proc, Serve(p) \/ Crash(p) PROVE TypeOK'
  BY <1>5, ServeType, ReturnType DEF Crash
<1>6. CASE Tick
  BY <1>6, TickType
<1>7. CASE UNCHANGED vars
  BY <1>7 DEF vars, TypeOK
<1> QED
  BY <1>1, <1>2, <1>3, <1>4, <1>5, <1>6, <1>7 DEF Next

LEMMA InitType == Init => TypeOK
  BY RolesAssumption, TimeAssumption, ItemFields, SpecialAnswers
  DEF Init, TypeOK, HolderPC, ChallengerPC

\* Every variable keeps its type; that of attempts says that Maintain gives up
\* after MaxAttempts failed rounds in a row (lease.go:157-161, 181-185).
THEOREM LeaseTyped == Spec => []TypeOK
  BY InitType, Typing, PTL DEF Spec
-----------------------------------------------------------------------------
(* The invariant of all configurations *)

\* What every step but Serve and Tick does: p goes to l, for d, with item it.
Move(p, l, d, it) ==
    /\ Goto(p, l, d)
    /\ Keep(p, it)
    /\ UNCHANGED <<store, index>>

\* Where p may go: items are copies of answers, and sleeps are in bounds.
MoveOK(p, l, d, it) ==
    /\ it \in {NoItem, item[p]} \/ (Got(p, "found") /\ it = reply[p].item)
    /\ l = "m_cas" => it.val = "C"
    /\ l = "i_cas" => it.val \in {"A", "C"}
    /\ l = "c_cas" => it.val = "A"
    /\ l = "c_wait" => it.val \in {"C", "I"}
    /\ d \in Nat
    /\ p \in Holders /\ l = "m_sleep" => d <= Poll
    /\ l \in HolderCalls => d = 0

LEMMA MoveBase ==
    ASSUME BaseInv, TypeOK', NEW p \in Proc, NEW l, NEW d, NEW it,
           Move(p, l, d, it), MoveOK(p, l, d, it)
    PROVE  BaseInv'
<1> USE DEF Move, Goto, Keep, Reply, BaseInv
<1>1. Timers'
  BY RolesAssumption, TimeAssumption DEF Timers, MoveOK, TypeOK
<1>2. ItemsSeen'
  BY SpecialAnswers DEF ItemsSeen, Seen, Got, MoveOK, TypeOK
<1>3. Protocol'
  BY SpecialAnswers DEF Protocol, MoveOK, TypeOK
<1> QED
  BY <1>1, <1>2, <1>3

LEMMA ReturnMoves ==
    ASSUME NEW p \in Proc, Return(p)
    PROVE  Move(p, "idle", 0, NoItem) /\ MoveOK(p, "idle", 0, NoItem)
  BY DEF Return, Move, MoveOK, HolderCalls

LEMMA RetryMoves ==
    ASSUME NEW h \in Proc, Retry(h)
    PROVE  \/ Move(h, "idle", 0, NoItem) /\ MoveOK(h, "idle", 0, NoItem)
           \/ Move(h, "m_sleep", Poll, NoItem) /\ MoveOK(h, "m_sleep", Poll, NoItem)
  BY ReturnMoves, TimeAssumption DEF Retry, Move, MoveOK, HolderCalls

LEMMA ExtendMoves ==
    ASSUME NEW h \in Proc, Extend(h)
    PROVE  Move(h, "m_sleep", Poll, NoItem) /\ MoveOK(h, "m_sleep", Poll, NoItem)
  BY TimeAssumption DEF Extend, Move, MoveOK, HolderCalls

LEMMA StartMoves ==
    ASSUME TypeOK, NEW p \in Proc, NEW l, Start(p, l), l \in {"acquire", "c_get", "i_get"}
    PROVE  Move(p, l, 0, item[p]) /\ MoveOK(p, l, 0, item[p])
  BY DEF Start, Move, MoveOK, Keep, TypeOK

LEMMA ProceedMoves ==
    ASSUME NEW p \in Proc, NEW l, NEW d, NEW it, Proceed(p, l, d, it)
    PROVE  Move(p, l, d, it)
  BY DEF Proceed, Move

LEMMA BaseMoves ==
    ASSUME BaseInv, TypeOK', NEW p \in Proc,
           \/ p \in Holders /\ (Acquire(p) \/ HolderStep(p))
           \/ p \in Challengers /\ (Contest(p) \/ Invalidate(p) \/ ChallengerStep(p))
           \/ Crash(p)
    PROVE  BaseInv'
<1> USE MoveBase, ReturnMoves DEF HolderCalls
<1>0. TypeOK
  BY DEF BaseInv
<1>1. CASE Crash(p) \/ DeleteReturns(p)
  BY <1>1 DEF Crash, DeleteReturns
<1>2. CASE p \in Holders /\ (Acquire(p) \/ HolderStep(p))
  <2>1. CASE Acquire(p)
    BY <1>0, <2>1, StartMoves DEF Acquire
  <2>2. CASE AcquireReturns(p) \/ MaintainWakes(p)
    BY <2>2, ProceedMoves, TimeAssumption DEF AcquireReturns, MaintainWakes, MoveOK
  <2>3. CASE MaintainReads(p)
    BY <2>3, ProceedMoves, RetryMoves, ExtendMoves
    DEF MaintainReads, MoveOK, GotItem
  <2>4. CASE MaintainAsserts(p)
    BY <2>4, RetryMoves, ExtendMoves DEF MaintainAsserts
  <2> QED
    BY <1>2, <2>1, <2>2, <2>3, <2>4 DEF HolderStep
<1>3. CASE p \in Challengers /\ (Contest(p) \/ Invalidate(p) \/ ChallengerStep(p))
  <2> USE ProceedMoves, TimeAssumption, RolesAssumption DEF MoveOK, GotItem
  <2>1. CASE Contest(p) \/ Invalidate(p)
    BY <1>0, <2>1, StartMoves DEF Contest, Invalidate
  <2>2. CASE ContestReads(p)
    BY <1>3, <2>2 DEF ContestReads
  <2>3. CASE ContestRaises(p)
    BY <1>3, <2>3 DEF ContestRaises
  <2>4. CASE ContestLooks(p)
    BY <1>3, <2>4 DEF ContestLooks
  <2>5. CASE ContestDecides(p)
    BY <1>3, <2>5 DEF ContestDecides
  <2>6. CASE InvalidateReads(p)
    BY <1>3, <2>6 DEF InvalidateReads
  <2>7. CASE InvalidateRaises(p)
    BY <1>3, <2>7 DEF InvalidateRaises
  <2>8. CASE RevokedSleepEnds(p) \/ RunCleanup(p)
    BY <1>3, <2>8 DEF RevokedSleepEnds, RunCleanup
  <2> QED
    BY <1>1, <1>3, <2>1, <2>2, <2>3, <2>4, <2>5, <2>6, <2>7, <2>8 DEF ChallengerStep
<1> QED
  BY <1>1, <1>2, <1>3

\* What Consul does with a request: the answer r, and the item after it.
Served(p, r, it) ==
    /\ reply[p] = NoReply
    /\ Reply(p, r) /\ store' = it
    /\ wait' = [wait EXCEPT ![p] = 0]
    /\ UNCHANGED <<pc, item, left, attempts, calls>>

Stored(p, v, i, r) ==
    /\ store.idx = i /\ index' = index + 1
    /\ Served(p, r, Item(v, index + 1)) /\ r \in {Answer("true"), Err}

Refused(p, r) ==
    /\ UNCHANGED index
    /\ Served(p, r, store) /\ r \in {Answer("false"), Err}

ReadBy(p, r) ==
    /\ UNCHANGED index
    /\ Served(p, r, store)
    /\ \/ r = Err
       \/ store = NoItem /\ r = NotFound
       \/ store # NoItem /\ r = Found(store)

Deleted(p, r) ==
    /\ UNCHANGED index
    /\ Served(p, r, NoItem) \/ (r = Err /\ Served(p, r, store))
    /\ r \in {Answer("done"), Err}

\* Serve, call by call.
LEMMA ServeCases ==
    ASSUME TypeOK, NEW p \in Proc, Serve(p)
    PROVE  \/ /\ pc[p] = "acquire"
              /\ \E r : Stored(p, "A", 0, r) \/ Refused(p, r)
           \/ /\ pc[p] = "m_cas"
              /\ \E r : Stored(p, "A", item[p].idx, r) \/ Refused(p, r)
           \/ /\ pc[p] = "c_cas"
              /\ \E r : Stored(p, "C", item[p].idx, r) \/ Refused(p, r)
           \/ /\ pc[p] = "i_cas"
              /\ \E r : Stored(p, "I", item[p].idx, r) \/ Refused(p, r)
           \/ /\ pc[p] \in {"m_get", "c_get", "c_look", "i_get"}
              /\ \E r : ReadBy(p, r)
           \/ /\ pc[p] = "c_wait"
              /\ wait[p] = 0 \/ store.idx # item[p].idx \/ reply'[p] = Err
              /\ \E r : ReadBy(p, r)
           \/ pc[p] = "delete" /\ \E r : Deleted(p, r)
<1>1. ASSUME NEW v, NEW i, CAS(p, v, i)
      PROVE  \E r : Stored(p, v, i, r) \/ Refused(p, r)
  <2>1. reply[p] = NoReply /\ wait' = [wait EXCEPT ![p] = 0]
        /\ UNCHANGED <<pc, item, left, attempts, calls>>
    BY DEF Serve
  <2>2. \/ Stored(p, v, i, Answer("true")) \/ Stored(p, v, i, Err)
        \/ Refused(p, Answer("false")) \/ Refused(p, Err)
    BY <1>1, <2>1 DEF CAS, Fails, Stored, Refused, Served
  <2> QED
    BY <2>2
<1>0. reply[p] = NoReply /\ wait' = [wait EXCEPT ![p] = 0]
      /\ UNCHANGED <<pc, item, left, attempts, calls>>
  BY DEF Serve
<1>2. ASSUME Get(p)
      PROVE  \E r : ReadBy(p, r)
  <2>1. ReadBy(p, Err) \/ ReadBy(p, IF store = NoItem THEN NotFound ELSE Found(store))
    BY <1>0, <1>2 DEF Get, Fails, ReadBy, Served
  <2> QED
    BY <2>1
<1>3. ASSUME Wait(p, item[p].idx, wait[p])
      PROVE  /\ \E r : ReadBy(p, r)
             /\ wait[p] = 0 \/ store.idx # item[p].idx \/ reply'[p] = Err
  <2>1. ReadBy(p, Err) \/ ReadBy(p, IF store = NoItem THEN NotFound ELSE Found(store))
    BY <1>0, <1>3 DEF Wait, Fails, ReadBy, Served
  <2>2. wait[p] = 0 \/ store.idx # item[p].idx \/ reply'[p] = Err
    BY <1>3 DEF Wait, Fails, Reply, TypeOK
  <2> QED
    BY <2>1, <2>2
<1>4. ASSUME Delete(p)
      PROVE  \E r : Deleted(p, r)
  <2>1. Deleted(p, Answer("done")) \/ Deleted(p, Err)
    BY <1>0, <1>4 DEF Delete, Fails, Deleted, Served
  <2> QED
    BY <2>1
<1> QED
  BY <1>1, <1>2, <1>3, <1>4 DEF Serve

\* An answer can go to p: what the invariant asks of it.
AnswerOK(p, r) ==
    /\ r \in ReplyType /\ r.tag # "none"
    /\ r.tag = "found" => r = Found(store) /\ store # NoItem /\ store' = store
    /\ pc[p] \in HolderCalls \cup ChallengerCalls
    /\ pc[p] \in {"m_get", "c_get", "c_look", "c_wait", "i_get"} =>
           r.tag \in {"err", "notfound", "found"}
    /\ pc[p] \in {"acquire", "m_cas", "c_cas", "i_cas"} =>
           r.tag \in {"err", "true", "false"}

LEMMA ServedBase ==
    ASSUME BaseInv, TypeOK', NEW p \in Proc, NEW r, NEW it, Served(p, r, it), AnswerOK(p, r),
           \/ it = store /\ index' = index
           \/ it = NoItem /\ index' = index
           \/ \E v \in Value : it = Item(v, index + 1) /\ index' = index + 1
    PROVE  BaseInv'
<1> USE ItemFields, AnswerFields, SpecialAnswers DEF Served, Reply, AnswerOK
<1>0. TypeOK /\ Timers /\ ItemsSeen /\ Protocol
  BY DEF BaseInv
<1>1. Timers'
  BY <1>0, RolesAssumption, TimeAssumption DEF Timers, TypeOK, HolderCalls
<1>2. ItemsSeen'
  <2>1. /\ store' = NoItem \/ (store'.val \in Value /\ store'.idx > 0)
        /\ store'.idx <= index'
    BY <1>0 DEF TypeOK, ItemsSeen
  <2>2. ASSUME NEW x \in ItemType, x.idx > 0, Seen(x)
        PROVE  Seen(x)'
    BY <1>0, <2>2 DEF TypeOK, Seen
  <2>3. ASSUME NEW q \in Proc
        PROVE  item'[q] = NoItem \/ (item'[q].val \in Value /\ item'[q].idx > 0 /\ Seen(item[q])')
    BY <1>0, <2>2 DEF TypeOK, ItemsSeen
  <2>4. ASSUME NEW q \in Proc, q # p, Got(q, "found")'
        PROVE  reply'[q].item.val \in Value /\ reply'[q].item.idx > 0 /\ Seen(reply[q].item)'
    BY <1>0, <2>2, <2>4 DEF TypeOK, ItemsSeen, Got
  <2>5. ASSUME Got(p, "found")'
        PROVE  reply'[p].item.val \in Value /\ reply'[p].item.idx > 0 /\ Seen(reply[p].item)'
    <3>1. reply'[p] = r /\ r = Found(store) /\ store # NoItem /\ store' = store
      BY <1>0, <2>5 DEF TypeOK, Got
    <3> QED
      BY <1>0, <2>1, <3>1 DEF TypeOK, Seen
  <2> QED
    BY <2>1, <2>3, <2>4, <2>5 DEF ItemsSeen
<1>3. Protocol'
  BY <1>0 DEF Protocol, TypeOK
<1> QED
  BY <1>1, <1>2, <1>3 DEF BaseInv

LEMMA ServeBase ==
    ASSUME BaseInv, TypeOK', NEW p \in Proc, Serve(p)
    PROVE  BaseInv'
<1> USE ItemFields, AnswerFields, SpecialAnswers
    DEF HolderCalls, ChallengerCalls, Value, Tags
<1>0. TypeOK /\ store \in ItemType
  BY DEF BaseInv, TypeOK
<1>1. ASSUME NEW r, NEW v \in Value, NEW i, Stored(p, v, i, r) \/ Refused(p, r),
             pc[p] \in {"acquire", "m_cas", "c_cas", "i_cas"}
      PROVE  BaseInv'
  <2>1. AnswerOK(p, r)
    BY <1>1 DEF Stored, Refused, AnswerOK
  <2> QED
    BY <1>1, <2>1, ServedBase DEF Stored, Refused
<1>2. ASSUME NEW r, ReadBy(p, r),
             pc[p] \in {"m_get", "c_get", "c_look", "c_wait", "i_get"}
      PROVE  BaseInv'
  <2>1. AnswerOK(p, r)
    BY <1>0, <1>2 DEF ReadBy, AnswerOK, Served
  <2> QED
    BY <1>2, <2>1, ServedBase DEF ReadBy
<1>3. ASSUME NEW r, Deleted(p, r), pc[p] = "delete"
      PROVE  BaseInv'
  <2>1. AnswerOK(p, r)
    BY <1>3 DEF Deleted, AnswerOK
  <2> QED
    BY <1>3, <2>1, ServedBase DEF Deleted
<1> QED
  BY <1>0, <1>1, <1>2, <1>3, ServeCases

LEMMA TickBase ==
    ASSUME BaseInv, TypeOK', Tick
    PROVE  BaseInv'
<1>0. TypeOK /\ Timers /\ ItemsSeen /\ Protocol
  BY DEF BaseInv
<1>1. Timers'
  BY <1>0, RolesAssumption, TimeAssumption DEF Timers, Tick, TypeOK
<1>2. ItemsSeen' /\ Protocol'
  BY <1>0 DEF Tick, ItemsSeen, Seen, Got, Protocol
<1> QED
  BY <1>1, <1>2 DEF BaseInv

LEMMA InitBase == Init => BaseInv
<1> SUFFICES ASSUME Init PROVE BaseInv
  OBVIOUS
<1>1. TypeOK
  BY InitType
<1>2. Timers /\ ItemsSeen /\ Protocol
  BY RolesAssumption, TimeAssumption, ItemFields, SpecialAnswers
  DEF Init, Timers, ItemsSeen, Protocol, Got, HolderCalls, ChallengerCalls
<1> QED
  BY <1>1, <1>2 DEF BaseInv

LEMMA StepBase == BaseInv /\ [Next]_vars => BaseInv'
<1> SUFFICES ASSUME BaseInv, [Next]_vars PROVE BaseInv'
  OBVIOUS
<1>1. TypeOK'
  BY Typing DEF BaseInv
<1>2. CASE Tick
  BY <1>1, <1>2, TickBase
<1>3. CASE \E p \in Proc : Serve(p)
  BY <1>1, <1>3, ServeBase
<1>4. CASE UNCHANGED vars
  BY <1>4 DEF vars, BaseInv, TypeOK, Timers, ItemsSeen, Seen, Got, Protocol
<1>5. CASE ~(Tick \/ UNCHANGED vars \/ \E p \in Proc : Serve(p))
  BY <1>1, <1>5, BaseMoves, RolesAssumption DEF Next
<1> QED
  BY <1>2, <1>3, <1>4, <1>5

\* Holds whatever the number of challengers and however late holders are.
THEOREM LeaseBase == Spec => []BaseInv
  BY InitBase, StepBase, PTL DEF Spec
-----------------------------------------------------------------------------
(* Invalidated is for good *)

LEMMA InvalidStep ==
    ASSUME BaseInv, [Next]_vars, store.val = "I"
    PROVE  store' \in {store, NoItem}
<1>1. store.idx # 0 /\ TypeOK
  BY ItemFields DEF BaseInv, ItemsSeen
<1>2. ASSUME NEW p \in Proc, Serve(p) PROVE store' \in {store, NoItem}
  <2>1. \A q \in Proc : item[q].val \in {"A", "C"} => item[q].idx # store.idx
    BY <1>1, ItemFields DEF BaseInv, ItemsSeen, Seen
  <2>2. \A v, i, r : Stored(p, v, i, r) => store.idx = i
    BY DEF Stored
  <2>3. \A r : Refused(p, r) \/ ReadBy(p, r) \/ Deleted(p, r) => store' \in {store, NoItem}
    BY DEF Refused, ReadBy, Deleted, Served
  <2> QED
    BY <1>1, <1>2, <2>1, <2>2, <2>3, ServeCases DEF BaseInv, Protocol
<1>3. CASE ~\E p \in Proc : Serve(p)
  <2>1. ASSUME NEW p \in Proc, \/ Acquire(p) \/ HolderStep(p) \/ Crash(p)
                               \/ Contest(p) \/ Invalidate(p) \/ ChallengerStep(p)
        PROVE  UNCHANGED store
    BY <2>1 DEF Acquire, HolderStep, Crash, Contest, Invalidate, ChallengerStep,
       Start, Return, Proceed, Extend, Retry, AcquireReturns, MaintainWakes,
       MaintainReads, MaintainAsserts, ContestReads, ContestRaises, ContestLooks,
       ContestDecides, InvalidateReads, InvalidateRaises, RevokedSleepEnds,
       RunCleanup, DeleteReturns
  <2> QED
    BY <1>3, <2>1, RolesAssumption DEF Next, Tick, vars
<1> QED
  BY <1>2, <1>3

\* A lease that was invalidated is never acquired, asserted or contested again:
\* it stays as it is until it is removed, whatever the number of challengers and
\* however late anyone is (lease.go:132-133).
THEOREM LeaseInvalidation == Spec => InvalidationIsFinal
<1>1. BaseInv /\ [Next]_vars => [store.val = "I" => store' \in {store, NoItem}]_vars
  BY InvalidStep
<1> QED
  BY <1>1, LeaseBase, PTL DEF Spec, InvalidationIsFinal
-----------------------------------------------------------------------------
(* How long a claim lasts *)

LEMMA RoundFacts ==
    /\ Round \in Nat /\ Round = Poll + 5 * Lag
    /\ \A k \in Nat : Rounds(k) \in Nat
    /\ \A k \in Nat : Rounds(k + 1) = Rounds(k) + Round
  BY TimeAssumption DEF Round, Rounds

LEMMA RoundsLeft ==
    ASSUME NEW n \in Nat, NEW a \in 0..(n - 1)
    PROVE  /\ n - a - 1 \in Nat /\ Rounds(n - a - 1) \in Nat
           /\ Round + Rounds(n - a - 1) <= Rounds(n)
<1>1. PICK k \in Nat : k = n - a - 1
  OBVIOUS
<1>2. n = k + 1 + a /\ Round \in Nat /\ a \in Nat
  BY <1>1, RoundFacts
<1>3. n * Round = k * Round + Round + a * Round /\ a * Round >= 0 /\ k * Round \in Nat
  BY <1>1, <1>2
<1>4. Rounds(n) = n * Round /\ Rounds(n - a - 1) = k * Round
  BY <1>1 DEF Rounds
<1> QED
  BY <1>1, <1>2, <1>3, <1>4

\* What is left of h's retries.
LEMMA Later ==
    ASSUME BaseInv, NEW h \in Holders
    PROVE  /\ MaxAttempts \in Nat /\ attempts[h] \in 0..(MaxAttempts - 1)
           /\ MaxAttempts - attempts[h] - 1 \in Nat
           /\ Rounds(MaxAttempts) \in Nat
           /\ Rounds(MaxAttempts - attempts[h] - 1) \in Nat
           /\ Round + Rounds(MaxAttempts - attempts[h] - 1) <= Rounds(MaxAttempts)
<1>1. attempts[h] \in 0..(MaxAttempts - 1) /\ MaxAttempts \in Nat
  BY RolesAssumption, TimeAssumption DEF BaseInv, TypeOK
<1> QED
  BY <1>1, RoundsLeft, RoundFacts

\* No claim lasts longer than LongestClaim, if it is not renewed.
LEMMA RestBounds ==
    ASSUME BaseInv, NEW h \in Holders, Claims(h)
    PROVE  Rest(h) \in Nat /\ Rest(h) <= LongestClaim
<1>1. /\ wait[h] \in Int /\ wait[h] + Lag >= 0 /\ h \in Proc
      /\ pc[h] = "m_sleep" => wait[h] <= Poll
      /\ pc[h] # "m_sleep" => wait[h] <= 0
      /\ pc[h] \in {"m_sleep", "m_get", "m_cas", "acquire"}
  BY RolesAssumption, TimeAssumption
  DEF BaseInv, TypeOK, Timers, Claims, InMaintain, HolderCalls
<1>2. LongestClaim = Rounds(MaxAttempts) + Lag /\ Lag \in Nat /\ Poll \in Nat
  BY TimeAssumption DEF LongestClaim
<1> QED
  BY <1>1, <1>2, Later, RoundFacts DEF Rest, Due

\* The same of the next state.
LEMMA RestNat == BaseInv => \A h \in Holders : Claims(h) => Rest(h) \in Nat
  BY RestBounds

LEMMA NextRestNat == BaseInv' => (\A h \in Holders : Claims(h) => Rest(h) \in Nat)'
  BY RestNat, PTL
-----------------------------------------------------------------------------
(* What a step does to the claims *)

\* Processes other than p do not move.
Local(p) ==
    \A q \in Proc \ {p} :
        /\ pc'[q] = pc[q] /\ reply'[q] = reply[q] /\ item'[q] = item[q]
        /\ wait'[q] = wait[q] /\ attempts'[q] = attempts[q]

LEMMA SameClaim ==
    ASSUME NEW q, pc'[q] = pc[q], reply'[q] = reply[q], wait'[q] = wait[q],
           attempts'[q] = attempts[q]
    PROVE  (Claims(q)' <=> Claims(q)) /\ Rest(q)' = Rest(q)
  BY DEF Claims, Got, GotItem, Rest, Due

LEMMA StepLocal ==
    ASSUME TypeOK, NEW p \in Proc,
           \/ Acquire(p) \/ HolderStep(p) \/ Contest(p) \/ Invalidate(p)
           \/ ChallengerStep(p) \/ Crash(p)
    PROVE  Local(p) /\ UNCHANGED <<store, index>>
<1>1. ASSUME NEW l, Start(p, l) PROVE Local(p) /\ UNCHANGED <<store, index>>
  BY <1>1 DEF Start, Goto, Reply, Local, TypeOK
<1>2. ASSUME NEW l, NEW d, NEW it, Proceed(p, l, d, it)
      PROVE  Local(p) /\ UNCHANGED <<store, index>>
  BY <1>2 DEF Proceed, Goto, Keep, Reply, Local, TypeOK
<1>3. ASSUME Return(p) PROVE Local(p) /\ UNCHANGED <<store, index>>
  BY <1>3 DEF Return, Goto, Keep, Reply, Local, TypeOK
<1>4. ASSUME Extend(p) PROVE Local(p) /\ UNCHANGED <<store, index>>
  BY <1>4 DEF Extend, Goto, Keep, Reply, Local, TypeOK
<1>5. ASSUME Retry(p) PROVE Local(p) /\ UNCHANGED <<store, index>>
  BY <1>3, <1>5 DEF Retry, Goto, Keep, Reply, Local, TypeOK
<1>6. ASSUME Acquire(p) \/ HolderStep(p)
      PROVE  Local(p) /\ UNCHANGED <<store, index>>
  BY <1>1, <1>2, <1>3, <1>4, <1>5, <1>6
  DEF Acquire, HolderStep, AcquireReturns, MaintainWakes, MaintainReads, MaintainAsserts
<1>7. ASSUME Contest(p) \/ Invalidate(p) \/ ChallengerStep(p) \/ Crash(p)
      PROVE  Local(p) /\ UNCHANGED <<store, index>>
  BY <1>1, <1>2, <1>3, <1>7
  DEF Contest, Invalidate, ChallengerStep, Crash, ContestReads, ContestRaises, ContestLooks,
      ContestDecides, InvalidateReads, InvalidateRaises, RevokedSleepEnds, RunCleanup,
      DeleteReturns
<1> QED
  BY <1>6, <1>7

\* A step of a holder, its calls apart, neither starts nor prolongs a claim.
LEMMA HolderClaim ==
    ASSUME BaseInv, NEW h \in Holders, Acquire(h) \/ HolderStep(h) \/ Crash(h), Claims(h)'
    PROVE  Claims(h) /\ Rest(h)' <= Rest(h)
<1>0. /\ h \in Proc /\ TypeOK /\ Protocol /\ reply \in [Proc -> ReplyType]
      /\ pc \in [Proc -> HolderPC \cup ChallengerPC]
      /\ wait \in [Proc -> Int] /\ (wait[h] + Lag >= 0 \/ pc[h] = "idle")
      /\ pc[h] = "m_sleep" => wait[h] <= Poll
      /\ attempts \in [Proc -> 0..(MaxAttempts - 1)]
      /\ Lag \in Nat /\ Poll \in Nat
  BY RolesAssumption, TimeAssumption DEF BaseInv, TypeOK, Timers
<1> USE <1>0, Later, RoundFacts, SpecialAnswers DEF Goto, Reply, Claims, Got, GotItem, InMaintain
<1>1. ~Return(h) /\ ~Crash(h) /\ ~Acquire(h)
  BY DEF Return, Crash, Acquire, Start
<1>2. CASE AcquireReturns(h)
  BY <1>1, <1>2 DEF AcquireReturns, Answered, Proceed, Rest, Due
<1>3. CASE MaintainWakes(h)
  BY <1>1, <1>3 DEF MaintainWakes, Proceed, Rest, Due
<1>4. ASSUME Extend(h), Claims(h), Rest(h) = Due(h) + Rounds(MaxAttempts),
             pc[h] # "idle"
      PROVE  Rest(h)' <= Rest(h)
  <2>1. pc'[h] = "m_sleep" /\ wait'[h] = Poll /\ attempts'[h] = 0
    BY <1>4, TimeAssumption DEF Extend
  <2>2. Rest(h)' = Poll + Lag + 4 * Lag + Rounds(MaxAttempts - 0 - 1)
    BY <2>1 DEF Rest, Due
  <2>3. /\ Rounds(MaxAttempts - 0 - 1) \in Nat
        /\ Round + Rounds(MaxAttempts - 0 - 1) <= Rounds(MaxAttempts)
    BY TimeAssumption, RoundsLeft
  <2>4. wait[h] + Lag >= 0 /\ wait[h] \in Int
    BY <1>4
  <2> QED
    BY <1>4, <2>2, <2>3, <2>4 DEF Due
<1>5. ASSUME Retry(h), Rest(h) = Due(h) + Rounds(MaxAttempts - attempts[h] - 1),
             pc[h] # "idle"
      PROVE  Rest(h)' <= Rest(h)
  <2>1. /\ attempts[h] + 1 # MaxAttempts /\ pc'[h] = "m_sleep" /\ wait'[h] = Poll
        /\ attempts'[h] = attempts[h] + 1
    BY <1>1, <1>5 DEF Retry
  <2>2. PICK k \in Nat : k = MaxAttempts - (attempts[h] + 1) - 1
    BY <2>1
  <2>3. Rounds(k + 1) = Rounds(k) + Round /\ k + 1 = MaxAttempts - attempts[h] - 1
    BY <2>2
  <2>4. Rest(h)' = Poll + Lag + 4 * Lag + Rounds(k)
    BY <2>1, <2>2 DEF Rest, Due
  <2>5. Rounds(k) \in Nat /\ Due(h) \in Nat
    BY <1>5, <2>2 DEF Due
  <2> QED
    BY <1>5, <2>3, <2>4, <2>5
<1>6. CASE MaintainReads(h)
  BY <1>1, <1>4, <1>5, <1>6 DEF MaintainReads, Answered, Proceed, Rest, Due
<1>7. CASE MaintainAsserts(h)
  BY <1>1, <1>4, <1>5, <1>7 DEF MaintainAsserts, Answered, Rest, Due
<1> QED
  BY <1>1, <1>2, <1>3, <1>6, <1>7 DEF HolderStep

LEMMA ServeLocal ==
    ASSUME TypeOK, NEW p \in Proc, Serve(p)
    PROVE  Local(p) /\ UNCHANGED <<pc, item, left, attempts>>
<1>1. \E r, it : Served(p, r, it)
  BY ServeCases DEF Stored, Refused, ReadBy, Deleted
<1> QED
  BY <1>1 DEF Served, Reply, Local, TypeOK

\* p can have its write applied only if it knows the item that is stored.
LEMMA StoredKnows ==
    ASSUME BaseInv, NEW p \in Proc, NEW v, NEW r, Stored(p, v, item[p].idx, r),
           pc[p] \in {"m_cas", "c_cas", "i_cas"}
    PROVE  store = item[p]
  BY ItemFields DEF BaseInv, Protocol, ItemsSeen, Seen, Stored

\* A holder's call: either it leaves the item alone, and then a claim that the
\* answer does not renew gets no longer; or it makes the item 'A'.
HolderCall(h) ==
    /\ Claims(h)' => Claims(h) \/ store = NoItem
    /\ \/ /\ store' = store
          /\ Claims(h)' => Claims(h) /\ (store.val # "A" => Rest(h)' <= Rest(h))
       \/ /\ store'.val = "A"
          /\ store = NoItem \/ (Claims(h) /\ store.val = "C")

LEMMA HolderServed ==
    ASSUME BaseInv, NEW h \in Holders, Serve(h)
    PROVE  HolderCall(h)
<1>0. /\ h \in Proc /\ TypeOK /\ Protocol /\ reply \in [Proc -> ReplyType]
      /\ wait \in [Proc -> Int] /\ (wait[h] + Lag >= 0 \/ pc[h] = "idle")
      /\ pc[h] \in {"idle", "m_sleep", "acquire", "m_get", "m_cas"}
      /\ Lag \in Nat /\ store \in ItemType /\ index \in Nat
  BY RolesAssumption, TimeAssumption
  DEF BaseInv, TypeOK, Timers, HolderPC, HolderCalls
<1> USE <1>0, Later, ItemFields, AnswerFields, SpecialAnswers
    DEF Claims, Got, GotItem, InMaintain, HolderCall, Tags, Value, Served, Reply
<1>1. ASSUME NEW r, pc[h] = "acquire", Stored(h, "A", 0, r)
      PROVE  HolderCall(h)
  <2>1. store = NoItem /\ store'.val = "A"
    BY <1>1 DEF Stored, BaseInv, ItemsSeen
  <2> QED
    BY <2>1
<1>2. ASSUME NEW r, pc[h] = "acquire", Refused(h, r)
      PROVE  HolderCall(h)
  BY <1>2 DEF Refused
<1>3. ASSUME NEW r, pc[h] = "m_cas", Stored(h, "A", item[h].idx, r)
      PROVE  HolderCall(h)
  <2>1. store = item[h] /\ item[h].val = "C"
    BY <1>3, StoredKnows DEF Protocol
  <2>2. store'.val = "A"
    BY <1>3 DEF Stored
  <2> QED
    BY <1>3, <2>1, <2>2
<1>4. ASSUME NEW r, pc[h] = "m_cas", Refused(h, r)
      PROVE  HolderCall(h)
  BY <1>4 DEF Refused, Rest, Due
<1>5. ASSUME NEW r, pc[h] = "m_get", ReadBy(h, r)
      PROVE  HolderCall(h)
  <2>1. store' = store /\ Claims(h)
    BY <1>5 DEF ReadBy
  <2>2. /\ reply[h] = NoReply /\ reply'[h] = r /\ wait'[h] = 0 /\ pc'[h] = "m_get"
        /\ attempts' = attempts
    BY <1>5 DEF ReadBy
  <2>3. Rest(h) = Due(h) + 3 * Lag + Rounds(MaxAttempts - attempts[h] - 1)
    BY <1>5, <2>2 DEF Rest
  <2>4. CASE r = Err
    BY <2>1, <2>2, <2>3, <2>4 DEF Rest, Due
  <2>5. CASE r = NotFound
    BY <2>1, <2>2, <2>3, <2>5 DEF Rest, Due
  <2>6. CASE r = Found(store)
    BY <2>1, <2>2, <2>3, <2>6 DEF Rest, Due
  <2> QED
    BY <1>5, <2>4, <2>5, <2>6 DEF ReadBy
<1> QED
  BY <1>1, <1>2, <1>3, <1>4, <1>5, ServeCases

\* What challengers do has no effect on claims.
LEMMA ChallengerClaims ==
    ASSUME TypeOK, NEW c \in Challengers, Local(c), NEW h \in Holders
    PROVE  (Claims(h)' <=> Claims(h)) /\ Rest(h)' = Rest(h)
<1>1. h \in Proc \ {c}
  BY RolesAssumption
<1> QED
  BY <1>1, SameClaim DEF Local

\* Time brings the end of every claim nearer.
LEMMA TickClaims ==
    ASSUME BaseInv, Tick, NEW h \in Holders
    PROVE  /\ Claims(h)' <=> Claims(h)
           /\ Claims(h) => Rest(h)' = Rest(h) - 1
<1>0. h \in Proc /\ wait \in [Proc -> Int] /\ wait[h] \in Int
  BY RolesAssumption DEF BaseInv, TypeOK
<1>1. pc' = pc /\ reply' = reply /\ attempts' = attempts
  BY DEF Tick
<1>2. pc[h] # "idle" => wait'[h] = wait[h] - 1
  BY <1>0 DEF Tick
<1>3. Claims(h)' <=> Claims(h)
  BY <1>1 DEF Claims, Got
<1> QED
  BY <1>0, <1>1, <1>2, <1>3, Later, TimeAssumption
  DEF Claims, InMaintain, Rest, Due, Got, GotItem
-----------------------------------------------------------------------------
(* The safety properties *)

LEMMA ChallengerServed ==
    ASSUME BaseInv, NEW c \in Challengers, Serve(c)
    PROVE  \/ store' = store
           \/ /\ pc[c] = "c_cas" /\ store = item[c] /\ store'.val = "C"
           \/ /\ pc[c] = "i_cas" /\ store = item[c] /\ store'.val = "I"
           \/ /\ pc[c] = "delete" /\ reply[c] = NoReply /\ store' = NoItem
<1>0. /\ c \in Proc /\ TypeOK /\ index \in Nat
      /\ pc[c] \notin {"acquire", "m_cas"}
  BY RolesAssumption DEF BaseInv, TypeOK, ChallengerPC, ChallengerCalls
<1>1. ASSUME NEW r, NEW v, Stored(c, v, item[c].idx, r), pc[c] \in {"c_cas", "i_cas"}
      PROVE  store = item[c] /\ (v \in Value => store'.val = v)
  <2>1. store = item[c]
    BY <1>0, <1>1, StoredKnows
  <2> QED
    BY <1>0, <1>1, <2>1, ItemFields DEF Stored, Served
<1>2. \A r : Refused(c, r) \/ ReadBy(c, r) => store' = store
  BY DEF Refused, ReadBy, Served
<1>3. \A r : Deleted(c, r) => reply[c] = NoReply /\ store' \in {store, NoItem}
  BY DEF Deleted, Served
<1> QED
  BY <1>0, <1>1, <1>2, <1>3, ServeCases DEF Value

LEMMA MutualStep ==
    ASSUME BaseInv, MutualExclusion, ClaimsAreStored, SafeToProceed, [Next]_vars
    PROVE  MutualExclusion' /\ ClaimsAreStored'
<1>0. BaseInv /\ TypeOK /\ MutualExclusion /\ ClaimsAreStored
  BY DEF BaseInv
<1> USE DEF MutualExclusion, ClaimsAreStored, Claimants
<1>1. ASSUME NEW h \in Holders, Acquire(h) \/ HolderStep(h) \/ Crash(h)
      PROVE  MutualExclusion' /\ ClaimsAreStored'
  <2>1. store' = store /\ \A g \in Holders : Claims(g)' => Claims(g)
    BY <1>0, <1>1, RolesAssumption, StepLocal, HolderClaim, SameClaim DEF Local
  <2> QED
    BY <1>0, <2>1
<1>2. ASSUME NEW h \in Holders, Serve(h)
      PROVE  MutualExclusion' /\ ClaimsAreStored'
  <2>1. \A g \in Holders \ {h} : Claims(g)' => Claims(g)
    BY <1>0, <1>2, RolesAssumption, ServeLocal, SameClaim DEF Local
  <2>2. /\ Claims(h)' => Claims(h) \/ store = NoItem
        /\ (store' = store /\ (Claims(h)' => Claims(h))) \/ store'.val = "A"
    BY <1>0, <1>2, HolderServed DEF HolderCall
  <2> QED
    BY <1>0, <2>1, <2>2, ItemFields
<1>3. ASSUME NEW c \in Challengers, Contest(c) \/ Invalidate(c) \/ ChallengerStep(c) \/ Crash(c)
      PROVE  MutualExclusion' /\ ClaimsAreStored'
  <2>1. store' = store /\ \A g \in Holders : Claims(g)' <=> Claims(g)
    BY <1>0, <1>3, RolesAssumption, StepLocal, ChallengerClaims
  <2> QED
    BY <1>0, <2>1
<1>4. ASSUME NEW c \in Challengers, Serve(c)
      PROVE  MutualExclusion' /\ ClaimsAreStored'
  <2>1. \A g \in Holders : Claims(g)' <=> Claims(g)
    BY <1>0, <1>4, RolesAssumption, ServeLocal, ChallengerClaims
  <2>2. store' = NoItem => store = NoItem \/ Claimants = {}
    BY <1>0, <1>4, ChallengerServed, ItemFields DEF SafeToProceed, Value
  <2> QED
    BY <1>0, <2>1, <2>2
<1>5. CASE Tick
  <2>1. store' = store /\ \A g \in Holders : Claims(g)' <=> Claims(g)
    BY <1>0, <1>5, TickClaims DEF Tick
  <2> QED
    BY <1>0, <2>1
<1>6. CASE UNCHANGED vars
  BY <1>0, <1>6 DEF vars, Claims, Got
<1> QED
  BY <1>1, <1>2, <1>3, <1>4, <1>5, <1>6, RolesAssumption DEF Next

\* Nothing c's removal relies on is disturbed by a step that leaves c alone,
\* leaves the item alone or makes it 'A', and neither starts nor prolongs a
\* claim while the item is not 'A'.
LEMMA RemovalKept ==
    ASSUME IInv, BaseInv', NEW c \in Challengers,
           pc'[c] = pc[c], reply'[c] = reply[c], item'[c] = item[c], wait'[c] = wait[c],
           \/ /\ store' = store
              /\ \A h \in Holders :
                    Claims(h)' => Claims(h) /\ (store.val # "A" => Rest(h)' <= Rest(h))
           \/ /\ store'.val = "A" /\ store' # NoItem
              /\ store = NoItem \/ (Claimants # {} /\ store.val = "C")
    PROVE  Removal(c)'
<1>0. BaseInv /\ Removal(c) /\ c \in Proc
  BY RolesAssumption DEF IInv
<1>1. CASE store' = store /\ \A h \in Holders :
               Claims(h)' => Claims(h) /\ (store.val # "A" => Rest(h)' <= Rest(h))
  <2>1. Claimants' \subseteq Claimants
    BY <1>1 DEF Claimants
  <2>2. store.val # "A" /\ ClaimsEndFirst(c) => ClaimsEndFirst(c)'
    <3> SUFFICES ASSUME store.val # "A", ClaimsEndFirst(c), NEW h \in Claimants'
                 PROVE  Rest(h)' < wait[c]
      BY DEF ClaimsEndFirst
    <3>1. h \in Holders /\ Claims(h)' /\ Claims(h)
      BY <1>1 DEF Claimants
    <3>2. Rest(h) \in Nat /\ Rest(h)' \in Nat /\ wait[c] \in Int
      BY <1>0, <3>1, RestBounds, NextRestNat DEF BaseInv, TypeOK
    <3> QED
      BY <1>1, <3>1, <3>2 DEF ClaimsEndFirst, Claimants
  <2> QED
    BY <1>0, <1>1, <2>1, <2>2, ItemFields
    DEF Removal, Got, GotItem, StillThere, BaseInv, Protocol
<1>2. CASE /\ store'.val = "A" /\ store' # NoItem
           /\ store = NoItem \/ (Claimants # {} /\ store.val = "C")
  BY <1>0, <1>2, ItemFields DEF Removal, Got, GotItem, StillThere, BaseInv, Protocol, ItemsSeen
<1> QED
  BY <1>1, <1>2

\* Holders do not disturb a removal.
LEMMA HolderRemoval ==
    ASSUME IInv, BaseInv', NEW c \in Challengers, NEW h \in Holders,
           Acquire(h) \/ HolderStep(h) \/ Crash(h) \/ Serve(h)
    PROVE  Removal(c)'
<1>0. BaseInv /\ TypeOK /\ c \in Proc \ {h} /\ h \in Proc
  BY RolesAssumption DEF IInv, BaseInv
<1>1. Local(h)
  BY <1>0, StepLocal, ServeLocal
<1>2. ASSUME NEW g \in Holders \ {h}
      PROVE  (Claims(g)' <=> Claims(g)) /\ Rest(g)' = Rest(g)
  BY <1>1, RolesAssumption, SameClaim DEF Local
<1>3. \A g \in Holders : Claims(g)' => Rest(g)' \in Nat
  BY NextRestNat
<1>4. CASE Acquire(h) \/ HolderStep(h) \/ Crash(h)
  <2>1. store' = store
    BY <1>0, <1>4, StepLocal
  <2>2. \A g \in Holders : Claims(g)' => Claims(g) /\ Rest(g)' <= Rest(g)
    BY <1>0, <1>2, <1>3, <1>4, HolderClaim
  <2> QED
    BY <1>0, <1>1, <2>1, <2>2, RemovalKept DEF Local
<1>5. CASE Serve(h)
  <2>1. HolderCall(h)
    BY <1>0, <1>5, HolderServed
  <2>2. CASE store' = store /\ (Claims(h)' =>
                 Claims(h) /\ (store.val # "A" => Rest(h)' <= Rest(h)))
    <3>1. \A g \in Holders :
              Claims(g)' => Claims(g) /\ (store.val # "A" => Rest(g)' <= Rest(g))
      BY <1>2, <1>3, <2>2
    <3> QED
      BY <1>0, <1>1, <2>2, <3>1, RemovalKept DEF Local
  <2>3. CASE store'.val = "A" /\ (store = NoItem \/ (Claims(h) /\ store.val = "C"))
    <3>1. store' # NoItem /\ (store = NoItem \/ (Claimants # {} /\ store.val = "C"))
      BY <2>3, ItemFields DEF Claimants
    <3> QED
      BY <1>0, <1>1, <2>3, <3>1, RemovalKept DEF Local
  <2> QED
    BY <2>1, <2>2, <2>3 DEF HolderCall
<1> QED
  BY <1>4, <1>5

\* A challenger that starts to wait Period outlasts every claim.
LEMMA WaitOutlasts ==
    ASSUME BaseInv, Timely, NEW c \in Challengers, Local(c), wait'[c] = Period
    PROVE  ClaimsEndFirst(c)'
<1> SUFFICES ASSUME NEW h \in Holders, Claims(h)' PROVE Rest(h)' < wait'[c]
  BY DEF ClaimsEndFirst, Claimants
<1>1. Claims(h) /\ Rest(h)' = Rest(h)
  BY ChallengerClaims DEF BaseInv
<1>2. Rest(h) \in Nat /\ Rest(h) <= LongestClaim
  BY <1>1, RestBounds
<1>3. LongestClaim \in Nat /\ Period \in Nat
  BY RoundFacts, TimeAssumption DEF LongestClaim
<1> QED
  BY <1>1, <1>2, <1>3 DEF Timely

\* A challenger whose interval is over has outlasted every claim.
LEMMA WaitOver ==
    ASSUME BaseInv, NEW c \in Challengers, ClaimsEndFirst(c), wait[c] = 0
    PROVE  Claimants = {}
<1> SUFFICES ASSUME NEW h \in Holders, Claims(h) PROVE FALSE
  BY DEF Claimants
<1>1. Rest(h) \in Nat /\ Rest(h) < 0
  BY RestBounds DEF ClaimsEndFirst, Claimants
<1> QED
  BY <1>1

\* What ContestDecides knows when it sleeps, and when it cleans up.
LEMMA Decision ==
    ASSUME NEW c \in Challengers, ContestDecides(c)
    PROVE  /\ pc[c] = "c_wait"
           /\ \/ Return(c)
              \/ /\ Proceed(c, "sleep", Period, NoItem)
                 /\ Got(c, "found") /\ reply[c].item.val = "I" /\ item[c].val # "I"
              \/ /\ Proceed(c, "cleanup", 0, NoItem) /\ Got(c, "found")
                 /\ \/ reply[c].item.val = "I" /\ item[c].val = "I"
                    \/ reply[c].item.idx = item[c].idx
  BY DEF ContestDecides, Answered, GotItem

\* The challenger's own steps.
LEMMA ChallengerRemoval ==
    ASSUME IInv, BaseInv', Timely, NEW c \in Challengers,
           Contest(c) \/ Invalidate(c) \/ ChallengerStep(c) \/ Crash(c)
    PROVE  Removal(c)'
<1>0. /\ BaseInv /\ TypeOK /\ Removal(c) /\ c \in Proc /\ Protocol
      /\ reply \in [Proc -> ReplyType] /\ pc \in [Proc -> HolderPC \cup ChallengerPC]
      /\ item \in [Proc -> ItemType] /\ wait \in [Proc -> Int]
  BY RolesAssumption DEF IInv, BaseInv, TypeOK
<1>1. Local(c) /\ store' = store
  BY <1>0, StepLocal
<1>2. Claimants' = Claimants
  BY <1>0, <1>1, ChallengerClaims DEF Claimants
<1>3. wait'[c] = Period => ClaimsEndFirst(c)'
  BY <1>0, <1>1, WaitOutlasts
<1>a. pc[c] = "c_wait" /\ Got(c, "found") =>
          \/ /\ reply[c].item = item[c] /\ store = item[c] /\ Claimants = {}
             /\ item[c].val \in {"C", "I"}
          \/ reply[c].item.idx # item[c].idx /\ reply[c].item.val = "A"
  BY <1>0 DEF Removal, Protocol
<1>b. ASSUME Proceed(c, "cleanup", 0, NoItem), store.val \in {"C", "I"}, Claimants = {}
      PROVE  Removal(c)'
  BY <1>0, <1>1, <1>2, <1>b DEF Removal, Got, Proceed, Goto, Keep, Reply
<1> USE <1>0, SpecialAnswers DEF Removal, Got, GotItem, Goto, Keep, Reply
<1>4. ASSUME Return(c) PROVE Removal(c)'
  BY <1>4 DEF Return
<1>5. ASSUME NEW l, Start(c, l), l \in {"c_get", "i_get"} PROVE Removal(c)'
  BY <1>5 DEF Start
<1>6. CASE Contest(c) \/ Invalidate(c) \/ Crash(c) \/ DeleteReturns(c)
  BY <1>4, <1>5, <1>6 DEF Contest, Invalidate, Crash, DeleteReturns
<1>7. CASE ContestReads(c)
  BY <1>4, <1>7 DEF ContestReads, Proceed
<1>8. CASE ContestRaises(c)
  BY <1>4, <1>8 DEF ContestRaises, Proceed
<1>9. CASE ContestLooks(c)
  <2>1. CASE Return(c)
    BY <1>4, <2>1
  <2>2. CASE ~Return(c)
    <3>1. /\ GotItem(c, "C") \/ GotItem(c, "I")
          /\ pc[c] = "c_look" /\ pc'[c] = "c_wait" /\ reply'[c] = NoReply
          /\ wait'[c] = Period /\ item'[c] = reply[c].item
      BY <1>9, <2>2 DEF ContestLooks, Answered, Proceed
    <3>2. StillThere(item[c])'
      BY <1>1, <3>1 DEF StillThere
    <3> QED
      BY <1>3, <3>1, <3>2
  <2> QED
    BY <2>1, <2>2
<1>10. CASE ContestDecides(c)
  <2> HIDE <1>0 DEF Removal, Got, GotItem, Goto, Keep, Reply
  <2> QED
    BY <1>4, <1>10, <1>a, <1>b, Decision
<1>11. CASE InvalidateReads(c)
  BY <1>1, <1>3, <1>4, <1>11 DEF InvalidateReads, Answered, Proceed
<1>12. CASE InvalidateRaises(c)
  BY <1>1, <1>3, <1>4, <1>12 DEF InvalidateRaises, Answered, Proceed
<1>13. CASE RevokedSleepEnds(c)
  BY <1>1, <1>2, <1>13, WaitOver DEF RevokedSleepEnds, Proceed
<1>14. CASE RunCleanup(c)
  BY <1>1, <1>2, <1>4, <1>14 DEF RunCleanup, Proceed
<1> QED
  BY <1>6, <1>7, <1>8, <1>9, <1>10, <1>11, <1>12, <1>13, <1>14 DEF ChallengerStep

\* The answers the challenger gets.
LEMMA ServeRemoval ==
    ASSUME IInv, NEW c \in Challengers, Serve(c)
    PROVE  Removal(c)'
<1>0. /\ BaseInv /\ TypeOK /\ Removal(c) /\ c \in Proc /\ ItemsSeen /\ Protocol
      /\ reply \in [Proc -> ReplyType] /\ store \in ItemType /\ index \in Nat
      /\ item \in [Proc -> ItemType]
      /\ pc[c] \in ChallengerPC
  BY RolesAssumption DEF IInv, BaseInv, TypeOK
<1>1. UNCHANGED <<pc, item>> /\ Claimants' = Claimants
  BY <1>0, ServeLocal, ChallengerClaims DEF Claimants
<1>2. pc[c] \in {"c_get", "c_cas", "delete", "c_look", "c_wait", "i_get", "i_cas"}
  BY <1>0, ServeCases DEF ChallengerPC, ChallengerCalls
<1>3. \A r, it : Served(c, r, it) => reply'[c] = r /\ store' = it /\ reply[c] = NoReply
  BY <1>0 DEF Served, Reply
<1>4. ASSUME pc[c] \in {"c_get", "c_cas", "delete"} PROVE Removal(c)'
  <2>1. pc[c] = "delete" => reply'[c] # NoReply
    BY <1>0, <1>3, ServeCases, AnswerFields, SpecialAnswers DEF Deleted, Tags
  <2> QED
    BY <1>1, <1>4, <2>1 DEF Removal
<1>5. ASSUME pc[c] \in {"c_look", "c_wait", "i_get"}
      PROVE  /\ store' = store
             /\ Got(c, "found")' => reply'[c] = Found(store) /\ store # NoItem
             /\ pc[c] = "c_wait" /\ Got(c, "found")' =>
                    wait[c] = 0 \/ store.idx # item[c].idx
             /\ reply[c] = NoReply /\ reply'[c] # NoReply
  <2>1. PICK r : ReadBy(c, r)
    BY <1>0, <1>5, ServeCases
  <2>2. pc[c] = "c_wait" => wait[c] = 0 \/ store.idx # item[c].idx \/ reply'[c] = Err
    BY <1>0, <1>5, ServeCases
  <2>3. /\ reply'[c] = r /\ store' = store /\ reply[c] = NoReply
        /\ r = Err \/ (store = NoItem /\ r = NotFound) \/ (store # NoItem /\ r = Found(store))
    BY <1>3, <2>1 DEF ReadBy
  <2>4. r # NoReply /\ (r = Err \/ r = NotFound => r.tag # "found")
    BY <1>0, <2>3, AnswerFields, SpecialAnswers
  <2> QED
    BY <2>2, <2>3, <2>4, SpecialAnswers DEF Got
<1>6. Found(store).tag = "found" /\ Found(store).item = store
  BY <1>0, AnswerFields
<1>7. CASE pc[c] = "c_look"
  BY <1>1, <1>5, <1>6, <1>7 DEF Removal, StillThere, GotItem
<1>8. CASE pc[c] = "i_get"
  BY <1>1, <1>5, <1>6, <1>8 DEF Removal, GotItem, Got
<1>9. CASE pc[c] = "c_wait"
  <2>1. StillThere(item[c]) /\ (store = item[c] => ClaimsEndFirst(c))
    BY <1>0, <1>5, <1>9 DEF Removal
  <2>2. store = item[c] \/ (store.val = "A" /\ store.idx # item[c].idx)
    BY <1>0, <1>9, <2>1, ItemFields DEF StillThere, ItemsSeen, Seen, Protocol
  <2>3. store = item[c] /\ Got(c, "found")' => Claimants = {}
    BY <1>0, <1>5, <1>9, <2>1, WaitOver
  <2> QED
    BY <1>1, <1>5, <1>6, <1>9, <2>2, <2>3 DEF Removal
<1>10. CASE pc[c] = "i_cas"
  <2>1. Got(c, "true")' => store'.val = "I"
    <3>1. PICK r : Stored(c, "I", item[c].idx, r) \/ Refused(c, r)
      BY <1>0, <1>10, ServeCases
    <3> QED
      BY <1>0, <1>3, <3>1, ItemFields, AnswerFields, SpecialAnswers
      DEF Stored, Refused, Got, Value, Tags
  <2> QED
    BY <1>1, <1>10, <2>1 DEF Removal, Got
<1> QED
  BY <1>2, <1>4, <1>7, <1>8, <1>9, <1>10

LEMMA TickRemoval ==
    ASSUME IInv, Tick, NEW c \in Challengers
    PROVE  Removal(c)'
<1>0. BaseInv /\ Removal(c) /\ c \in Proc /\ c \notin Holders /\ wait \in [Proc -> Int]
  BY RolesAssumption DEF IInv, BaseInv, TypeOK
<1>1. UNCHANGED <<store, index, reply, pc, item>>
  BY DEF Tick
<1>2. Claimants' = Claimants
  BY <1>0, TickClaims DEF Claimants
<1>3. ASSUME ClaimsEndFirst(c), pc[c] # "idle" PROVE ClaimsEndFirst(c)'
  <2> SUFFICES ASSUME NEW h \in Holders, Claims(h) PROVE Rest(h)' < wait'[c]
    BY <1>2 DEF ClaimsEndFirst, Claimants
  <2>1. Rest(h) < wait[c] /\ Rest(h) \in Nat /\ Rest(h)' = Rest(h) - 1
    BY <1>0, <1>3, TickClaims, RestBounds DEF ClaimsEndFirst, Claimants
  <2>2. wait'[c] = wait[c] - 1 /\ wait[c] \in Int
    BY <1>0, <1>3, <2>1 DEF Tick
  <2> QED
    BY <2>1, <2>2
<1> QED
  BY <1>0, <1>1, <1>2, <1>3 DEF Removal, Got, GotItem, StillThere

LEMMA InitSafe == Init => IInv
<1> SUFFICES ASSUME Init PROVE IInv
  OBVIOUS
<1>1. Claimants = {} /\ store = NoItem
  BY RolesAssumption, SpecialAnswers DEF Init, Claimants, Claims, InMaintain, Got
<1>2. \A c \in Challengers : Removal(c)
  BY RolesAssumption DEF Init, Removal
<1> QED
  BY <1>1, <1>2, InitBase DEF IInv, MutualExclusion, ClaimsAreStored

\* The invariant is inductive.
LEMMA StepSafe == SingleChallenger /\ Timely /\ IInv /\ [Next]_vars => IInv'
<1> SUFFICES ASSUME SingleChallenger, Timely, IInv, [Next]_vars PROVE IInv'
  OBVIOUS
<1>1. BaseInv'
  BY StepBase DEF IInv
<1>2. MutualExclusion' /\ ClaimsAreStored'
  <2>1. SafeToProceed
    BY DEF IInv, Removal, SafeToProceed
  <2> QED
    BY <2>1, MutualStep DEF IInv
<1> SUFFICES ASSUME NEW c \in Challengers PROVE Removal(c)'
  BY <1>1, <1>2 DEF IInv
<1>3. CASE \E h \in Holders : Acquire(h) \/ HolderStep(h) \/ Crash(h) \/ Serve(h)
  BY <1>1, <1>3, HolderRemoval
<1>4. CASE \E d \in Challengers : Contest(d) \/ Invalidate(d) \/ ChallengerStep(d) \/ Crash(d)
  BY <1>1, <1>4, ChallengerRemoval DEF SingleChallenger
<1>5. CASE \E d \in Challengers : Serve(d)
  BY <1>5, ServeRemoval DEF SingleChallenger
<1>6. CASE Tick
  BY <1>6, TickRemoval
<1>7. CASE UNCHANGED vars
  BY <1>7 DEF vars, IInv, Removal, Got, GotItem, StillThere, ClaimsEndFirst, Claimants,
     Claims, Rest, Due
<1> QED
  BY <1>3, <1>4, <1>5, <1>6, <1>7, RolesAssumption DEF Next

\* For one challenger at a time, and holders whose lateness is small against the
\* lease duration, the invariant holds in every reachable state.
THEOREM LeaseInvariant ==
    ASSUME SingleChallenger, Timely
    PROVE  Spec => []IInv
<1>1. IInv /\ [Next]_vars => IInv'
  BY StepSafe
<1> QED
  BY <1>1, InitSafe, PTL DEF Spec

\* No two processes act on the lease at once, whatever number of holders there
\* is, however their steps and the challenger's interleave, whatever calls fail.
THEOREM LeaseMutualExclusion ==
    ASSUME SingleChallenger, Timely
    PROVE  Spec => []MutualExclusion
<1>1. IInv => MutualExclusion
  BY DEF IInv
<1> QED
  BY <1>1, LeaseInvariant, PTL

\* Once the challenger has waited the lease duration it may proceed as if the
\* lease were no longer valid (lease.go:101-104): no process acts on it.
THEOREM LeaseSafeToProceed ==
    ASSUME SingleChallenger, Timely
    PROVE  Spec => []SafeToProceed
<1>1. IInv => SafeToProceed
  BY DEF IInv, Removal, SafeToProceed
<1> QED
  BY <1>1, LeaseInvariant, PTL

\* Only a lease that is contested or invalidated is removed (lease.go:33-37).
THEOREM LeaseRemoval ==
    ASSUME SingleChallenger, Timely
    PROVE  Spec => OnlyDefeatedLeaseRemoved
<1>1. ASSUME IInv, [Next]_vars, store # NoItem, store' = NoItem
      PROVE  store.val \in {"C", "I"}
  <2>0. BaseInv /\ TypeOK
    BY <1>1 DEF IInv, BaseInv
  <2>1. ASSUME NEW p \in Proc, Serve(p) PROVE store.val \in {"C", "I"}
    <3>1. CASE p \in Holders
      BY <1>1, <2>0, <2>1, <3>1, HolderServed, ItemFields DEF HolderCall
    <3>2. CASE p \in Challengers
      BY <1>1, <2>0, <2>1, <3>2, ChallengerServed, ItemFields DEF IInv, Removal
    <3> QED
      BY <3>1, <3>2, RolesAssumption
  <2>2. CASE ~\E p \in Proc : Serve(p)
    <3>1. \A p \in Proc : Acquire(p) \/ HolderStep(p) \/ Contest(p) \/ Invalidate(p)
                           \/ ChallengerStep(p) \/ Crash(p) => store' = store
      BY <2>0, StepLocal
    <3> QED
      BY <1>1, <2>2, <3>1, RolesAssumption DEF Next, Tick, vars
  <2> QED
    BY <2>1, <2>2
<1>2. IInv /\ [Next]_vars =>
          [store # NoItem /\ store' = NoItem => store.val \in {"C", "I"}]_vars
  BY <1>1
<1> QED
  BY <1>2, LeaseInvariant, PTL DEF Spec, OnlyDefeatedLeaseRemoved
-----------------------------------------------------------------------------
(* The protocol implements the life of a lease, LeaseLock *)

\* A step of LeaseLock, or none.
LockStep == [Lock!Next]_(Lock!lockVars)

\* A step of p for itself changes nobody else's claim, and nobody else's removal.
LEMMA SameOthers ==
    ASSUME NEW p \in Proc, Local(p)
    PROVE  /\ \A h \in Holders \ {p} : Claims(h)' <=> Claims(h)
           /\ \A c \in Challengers \ {p} : Removes(c)' <=> Removes(c)
  BY RolesAssumption, SameClaim DEF Local, Removes

\* What a holder does grants the lease, asserts it, or ends its claim.
LEMMA HolderRefines ==
    ASSUME IInv, NEW h \in Holders, Acquire(h) \/ HolderStep(h) \/ Crash(h) \/ Serve(h)
    PROVE  LockStep
<1>0. BaseInv /\ TypeOK /\ ClaimsAreStored /\ h \in Proc /\ h \notin Challengers
  BY RolesAssumption DEF IInv, BaseInv
<1>1. Local(h)
  BY <1>0, StepLocal, ServeLocal
<1>2. Removers' = Removers /\ \A g \in Holders \ {h} : Claims(g)' <=> Claims(g)
  BY <1>0, <1>1, SameOthers DEF Removers
<1>3. ASSUME store' = store, Claims(h)' => Claims(h)
      PROVE  LockStep
  <2>1. CASE Claims(h) /\ ~Claims(h)'
    <3>1. h \in Claimants /\ Claimants' = Claimants \ {h}
      BY <1>2, <2>1 DEF Claimants
    <3> QED
      BY <1>2, <1>3, <3>1 DEF LockStep, Lock!Next, Lock!Drop
  <2>2. CASE Claims(h)' <=> Claims(h)
    <3>1. Claimants' = Claimants
      BY <1>2, <2>2 DEF Claimants
    <3> QED
      BY <1>2, <1>3, <3>1 DEF LockStep, Lock!lockVars
  <2> QED
    BY <1>3, <2>1, <2>2
<1>4. ASSUME store = NoItem, store'.val = "A"
      PROVE  LockStep
  <2>1. Claimants = {} /\ store.val = "none"
    BY <1>0, <1>4, ItemFields DEF ClaimsAreStored
  <2>2. Removers = {}
    BY <2>1 DEF Removers, Removes, IInv, Removal
  <2>3. Claimants' \in {{}, {h}}
    BY <1>2, <2>1 DEF Claimants
  <2> QED
    BY <1>2, <1>4, <2>1, <2>2, <2>3 DEF LockStep, Lock!Next, Lock!Grant
<1>5. ASSUME store.val = "C", store'.val = "A", Claims(h), Claims(h)'
      PROVE  LockStep
  <2>1. h \in Claimants /\ Claimants' = Claimants
    BY <1>2, <1>5 DEF Claimants
  <2> QED
    BY <1>2, <1>5, <2>1 DEF LockStep, Lock!Next, Lock!Assert
<1>6. CASE Acquire(h) \/ HolderStep(h) \/ Crash(h)
  BY <1>0, <1>3, <1>6, StepLocal, HolderClaim
<1>7. CASE Serve(h)
  <2>1. HolderCall(h)
    BY <1>0, <1>7, HolderServed
  <2>2. Claims(h) => Claims(h)'
    <3>1. reply[h] = NoReply /\ pc' = pc
      BY <1>7 DEF Serve
    <3> QED
      BY <3>1, SpecialAnswers DEF Claims, Got, InMaintain
  <2> QED
    BY <1>3, <1>4, <1>5, <2>1, <2>2 DEF HolderCall
<1> QED
  BY <1>6, <1>7

\* What a challenger does is local to it and moves no claim.
LEMMA ChallengerMoves ==
    ASSUME IInv, NEW c \in Challengers,
           \/ Contest(c) \/ Invalidate(c) \/ ChallengerStep(c) \/ Crash(c) \/ Serve(c)
    PROVE  /\ BaseInv /\ TypeOK /\ Protocol /\ Removal(c) /\ c \in Proc
           /\ reply \in [Proc -> ReplyType] /\ pc \in [Proc -> HolderPC \cup ChallengerPC]
           /\ Claimants' = Claimants
           /\ \A d \in Challengers \ {c} : Removes(d)' <=> Removes(d)
<1>0. /\ BaseInv /\ TypeOK /\ Protocol /\ Removal(c) /\ c \in Proc
      /\ reply \in [Proc -> ReplyType] /\ pc \in [Proc -> HolderPC \cup ChallengerPC]
  BY RolesAssumption DEF IInv, BaseInv, TypeOK
<1>1. Local(c)
  BY <1>0, StepLocal, ServeLocal
<1> QED
  BY <1>0, <1>1, SameOthers, ChallengerClaims DEF Claimants

\* A challenger begins to remove the lease, or leaves it; ...
LEMMA ChallengerRefines ==
    ASSUME SingleChallenger, Timely, IInv, IInv', NEW c \in Challengers,
           Contest(c) \/ Invalidate(c) \/ ChallengerStep(c) \/ Crash(c)
    PROVE  LockStep
<1>1. /\ TypeOK /\ c \in Proc /\ Claimants' = Claimants
      /\ \A d \in Challengers \ {c} : Removes(d)' <=> Removes(d)
  BY ChallengerMoves
<1>2. store' = store
  BY <1>1, StepLocal
<1>3. CASE ~Removes(c) /\ Removes(c)'
  <2>1. Removers' = Removers \cup {c}
    BY <1>1, <1>3 DEF Removers
  <2>2. store'.val \in {"C", "I"} /\ Claimants' = {}
    BY <1>3 DEF Removes, IInv, Removal
  <2> QED
    BY <1>1, <1>2, <2>1, <2>2 DEF LockStep, Lock!Next, Lock!Begin
<1>4. CASE Removes(c) /\ ~Removes(c)'
  <2>1. c \in Removers /\ Removers' = Removers \ {c}
    BY <1>1, <1>4 DEF Removers
  <2> QED
    BY <1>1, <1>2, <2>1 DEF LockStep, Lock!Next, Lock!Leave
<1>5. CASE Removes(c)' <=> Removes(c)
  <2>1. Removers' = Removers
    BY <1>1, <1>5 DEF Removers
  <2> QED
    BY <1>1, <1>2, <2>1 DEF LockStep, Lock!lockVars
<1> QED
  BY <1>3, <1>4, <1>5

\* ... its calls contest, invalidate and remove it.
LEMMA ChallengerServedRefines ==
    ASSUME IInv, NEW c \in Challengers, Serve(c)
    PROVE  LockStep
<1>1. /\ BaseInv /\ TypeOK /\ Protocol /\ Removal(c) /\ c \in Proc
      /\ reply \in [Proc -> ReplyType] /\ Claimants' = Claimants
      /\ \A d \in Challengers \ {c} : Removes(d)' <=> Removes(d)
  BY ChallengerMoves
<1>2. pc' = pc /\ reply[c] = NoReply
  BY DEF Serve
<1>3. reply'[c] # NoReply
  <2>1. PICK r, it : Served(c, r, it) /\ (\/ r \in {Answer("true"), Answer("false"), Answer("done")}
                                           \/ r \in {Err, NotFound, Found(store)})
    BY <1>1, ServeCases DEF Stored, Refused, ReadBy, Deleted
  <2>2. r # NoReply
    BY <1>1, <2>1, AnswerFields, SpecialAnswers DEF Tags, TypeOK
  <2>3. reply'[c] = r
    BY <1>1, <2>1 DEF Served, Reply
  <2> QED
    BY <2>2, <2>3
<1>4. CASE pc[c] = "delete"
  <2>1. c \in Removers /\ Removers' = Removers \ {c} /\ store.val \in {"C", "I"}
    BY <1>1, <1>2, <1>3, <1>4 DEF Removers, Removes, Removal
  <2>2. store' = store \/ (store' = NoItem /\ store'.val = "none")
    BY <1>1, <1>4, ChallengerServed, ItemFields
  <2> QED
    BY <1>1, <2>1, <2>2 DEF LockStep, Lock!Next, Lock!Remove, Lock!Leave
<1>5. CASE pc[c] # "delete"
  <2>1. pc[c] # "cleanup"
    BY <1>1, ServeCases
  <2>2. Removers' = Removers
    BY <1>1, <1>2, <1>5, <2>1 DEF Removers, Removes
  <2>3. \/ store' = store
        \/ store.val = "A" /\ store'.val = "C"
        \/ store.val \in {"A", "C"} /\ store'.val = "I"
    BY <1>1, <1>5, ChallengerServed DEF Protocol
  <2> QED
    BY <1>1, <2>2, <2>3
    DEF LockStep, Lock!lockVars, Lock!Next, Lock!Contest, Lock!Invalidate
<1> QED
  BY <1>4, <1>5

LEMMA RefinementStep ==
    SingleChallenger /\ Timely /\ IInv /\ IInv' /\ [Next]_vars => LockStep
<1> SUFFICES ASSUME SingleChallenger, Timely, IInv, IInv', [Next]_vars PROVE LockStep
  OBVIOUS
<1>1. CASE Tick \/ UNCHANGED vars
  <2>1. BaseInv
    BY DEF IInv
  <2>2. \A h \in Holders : Claims(h)' <=> Claims(h)
    BY <1>1, <2>1, TickClaims DEF vars, Claims, Got
  <2>3. UNCHANGED <<store, pc, reply>>
    BY <1>1 DEF Tick, vars
  <2>4. Claimants' = Claimants /\ Removers' = Removers
    BY <2>2, <2>3 DEF Claimants, Removers, Removes
  <2> QED
    BY <2>3, <2>4 DEF LockStep, Lock!lockVars
<1> QED
  BY <1>1, HolderRefines, ChallengerRefines, ChallengerServedRefines, RolesAssumption DEF Next

\* The protocol implements the life of a lease: it is granted only while there is
\* none and nobody acts on one, asserted by its holder alone, invalidated for good,
\* and removed only by a challenger that began when nobody acted on it.
THEOREM LeaseImplementsLock ==
    ASSUME SingleChallenger, Timely
    PROVE  Spec => LockSpec
<1>1. Init => Lock!Init
  BY RolesAssumption, SpecialAnswers, ItemFields
  DEF Init, Lock!Init, Claimants, Claims, InMaintain, Got, Removers, Removes
<1>2. IInv /\ IInv' /\ [Next]_vars => LockStep
  BY RefinementStep
<1>3. Spec => []IInv
  BY LeaseInvariant
<1> QED
  BY <1>1, <1>2, <1>3, PTL DEF Spec, LockSpec, Lock!Spec, LockStep
-----------------------------------------------------------------------------
(* Requests that stay behind: the steps of the protocol *)

\* A call that gives up, or whose process crashes, looks to the rest of the
\* system like one that fails, or like a crash.
LEMMA LateSteps ==
    ASSUME LateNext
    PROVE  Next \/ \E r \in late : ApplyLate(r)
<1>1. ASSUME NEW p \in Flaky, GiveUp(p) PROVE Serve(p) /\ p \in Proc
  BY <1>1, FlakyAssumption
  DEF GiveUp, Outlives, InFlight, Writes, Serve, CAS, Delete, Fails
<1>2. ASSUME NEW p \in Proc, CrashInFlight(p) PROVE Crash(p)
  BY <1>2 DEF CrashInFlight, Outlives, InFlight, Writes, Crash
<1> QED
  BY <1>1, <1>2 DEF LateNext, LeaseStep, Next

\* While the history is sound, the requests that stay behind are compare-and-sets.
LEMMA SoundSteps ==
    ASSUME LateNext, sound'
    PROVE  /\ sound
           /\ \/ LeaseStep /\ OneBusy' /\ late' = late
              \/ \E p \in Proc : /\ late' = late \cup {Request(p)} /\ InFlight(p)
                                 /\ pc[p] # "delete"
                                 /\ (GiveUp(p) /\ p \in Flaky) \/ CrashInFlight(p)
              \/ \E r \in late : ApplyLate(r) /\ late' = late \ {r}
  BY FlakyAssumption DEF LateNext, LeaseStep, GiveUp, CrashInFlight, Outlives, ApplyLate
-----------------------------------------------------------------------------
(* Requests that stay behind: what they ask for *)

\* What Consul does with a request that comes late.
LEMMA AppliedLate ==
    ASSUME NEW r \in late, ApplyLate(r), BaseInv, RequestsSeen
    PROVE  /\ UNCHANGED <<reply, pc, wait, item, left, attempts, calls, sound>>
           /\ \/ r.val = "none" /\ store' = NoItem /\ index' = index
              \/ /\ r.val \in Value /\ store.val # "I" /\ r.idx = store.idx
                 /\ index' = index + 1 /\ store' = Item(r.val, index + 1)
              \/ UNCHANGED <<store, index>>
  BY DEF ApplyLate, RequestsSeen

LEMMA ApplyBase ==
    ASSUME NEW r \in late, ApplyLate(r), BaseInv, RequestsSeen
    PROVE  BaseInv'
<1> USE ItemFields
<1>1. /\ UNCHANGED <<reply, pc, wait, item, left, attempts, calls>>
      /\ \/ store' = NoItem /\ index' = index
         \/ \E v \in Value : store' = Item(v, index + 1) /\ index' = index + 1
         \/ UNCHANGED <<store, index>>
  BY AppliedLate
<1>2. TypeOK /\ Timers /\ ItemsSeen /\ Protocol
  BY DEF BaseInv
<1>3. TypeOK' /\ Timers' /\ Protocol'
  BY <1>1, <1>2 DEF TypeOK, Timers, Protocol
<1>4. ItemsSeen'
  <2>1. /\ store' = NoItem \/ (store'.val \in Value /\ store'.idx > 0)
        /\ store'.idx <= index'
    BY <1>1, <1>2 DEF TypeOK, ItemsSeen
  <2>2. ASSUME NEW x \in ItemType, x.idx > 0, Seen(x)
        PROVE  Seen(x)'
    BY <1>1, <1>2, <2>2 DEF TypeOK, Seen
  <2>3. ASSUME NEW q \in Proc
        PROVE  item'[q] = NoItem \/ (item'[q].val \in Value /\ item'[q].idx > 0 /\ Seen(item[q])')
    BY <1>1, <1>2, <2>2 DEF TypeOK, ItemsSeen
  <2>4. ASSUME NEW q \in Proc, Got(q, "found")'
        PROVE  reply'[q].item.val \in Value /\ reply'[q].item.idx > 0 /\ Seen(reply[q].item)'
    BY <1>1, <1>2, <2>2, <2>4, AnswerFields DEF TypeOK, ItemsSeen, Got
  <2> QED
    BY <2>1, <2>3, <2>4 DEF ItemsSeen
<1> QED
  BY <1>3, <1>4 DEF BaseInv

\* A step that changes the item stores one with a new index, or none.
LEMMA NewItems ==
    ASSUME LateNext, BaseInv, RequestsSeen
    PROVE  /\ index' \in Nat /\ index <= index'
           /\ store' \in {store, NoItem} \/ (store'.idx = index + 1 /\ index' = index + 1)
<1>0. TypeOK /\ index \in Nat
  BY DEF BaseInv, TypeOK
<1>1. ASSUME NEW r \in late, ApplyLate(r)
      PROVE  /\ index' \in Nat /\ index <= index'
             /\ store' \in {store, NoItem} \/ (store'.idx = index + 1 /\ index' = index + 1)
  BY <1>0, <1>1, AppliedLate, ItemFields
<1>2. ASSUME NEW p \in Proc, Serve(p)
      PROVE  /\ index' \in Nat /\ index <= index'
             /\ store' \in {store, NoItem} \/ (store'.idx = index + 1 /\ index' = index + 1)
  <2>1. ASSUME NEW v, NEW i, NEW r, Stored(p, v, i, r)
        PROVE  store'.idx = index + 1 /\ index' = index + 1
    BY <2>1 DEF Stored, Served, Item
  <2>2. \A r : Refused(p, r) \/ ReadBy(p, r) \/ Deleted(p, r) =>
                   store' \in {store, NoItem} /\ index' = index
    BY DEF Refused, ReadBy, Deleted, Served
  <2> QED
    BY <1>0, <1>2, <2>1, <2>2, ServeCases
<1>3. CASE Next /\ ~\E p \in Proc : Serve(p)
  <2>1. \A p \in Proc : Acquire(p) \/ HolderStep(p) \/ Contest(p) \/ Invalidate(p)
                         \/ ChallengerStep(p) \/ Crash(p) => UNCHANGED <<store, index>>
    BY <1>0, StepLocal
  <2> QED
    BY <1>0, <1>3, <2>1, RolesAssumption DEF Next, Tick
<1> QED
  BY <1>1, <1>2, <1>3, LateSteps

\* A request in flight is a CAS for an item that is not invalidated, or a Delete.
LEMMA RequestSeen ==
    ASSUME BaseInv, NEW p \in Proc, InFlight(p)
    PROVE  LET r == Request(p) IN
           \/ r.val = "none" /\ pc[p] = "delete"
           \/ /\ r.val \in Value /\ r.idx \in 0..index
              /\ r.idx = store.idx => store.val # "I"
<1> USE ItemFields
<1>1. /\ store \in ItemType /\ index \in Nat /\ item[p] \in ItemType
      /\ item[p] = NoItem \/ Seen(item[p])
      /\ store = NoItem \/ store.idx > 0
  BY DEF BaseInv, TypeOK, ItemsSeen
<1>2. pc[p] \in {"acquire", "m_cas", "c_cas", "i_cas", "delete"}
  BY DEF InFlight, Writes
<1>3. /\ pc[p] = "m_cas" => item[p].val = "C"
      /\ pc[p] = "c_cas" => item[p].val = "A"
      /\ pc[p] = "i_cas" => item[p].val \in {"A", "C"}
  BY DEF BaseInv, Protocol
<1>4. CASE pc[p] = "acquire"
  <2>1. Request(p).val = "A" /\ Request(p).idx = 0
    BY <1>4 DEF Request, Written
  <2> QED
    BY <1>1, <2>1 DEF Value
<1>5. CASE pc[p] \in {"m_cas", "c_cas", "i_cas"}
  <2>1. Request(p).val \in Value /\ Request(p).idx = item[p].idx
    BY <1>5 DEF Request, Written, Value
  <2> QED
    BY <1>1, <1>3, <1>5, <2>1 DEF Seen
<1>6. CASE pc[p] = "delete"
  BY <1>6 DEF Request, Written
<1> QED
  BY <1>2, <1>4, <1>5, <1>6

LEMMA RequestsStep ==
    ASSUME BaseInv, RequestsSeen, LateNext
    PROVE  RequestsSeen'
<1> USE ItemFields
<1>0. index \in Nat /\ store \in ItemType
  BY DEF BaseInv, TypeOK
<1>1. /\ index' \in Nat /\ index <= index'
      /\ store' \in {store, NoItem} \/ (store'.idx = index + 1 /\ index' = index + 1)
  BY NewItems
<1>2. ASSUME NEW r, r.val \in Value, r.idx \in 0..index, r.idx = store.idx => store.val # "I"
      PROVE  r.idx \in 0..index' /\ (r.idx = store'.idx => store'.val # "I")
  BY <1>0, <1>1, <1>2
<1>3. \A r \in late' : r \in late \/ \E p \in Proc : InFlight(p) /\ r = Request(p)
  BY FlakyAssumption DEF LateNext, LeaseStep, GiveUp, CrashInFlight, Outlives, ApplyLate
<1>4. ASSUME NEW r \in late'
      PROVE  r.val = "none" \/ (r.val \in Value /\ r.idx \in 0..index /\ (r.idx = store.idx => store.val # "I"))
  BY <1>3, RequestSeen DEF RequestsSeen
<1> QED
  BY <1>2, <1>4 DEF RequestsSeen
-----------------------------------------------------------------------------
(* The removal of the lease *)

LEMMA RemovalIsSafe ==
    ASSUME OneByOne PROVE SafeToProceed
  BY DEF OneByOne, LateRemoval, SafeToProceed

\* Nothing c's removal relies on is disturbed by a step that leaves c alone, and
\* either the item as well, or puts a new one in the place of one that is not
\* invalidated.
LEMMA LateRemovalKept ==
    ASSUME BaseInv, BaseInv', NEW c \in Challengers, LateRemoval(c),
           pc'[c] = pc[c], reply'[c] = reply[c], item'[c] = item[c], wait'[c] = wait[c],
           \/ /\ store' = store
              /\ \A h \in Holders :
                    Claims(h)' => Claims(h) /\ (store.val # "A" => Rest(h)' <= Rest(h))
           \/ /\ store' # NoItem /\ store'.idx = index + 1 /\ store.val # "I"
              /\ \A h \in Holders : Claims(h)' => Claims(h) \/ store = NoItem
    PROVE  LateRemoval(c)'
<1>0. /\ c \in Proc /\ index \in Nat /\ item[c] \in ItemType
      /\ pc[c] = "c_wait" => item[c].val \in {"C", "I"} /\ item[c].idx <= index
  BY RolesAssumption, ItemFields DEF BaseInv, TypeOK, Protocol, ItemsSeen, Seen
<1>1. CASE store' = store /\ \A h \in Holders :
               Claims(h)' => Claims(h) /\ (store.val # "A" => Rest(h)' <= Rest(h))
  <2>1. Claimants' \subseteq Claimants
    BY <1>1 DEF Claimants
  <2>2. store.val # "A" /\ ClaimsEndFirst(c) => ClaimsEndFirst(c)'
    <3> SUFFICES ASSUME store.val # "A", ClaimsEndFirst(c), NEW h \in Claimants'
                 PROVE  Rest(h)' < wait[c]
      BY DEF ClaimsEndFirst
    <3>1. h \in Holders /\ Claims(h)' /\ Claims(h)
      BY <1>1 DEF Claimants
    <3>2. Rest(h) \in Nat /\ Rest(h)' \in Nat /\ wait[c] \in Int
      BY <1>0, <3>1, RestBounds, NextRestNat DEF BaseInv, TypeOK
    <3> QED
      BY <1>1, <3>1, <3>2 DEF ClaimsEndFirst, Claimants
  <2> QED
    BY <1>0, <1>1, <2>1, <2>2 DEF LateRemoval, Got, GotItem
<1>2. CASE /\ store' # NoItem /\ store'.idx = index + 1 /\ store.val # "I"
           /\ \A h \in Holders : Claims(h)' => Claims(h) \/ store = NoItem
  <2>1. store # NoItem /\ Claimants = {} => Claimants' = {}
    BY <1>2 DEF Claimants
  <2>2. pc[c] = "c_wait" => store' # item[c]
    BY <1>0, <1>2
  <2> QED
    BY <1>0, <1>2, <2>1, <2>2 DEF LateRemoval, Got, GotItem
<1> QED
  BY <1>1, <1>2

\* Holders do not disturb a removal.
LEMMA HolderLate ==
    ASSUME BaseInv, BaseInv', RequestsSeen, LateNext,
           NEW c \in Challengers, LateRemoval(c), NEW h \in Holders,
           Acquire(h) \/ HolderStep(h) \/ Crash(h) \/ Serve(h)
    PROVE  LateRemoval(c)'
<1>0. TypeOK /\ c \in Proc \ {h} /\ h \in Proc
  BY RolesAssumption DEF BaseInv
<1>1. Local(h)
  BY <1>0, StepLocal, ServeLocal
<1>2. ASSUME NEW g \in Holders \ {h}
      PROVE  (Claims(g)' <=> Claims(g)) /\ Rest(g)' = Rest(g)
  BY <1>1, RolesAssumption, SameClaim DEF Local
<1>3. \A g \in Holders : Claims(g)' => Rest(g)' \in Nat
  BY NextRestNat
<1>4. CASE Acquire(h) \/ HolderStep(h) \/ Crash(h)
  <2>1. store' = store
    BY <1>0, <1>4, StepLocal
  <2>2. \A g \in Holders : Claims(g)' => Claims(g) /\ Rest(g)' <= Rest(g)
    BY <1>0, <1>2, <1>3, <1>4, HolderClaim
  <2> QED
    BY <1>0, <1>1, <2>1, <2>2, LateRemovalKept DEF Local
<1>5. CASE Serve(h)
  <2>1. HolderCall(h)
    BY <1>0, <1>5, HolderServed
  <2>2. CASE store' = store /\ (Claims(h)' =>
                 Claims(h) /\ (store.val # "A" => Rest(h)' <= Rest(h)))
    <3>1. \A g \in Holders :
              Claims(g)' => Claims(g) /\ (store.val # "A" => Rest(g)' <= Rest(g))
      BY <1>2, <1>3, <2>2
    <3> QED
      BY <1>0, <1>1, <2>2, <3>1, LateRemovalKept DEF Local
  <2>3. CASE store'.val = "A" /\ (store = NoItem \/ (Claims(h) /\ store.val = "C"))
    <3>1. store' # NoItem /\ store' # store /\ store.val # "I"
      BY <2>3, ItemFields
    <3>2. store'.idx = index + 1
      BY <3>1, NewItems
    <3>3. \A g \in Holders : Claims(g)' => Claims(g) \/ store = NoItem
      BY <1>2, <2>1 DEF HolderCall
    <3> QED
      BY <1>0, <1>1, <3>1, <3>2, <3>3, LateRemovalKept DEF Local
  <2> QED
    BY <2>1, <2>2, <2>3 DEF HolderCall
<1> QED
  BY <1>4, <1>5

\* The challenger's own steps.
LEMMA ChallengerLate ==
    ASSUME BaseInv, Timely, NEW c \in Challengers, LateRemoval(c),
           Contest(c) \/ Invalidate(c) \/ ChallengerStep(c) \/ Crash(c)
    PROVE  LateRemoval(c)'
<1>0. /\ TypeOK /\ LateRemoval(c) /\ c \in Proc /\ Protocol
      /\ reply \in [Proc -> ReplyType] /\ pc \in [Proc -> HolderPC \cup ChallengerPC]
      /\ item \in [Proc -> ItemType] /\ wait \in [Proc -> Int] /\ NoItem.val = "none"
  BY RolesAssumption, ItemFields DEF BaseInv, TypeOK
<1>1. Local(c) /\ store' = store
  BY <1>0, StepLocal
<1>2. Claimants' = Claimants
  BY <1>0, <1>1, ChallengerClaims DEF Claimants
<1>3. wait'[c] = Period => ClaimsEndFirst(c)'
  BY <1>0, <1>1, WaitOutlasts
<1>a. pc[c] = "c_wait" /\ Got(c, "found") =>
          /\ reply[c].item.idx = item[c].idx => store # NoItem /\ Claimants = {}
          /\ reply[c].item.val = "I" => store.val = "I"
          /\ item[c].val = "I" => reply[c].item.idx = item[c].idx
  BY <1>0 DEF LateRemoval
<1>b. ASSUME Proceed(c, "cleanup", 0, NoItem), store # NoItem, Claimants = {}
      PROVE  LateRemoval(c)'
  BY <1>0, <1>1, <1>2, <1>b DEF LateRemoval, Got, Proceed, Goto, Keep, Reply
<1>c. ASSUME Proceed(c, "sleep", Period, NoItem), store.val = "I"
      PROVE  LateRemoval(c)'
  BY <1>0, <1>1, <1>3, <1>c DEF LateRemoval, Got, Proceed, Goto, Keep, Reply
<1> USE <1>0, SpecialAnswers DEF LateRemoval, Got, GotItem, Goto, Keep, Reply
<1>4. ASSUME Return(c) PROVE LateRemoval(c)'
  BY <1>4 DEF Return
<1>5. ASSUME NEW l, Start(c, l), l \in {"c_get", "i_get"} PROVE LateRemoval(c)'
  BY <1>5 DEF Start
<1>6. CASE Contest(c) \/ Invalidate(c) \/ Crash(c) \/ DeleteReturns(c)
  BY <1>4, <1>5, <1>6 DEF Contest, Invalidate, Crash, DeleteReturns
<1>7. CASE ContestReads(c)
  BY <1>4, <1>7 DEF ContestReads, Proceed
<1>8. CASE ContestRaises(c)
  BY <1>4, <1>8 DEF ContestRaises, Proceed
<1>9. CASE ContestLooks(c)
  <2>1. CASE Return(c)
    BY <1>4, <2>1
  <2>2. CASE ~Return(c)
    <3>1. /\ GotItem(c, "C") \/ GotItem(c, "I")
          /\ pc[c] = "c_look" /\ pc'[c] = "c_wait" /\ reply'[c] = NoReply
          /\ wait'[c] = Period /\ item'[c] = reply[c].item
      BY <1>9, <2>2 DEF ContestLooks, Answered, Proceed
    <3>2. store' # NoItem /\ (item'[c].val = "I" => store' = item'[c])
      BY <1>1, <3>1
    <3> QED
      BY <1>3, <3>1, <3>2
  <2> QED
    BY <2>1, <2>2
<1>10. CASE ContestDecides(c)
  <2> HIDE <1>0 DEF LateRemoval, Got, GotItem, Goto, Keep, Reply
  <2> QED
    BY <1>4, <1>10, <1>a, <1>b, <1>c, Decision
<1>11. CASE InvalidateReads(c)
  BY <1>4, <1>11, <1>c DEF InvalidateReads, Answered, Proceed
<1>12. CASE InvalidateRaises(c)
  BY <1>4, <1>12, <1>c DEF InvalidateRaises, Answered
<1>13. CASE RevokedSleepEnds(c)
  BY <1>13, <1>b, WaitOver DEF RevokedSleepEnds
<1>14. CASE RunCleanup(c)
  BY <1>1, <1>2, <1>4, <1>14 DEF RunCleanup, Proceed
<1> QED
  BY <1>6, <1>7, <1>8, <1>9, <1>10, <1>11, <1>12, <1>13, <1>14 DEF ChallengerStep

\* The answers the challenger gets.
LEMMA ServeLate ==
    ASSUME BaseInv, NEW c \in Challengers, LateRemoval(c), Serve(c)
    PROVE  LateRemoval(c)'
<1>0. /\ TypeOK /\ c \in Proc /\ ItemsSeen /\ Protocol
      /\ reply \in [Proc -> ReplyType] /\ store \in ItemType /\ index \in Nat
      /\ item \in [Proc -> ItemType]
      /\ pc[c] \in ChallengerPC
  BY RolesAssumption DEF BaseInv, TypeOK
<1>1. UNCHANGED <<pc, item>> /\ Claimants' = Claimants
  BY <1>0, ServeLocal, ChallengerClaims DEF Claimants
<1>2. pc[c] \in {"c_get", "c_cas", "delete", "c_look", "c_wait", "i_get", "i_cas"}
  BY <1>0, ServeCases DEF ChallengerPC, ChallengerCalls
<1>3. \A r, it : Served(c, r, it) => reply'[c] = r /\ store' = it /\ reply[c] = NoReply
  BY <1>0 DEF Served, Reply
<1>4. ASSUME pc[c] \in {"c_get", "c_cas", "delete"} PROVE LateRemoval(c)'
  <2>1. pc[c] = "delete" => reply'[c] # NoReply
    BY <1>0, <1>3, ServeCases, AnswerFields, SpecialAnswers DEF Deleted, Tags
  <2> QED
    BY <1>1, <1>4, <2>1 DEF LateRemoval
<1>5. ASSUME pc[c] \in {"c_look", "c_wait", "i_get"}
      PROVE  /\ store' = store
             /\ Got(c, "found")' => reply'[c] = Found(store) /\ store # NoItem
             /\ pc[c] = "c_wait" /\ Got(c, "found")' =>
                    wait[c] = 0 \/ store.idx # item[c].idx
             /\ reply[c] = NoReply /\ reply'[c] # NoReply
  <2>1. PICK r : ReadBy(c, r)
    BY <1>0, <1>5, ServeCases
  <2>2. pc[c] = "c_wait" => wait[c] = 0 \/ store.idx # item[c].idx \/ reply'[c] = Err
    BY <1>0, <1>5, ServeCases
  <2>3. /\ reply'[c] = r /\ store' = store /\ reply[c] = NoReply
        /\ r = Err \/ (store = NoItem /\ r = NotFound) \/ (store # NoItem /\ r = Found(store))
    BY <1>3, <2>1 DEF ReadBy
  <2>4. r # NoReply /\ (r = Err \/ r = NotFound => r.tag # "found")
    BY <1>0, <2>3, AnswerFields, SpecialAnswers
  <2> QED
    BY <2>2, <2>3, <2>4, SpecialAnswers DEF Got
<1>6. Found(store).tag = "found" /\ Found(store).item = store
  BY <1>0, AnswerFields
<1>7. CASE pc[c] = "c_look"
  BY <1>1, <1>5, <1>6, <1>7 DEF LateRemoval, GotItem
<1>8. CASE pc[c] = "i_get"
  BY <1>1, <1>5, <1>6, <1>8 DEF LateRemoval, GotItem, Got
<1>9. CASE pc[c] = "c_wait"
  <2>1. /\ store # NoItem /\ (item[c].val = "I" => store = item[c])
        /\ store = item[c] => ClaimsEndFirst(c)
    BY <1>5, <1>9 DEF LateRemoval
  <2>2. store.idx = item[c].idx => store = item[c]
    BY <1>0, <1>9, <2>1, ItemFields DEF ItemsSeen, Seen, Protocol
  <2>3. store.idx = item[c].idx /\ Got(c, "found")' => Claimants = {}
    BY <1>0, <1>5, <1>9, <2>1, <2>2, WaitOver
  <2> QED
    BY <1>1, <1>5, <1>6, <1>9, <2>1, <2>2, <2>3 DEF LateRemoval
<1>10. CASE pc[c] = "i_cas"
  <2>1. Got(c, "true")' => store'.val = "I"
    <3>1. PICK r : Stored(c, "I", item[c].idx, r) \/ Refused(c, r)
      BY <1>0, <1>10, ServeCases
    <3> QED
      BY <1>0, <1>3, <3>1, ItemFields, AnswerFields, SpecialAnswers
      DEF Stored, Refused, Got, Value, Tags
  <2> QED
    BY <1>1, <1>10, <2>1 DEF LateRemoval, Got
<1> QED
  BY <1>2, <1>4, <1>7, <1>8, <1>9, <1>10

LEMMA TickLate ==
    ASSUME BaseInv, Tick, NEW c \in Challengers, LateRemoval(c)
    PROVE  LateRemoval(c)'
<1>0. c \in Proc /\ c \notin Holders /\ wait \in [Proc -> Int]
  BY RolesAssumption DEF BaseInv, TypeOK
<1>1. UNCHANGED <<store, index, reply, pc, item>>
  BY DEF Tick
<1>2. Claimants' = Claimants
  BY <1>0, TickClaims DEF Claimants
<1>3. ASSUME ClaimsEndFirst(c), pc[c] # "idle" PROVE ClaimsEndFirst(c)'
  <2> SUFFICES ASSUME NEW h \in Holders, Claims(h) PROVE Rest(h)' < wait'[c]
    BY <1>2 DEF ClaimsEndFirst, Claimants
  <2>1. Rest(h) < wait[c] /\ Rest(h) \in Nat /\ Rest(h)' = Rest(h) - 1
    BY <1>0, <1>3, TickClaims, RestBounds DEF ClaimsEndFirst, Claimants
  <2>2. wait'[c] = wait[c] - 1 /\ wait[c] \in Int
    BY <1>0, <1>3, <2>1 DEF Tick
  <2> QED
    BY <2>1, <2>2
<1> QED
  BY <1>0, <1>1, <1>2, <1>3 DEF LateRemoval, Got, GotItem

\* A challenger that is busy is the only one to take steps.
LEMMA OthersLate ==
    ASSUME BaseInv, OneBusy, OneBusy', NEW c \in Challengers, LateRemoval(c),
           NEW d \in Challengers \ {c},
           Contest(d) \/ Invalidate(d) \/ ChallengerStep(d) \/ Crash(d) \/ Serve(d)
    PROVE  LateRemoval(c)'
<1>0. TypeOK /\ c \in Proc /\ d \in Proc /\ c # d
  BY RolesAssumption DEF BaseInv
<1>1. pc'[c] = pc[c]
  BY <1>0, StepLocal, ServeLocal DEF Local
<1>2. CASE pc[c] = "idle"
  BY <1>1, <1>2 DEF LateRemoval
<1>3. CASE pc[c] # "idle"
  <2>1. pc[d] = "idle" /\ pc'[d] = "idle"
    BY <1>0, <1>1, <1>3 DEF OneBusy
  <2>2. ~Serve(d)
    BY <1>0, <2>1, ServeCases
  <2>3. ~Contest(d) /\ ~Invalidate(d)
    BY <1>0, <2>1 DEF Contest, Invalidate, Start, Goto, TypeOK
  <2>4. ~ChallengerStep(d) /\ ~Crash(d)
    BY <2>1 DEF ChallengerStep, Crash, ContestReads, ContestRaises, ContestLooks, ContestDecides,
       InvalidateReads, InvalidateRaises, RevokedSleepEnds, RunCleanup, DeleteReturns, Answered
  <2> QED
    BY <2>2, <2>3, <2>4
<1> QED
  BY <1>2, <1>3
-----------------------------------------------------------------------------
(* The theorems *)

\* A step of the protocol while challengers come one after the other.
LEMMA LeaseOneByOne ==
    ASSUME BaseInv, BaseInv', RequestsSeen, Timely, OneByOne, LateNext, Next, OneBusy',
           \A r \in late' : r.val # "none"
    PROVE  OneByOne'
<1>0. /\ OneBusy /\ MutualExclusion /\ ClaimsAreStored /\ SafeToProceed
      /\ \A c \in Challengers : LateRemoval(c)
  BY RemovalIsSafe DEF OneByOne
<1>1. MutualExclusion' /\ ClaimsAreStored'
  BY <1>0, MutualStep
<1> SUFFICES ASSUME NEW c \in Challengers PROVE LateRemoval(c)'
  BY <1>1 DEF OneByOne
<1>2. CASE \E h \in Holders : Acquire(h) \/ HolderStep(h) \/ Crash(h) \/ Serve(h)
  BY <1>0, <1>2, HolderLate
<1>3. CASE Contest(c) \/ Invalidate(c) \/ ChallengerStep(c) \/ Crash(c)
  BY <1>0, <1>3, ChallengerLate
<1>4. CASE Serve(c)
  BY <1>0, <1>4, ServeLate
<1>5. CASE \E d \in Challengers \ {c} :
               Contest(d) \/ Invalidate(d) \/ ChallengerStep(d) \/ Crash(d) \/ Serve(d)
  BY <1>0, <1>5, OthersLate
<1>6. CASE Tick
  BY <1>0, <1>6, TickLate
<1> QED
  BY <1>2, <1>3, <1>4, <1>5, <1>6, RolesAssumption DEF Next

\* A CAS that comes late.
LEMMA ApplyOneByOne ==
    ASSUME BaseInv, BaseInv', RequestsSeen, OneByOne,
           NEW r \in late, ApplyLate(r), late' = late \ {r}
    PROVE  OneByOne'
<1>1. /\ UNCHANGED <<reply, pc, wait, item, attempts>>
      /\ \/ /\ r.val \in Value /\ store.val # "I"
            /\ index' = index + 1 /\ store' = Item(r.val, index + 1)
         \/ UNCHANGED <<store, index>>
  BY AppliedLate DEF OneByOne
<1>2. \A h : (Claims(h)' <=> Claims(h)) /\ Rest(h)' = Rest(h)
  BY <1>1, SameClaim
<1>3. \A h \in Holders : Claims(h)' => Rest(h)' \in Nat /\ Rest(h)' <= Rest(h)
  BY <1>2, NextRestNat
<1>4. store' = store \/ (store' # NoItem /\ store'.idx = index + 1 /\ store.val # "I")
  BY <1>1, ItemFields DEF BaseInv, TypeOK, Value
<1>5. \A c \in Challengers : LateRemoval(c)'
  BY <1>1, <1>2, <1>3, <1>4, LateRemovalKept DEF OneByOne
<1>6. Claimants' = Claimants
  BY <1>2 DEF Claimants
<1>7. MutualExclusion' /\ ClaimsAreStored'
  BY <1>4, <1>6 DEF OneByOne, MutualExclusion, ClaimsAreStored
<1>8. OneBusy' /\ \A q \in late' : q.val # "none"
  BY <1>1 DEF OneByOne, OneBusy
<1> QED
  BY <1>5, <1>7, <1>8 DEF OneByOne

\* What holds whoever is busy and whatever is late.
LEMMA LateBase ==
    ASSUME BaseInv, RequestsSeen, [LateNext]_lateVars
    PROVE  BaseInv' /\ RequestsSeen'
<1>1. CASE LateNext
  BY <1>1, LateSteps, StepBase, ApplyBase, RequestsStep
<1>2. CASE UNCHANGED lateVars
  <2>1. UNCHANGED vars /\ UNCHANGED <<store, index, late>>
    BY <1>2 DEF lateVars, vars
  <2> QED
    BY <2>1, StepBase DEF RequestsSeen
<1> QED
  BY <1>1, <1>2

LEMMA LateStep ==
    ASSUME Timely, LateInv, [LateNext]_lateVars
    PROVE  LateInv'
<1>0. BaseInv' /\ RequestsSeen'
  BY LateBase DEF LateInv
<1>1. CASE LateNext
  <2>1. BaseInv' /\ RequestsSeen'
    BY <1>0
  <2>3. ASSUME sound' PROVE OneByOne'
    <3>1. OneByOne /\ BaseInv /\ RequestsSeen
      BY <1>1, <2>3, SoundSteps DEF LateInv
    <3>2. CASE LeaseStep /\ OneBusy' /\ late' = late
      <4>1. Next /\ \A r \in late' : r.val # "none"
        BY <3>1, <3>2 DEF LeaseStep, OneByOne
      <4> QED
        BY <1>1, <2>1, <3>1, <3>2, <4>1, LeaseOneByOne
    <3>3. ASSUME NEW p \in Proc, late' = late \cup {Request(p)}, InFlight(p),
                 pc[p] # "delete", (GiveUp(p) /\ p \in Flaky) \/ CrashInFlight(p)
          PROVE  OneByOne'
      <4>1. Request(p).val # "none"
        BY <3>1, <3>3, RequestSeen DEF Value
      <4>2. \A r \in late' : r.val # "none"
        BY <3>1, <3>3, <4>1 DEF OneByOne
      <4>3. OneBusy'
        <5>1. pc' = pc \/ pc' = [pc EXCEPT ![p] = "idle"]
          BY <3>3 DEF GiveUp, CrashInFlight, Return, Goto
        <5>2. \A q \in Proc : pc'[q] = "idle" \/ pc'[q] = pc[q]
          BY <3>1, <5>1 DEF BaseInv, TypeOK
        <5>3. \A c, d \in Challengers : pc[c] = "idle" \/ pc[d] = "idle" \/ c = d
          BY <3>1 DEF OneByOne, OneBusy
        <5>4. \A c, d \in Challengers : pc'[c] = "idle" \/ pc'[d] = "idle" \/ c = d
          BY <5>2, <5>3, RolesAssumption
        <5> QED
          BY <5>4 DEF OneBusy
      <4>4. Next
        <5>1. p \in Flaky /\ GiveUp(p) => Serve(p)
          BY DEF GiveUp, Outlives, InFlight, Writes, Serve, CAS, Delete, Fails
        <5>2. CrashInFlight(p) => Crash(p)
          BY DEF CrashInFlight, Outlives, InFlight, Writes, Crash
        <5> QED
          BY <3>3, <5>1, <5>2 DEF Next
      <4> QED
        BY <1>1, <2>1, <3>1, <4>2, <4>3, <4>4, LeaseOneByOne
    <3>4. ASSUME NEW r \in late, ApplyLate(r), late' = late \ {r} PROVE OneByOne'
      BY <2>1, <3>1, <3>4, ApplyOneByOne
    <3> QED
      BY <1>1, <2>3, <3>2, <3>3, <3>4, SoundSteps
  <2> QED
    BY <2>1, <2>3 DEF LateInv
<1>2. CASE UNCHANGED lateVars
  <2>1. UNCHANGED vars /\ UNCHANGED <<late, sound>>
    BY <1>2 DEF lateVars
  <2>3. UNCHANGED <<store, index, reply, pc, wait, item, attempts, late, sound>>
    BY <2>1 DEF vars
  <2>5. ASSUME sound, NEW c \in Challengers PROVE LateRemoval(c)'
    <3>1. LateRemoval(c)
      BY <2>5 DEF LateInv, OneByOne
    <3> QED
      BY <2>3, <3>1 DEF LateRemoval, Got, GotItem, ClaimsEndFirst, Claimants, Claims, Rest, Due
  <2>6. sound => OneByOne'
    BY <2>3, <2>5 DEF LateInv, OneByOne, OneBusy, MutualExclusion, ClaimsAreStored, Claimants,
       Claims, Got
  <2> QED
    BY <1>0, <2>3, <2>6 DEF LateInv
<1> QED
  BY <1>1, <1>2

LEMMA LateStart ==
    ASSUME LateInit PROVE LateInv
<1>1. IInv /\ late = {} /\ sound
  BY InitSafe DEF LateInit
<1>2. Init
  BY DEF LateInit
<1>3. OneByOne
  BY <1>1, <1>2, RolesAssumption DEF Init, OneByOne, OneBusy, IInv, LateRemoval
<1> QED
  BY <1>1, <1>3 DEF LateInv, IInv, RequestsSeen

\* Whatever compare-and-sets of failed calls and crashed processes arrive late,
\* in whatever order, however late and however many: while challengers come one
\* after the other, no two processes act on the lease, and none does when the
\* cleanup function runs (lease.go:33-37, 101-104).
THEOREM LateCASIsHarmless ==
    ASSUME Timely
    PROVE  LateSpec => []LateCASHarmless
<1>1. LateInv /\ [LateNext]_lateVars => LateInv'
  BY LateStep
<1>2. LateInv => LateCASHarmless
  BY RemovalIsSafe DEF LateInv, OneByOne, LateCASHarmless
<1> QED
  BY <1>1, <1>2, LateStart, PTL DEF LateSpec

\* No request that comes late takes an invalidated lease back, however many
\* challengers are busy and however late anyone is: the item stays as it is until
\* it is removed (lease.go:132-133).
THEOREM LateInvalidation == LateSpec => InvalidationIsFinal
<1>1. LateInit => BaseInv /\ RequestsSeen
  BY LateStart DEF LateInv
<1>2. BaseInv /\ RequestsSeen /\ [LateNext]_lateVars => (BaseInv /\ RequestsSeen)'
  BY LateBase
<1>3. BaseInv /\ RequestsSeen /\ [LateNext]_lateVars =>
          [store.val = "I" => store' \in {store, NoItem}]_vars
  <2> SUFFICES ASSUME BaseInv, RequestsSeen, [LateNext]_lateVars, store.val = "I", ~UNCHANGED vars
               PROVE  store' \in {store, NoItem}
    OBVIOUS
  <2>1. LateNext
    BY DEF lateVars
  <2>2. CASE Next
    BY <2>2, InvalidStep
  <2>3. CASE \E r \in late : ApplyLate(r)
    BY <2>3, AppliedLate
  <2> QED
    BY <2>1, <2>2, <2>3, LateSteps
<1> QED
  BY <1>1, <1>2, <1>3, PTL DEF LateSpec, InvalidationIsFinal
=============================================================================
