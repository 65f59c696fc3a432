------------------------------ MODULE Monitor ------------------------------
(***************************************************************************)
(* The loop of capacity.Monitor (src/pkg/capacity/capacity.go:17-52): it   *)
(* reads the load of the processor and of the memory, each of which may    *)
(* fail, keeps a histogram of either, and gives their percentiles to the   *)
(* hook.  cpuinfo and meminfo are readings from a small set.               *)
(***************************************************************************)
EXTENDS Histogram

CONSTANTS Resources,  \* the two histograms of the loop, in the order they are read
          Readings,   \* Readings[r]: the values a reading of r can have
          Failing,    \* the resources a reading of which may fail
          Draws,      \* Draws[r]: the logarithms of 1 / rand.Float64() for r
          NumCPU,     \* NumCPU[r]: what a reading is divided by
          Interval,   \* the time from one round to the next, one or more
          MaxTime     \* bound: how long the monitor runs

ResourceSet == ToSet(Resources)

ASSUME MonitorAssumption ==
    /\ Resources \in Seq(ResourceSet) /\ IsInjective(Resources)
    /\ Failing \subseteq ResourceSet
    /\ \A r \in ResourceSet : /\ Readings[r] \subseteq Nat /\ NumCPU[r] \in Nat \ {0}
                              /\ Draws[r] \subseteq Nat
    /\ Interval \subseteq Nat \ {0} /\ MaxTime \in Nat

VARIABLES now,
          hist,    \* hist[r]: cpuHist and memHist
          last,    \* last[r]: the variables cpu and mem
          pc,      \* how many resources have been read in this round
          step,    \* where Histogram.Update is for the next one, "read" before it
          value,   \* its argument
          at       \* the element that heap.up or heap.down moves

update == <<step, value, at>>
vars == <<now, hist, last, pc, update>>

Init ==
    /\ now = 0 /\ pc = 0
    /\ hist = [r \in ResourceSet |-> New(0)]
    /\ last = [r \in ResourceSet |-> 0]
    /\ step = "read" /\ value = 0 /\ at = 0
-----------------------------------------------------------------------------
At(r, s) == step = s /\ pc < Len(Resources) /\ Resources[pc + 1] = r

Become(r, sample) == hist' = [hist EXCEPT ![r].sample = sample]

\* A full sample is made room in: heap.Pop swaps the lightest element to the end.
Read(r) ==
    /\ At(r, "read")
    /\ \E v \in Readings[r] : value' = v \div NumCPU[r]
    /\ LET s == hist[r].sample
       IN  IF Len(s) = Size
           THEN Become(r, Swap(s, 1, Size)) /\ step' = "sink" /\ at' = 1
           ELSE step' = "push" /\ UNCHANGED <<hist, at>>
    /\ UNCHANGED <<now, last, pc>>

\* MUTANT: a reading that fails counts as none.
ReadFailsToZero(r) ==
    /\ r \in Failing /\ At(r, "read") /\ pc' = pc + 1
    /\ last' = [last EXCEPT ![r] = 0]
    /\ UNCHANGED <<now, hist, update>>

\* An error is logged, and the values of the round before are kept.
ReadFails(r) ==
    /\ r \in Failing /\ At(r, "read") /\ pc' = pc + 1
    /\ UNCHANGED <<now, hist, last, update>>

\* MUTANT: of the two elements below, always the first one is taken.
SinkLeft(r) ==
    LET s == hist[r].sample
    IN  /\ At(r, "sink") /\ 2 * at <= Size - 1 /\ Less(s, 2 * at, at)
        /\ Become(r, Swap(s, 2 * at, at)) /\ at' = 2 * at
        /\ UNCHANGED <<now, last, pc, step, value>>

Sink(r) ==
    LET s == hist[r].sample
        child == Child(s, at, Size - 1)
    IN  /\ At(r, "sink") /\ Sinks(s, at, Size - 1)
        /\ Become(r, Swap(s, child, at)) /\ at' = child
        /\ UNCHANGED <<now, last, pc, step, value>>

\* sample.Pop cuts off the last element.
Pop(r) ==
    /\ At(r, "sink") /\ ~Sinks(hist[r].sample, at, Size - 1)
    /\ Become(r, Front(hist[r].sample)) /\ step' = "push"
    /\ UNCHANGED <<now, last, pc, value, at>>

PushNew(r) ==
    /\ At(r, "push")
    /\ \E draw \in Draws[r] : hist' = [hist EXCEPT ![r] = Push(@, now, value, draw)]
    /\ step' = "rise" /\ at' = Len(hist[r].sample) + 1
    /\ UNCHANGED <<now, last, pc, value>>

Rise(r) ==
    /\ At(r, "rise") /\ Rises(hist[r].sample, at)
    /\ Become(r, Swap(hist[r].sample, at, Parent(at))) /\ at' = Parent(at)
    /\ UNCHANGED <<now, last, pc, step, value>>

\* Update returns, and Percentile is called.
Updated(r) ==
    /\ At(r, "rise") /\ ~Rises(hist[r].sample, at)
    /\ hist' = [hist EXCEPT ![r] = Rescaled(@, now)]
    /\ last' = [last EXCEPT ![r] = Percentile(hist'[r])]
    /\ pc' = pc + 1 /\ step' = "read" /\ value' = 0 /\ at' = 0
    /\ UNCHANGED now

\* The hook is called with last, and the loop sleeps.
CallHook ==
    /\ pc = Len(Resources) /\ pc' = 0
    /\ now' \in {now + d : d \in Interval} /\ now' <= MaxTime
    /\ UNCHANGED <<hist, last, update>>

Next ==
    \/ \E r \in ResourceSet : \/ Read(r) \/ ReadFails(r) \/ Sink(r) \/ Pop(r)
                              \/ PushNew(r) \/ Rise(r) \/ Updated(r)
    \/ CallHook

Spec == Init /\ [][Next]_vars
-----------------------------------------------------------------------------
(* Properties *)

Measured(r) == {v \div NumCPU[r] : v \in Readings[r]}
ElementType == [pos : Int, value : Nat, born : Nat, behind : Nat \cup {-1}]

TypeOK ==
    /\ now \in 0..MaxTime /\ pc \in 0..Len(Resources)
    /\ step \in {"read", "sink", "push", "rise"} /\ (pc = Len(Resources) => step = "read")
    /\ value \in Nat /\ at \in Nat
    /\ last \in [ResourceSet -> Nat]
    /\ hist \in [ResourceSet -> [sample : Seq(ElementType), start : Nat, horizon : Nat]]
    /\ \A r \in ResourceSet :
         /\ Len(hist[r].sample) <= Size
         /\ hist[r].start <= now /\ hist[r].start <= hist[r].horizon
         /\ At(r, step) /\ step # "read" => value \in Measured(r)

\* The heap implements the sampling: a full sample loses one of its lightest elements
\* and nothing else, in whatever order they came (stats.go:68-75, 113-137).
Strip(e) == [pos |-> e.pos, value |-> e.value, born |-> e.born]
SamplesOf(r) ==
    [pos : {t * Decay + d : t \in 0..MaxTime, d \in Draws[r]},
     value : Measured(r), born : 0..MaxTime]
Histograms == INSTANCE Sampling
          WITH Names <- ResourceSet,
               Samples <- [r \in ResourceSet |-> SamplesOf(r)],
               kept <- [r \in ResourceSet |-> {Strip(e) : e \in ToSet(hist[r].sample)}]
SamplingSpec == Histograms!Spec

\* A sample has left before Size others have come that outweigh it by their time
\* alone, whatever numbers were drawn; but only as long as there is no rescaling
\* in between, since it leaves the old weights as they are (stats.go:76-83).
OldSamplesLeave ==
    \A r \in ResourceSet :
        \A i \in DOMAIN hist[r].sample : hist[r].sample[i].behind < Size

\* The values next to the position of the percentile, found by counting.
Ranked(s, k) ==
    CHOOSE v \in ToSet(s) :
        /\ Cardinality({i \in DOMAIN s : s[i] < v}) <= k
        /\ k < Cardinality({i \in DOMAIN s : s[i] <= v})
PercentileByRank(h) ==
    LET s == Values(h)
        asked == Percent * (Len(s) - 1)
        k == asked \div Whole
    IN IF s = <<>> THEN 0
       ELSE Ranked(s, k) * Whole
            + (IF asked % Whole = 0 THEN 0 ELSE (Ranked(s, k + 1) - Ranked(s, k)) * (asked % Whole))

\* The hook is given the percentile of each resource's sample as it is at the
\* time, also when the reading of this round has failed (capacity.go:32-48).
HookCurrent ==
    [][CallHook => \A r \in ResourceSet : last[r] = PercentileByRank(hist[r])]_vars

-----------------------------------------------------------------------------
(* The inductive invariant *)

\* The first n elements are a heap, save where element i meets the one above it for i in
\* moved; those below an element a that moves are heavier than the one above it, too.
Heap(s, n, moved) == \A i \in 2..n : i \in moved \/ s[Parent(i)].pos <= s[i].pos
Below(a, n) == {i \in 2..n : Parent(i) = a}
Around(s, n, a) == \A i \in Below(a, n) : a > 1 => s[Parent(a)].pos <= s[i].pos

Heaps ==
    \A r \in ResourceSet :
        LET s == hist[r].sample
            n == Len(s)
        IN  IF At(r, "sink")
            THEN /\ n = Size /\ at \in 1..n /\ \A i \in 1..n : s[n].pos <= s[i].pos
                 /\ Heap(s, n - 1, Below(at, n)) /\ Around(s, n - 1, at)
            ELSE IF At(r, "rise")
            THEN at \in 1..n /\ Heap(s, n, {at}) /\ Around(s, n, at)
            ELSE Heap(s, n, {}) /\ (At(r, "push") => n < Size)

\* Every element of a sample is of another update, and older than the next one.
Ahead(r) == \E k \in 1..Len(Resources) :
                Resources[k] = r /\ (k > pc + 1 \/ (k = pc + 1 /\ step # "rise"))
Births ==
    \A r \in ResourceSet :
        LET s == hist[r].sample
        IN  /\ \A i, j \in DOMAIN s : s[i].born = s[j].born => i = j
            /\ \A i \in DOMAIN s : s[i].born <= now /\ (Ahead(r) => s[i].born < now)

\* The updates that outweigh an element are still in the sample.
Outweighed ==
    \A r \in ResourceSet :
        LET s == hist[r].sample
        IN  \A i \in DOMAIN s :
              s[i].behind <= Cardinality({j \in DOMAIN s : s[i].pos < s[j].pos})

\* last is up to date, but for a histogram that is being updated.
Reported ==
    \A r \in ResourceSet :
        (step # "read" /\ At(r, step)) \/ last[r] = Percentile(hist[r])

\* The invariant of the monitor: its types, the heaps, how long a sample is kept and
\* what is known of the percentiles.
MonitorInv ==
    TypeOK /\ OldSamplesLeave /\ Heaps /\ Births /\ Outweighed /\ Reported
=============================================================================
