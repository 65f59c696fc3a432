----------------------------- MODULE Histogram -----------------------------
(***************************************************************************)
(* A histogram over a sample in which newer values weigh more              *)
(* (src/pkg/stats/stats.go).  The sample is a heap, the lightest element   *)
(* first, which container/heap keeps by way of Less, Swap, Push and Pop.   *)
(* Here is what an iteration of its loops does; Monitor takes them one by  *)
(* one.                                                                    *)
(*                                                                         *)
(* Weights are on a logarithmic scale: where the code divides              *)
(* exp(decay * (t - start)) by rand.Float64(), pos is the sum of the two   *)
(* logarithms, draw being that of 1 / rand.Float64().  A percentile is a   *)
(* fraction Percent / Whole, and its result is in units of 1 / Whole.      *)
(*                                                                         *)
(* born and behind are history: the time of the update, and the updates    *)
(* since, up to the next rescaling, that outweigh the element by their     *)
(* time alone, or -1 after a rescaling.                                    *)
(***************************************************************************)
EXTENDS SequencesExt, Integers

CONSTANTS Size,             \* Histogram.size
          Decay,            \* Histogram.decay
          Resample,         \* Histogram.resample
          Percent, Whole    \* the percentile asked for

ASSUME HistogramAssumption ==
    /\ Size \in Nat \ {0} /\ Decay \in Nat \ {0} /\ Resample \in Nat \ {0}
    /\ Whole \in Nat \ {0} /\ Percent \in 0..Whole

New(t) == [sample |-> <<>>, start |-> t, horizon |-> t + Resample]

Less(s, i, j) == s[i].pos < s[j].pos
Swap(s, i, j) == [s EXCEPT ![i] = s[j], ![j] = s[i]]

\* heap.up: the element at i rises while it is lighter than the one above it.
Parent(i) == i \div 2
Rises(s, i) == i > 1 /\ Less(s, i, Parent(i))

\* heap.down: the element at i sinks while it is heavier than the lighter of those
\* below it, of the first n.
Child(s, i, n) == IF 2 * i + 1 <= n /\ Less(s, 2 * i + 1, 2 * i) THEN 2 * i + 1 ELSE 2 * i
Sinks(s, i, n) == Child(s, i, n) <= n /\ Less(s, Child(s, i, n), i)

\* MUTANT: the time of the update has no weight.
Undecayed(h, t, draw) == draw

Weight(h, t, draw) == (t - h.start) * Decay + draw

Age(h, t, e) ==
    [e EXCEPT !.behind = IF @ # -1 /\ e.pos < (t - h.start) * Decay THEN @ + 1 ELSE @]
Element(h, t, v, draw) == [pos |-> Weight(h, t, draw), value |-> v, born |-> t, behind |-> 0]

\* sample.Push, which the element will rise from.
Push(h, t, v, draw) ==
    [h EXCEPT !.sample = Append([i \in DOMAIN @ |-> Age(h, t, @[i])], Element(h, t, v, draw))]

\* The end of Update: past the horizon start is moved, but the weights of the elements
\* stay as they are, since the loop multiplies copies of them.
Rescaled(h, t) ==
    IF t > h.horizon
    THEN [sample |-> [i \in DOMAIN h.sample |-> [h.sample[i] EXCEPT !.behind = -1]],
          start |-> t, horizon |-> t + Resample]
    ELSE h

Values(h) == [i \in DOMAIN h.sample |-> h.sample[i].value]
Sorted(s) ==
    LET order == CHOOSE p \in [DOMAIN s -> DOMAIN s] :
                    /\ \A i, j \in DOMAIN s : i <= j => s[p[i]] <= s[p[j]]
                    /\ IsInjective(p)
    IN  [i \in DOMAIN s |-> s[order[i]]]

\* Percentile interpolates between the two values next to the position asked for.
Percentile(h) ==
    LET n == Len(h.sample)
        l == Sorted(Values(h))
        floor == (Percent * (n - 1)) \div Whole
        over == (Percent * (n - 1)) % Whole
    IN IF n = 0 THEN 0
       ELSE IF over = 0 THEN l[floor + 1] * Whole
       ELSE l[floor + 1] * (Whole - over) + l[floor + 2] * over
=============================================================================
