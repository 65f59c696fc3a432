------------------------------ MODULE Process -------------------------------
(***************************************************************************)
(* A service process: goroutines that make and use contexts and call the   *)
(* handler of a plugin, one step of one goroutine at a time.               *)
(***************************************************************************)
EXTENDS Context, Plugin

vars == <<goVars, ctxVars, pluginVars>>

Init == GoInit /\ CtxInit /\ PluginInit

Begins(g) ==
    /\ ~crashed
    /\ \/ CtxCall(g) /\ UNCHANGED pluginVars
       \/ PluginCall(g) /\ UNCHANGED ctxVars

Continues(g) ==
    /\ ~crashed
    /\ \/ CtxStep(g) /\ UNCHANGED pluginVars
       \/ PluginStep(g) /\ UNCHANGED ctxVars

Next == \E g \in Goroutines : Begins(g) \/ Continues(g)

\* The scheduler runs every goroutine that can go on, and a mutex goes to
\* whoever waits for it long enough (Go's starvation mode); nobody has to begin
\* a call.
Fairness == \A g \in Goroutines : SF_vars(Continues(g))

Spec == Init /\ [][Next]_vars
FairSpec == Spec /\ Fairness
-----------------------------------------------------------------------------
Steps == {"idle", "count", "take", "made", "write", "return",
          "new", "existing", "swap", "dispose", "send", "sent"}

\* The worker of g's Update has not been installed yet.
Waiting(g) == pc[g] \in {"existing", "swap"}

TypeOK ==
    /\ pc \in [Goroutines -> Steps] /\ calls \in [Goroutines -> 0..MaxCalls]
    /\ CtxTypeOK /\ PluginTypeOK

\* The lock is held by the goroutine that is about to read the number it has
\* counted, and nobody has been given that number.
Numbered ==
    /\ \A g \in Goroutines : pc[g] = "take" <=> muCtx = g
    /\ \A g \in Goroutines :
          pc[g] = "take" => lastCtxID # 0 /\ \A h \in Goroutines : lastCtxID \notin Given(h)
    /\ \A g \in Goroutines : Given(g) \subseteq 1..lastCtxID

\* Between a Fire that has failed and its return there is an entry.
Reported ==
    \A g \in Goroutines :
        /\ pc[g] # "idle" => calls[g] \in 1..MaxCalls
        /\ pc[g] \in {"write", "return"} => fires[g] \in 1..MaxDepth
        /\ pc[g] = "return" /\ (fires[g] > 1 \/ err[g] = "error") => Request(g) \in logged

\* A worker that is loaded is known to its Update alone until it is installed,
\* and what an Update disposes of is not installed any more.
Replaceable ==
    /\ \A g \in Goroutines : Waiting(g) =>
          /\ disposed[mine[g]] = 0 /\ mine[g] # w
          /\ \A h \in Goroutines : existing[h] # mine[g]
          /\ \A h \in Goroutines : Waiting(h) /\ h # g => mine[h] # mine[g]
    /\ \A g \in Goroutines : pc[g] = "dispose" => existing[g] # w

\* While no calls have overlapped, a worker that lives is the handler's, or that
\* of the one call in progress.
Sequential ==
    ~overlap =>
        /\ \A g, h \in Goroutines : InHandler(g) /\ InHandler(h) => g = h
        /\ \A v \in loaded : disposed[v] <= 1
        /\ \A v \in loaded :
              disposed[v] = 0 => \/ v = w
                                 \/ \E g \in Goroutines : \/ Waiting(g) /\ v = mine[g]
                                                          \/ pc[g] = "dispose" /\ v = existing[g]
        /\ \A g \in Goroutines : pc[g] \in {"swap", "sent"} => existing[g] = w
        /\ \A g \in Goroutines : pc[g] = "dispose" => disposed[existing[g]] = 0

\* The inductive invariant of UniqueIDs, FailureReported, InstalledAlive and
\* OneWorker.
IInv ==
    /\ TypeOK
    /\ Numbered /\ UniqueIDs
    /\ Reported
    /\ Replaceable /\ InstalledAlive /\ Sequential

\* A call returns, unless the process runs out of stack: nobody is kept waiting
\* for muCtx, and a Fire does not report failures for ever (context.go:29-36,
\* 112-115; plugin.go:18-35).
CallsReturn ==
    \A g \in Goroutines : pc[g] # "idle" ~> pc[g] = "idle" \/ crashed
=============================================================================
