--------------------------- MODULE Process_proofs ---------------------------
(***************************************************************************)
(* Proofs about a service process, for any number of goroutines and calls: *)
(* the context's and the plugin's half of the invariant are shown to be    *)
(* inductive one by one, as the steps of either leave the other's          *)
(* variables alone and move pc between steps the other does not look at.   *)
(***************************************************************************)
EXTENDS Process, TLAPS

CtxSteps == {"count", "take", "made", "write", "return"}
PluginSteps == {"new", "existing", "swap", "dispose", "send", "sent"}

GoTypes == pc \in [Goroutines -> Steps] /\ calls \in [Goroutines -> 0..MaxCalls]
CtxInv == GoTypes /\ CtxTypeOK /\ Numbered /\ UniqueIDs /\ Reported
PluginInv == GoTypes /\ PluginTypeOK /\ Replaceable /\ InstalledAlive /\ Sequential

\* The invariant is the two halves.
LEMMA Halves == (IInv <=> CtxInv /\ PluginInv) /\ (IInv' <=> CtxInv' /\ PluginInv')
  BY DEF IInv, TypeOK, CtxInv, PluginInv, GoTypes

-----------------------------------------------------------------------------
(* Steps of a goroutine *)

\* A step or call of g moves g and no other goroutine.
LEMMA GoStep ==
    ASSUME GoTypes, NEW g \in Goroutines, NEW l \in Steps, Goto(g, l) \/ Call(g, l)
    PROVE  /\ GoTypes'
           /\ pc'[g] = l /\ \A h \in Goroutines : h # g => pc'[h] = pc[h]
           /\ \A h \in Goroutines : h # g => calls'[h] = calls[h]
           /\ Call(g, l) => calls'[g] \in 1..MaxCalls
  BY MaxCallsAssumption DEF GoTypes, Goto, Call

\* Labels are distinct as strings are, which SMT knows; this is what is used of it.
LEMMA StepNames == CtxSteps \subseteq Steps /\ PluginSteps \subseteq Steps /\ "idle" \in Steps
  BY DEF CtxSteps, PluginSteps, Steps
-----------------------------------------------------------------------------
(* Contexts *)

\* Nothing about the numbers changes while no goroutine enters or leaves the
\* steps at which it counts and takes one.
LEMMA NumbersKept ==
    ASSUME Numbered, UniqueIDs, UNCHANGED lockVars,
           \A h \in Goroutines : (pc'[h] = "take") = (pc[h] = "take"),
           \A h \in Goroutines : (pc'[h] = "made") = (pc[h] = "made")
    PROVE  Numbered' /\ UniqueIDs'
<1>0. muCtx' = muCtx /\ lastCtxID' = lastCtxID /\ nextID' = nextID /\ ids' = ids
  BY DEF lockVars
<1>1. \A h \in Goroutines : Given(h)' = Given(h)
  BY <1>0 DEF Given
<1>2. UniqueIDs'
  BY <1>0, <1>1 DEF UniqueIDs
<1>3. Numbered'
  BY <1>0, <1>1 DEF Numbered
<1> QED
  BY <1>2, <1>3

\* Nothing about the requests changes while no goroutine enters or leaves a Fire.
LEMMA ReportsKept ==
    ASSUME Reported, UNCHANGED fireVars,
           \A h \in Goroutines :
              /\ pc'[h] # "idle" => calls'[h] \in 1..MaxCalls
              /\ pc'[h] \in {"write", "return"} => pc'[h] = pc[h] /\ calls'[h] = calls[h]
    PROVE  Reported'
  BY DEF Reported, Request, fireVars

LEMMA NewContextKeeps ==
    ASSUME CtxInv, NEW g \in Goroutines, NewContext(g) PROVE CtxInv'
<1>1. Call(g, "count") /\ UNCHANGED lockVars /\ UNCHANGED fireVars /\ pc[g] = "idle"
  BY DEF NewContext, Call, ctxVars
<1>2. /\ GoTypes' /\ pc'[g] = "count" /\ calls'[g] \in 1..MaxCalls
      /\ \A h \in Goroutines : h # g => pc'[h] = pc[h] /\ calls'[h] = calls[h]
  BY <1>1, GoStep, StepNames DEF CtxInv, CtxSteps
<1>3. CtxTypeOK'
  BY <1>1 DEF CtxInv, CtxTypeOK, lockVars, fireVars
<1>4. Numbered' /\ UniqueIDs'
  BY <1>1, <1>2, NumbersKept DEF CtxInv
<1>5. Reported'
  BY <1>1, <1>2, ReportsKept DEF CtxInv, Reported
<1> QED
  BY <1>2, <1>3, <1>4, <1>5 DEF CtxInv

LEMMA CountKeeps ==
    ASSUME CtxInv, NEW g \in Goroutines, Count(g) PROVE CtxInv'
<1>1. Goto(g, "take") /\ pc[g] = "count" /\ UNCHANGED fireVars
  BY DEF Count
<1>2. /\ GoTypes' /\ pc'[g] = "take" /\ calls' = calls
      /\ \A h \in Goroutines : h # g => pc'[h] = pc[h]
  BY <1>1, GoStep, StepNames DEF CtxInv, CtxSteps, Goto
<1>3. CtxTypeOK'
  BY <1>1 DEF CtxInv, CtxTypeOK, fireVars, Count
<1>4. \A h \in Goroutines : Given(h)' = Given(h)
  BY <1>1, <1>2 DEF Given, Count
<1>5. UniqueIDs'
  BY <1>1, <1>2, <1>4 DEF CtxInv, UniqueIDs, Count
<1>6. Numbered'
  <2>1. \A h \in Goroutines : pc'[h] = "take" <=> muCtx' = h
    BY <1>1, <1>2, ContextAssumption DEF CtxInv, Numbered, Count
  <2>2. \A h \in Goroutines : Given(h)' \subseteq 1..lastCtxID
    BY <1>4 DEF CtxInv, Numbered
  <2>3. lastCtxID \in Nat /\ lastCtxID' = lastCtxID + 1
    BY DEF Count, CtxInv, CtxTypeOK
  <2> QED
    BY <2>1, <2>2, <2>3 DEF Numbered
<1>7. Reported'
  BY <1>1, <1>2, ReportsKept DEF CtxInv, Reported
<1> QED
  BY <1>2, <1>3, <1>5, <1>6, <1>7 DEF CtxInv

LEMMA TakeKeeps ==
    ASSUME CtxInv, NEW g \in Goroutines, Take(g) PROVE CtxInv'
<1>1. Goto(g, "made") /\ pc[g] = "take" /\ UNCHANGED fireVars
  BY DEF Take
<1>2. /\ GoTypes' /\ pc'[g] = "made" /\ calls' = calls
      /\ \A h \in Goroutines : h # g => pc'[h] = pc[h]
  BY <1>1, GoStep, StepNames DEF CtxInv, CtxSteps, Goto
<1>3. CtxTypeOK'
  BY <1>1 DEF CtxInv, CtxTypeOK, fireVars, Take
<1>4. \A h \in Goroutines : h # g => Given(h)' = Given(h)
  BY <1>1, <1>2 DEF Given, Take, CtxInv, CtxTypeOK
<1>5. Given(g)' = ids[g] \cup {lastCtxID} /\ Given(g) = ids[g] /\ ids' = ids
      /\ nextID'[g] = lastCtxID
  BY <1>1, <1>2 DEF Given, Take, CtxInv, CtxTypeOK
<1>6. \A h \in Goroutines : lastCtxID \notin Given(h)
  BY <1>1 DEF CtxInv, Numbered
<1>7. UniqueIDs'
  <2>1. \A a, b \in Goroutines : a # b => Given(a)' \cap Given(b)' = {}
    <3> SUFFICES ASSUME NEW a \in Goroutines, NEW b \in Goroutines, a # b
                 PROVE  Given(a)' \cap Given(b)' = {}
      OBVIOUS
    <3>1. Given(a) \cap Given(b) = {}
      BY DEF CtxInv, UniqueIDs
    <3>2. CASE a = g
      BY <3>1, <3>2, <1>4, <1>5, <1>6
    <3>3. CASE b = g
      BY <3>1, <3>3, <1>4, <1>5, <1>6
    <3>4. CASE a # g /\ b # g
      BY <3>1, <3>4, <1>4
    <3> QED
      BY <3>2, <3>3, <3>4
  <2>2. \A h \in Goroutines : pc'[h] = "made" => nextID'[h] \notin ids'[h]
    <3> SUFFICES ASSUME NEW h \in Goroutines, pc'[h] = "made" PROVE nextID'[h] \notin ids'[h]
      OBVIOUS
    <3>1. CASE h = g
      BY <3>1, <1>5, <1>6
    <3>2. CASE h # g
      BY <3>2, <1>2, <1>5 DEF CtxInv, UniqueIDs, Take, CtxTypeOK
    <3> QED
      BY <3>1, <3>2
  <2> QED
    BY <2>1, <2>2 DEF UniqueIDs
<1>8. Numbered'
  <2>1. \A h \in Goroutines : pc'[h] # "take" /\ muCtx' # h
    BY <1>1, <1>2, ContextAssumption DEF CtxInv, Numbered, Take
  <2>2. \A h \in Goroutines : Given(h)' \subseteq 1..lastCtxID'
    <3>1. lastCtxID' = lastCtxID /\ lastCtxID \in Nat
      BY DEF Take, CtxInv, CtxTypeOK
    <3>2. lastCtxID # 0
      BY <1>1 DEF CtxInv, Numbered
    <3> QED
      BY <3>1, <3>2, <1>4, <1>5 DEF CtxInv, Numbered
  <2> QED
    BY <2>1, <2>2 DEF Numbered
<1>9. Reported'
  BY <1>1, <1>2, ReportsKept DEF CtxInv, Reported
<1> QED
  BY <1>2, <1>3, <1>7, <1>8, <1>9 DEF CtxInv

LEMMA MadeKeeps ==
    ASSUME CtxInv, NEW g \in Goroutines, Made(g) PROVE CtxInv'
<1>1. Goto(g, "idle") /\ pc[g] = "made" /\ UNCHANGED fireVars
  BY DEF Made
<1>2. /\ GoTypes' /\ pc'[g] = "idle" /\ calls' = calls
      /\ \A h \in Goroutines : h # g => pc'[h] = pc[h]
  BY <1>1, GoStep, StepNames DEF CtxInv, Goto
<1>3. muCtx' = muCtx /\ lastCtxID' = lastCtxID /\ nextID' = nextID
  BY DEF Made
<1>4. \A h \in Goroutines : Given(h)' = Given(h)
  BY <1>1, <1>2, <1>3 DEF Given, Made, CtxInv, CtxTypeOK
<1>5. CtxTypeOK'
  <2>1. nextID[g] \in 1..lastCtxID
    BY <1>1 DEF CtxInv, Numbered, Given
  <2>2. ids' \in [Goroutines -> SUBSET (1..lastCtxID')]
    BY <2>1, <1>3 DEF CtxInv, CtxTypeOK, Made
  <2> QED
    BY <1>1, <1>3, <2>2 DEF CtxInv, CtxTypeOK, fireVars
<1>6. UniqueIDs'
  <2>1. \A h \in Goroutines : pc'[h] = "made" => pc[h] = "made" /\ ids'[h] = ids[h]
    BY <1>2 DEF Made, CtxInv, CtxTypeOK
  <2> QED
    BY <2>1, <1>3, <1>4 DEF CtxInv, UniqueIDs
<1>7. Numbered'
  BY <1>1, <1>2, <1>3, <1>4 DEF CtxInv, Numbered
<1>8. Reported'
  BY <1>1, <1>2, ReportsKept DEF CtxInv, Reported
<1> QED
  BY <1>2, <1>5, <1>6, <1>7, <1>8 DEF CtxInv

LEMMA FireKeeps ==
    ASSUME CtxInv, NEW g \in Goroutines, Fire(g) PROVE CtxInv'
<1>1. Call(g, "write") /\ pc[g] = "idle" /\ UNCHANGED lockVars /\ UNCHANGED <<err, logged, crashed>>
  BY DEF Fire, Call
<1>2. /\ GoTypes' /\ pc'[g] = "write" /\ calls'[g] \in 1..MaxCalls
      /\ \A h \in Goroutines : h # g => pc'[h] = pc[h] /\ calls'[h] = calls[h]
  BY <1>1, GoStep, StepNames DEF CtxInv, CtxSteps
<1>3. CtxTypeOK'
  BY <1>1, ContextAssumption DEF CtxInv, CtxTypeOK, lockVars, Fire
<1>4. Numbered' /\ UniqueIDs'
  BY <1>1, <1>2, NumbersKept DEF CtxInv
<1>5. Reported'
  <2>1. fires'[g] = 1 /\ \A h \in Goroutines : h # g => fires'[h] = fires[h]
    BY DEF Fire, CtxInv, CtxTypeOK
  <2> QED
    BY <1>1, <1>2, <2>1, ContextAssumption DEF CtxInv, Reported, Request
<1> QED
  BY <1>2, <1>3, <1>4, <1>5 DEF CtxInv

LEMMA WrittenKeeps ==
    ASSUME CtxInv, NEW g \in Goroutines, Written(g) PROVE CtxInv'
<1>1. Goto(g, "return") /\ pc[g] = "write" /\ UNCHANGED lockVars /\ UNCHANGED <<fires, encodes, crashed>>
  BY DEF Written
<1>2. /\ GoTypes' /\ pc'[g] = "return" /\ calls' = calls
      /\ \A h \in Goroutines : h # g => pc'[h] = pc[h]
  BY <1>1, GoStep, StepNames DEF CtxInv, CtxSteps, Goto
<1>3. Request(g) \in Goroutines \X (1..MaxCalls)
  BY <1>1 DEF CtxInv, Reported, Request
<1>4. CtxTypeOK'
  BY <1>1, <1>3 DEF CtxInv, CtxTypeOK, lockVars, Written
<1>5. Numbered' /\ UniqueIDs'
  BY <1>1, <1>2, NumbersKept DEF CtxInv
<1>6. Reported'
  <2>1. logged \subseteq logged' /\ (fires[g] > 1 => Request(g) \in logged')
    BY DEF Written
  <2>2. err'[g] = "nil" /\ \A h \in Goroutines : h # g => err'[h] = err[h]
    BY DEF Written, CtxInv, CtxTypeOK
  <2> QED
    BY <1>1, <1>2, <2>1, <2>2 DEF CtxInv, Reported, Request
<1> QED
  BY <1>2, <1>4, <1>5, <1>6 DEF CtxInv

LEMMA NotWrittenKeeps ==
    ASSUME CtxInv, NEW g \in Goroutines, NotWritten(g) PROVE CtxInv'
<1>1. pc' = pc /\ calls' = calls /\ pc[g] = "write" /\ UNCHANGED lockVars /\ err' = err /\ logged' = logged
  BY DEF NotWritten, goVars
<1>2. GoTypes'
  BY <1>1 DEF CtxInv, GoTypes
<1>3. /\ fires' \in [Goroutines -> 0..MaxDepth] /\ fires'[g] \in 1..MaxDepth
      /\ \A h \in Goroutines : h # g => fires'[h] = fires[h]
  BY ContextAssumption DEF NotWritten, CtxInv, CtxTypeOK, Reported
<1>4. CtxTypeOK'
  BY <1>1, <1>3 DEF CtxInv, CtxTypeOK, lockVars, NotWritten
<1>5. Numbered' /\ UniqueIDs'
  BY <1>1, NumbersKept DEF CtxInv
<1>6. Reported'
  BY <1>1, <1>3 DEF CtxInv, Reported, Request
<1> QED
  BY <1>2, <1>4, <1>5, <1>6 DEF CtxInv

LEMMA ReturnKeeps ==
    ASSUME CtxInv, NEW g \in Goroutines, Return(g) PROVE CtxInv'
<1>1. pc[g] = "return" /\ UNCHANGED lockVars /\ logged' = logged /\ encodes' = encodes /\ crashed' = crashed
  BY DEF Return
<1>2. /\ GoTypes' /\ calls' = calls /\ \A h \in Goroutines : h # g => pc'[h] = pc[h]
      /\ pc'[g] = IF fires[g] > 1 THEN "return" ELSE "idle"
  <2>1. CASE fires[g] > 1
    BY <1>1, <2>1 DEF CtxInv, GoTypes, Return, goVars
  <2>2. CASE ~(fires[g] > 1)
    BY <1>1, <2>2, GoStep, StepNames DEF CtxInv, Return, Goto
  <2> QED
    BY <2>1, <2>2
<1>3. /\ fires' \in [Goroutines -> 0..MaxDepth] /\ fires'[g] = fires[g] - 1
      /\ \A h \in Goroutines : h # g => fires'[h] = fires[h]
      /\ fires[g] \in 1..MaxDepth
  BY <1>1, ContextAssumption DEF Return, CtxInv, CtxTypeOK, Reported
<1>4. CtxTypeOK'
  BY <1>1, <1>3 DEF CtxInv, CtxTypeOK, lockVars, Return
<1>5. Numbered' /\ UniqueIDs'
  BY <1>1, <1>2, NumbersKept DEF CtxInv
<1>6. Reported'
  <2>1. \A h \in Goroutines : h # g => err'[h] = err[h]
    BY DEF Return, CtxInv, CtxTypeOK
  <2>2. pc'[g] = "return" => fires[g] > 1
    BY <1>2
  <2> QED
    BY <1>1, <1>2, <1>3, <2>1, <2>2, ContextAssumption DEF CtxInv, Reported, Request
<1> QED
  BY <1>2, <1>4, <1>5, <1>6 DEF CtxInv

LEMMA CtxKeeps ==
    ASSUME CtxInv, NEW g \in Goroutines, CtxCall(g) \/ CtxStep(g) PROVE CtxInv'
  BY NewContextKeeps, FireKeeps, CountKeeps, TakeKeeps, MadeKeeps, WrittenKeeps,
     NotWrittenKeeps, ReturnKeeps DEF CtxCall, CtxStep

\* A step on the handler moves g within it, or in or out of it.
LEMMA PluginMoves ==
    ASSUME GoTypes, NEW g \in Goroutines, PluginCall(g) \/ PluginStep(g)
    PROVE  /\ GoTypes'
           /\ pc[g] \in PluginSteps \cup {"idle"} /\ pc'[g] \in PluginSteps \cup {"idle"}
           /\ pc'[g] # "idle" => calls'[g] \in 1..MaxCalls \/ (pc[g] # "idle" /\ calls'[g] = calls[g])
           /\ \A h \in Goroutines : h # g => pc'[h] = pc[h] /\ calls'[h] = calls[h]
<1>1. CASE PluginCall(g)
  <2>1. PICK l \in PluginSteps : Call(g, l)
    BY <1>1 DEF PluginCall, Configure, Update, Begin, PluginSteps
  <2> QED
    BY <2>1, GoStep, StepNames DEF Call
<1>2. CASE PluginStep(g)
  <2>1. /\ pc[g] \in PluginSteps
        /\ \E l \in PluginSteps \cup {"idle"} : Goto(g, l)
    BY <1>2 DEF PluginStep, Send, Sent, Load, ReadExisting, Swap, Dispose, PluginSteps
  <2>2. PICK l \in PluginSteps \cup {"idle"} : Goto(g, l)
    BY <2>1
  <2> QED
    BY <2>1, <2>2, GoStep, StepNames DEF Goto, PluginSteps
<1> QED
  BY <1>1, <1>2

LEMMA CtxAlone ==
    ASSUME CtxInv, NEW g \in Goroutines, PluginCall(g) \/ PluginStep(g), UNCHANGED ctxVars
    PROVE  CtxInv'
<1>1. UNCHANGED lockVars /\ UNCHANGED fireVars
  BY DEF ctxVars
<1>2. /\ GoTypes'
      /\ pc[g] \in PluginSteps \cup {"idle"} /\ pc'[g] \in PluginSteps \cup {"idle"}
      /\ pc'[g] # "idle" => calls'[g] \in 1..MaxCalls \/ (pc[g] # "idle" /\ calls'[g] = calls[g])
      /\ \A h \in Goroutines : h # g => pc'[h] = pc[h] /\ calls'[h] = calls[h]
  BY PluginMoves DEF CtxInv
<1>3. CtxTypeOK'
  BY <1>1 DEF CtxInv, CtxTypeOK, lockVars, fireVars
<1>4. Numbered' /\ UniqueIDs'
  BY <1>1, <1>2, NumbersKept DEF CtxInv, PluginSteps
<1>5. Reported'
  BY <1>1, <1>2, ReportsKept DEF CtxInv, Reported, PluginSteps
<1> QED
  BY <1>2, <1>3, <1>4, <1>5 DEF CtxInv
-----------------------------------------------------------------------------
(* The handler of a plugin *)

LEMMA CtxMoves ==
    ASSUME CtxInv, CtxInv', NEW g \in Goroutines, CtxCall(g) \/ CtxStep(g)
    PROVE  /\ pc[g] \notin PluginSteps /\ pc'[g] \notin PluginSteps
           /\ \A h \in Goroutines : h # g => pc'[h] = pc[h]
<1>1. CASE NotWritten(g)
  BY <1>1 DEF NotWritten, goVars, PluginSteps
<1>2. CASE Return(g) /\ UNCHANGED goVars
  BY <1>2 DEF Return, goVars, PluginSteps
<1>3. CASE ~NotWritten(g) /\ ~(Return(g) /\ UNCHANGED goVars)
  <2>1. pc[g] \in CtxSteps \cup {"idle"} /\ \E l \in CtxSteps \cup {"idle"} : Goto(g, l) \/ Call(g, l)
    BY <1>3 DEF CtxCall, CtxStep, NewContext, Fire, Count, Take, Made, Written, Return, CtxSteps, Call
  <2>2. PICK l \in CtxSteps \cup {"idle"} : Goto(g, l) \/ Call(g, l)
    BY <2>1
  <2>3. pc'[g] = l /\ \A h \in Goroutines : h # g => pc'[h] = pc[h]
    BY <2>2, GoStep, StepNames DEF CtxInv
  <2> QED
    BY <2>1, <2>2, <2>3 DEF CtxSteps, PluginSteps
<1> QED
  BY <1>1, <1>2, <1>3

LEMMA PluginAlone ==
    ASSUME PluginInv, CtxInv, CtxInv', NEW g \in Goroutines, CtxCall(g) \/ CtxStep(g),
           UNCHANGED pluginVars
    PROVE  PluginInv'
<1>1. \A h \in Goroutines : pc'[h] \in PluginSteps \/ pc[h] \in PluginSteps => pc'[h] = pc[h]
  BY CtxMoves
<1>2. \A h \in Goroutines : /\ Waiting(h)' = Waiting(h) /\ InHandler(h)' = InHandler(h)
                           /\ (pc'[h] = "dispose") = (pc[h] = "dispose")
                           /\ (pc'[h] \in {"swap", "sent"}) = (pc[h] \in {"swap", "sent"})
  BY <1>1 DEF Waiting, InHandler, PluginSteps
<1>3. /\ w' = w /\ created' = created /\ loaded' = loaded /\ disposed' = disposed
      /\ mine' = mine /\ existing' = existing /\ overlap' = overlap
  BY DEF pluginVars
<1>4. PluginTypeOK' /\ InstalledAlive'
  BY <1>3 DEF PluginInv, PluginTypeOK, InstalledAlive
<1>5. Replaceable'
  BY <1>2, <1>3 DEF PluginInv, Replaceable
<1>6. Sequential'
  BY <1>2, <1>3 DEF PluginInv, Sequential
<1> QED
  BY <1>4, <1>5, <1>6 DEF PluginInv, CtxInv

LEMMA BeginKeeps ==
    ASSUME PluginInv, NEW g \in Goroutines, PluginCall(g) PROVE PluginInv'
<1>1. PICK l \in {"send", "new"} :
         /\ Begin(g, l) /\ w' = w /\ created' = created /\ loaded' = loaded
         /\ disposed' = disposed /\ mine' = mine /\ existing' = existing
  BY DEF PluginCall, Configure, Update
<1>2. /\ GoTypes' /\ pc'[g] = l /\ \A h \in Goroutines : h # g => pc'[h] = pc[h]
      /\ pc[g] = "idle"
  BY <1>1, GoStep, StepNames DEF PluginInv, PluginSteps, Begin, Call
<1>3. overlap' = (overlap \/ InUse)
  BY <1>1 DEF Begin
<1>4. PluginTypeOK' /\ InstalledAlive'
  BY <1>1, <1>3 DEF PluginInv, PluginTypeOK, InstalledAlive
<1>5. Replaceable'
  BY <1>1, <1>2 DEF PluginInv, Replaceable, Waiting
<1>6. Sequential'
  <2> SUFFICES ASSUME ~overlap' PROVE Sequential'
    BY DEF Sequential
  <2>1. ~overlap /\ \A h \in Goroutines : ~InHandler(h)
    BY <1>3 DEF InUse
  <2>2. \A h \in Goroutines : h # g => ~InHandler(h)'
    BY <2>1, <1>2 DEF InHandler
  <2> QED
    BY <1>1, <1>2, <2>1, <2>2 DEF PluginInv, Sequential, Waiting, InHandler
<1> QED
  BY <1>2, <1>4, <1>5, <1>6 DEF PluginInv

LEMMA SendKeeps ==
    ASSUME PluginInv, NEW g \in Goroutines, Send(g) PROVE PluginInv'
<1>1. pc[g] = "send" /\ Goto(g, "sent")
  BY DEF Send
<1>2. /\ GoTypes' /\ pc'[g] = "sent" /\ \A h \in Goroutines : h # g => pc'[h] = pc[h]
  BY <1>1, GoStep, StepNames DEF PluginInv, PluginSteps
<1>3. /\ w' = w /\ created' = created /\ loaded' = loaded /\ disposed' = disposed
      /\ mine' = mine /\ overlap' = overlap /\ existing' = [existing EXCEPT ![g] = w]
  BY DEF Send
<1>4. PluginTypeOK' /\ InstalledAlive'
  BY <1>3 DEF PluginInv, PluginTypeOK, InstalledAlive
<1>5. Replaceable'
  BY <1>1, <1>2, <1>3 DEF PluginInv, PluginTypeOK, Replaceable, Waiting
<1>6. Sequential'
  BY <1>1, <1>2, <1>3 DEF PluginInv, PluginTypeOK, Sequential, Waiting, InHandler
<1> QED
  BY <1>2, <1>4, <1>5, <1>6 DEF PluginInv

LEMMA SentKeeps ==
    ASSUME PluginInv, NEW g \in Goroutines, Sent(g) PROVE PluginInv'
<1>1. pc[g] = "sent" /\ Goto(g, "idle")
  BY DEF Sent
<1>2. /\ GoTypes' /\ pc'[g] = "idle" /\ \A h \in Goroutines : h # g => pc'[h] = pc[h]
  BY <1>1, GoStep, StepNames DEF PluginInv, PluginSteps
<1>3. /\ w' = w /\ created' = created /\ loaded' = loaded /\ disposed' = disposed
      /\ mine' = mine /\ overlap' = overlap /\ existing' = existing
  BY DEF Sent, pluginVars
<1>4. PluginTypeOK' /\ InstalledAlive'
  BY <1>3 DEF PluginInv, PluginTypeOK, InstalledAlive
<1>5. Replaceable'
  BY <1>1, <1>2, <1>3 DEF PluginInv, Replaceable, Waiting
<1>6. Sequential'
  BY <1>1, <1>2, <1>3 DEF PluginInv, Sequential, Waiting, InHandler
<1> QED
  BY <1>2, <1>4, <1>5, <1>6 DEF PluginInv

LEMMA ReadKeeps ==
    ASSUME PluginInv, NEW g \in Goroutines, ReadExisting(g) PROVE PluginInv'
<1>1. pc[g] = "existing" /\ Goto(g, "swap")
  BY DEF ReadExisting
<1>2. /\ GoTypes' /\ pc'[g] = "swap" /\ \A h \in Goroutines : h # g => pc'[h] = pc[h]
  BY <1>1, GoStep, StepNames DEF PluginInv, PluginSteps
<1>3. /\ w' = w /\ created' = created /\ loaded' = loaded /\ disposed' = disposed
      /\ mine' = mine /\ overlap' = overlap /\ existing' = [existing EXCEPT ![g] = w]
  BY DEF ReadExisting
<1>4. PluginTypeOK' /\ InstalledAlive'
  BY <1>3 DEF PluginInv, PluginTypeOK, InstalledAlive
<1>5. Replaceable'
  BY <1>1, <1>2, <1>3 DEF PluginInv, PluginTypeOK, Replaceable, Waiting
<1>6. Sequential'
  BY <1>1, <1>2, <1>3 DEF PluginInv, PluginTypeOK, Sequential, Waiting, InHandler
<1> QED
  BY <1>2, <1>4, <1>5, <1>6 DEF PluginInv

LEMMA SwapKeeps ==
    ASSUME PluginInv, NEW g \in Goroutines, Swap(g) PROVE PluginInv'
<1>1. pc[g] = "swap" /\ Goto(g, "dispose")
  BY DEF Swap
<1>2. /\ GoTypes' /\ pc'[g] = "dispose" /\ \A h \in Goroutines : h # g => pc'[h] = pc[h]
  BY <1>1, GoStep, StepNames DEF PluginInv, PluginSteps
<1>3. /\ w' = mine[g] /\ created' = created /\ loaded' = loaded /\ disposed' = disposed
      /\ mine' = mine /\ overlap' = overlap /\ existing' = existing
  BY DEF Swap
<1>4. PluginTypeOK' /\ InstalledAlive'
  BY <1>1, <1>3 DEF PluginInv, PluginTypeOK, InstalledAlive, Replaceable, Waiting
<1>5. Replaceable'
  BY <1>1, <1>2, <1>3 DEF PluginInv, Replaceable, Waiting
<1>6. Sequential'
  <2> SUFFICES ASSUME ~overlap PROVE Sequential'
    BY <1>3 DEF Sequential
  <2>1. \A h \in Goroutines : h # g => ~InHandler(h) /\ ~InHandler(h)'
    BY <1>1, <1>2 DEF PluginInv, Sequential, InHandler
  <2>2. existing[g] = w /\ disposed[w] = 0
    BY <1>1 DEF PluginInv, Sequential, InstalledAlive
  <2> QED
    BY <1>1, <1>2, <1>3, <2>1, <2>2 DEF PluginInv, Sequential, Waiting, InHandler
<1> QED
  BY <1>2, <1>4, <1>5, <1>6 DEF PluginInv

LEMMA DisposeKeeps ==
    ASSUME PluginInv, NEW g \in Goroutines, Dispose(g) PROVE PluginInv'
<1>1. pc[g] = "dispose" /\ Goto(g, "idle")
  BY DEF Dispose
<1>2. /\ GoTypes' /\ pc'[g] = "idle" /\ \A h \in Goroutines : h # g => pc'[h] = pc[h]
  BY <1>1, GoStep, StepNames DEF PluginInv, PluginSteps
<1>3. /\ w' = w /\ created' = created /\ loaded' = loaded /\ overlap' = overlap
      /\ mine' = mine /\ existing' = existing
      /\ disposed' = [disposed EXCEPT ![existing[g]] = IF @ = 0 THEN 1 ELSE 2]
  BY DEF Dispose
<1>4. PluginTypeOK' /\ InstalledAlive'
  <2>1. disposed' \in [0..created -> 0..2]
    <3>1. disposed \in [0..created -> 0..2] /\ existing[g] \in 0..created
      BY DEF PluginInv, PluginTypeOK
    <3>2. 1 \in 0..2 /\ 2 \in 0..2
      OBVIOUS
    <3> QED
      BY <1>3, <3>1, <3>2
  <2>2. existing[g] # w
    BY <1>1 DEF PluginInv, Replaceable
  <2> QED
    BY <1>3, <2>1, <2>2 DEF PluginInv, PluginTypeOK, InstalledAlive
<1>5. Replaceable'
  <2>1. \A h \in Goroutines : Waiting(h)' => Waiting(h) /\ disposed'[mine[h]] = disposed[mine[h]]
    BY <1>1, <1>2, <1>3 DEF PluginInv, PluginTypeOK, Replaceable, Waiting
  <2> QED
    BY <1>1, <1>2, <1>3, <2>1 DEF PluginInv, Replaceable
<1>6. Sequential'
  <2> SUFFICES ASSUME ~overlap PROVE Sequential'
    BY <1>3 DEF Sequential
  <2>1. \A h \in Goroutines : h # g => ~InHandler(h) /\ ~InHandler(h)'
    BY <1>1, <1>2 DEF PluginInv, Sequential, InHandler
  <2>2. /\ existing[g] \in loaded /\ loaded \subseteq DOMAIN disposed
        /\ disposed'[existing[g]] = 1
        /\ \A v \in loaded : v # existing[g] => disposed'[v] = disposed[v]
    BY <1>1, <1>3 DEF PluginInv, PluginTypeOK, Sequential
  <2> QED
    BY <1>1, <1>2, <1>3, <2>1, <2>2 DEF PluginInv, Sequential, Waiting, InHandler
<1> QED
  BY <1>2, <1>4, <1>5, <1>6 DEF PluginInv

LEMMA LoadKeeps ==
    ASSUME PluginInv, NEW g \in Goroutines, Load(g) PROVE PluginInv'
<1>1. /\ pc[g] = "new" /\ w' = w /\ existing' = existing /\ overlap' = overlap
      /\ created' = created + 1 /\ created \in Nat
      /\ disposed' = [v \in 0..created' |-> IF v = created' THEN 0 ELSE disposed[v]]
  BY DEF Load, PluginInv, PluginTypeOK
<1>2. /\ disposed' \in [0..created' -> 0..2] /\ disposed'[created'] = 0
      /\ \A v \in 0..created : v \in 0..created' /\ v # created' /\ disposed'[v] = disposed[v]
      /\ created' \in 0..created' /\ created' \notin loaded
  BY <1>1 DEF PluginInv, PluginTypeOK
<1>3. CASE Goto(g, "idle") /\ UNCHANGED <<loaded, mine>>
  <2>2. /\ GoTypes' /\ pc'[g] = "idle" /\ \A h \in Goroutines : h # g => pc'[h] = pc[h]
    BY <1>3, GoStep, StepNames DEF PluginInv, PluginSteps
  <2>4. PluginTypeOK' /\ InstalledAlive'
    BY <1>1, <1>2, <1>3 DEF PluginInv, PluginTypeOK, InstalledAlive
  <2>5. Replaceable'
    BY <1>1, <1>2, <1>3, <2>2 DEF PluginInv, PluginTypeOK, Replaceable, Waiting
  <2>6. Sequential'
    BY <1>1, <1>2, <1>3, <2>2 DEF PluginInv, PluginTypeOK, Sequential, Waiting, InHandler
  <2> QED
    BY <2>2, <2>4, <2>5, <2>6 DEF PluginInv
<1>4. CASE /\ Goto(g, "existing") /\ loaded' = loaded \cup {created'}
           /\ mine' = [mine EXCEPT ![g] = created']
  <2>2. /\ GoTypes' /\ pc'[g] = "existing" /\ \A h \in Goroutines : h # g => pc'[h] = pc[h]
    BY <1>4, GoStep, StepNames DEF PluginInv, PluginSteps
  <2>3. /\ mine'[g] = created' /\ \A h \in Goroutines : h # g => mine'[h] = mine[h]
        /\ \A h \in Goroutines : mine[h] \in 0..created /\ existing[h] \in 0..created
        /\ w \in 0..created
    BY <1>4 DEF PluginInv, PluginTypeOK
  <2>4. PluginTypeOK' /\ InstalledAlive'
    BY <1>1, <1>2, <1>4 DEF PluginInv, PluginTypeOK, InstalledAlive
  <2>5. Replaceable'
    BY <1>1, <1>2, <1>4, <2>2, <2>3 DEF PluginInv, Replaceable, Waiting
  <2>6. Sequential'
    <3> SUFFICES ASSUME ~overlap PROVE Sequential'
      BY <1>1 DEF Sequential
    <3>1. \A h \in Goroutines : h # g => ~InHandler(h) /\ ~InHandler(h)'
      BY <1>1, <2>2 DEF PluginInv, Sequential, InHandler
    <3>2. \A v \in loaded : v \in 0..created /\ disposed'[v] = disposed[v]
      BY <1>2 DEF PluginInv, PluginTypeOK
    <3>3. Waiting(g)' /\ ~Waiting(g) /\ pc[g] # "dispose"
      BY <1>1, <2>2 DEF Waiting
    <3>4. \A v \in loaded : disposed[v] <= 1 /\ (disposed[v] = 0 => v = w)
      BY <3>1, <3>3 DEF PluginInv, Sequential, Waiting, InHandler
    <3> QED
      BY <1>1, <1>2, <1>4, <2>2, <2>3, <3>1, <3>2, <3>3, <3>4 DEF Sequential, InHandler
  <2> QED
    BY <2>2, <2>4, <2>5, <2>6 DEF PluginInv
<1> QED
  BY <1>3, <1>4 DEF Load

LEMMA PluginKeeps ==
    ASSUME PluginInv, NEW g \in Goroutines, PluginCall(g) \/ PluginStep(g) PROVE PluginInv'
  BY BeginKeeps, SendKeeps, SentKeeps, LoadKeeps, ReadKeeps, SwapKeeps, DisposeKeeps DEF PluginStep
-----------------------------------------------------------------------------
(* The process *)

\* The invariant holds at the start.
LEMMA InitInv == Init => IInv
<1> SUFFICES ASSUME Init PROVE IInv
  OBVIOUS
<1>1. GoTypes /\ \A g \in Goroutines : pc[g] = "idle"
  BY MaxCallsAssumption DEF Init, GoInit, GoTypes, Steps
<1>2. CtxInv
  <2>1. CtxTypeOK
    <3>1. 0..0 = {0} /\ 1..0 = {} /\ 0 \in 0..MaxDepth
      BY ContextAssumption
    <3> QED
      BY <3>1 DEF Init, CtxInit, CtxTypeOK
  <2>2. \A g \in Goroutines : Given(g) = {}
    BY <1>1 DEF Init, CtxInit, Given
  <2>3. Numbered /\ UniqueIDs
    BY <1>1, <2>2, ContextAssumption DEF Init, CtxInit, Numbered, UniqueIDs
  <2>4. Reported
    BY <1>1 DEF Reported
  <2> QED
    BY <1>1, <2>1, <2>3, <2>4 DEF CtxInv
<1>3. PluginInv
  <2>1. PluginTypeOK /\ InstalledAlive
    <3>1. 0..0 = {0} /\ 0 \in 0..2
      OBVIOUS
    <3> QED
      BY <3>1 DEF Init, PluginInit, PluginTypeOK, InstalledAlive
  <2>2. Replaceable
    BY <1>1 DEF Replaceable, Waiting
  <2>3. Sequential
    BY <1>1 DEF Init, PluginInit, Sequential, InHandler
  <2> QED
    BY <1>1, <2>1, <2>2, <2>3 DEF PluginInv
<1> QED
  BY <1>2, <1>3, Halves

\* Every step preserves it.
LEMMA StepInv == IInv /\ [Next]_vars => IInv'
<1> SUFFICES ASSUME CtxInv, PluginInv, [Next]_vars PROVE CtxInv' /\ PluginInv'
  BY Halves
<1>1. CASE UNCHANGED vars
  <2>1. /\ pc' = pc /\ calls' = calls /\ UNCHANGED lockVars /\ UNCHANGED fireVars
        /\ UNCHANGED pluginVars
    BY <1>1 DEF vars, goVars, ctxVars
  <2>2. CtxInv'
    <3>1. Numbered' /\ UniqueIDs'
      BY <2>1, NumbersKept DEF CtxInv
    <3> QED
      BY <2>1, <3>1 DEF CtxInv, GoTypes, CtxTypeOK, Reported, Request, lockVars, fireVars
  <2>3. PluginInv'
    BY <2>1 DEF PluginInv, GoTypes, PluginTypeOK, Replaceable, Waiting, InstalledAlive,
                Sequential, InHandler, pluginVars
  <2> QED
    BY <2>2, <2>3
<1>2. CASE Next
  <2>1. PICK g \in Goroutines : Begins(g) \/ Continues(g)
    BY <1>2 DEF Next
  <2>2. CASE (CtxCall(g) \/ CtxStep(g)) /\ UNCHANGED pluginVars
    BY <2>2, CtxKeeps, PluginAlone
  <2>3. CASE (PluginCall(g) \/ PluginStep(g)) /\ UNCHANGED ctxVars
    BY <2>3, PluginKeeps, CtxAlone
  <2> QED
    BY <2>1, <2>2, <2>3 DEF Begins, Continues
<1> QED
  BY <1>1, <1>2

\* The inductive invariant holds, for any number of goroutines and calls.
THEOREM ProcessInvariant == Spec => []IInv
  BY InitInv, StepInv, PTL DEF Spec

\* Contexts made by any number of goroutines have different numbers.
THEOREM ProcessNumbersContexts == Spec => []UniqueIDs
<1>1. IInv => UniqueIDs
  BY DEF IInv
<1> QED
  BY <1>1, ProcessInvariant, PTL

\* A Fire that returns an error has left an entry with the log service, however
\* many of them there is room for on a stack.
THEOREM ProcessReportsFailures == Spec => []FailureReported
<1>1. IInv => FailureReported
  BY DEF IInv, Reported, FailureReported
<1> QED
  BY <1>1, ProcessInvariant, PTL

\* The handler of a plugin never holds a worker that has been disposed of.
THEOREM ProcessKeepsWorker == Spec => []InstalledAlive
<1>1. IInv => InstalledAlive
  BY DEF IInv
<1> QED
  BY <1>1, ProcessInvariant, PTL

\* One worker at a time lives, while the calls on the handler do not overlap.
THEOREM ProcessHasOneWorker == Spec => []OneWorker
<1>1. IInv => OneWorker
  <2> SUFFICES ASSUME IInv, ~overlap PROVE OneWorker
    BY DEF OneWorker
  <2>1. \A v \in loaded : disposed[v] <= 1
    BY DEF IInv, Sequential
  <2>2. ~InUse => {v \in loaded : disposed[v] = 0} = {w}
    BY DEF IInv, TypeOK, PluginTypeOK, Sequential, InstalledAlive, InUse, InHandler, Waiting
  <2>3. \A g \in Goroutines : pc[g] = "sent" => disposed[existing[g]] = 0
    BY DEF IInv, Sequential, InstalledAlive
  <2> QED
    BY <2>1, <2>2, <2>3 DEF OneWorker
<1> QED
  BY <1>1, ProcessInvariant, PTL
=============================================================================
