------------------------------ MODULE Context ------------------------------
(***************************************************************************)
(* The contexts of a service (src/pkg/elko/context.go): NewContext numbers *)
(* them under muCtx, and Fire reports a request it could not write to the  *)
(* log service, by a Fire that may fail as well.                           *)
(*                                                                         *)
(* WriteReq is external: it fails for arguments that cannot be encoded,    *)
(* and may fail for other reasons.  A log entry carries the arguments it   *)
(* is about, so it cannot be encoded either, and so on, until the stack is *)
(* used up, which ends a Go process.  Log, Logf and LogData fire an entry  *)
(* too: they are Fires of the service like any other.                      *)
(***************************************************************************)
EXTENDS Goroutines

CONSTANTS Nobody,
          MaxDepth   \* bound: the Fires there is room for on a stack

ASSUME ContextAssumption == Nobody \notin Goroutines /\ MaxDepth \in Nat \ {0}

VARIABLES muCtx,      \* who holds the lock
          lastCtxID,
          nextID,     \* nextID[g]: the number NewContext has taken
          ids,        \* ids[g]: the contexts g has been given
          fires,      \* fires[g]: the Fires on g's stack, all but one for log entries
          encodes,    \* encodes[g]: the arguments of the first can be encoded
          err,        \* err[g]: what the Fire that is returning returns
          logged,     \* the requests the log service has an entry about
          crashed     \* the process has run out of stack

lockVars == <<muCtx, lastCtxID, nextID, ids>>
fireVars == <<fires, encodes, err, logged, crashed>>
ctxVars == <<lockVars, fireVars>>

CtxInit ==
    /\ muCtx = Nobody /\ lastCtxID = 0
    /\ nextID = [g \in Goroutines |-> 0] /\ ids = [g \in Goroutines |-> {}]
    /\ fires = [g \in Goroutines |-> 0] /\ encodes = [g \in Goroutines |-> TRUE]
    /\ err = [g \in Goroutines |-> "nil"] /\ logged = {} /\ crashed = FALSE

Request(g) == <<g, calls[g]>>
-----------------------------------------------------------------------------
(* NewContext *)

NewContext(g) == Call(g, "count") /\ UNCHANGED ctxVars

\* MUTANT: the counter is not locked.
CountFreely(g) ==
    /\ pc[g] = "count" /\ Goto(g, "take") /\ lastCtxID' = lastCtxID + 1
    /\ UNCHANGED <<muCtx, nextID, ids, fireVars>>

Count(g) ==
    /\ pc[g] = "count" /\ muCtx = Nobody
    /\ muCtx' = g /\ lastCtxID' = lastCtxID + 1 /\ Goto(g, "take")
    /\ UNCHANGED <<nextID, ids, fireVars>>

\* MUTANT: the lock is kept.
TakeLocked(g) ==
    /\ pc[g] = "take" /\ Goto(g, "made")
    /\ nextID' = [nextID EXCEPT ![g] = lastCtxID]
    /\ UNCHANGED <<muCtx, lastCtxID, ids, fireVars>>

Take(g) ==
    /\ pc[g] = "take" /\ Goto(g, "made")
    /\ nextID' = [nextID EXCEPT ![g] = lastCtxID] /\ muCtx' = Nobody
    /\ UNCHANGED <<lastCtxID, ids, fireVars>>

Made(g) ==
    /\ pc[g] = "made" /\ Goto(g, "idle")
    /\ ids' = [ids EXCEPT ![g] = @ \cup {nextID[g]}]
    /\ UNCHANGED <<muCtx, lastCtxID, nextID, fireVars>>
-----------------------------------------------------------------------------
(* Fire and the ErrorData it calls *)

Fire(g) ==
    /\ Call(g, "write") /\ fires' = [fires EXCEPT ![g] = 1]
    /\ \E e \in BOOLEAN : encodes' = [encodes EXCEPT ![g] = e]
    /\ UNCHANGED <<lockVars, err, logged, crashed>>

\* WriteReq returns nil: this Fire does too.  All but the first are for entries
\* about the request.
Written(g) ==
    /\ pc[g] = "write" /\ encodes[g] /\ Goto(g, "return")
    /\ err' = [err EXCEPT ![g] = "nil"]
    /\ logged' = logged \cup (IF fires[g] > 1 THEN {Request(g)} ELSE {})
    /\ UNCHANGED <<lockVars, fires, encodes, crashed>>

\* MUTANT: an entry that could not be written is given up.
NotWrittenTwice(g) ==
    /\ pc[g] = "write"
    /\ \/ fires[g] = 1 /\ fires' = [fires EXCEPT ![g] = 2] /\ UNCHANGED <<goVars, err>>
       \/ fires[g] = 2 /\ err' = [err EXCEPT ![g] = "error"] /\ Goto(g, "return") /\ UNCHANGED fires
    /\ UNCHANGED <<lockVars, encodes, logged, crashed>>

\* WriteReq returns an error: ErrorData makes an entry of it and fires that.
NotWritten(g) ==
    /\ pc[g] = "write"
    /\ \/ fires[g] < MaxDepth /\ fires' = [fires EXCEPT ![g] = @ + 1] /\ UNCHANGED crashed
       \/ fires[g] = MaxDepth /\ crashed' = TRUE /\ UNCHANGED fires
    /\ UNCHANGED <<goVars, lockVars, encodes, err, logged>>

\* A Fire of an entry returns to ErrorData, which drops its error, and that to
\* the Fire that has failed, which returns its own.
Return(g) ==
    /\ pc[g] = "return" /\ fires' = [fires EXCEPT ![g] = @ - 1]
    /\ \/ fires[g] > 1 /\ err' = [err EXCEPT ![g] = "error"] /\ UNCHANGED goVars
       \/ fires[g] = 1 /\ Goto(g, "idle") /\ UNCHANGED err
    /\ UNCHANGED <<lockVars, encodes, logged, crashed>>

CtxCall(g) == NewContext(g) \/ Fire(g)
CtxStep(g) == Count(g) \/ Take(g) \/ Made(g) \/ Written(g) \/ NotWritten(g) \/ Return(g)
-----------------------------------------------------------------------------
(* Properties *)

CtxTypeOK ==
    /\ muCtx \in Goroutines \cup {Nobody} /\ lastCtxID \in Nat
    /\ nextID \in [Goroutines -> 0..lastCtxID]
    /\ ids \in [Goroutines -> SUBSET (1..lastCtxID)]
    /\ fires \in [Goroutines -> 0..MaxDepth] /\ encodes \in [Goroutines -> BOOLEAN]
    /\ err \in [Goroutines -> {"nil", "error"}]
    /\ logged \subseteq Goroutines \X (1..MaxCalls) /\ crashed \in BOOLEAN

\* The numbers g has been given, the one it is about to use included.
Given(g) == ids[g] \cup (IF pc[g] = "made" THEN {nextID[g]} ELSE {})

\* No two contexts get the same number, whatever goroutines ask for them at
\* once (context.go:112-115).
UniqueIDs ==
    /\ \A g, h \in Goroutines : g # h => Given(g) \cap Given(h) = {}
    /\ \A g \in Goroutines : pc[g] = "made" => nextID[g] \notin ids[g]

\* A Fire that returns an error, to ErrorData or to its caller, leaves an
\* entry about its request with the log service, however many Fires of entries
\* have failed in between (context.go:29-36, 96-107).
FailureReported ==
    \A g \in Goroutines : pc[g] = "return" /\ err[g] = "error" => Request(g) \in logged
=============================================================================
