------------------------------- MODULE Plugin -------------------------------
(***************************************************************************)
(* The worker of a plugin (src/pkg/plugin/plugin.go): Update loads a new   *)
(* one, puts it in the place of the one that is there and disposes of that *)
(* one; Configure sends a message to the one that is there.  The lock is   *)
(* held for the assignment only, so a step is what another goroutine sees. *)
(***************************************************************************)
EXTENDS Goroutines

VARIABLES w,         \* Handler.w; the worker of New is number 0
          created,   \* the number of the last worker
          loaded,    \* the workers whose Load has succeeded
          disposed,  \* disposed[v]: how often v has been disposed of
          mine,      \* mine[g]: the variable w of g's Update
          existing,  \* existing[g]: the worker g has read from Handler.w
          overlap    \* history: a call has begun during another one

pluginVars == <<w, created, loaded, disposed, mine, existing, overlap>>

\* Bound: a Dispose of a worker is counted up to 2.
PluginInit ==
    /\ w = 0 /\ created = 0 /\ loaded = {0} /\ disposed = [v \in {0} |-> 0]
    /\ mine = [g \in Goroutines |-> 0] /\ existing = [g \in Goroutines |-> 0]
    /\ overlap = FALSE

InHandler(g) == pc[g] \in {"new", "existing", "swap", "dispose", "send", "sent"}
InUse == \E g \in Goroutines : InHandler(g)

Begin(g, l) == Call(g, l) /\ overlap' = (overlap \/ InUse)
-----------------------------------------------------------------------------
(* Configure *)

Configure(g) ==
    Begin(g, "send") /\ UNCHANGED <<w, created, loaded, disposed, mine, existing>>

\* h.w is read, and its SendSync called.
Send(g) ==
    /\ pc[g] = "send" /\ Goto(g, "sent")
    /\ existing' = [existing EXCEPT ![g] = w]
    /\ UNCHANGED <<w, created, loaded, disposed, mine, overlap>>

Sent(g) == pc[g] = "sent" /\ Goto(g, "idle") /\ UNCHANGED pluginVars
-----------------------------------------------------------------------------
(* Update *)

Update(g) ==
    Begin(g, "new") /\ UNCHANGED <<w, created, loaded, disposed, mine, existing>>

\* MUTANT: the error of Load is not looked at.
LoadUnchecked(g) ==
    /\ pc[g] = "new" /\ Goto(g, "existing")
    /\ created' = created + 1 /\ mine' = [mine EXCEPT ![g] = created']
    /\ disposed' = [v \in 0..created' |-> IF v = created' THEN 0 ELSE disposed[v]]
    /\ loaded' = loaded \/ loaded' = loaded \cup {created'}
    /\ UNCHANGED <<w, existing, overlap>>

\* A worker is made and loaded; one whose Load fails is not disposed of.
Load(g) ==
    /\ pc[g] = "new"
    /\ created' = created + 1
    /\ disposed' = [v \in 0..created' |-> IF v = created' THEN 0 ELSE disposed[v]]
    /\ \/ Goto(g, "existing") /\ loaded' = loaded \cup {created'}
          /\ mine' = [mine EXCEPT ![g] = created']
       \/ Goto(g, "idle") /\ UNCHANGED <<loaded, mine>>
    /\ UNCHANGED <<w, existing, overlap>>

ReadExisting(g) ==
    /\ pc[g] = "existing" /\ Goto(g, "swap") /\ existing' = [existing EXCEPT ![g] = w]
    /\ UNCHANGED <<w, created, loaded, disposed, mine, overlap>>

Swap(g) ==
    /\ pc[g] = "swap" /\ Goto(g, "dispose") /\ w' = mine[g]
    /\ UNCHANGED <<created, loaded, disposed, mine, existing, overlap>>

\* MUTANT: the worker that is there is disposed of.
DisposeCurrent(g) ==
    /\ pc[g] = "dispose" /\ Goto(g, "idle") /\ disposed' = [disposed EXCEPT ![w] = 1]
    /\ UNCHANGED <<w, created, loaded, mine, existing, overlap>>

\* MUTANT: the worker is forgotten.
DisposeOfNone(g) ==
    pc[g] = "dispose" /\ Goto(g, "idle") /\ UNCHANGED pluginVars

Dispose(g) ==
    /\ pc[g] = "dispose" /\ Goto(g, "idle")
    /\ disposed' = [disposed EXCEPT ![existing[g]] = IF @ = 0 THEN 1 ELSE 2]
    /\ UNCHANGED <<w, created, loaded, mine, existing, overlap>>

PluginCall(g) == Configure(g) \/ Update(g)
PluginStep(g) == Send(g) \/ Sent(g) \/ Load(g) \/ ReadExisting(g) \/ Swap(g) \/ Dispose(g)
-----------------------------------------------------------------------------
(* Properties *)

PluginTypeOK ==
    /\ created \in Nat /\ w \in loaded /\ loaded \subseteq 0..created
    /\ disposed \in [0..created -> 0..2] /\ overlap \in BOOLEAN
    /\ mine \in [Goroutines -> loaded] /\ existing \in [Goroutines -> loaded]

\* However the calls overlap, the handler never holds a worker that has been
\* disposed of: the next call finds one to send to (plugin.go:28-33).
InstalledAlive == disposed[w] = 0

\* Where no call begins during another, every worker that was loaded is
\* disposed of once, but for the one of the handler, and a Configure sends to
\* a worker that lives.  (plugin.go:18-35: the lock does not make it so for
\* calls that overlap.)
OneWorker ==
    ~overlap =>
        /\ \A v \in loaded : disposed[v] <= 1
        /\ ~InUse => {v \in loaded : disposed[v] = 0} = {w}
        /\ \A g \in Goroutines : pc[g] = "sent" => disposed[existing[g]] = 0
=============================================================================
