------------------------------- MODULE Consul -------------------------------
(***************************************************************************)
(* The one Consul key a lease lives under, and the calls of pkg/consul     *)
(* that pkg/lease makes on it (src/pkg/consul/consul.go).  Every call is   *)
(* one HTTP round trip; an operator below is the moment the server handles *)
(* the request, and it leaves the caller's answer in reply[p].             *)
(*                                                                         *)
(* Consul itself is external: "consistent" reads and compare-and-set are   *)
(* linearisable, every write gets a fresh ModifyIndex, and a blocking      *)
(* query answers when the item changes or the wait has elapsed.            *)
(***************************************************************************)
EXTENDS Integers

CONSTANTS Proc,    \* the goroutines that call the client
          Flaky    \* those whose calls may come back as an error

ASSUME FlakyAssumption == Flaky \subseteq Proc

VARIABLES store,   \* the item stored under the key, NoItem if there is none
          index,   \* the ModifyIndex of the last write
          reply    \* reply[p]: the answer p has not consumed yet

consulVars == <<store, index, reply>>
-----------------------------------------------------------------------------
\* The first byte of the value: 'A'cquired, 'C'ontested, 'I'nvalidated.
Value == {"A", "C", "I"}

Item(v, i) == [val |-> v, idx |-> i]
NoItem     == Item("none", 0)
ItemType   == [val : Value \cup {"none"}, idx : Nat]

Answer(t)  == [tag |-> t, item |-> NoItem]
Found(it)  == [tag |-> "found", item |-> it]
NoReply    == Answer("none")
Err        == Answer("err")
NotFound   == Answer("notfound")
ReplyType  == [tag : {"none", "err", "notfound", "found", "true", "false", "done"},
               item : ItemType]

Reply(p, r) == reply' = [reply EXCEPT ![p] = r]
-----------------------------------------------------------------------------
\* The call comes back as an error: a transport error, a status other than 200
\* and 404, or a body that does not decode.  check() turns 404 into NotFound.
Fails(p) == p \in Flaky /\ Reply(p, Err)

\* get(): 404 is NotFound, otherwise the first item of the listing.
Get(p) ==
    /\ \/ Fails(p)
       \/ Reply(p, IF store = NoItem THEN NotFound ELSE Found(store))
    /\ UNCHANGED <<store, index>>

\* Wait(): a get with ?wait=&index=, held back while the item still has the
\* index i and there is a rest of the interval.
Wait(p, i, rest) ==
    /\ \/ Fails(p)
       \/ /\ rest = 0 \/ store.idx # i
          /\ Reply(p, IF store = NoItem THEN NotFound ELSE Found(store))
    /\ UNCHANGED <<store, index>>

\* MUTANT: the PUT is sent without its ?cas= parameter.
BlindCAS(p, v, i) ==
    /\ Reply(p, Answer("true"))
    /\ index' = index + 1
    /\ store' = Item(v, index')

\* put() with ?cas=i: writes only if the item's ModifyIndex is i; index 0 asks
\* that the key does not exist.  An error hides whether the write was applied.
CAS(p, v, i) ==
    \/ /\ store.idx = i
       /\ index' = index + 1
       /\ store' = Item(v, index')
       /\ Reply(p, Answer("true")) \/ Fails(p)
    \/ /\ store.idx # i
       /\ Reply(p, Answer("false"))
       /\ UNCHANGED <<store, index>>
    \/ /\ Fails(p)
       /\ UNCHANGED <<store, index>>

\* delete(): unconditional, and no error if the key is already gone.
Delete(p) ==
    \/ /\ store' = NoItem
       /\ Reply(p, Answer("done")) \/ Fails(p)
       /\ UNCHANGED index
    \/ /\ Fails(p)
       /\ UNCHANGED <<store, index>>
=============================================================================
