----------------------------- MODULE RoundRobin -----------------------------
(***************************************************************************)
(* get_new_valid_uid of redis_queue/v1_0/utils.py, command by command:     *)
(* callers in any number of processes read round_robin_iterator, read the  *)
(* registered plugins with HKEYS, take the one at that index and write the *)
(* next index back.  Module Sharding has the choice as one step that may   *)
(* return any registered plugin; here is the order in which it does.       *)
(***************************************************************************)
EXTENDS Integers, SequencesExt

CONSTANTS
  Uid,         \* plugin instances
  Caller,      \* the handlers that look for a plugin
  NoUid,
  Ignore,      \* per caller, to_ignore_uid, or NoUid
  NoIterator,  \* round_robin_iterator was never set
  MaxCalls,    \* bound: choices made with the same plugins registered
  MaxChanges   \* bound: plugins that come and go

ASSUME RoundRobinAssumption ==
  /\ Uid # {} /\ IsFiniteSet(Uid)
  /\ NoUid \notin Uid
  /\ Ignore \in [Caller -> Uid \union {NoUid}]
  /\ NoIterator \notin Int
  /\ MaxCalls \in Nat
  /\ MaxChanges \in Nat

VARIABLES
  uids,      \* HKEYS uid_recip_keys_map, in the order of Redis
  iterator,  \* round_robin_iterator
  pc,        \* per caller, the next Redis command it sends
  index,     \* per caller, next_iter
  chosen,    \* per caller, new_uid
  choices,   \* per plugin, how often it was chosen since uids changed
  turns,     \* since then callers took turns and ignored nobody
  changes    \* how often uids changed

vars == <<uids, iterator, pc, index, chosen, choices, turns, changes>>

Registered == {uids[i] : i \in DOMAIN uids}

Init ==
  /\ uids = <<>>
  /\ iterator = NoIterator
  /\ pc = [c \in Caller |-> "idle"]
  /\ index = [c \in Caller |-> 0]
  /\ chosen = [c \in Caller |-> NoUid]
  /\ choices = [u \in Uid |-> 0]
  /\ turns = TRUE
  /\ changes = 0

\* Only the calls of these callers are under way, and they ignore nobody.
TakingTurns(calls) ==
  \A c, d \in calls : c = d /\ Ignore[c] = NoUid

Active == {c \in Caller : pc[c] # "idle"}

Goto(c, p) == pc' = [pc EXCEPT ![c] = p]

-----------------------------------------------------------------------------
(* One round of the while loop *)

\* GET: the iterator is there, or is still to be set.
Check(c) ==
  /\ pc[c] \in {"idle", "check"}
  /\ Goto(c, IF iterator = NoIterator THEN "init" ELSE "get")
  /\ chosen' = [chosen EXCEPT ![c] = NoUid]
  /\ turns' = (turns /\ TakingTurns(Active \union {c}))
  /\ UNCHANGED <<uids, iterator, index, choices, changes>>

\* SET 0.
SetZero(c) ==
  /\ pc[c] = "init"
  /\ iterator' = 0
  /\ Goto(c, "get")
  /\ UNCHANGED <<uids, index, chosen, choices, turns, changes>>

\* GET.
Get(c) ==
  /\ pc[c] = "get"
  /\ index' = [index EXCEPT ![c] = iterator]
  /\ Goto(c, "hkeys")
  /\ UNCHANGED <<uids, iterator, chosen, choices, turns, changes>>

\* The plugin to ignore is left out unless it is the only one.
Without_Never(list, u) == list
Without(list, u) ==
  IF Len(list) > 1 THEN RemoveFirst(list, u) ELSE list

\* The element at a 0-based index, or the first.
At(list, i) == IF i < Len(list) THEN list[i + 1] ELSE list[1]

\* The index written back.  It goes back to 0 one plugin earlier than
\* redis_queue/README.md:37 says.
Following_NoReset(list, i) == i + 1
Following_Same(list, i) == i
Following(list, i) == IF i + 1 < Len(list) THEN i + 1 ELSE 0

\* HKEYS and the choice.  With no plugin the caller sleeps and starts again.
Choose(c) ==
  LET list == Without(uids, Ignore[c]) IN
  /\ pc[c] = "hkeys"
  /\ IF list = <<>>
     THEN Goto(c, "check") /\ UNCHANGED <<index, chosen, choices>>
     ELSE LET u == At(list, index[c]) IN
          /\ choices[u] < MaxCalls
          /\ chosen' = [chosen EXCEPT ![c] = u]
          /\ choices' = [choices EXCEPT ![u] = @ + 1]
          /\ index' = [index EXCEPT ![c] = Following(list, index[c])]
          /\ Goto(c, "set")
  /\ UNCHANGED <<uids, iterator, turns, changes>>

\* SET of the next index, and return.
Set(c) ==
  /\ pc[c] = "set"
  /\ iterator' = index[c]
  /\ Goto(c, "idle")
  /\ UNCHANGED <<uids, index, chosen, choices, turns, changes>>

-----------------------------------------------------------------------------
(* The registry *)

Change == changes < MaxChanges /\ changes' = changes + 1

Forget ==
  /\ choices' = [u \in Uid |-> 0]
  /\ turns' = TakingTurns(Active)

\* RedisInboundTransport.start: HSET of a new field, which Redis may list
\* anywhere.
Join(u) ==
  /\ u \notin Registered
  /\ Change
  /\ \E i \in 1 .. Len(uids) + 1 : uids' = InsertAt(uids, i, u)
  /\ Forget
  /\ UNCHANGED <<iterator, pc, index, chosen>>

\* process_payload_recip_key: HDEL of a plugin that was replaced.
Leave(u) ==
  /\ u \in Registered
  /\ Change
  /\ uids' = RemoveFirst(uids, u)
  /\ Forget
  /\ UNCHANGED <<iterator, pc, index, chosen>>

Step(c) == Check(c) \/ SetZero(c) \/ Get(c) \/ Choose(c) \/ Set(c)

Next == (\E c \in Caller : Step(c)) \/ (\E u \in Uid : Join(u) \/ Leave(u))

Spec == Init /\ [][Next]_vars

-----------------------------------------------------------------------------
(* Properties *)

\* However stale the index a caller read, next to the plugins that come and go,
\* it is never further than just past the plugins that can be registered.
TypeOK ==
  LET Index == 0 .. Cardinality(Uid) IN
  /\ Registered \subseteq Uid
  /\ Len(uids) = Cardinality(Registered)
  /\ iterator \in Index \union {NoIterator}
  /\ pc \in [Caller -> {"idle", "check", "init", "get", "hkeys", "set"}]
  /\ index \in [Caller -> Index]
  /\ chosen \in [Caller -> Uid \union {NoUid}]
  /\ choices \in [Uid -> 0 .. MaxCalls]
  /\ turns \in BOOLEAN
  /\ changes \in 0 .. MaxChanges

\* The plugin chosen is registered, and is the one to ignore only when there is
\* no other: what the step PickForAssign or PickForReassign of module Sharding
\* promises (its Candidates).
ChoosesACandidate ==
  [][\A c \in Caller :
       chosen'[c] # chosen[c] /\ chosen'[c] # NoUid =>
         /\ chosen'[c] \in Registered
         /\ chosen'[c] = Ignore[c] => Registered = {Ignore[c]}]_vars

\* Round robin: callers that come one after the other and ignore nobody pass no
\* plugin over.  The first may be chosen again when the index is past the end of
\* the list: in every round by the rule of redis_queue/README.md:37, at most once,
\* after a plugin has gone, by the code.
Balanced ==
  turns => \A u, v \in Registered : choices[u] <= 2 * choices[v] + 2
=============================================================================
