---------------------------- MODULE QueuedAdapter ----------------------------
(***************************************************************************)
(* The adapter behind the lists of the user interface                      *)
(* (gui/BaseQueuedAdapter.java, SortableAdapter.java and what their        *)
(* subclasses do to them).                                                 *)
(*                                                                         *)
(* The main thread is given new lists.  The difference between the new     *)
(* list and the one on display is computed by a single-thread executor,    *)
(* and applied by the main thread, which takes messages from its looper in *)
(* order.  Lists that come meanwhile wait; only the last of them is used.  *)
(* SortableAdapter.add copies the last list on the main thread, adds to    *)
(* the copy on a thread of the pool, and posts it back as an update.       *)
(*                                                                         *)
(* A list is the set of its items and a number, given in the order of the  *)
(* calls of update(): sorting (prepareList) changes neither.               *)
(***************************************************************************)
EXTENDS Integers, Sequences, SequencesExt

CONSTANTS
    Items,    \* what lists are made of
    Tasks,    \* the calls of SortableAdapter.add that may be under way at a time
    None,     \* no call under way
    MaxCalls  \* bound on the calls made on the adapter

ASSUME NoneAssumption == None \notin [list : [id : Nat, items : SUBSET Items], base : Nat]
ASSUME MaxCallsAssumption == MaxCalls \in Nat

VARIABLES
    dataset,   \* mDataset, the list on display
    pending,   \* mPendingUpdates
    executor,  \* the lists submitted to mUpdateExecutor
    diffing,   \* the work its thread is at: none or one
    looper,    \* the messages posted to the main thread
    adding,    \* the tasks of add() on the pool
    asked,     \* the number of calls of update()
    calls,     \* the number of calls made on the adapter
    wanted,    \* the items the list should have after those calls
    overtaken  \* a list was copied for add(), and another update came first

vars == <<dataset, pending, executor, diffing, looper, adding, asked, calls, wanted, overtaken>>

List == [id : Nat, items : SUBSET Items]

(* A list made from another one: a diff from the list with number base, or *)
(* an addition to the copy taken after the update with number base.        *)
Derived == [list : List, base : Nat]
Message == [kind : {"diff", "add"}, made : Derived]

EmptyList == [id |-> 0, items |-> {}]

PeekShown == dataset  \* MUTANT: waiting updates are ignored

PeekLast == IF pending = <<>> THEN dataset ELSE Last(pending)

UpdateAtOnce(items) ==  \* MUTANT: submits whether or not an update is under way
    LET list == [id |-> asked + 1, items |-> items]
    IN  /\ asked' = asked + 1
        /\ pending' = Append(pending, list)
        /\ executor' = Append(executor, list)

Update(items) ==
    LET list == [id |-> asked + 1, items |-> items]
    IN  /\ asked' = asked + 1
        /\ pending' = Append(pending, list)
        /\ executor' = IF pending = <<>> THEN Append(executor, list) ELSE executor

Init ==
    /\ dataset = EmptyList /\ pending = <<>> /\ executor = <<>> /\ diffing = <<>>
    /\ looper = <<>> /\ adding = [t \in Tasks |-> None]
    /\ asked = 0 /\ calls = 0 /\ wanted = {} /\ overtaken = FALSE

-----------------------------------------------------------------------------
(* Main thread: calls *)

Call == calls < MaxCalls /\ calls' = calls + 1

(* A new list, as from the media library, a filter or a browser.           *)
SetList(items) ==
    /\ Call
    /\ Update(items) /\ wanted' = items
    /\ UNCHANGED <<dataset, diffing, looper, adding, overtaken>>

AddItem(item) ==
    /\ Call
    /\ Update(PeekLast.items \cup {item}) /\ wanted' = wanted \cup {item}
    /\ UNCHANGED <<dataset, diffing, looper, adding, overtaken>>

RemoveItem(item) ==
    /\ Call /\ item \in PeekLast.items
    /\ Update(PeekLast.items \ {item}) /\ wanted' = wanted \ {item}
    /\ UNCHANGED <<dataset, diffing, looper, adding, overtaken>>

SortBy ==
    /\ Call
    /\ Update(PeekLast.items)
    /\ UNCHANGED <<dataset, diffing, looper, adding, wanted, overtaken>>

Add(t, items) ==
    /\ Call /\ adding[t] = None /\ items # {}
    /\ adding' = [adding EXCEPT ![t] =
                     [list |-> [id |-> PeekLast.id, items |-> PeekLast.items \cup items],
                      base |-> asked]]
    /\ wanted' = wanted \cup items
    /\ UNCHANGED <<dataset, pending, executor, diffing, looper, asked, overtaken>>

-----------------------------------------------------------------------------
(* Background threads *)

AddTask(t) ==
    /\ adding[t] # None
    /\ looper' = Append(looper, [kind |-> "add", made |-> adding[t]])
    /\ adding' = [adding EXCEPT ![t] = None]
    /\ UNCHANGED <<dataset, pending, executor, diffing, asked, calls, wanted, overtaken>>

StartDiff ==
    /\ executor # <<>> /\ diffing = <<>>
    /\ diffing' = <<[list |-> Head(executor), base |-> dataset.id]>>
    /\ executor' = Tail(executor)
    /\ UNCHANGED <<dataset, pending, looper, adding, asked, calls, wanted, overtaken>>

EndDiff ==
    /\ diffing # <<>>
    /\ looper' = Append(looper, [kind |-> "diff", made |-> Head(diffing)])
    /\ diffing' = <<>>
    /\ UNCHANGED <<dataset, pending, executor, adding, asked, calls, wanted, overtaken>>

-----------------------------------------------------------------------------
(* Main thread: messages *)

ProcessFirst ==  \* MUTANT: keeps the first waiting list and drops those after it
    LET rest == Tail(pending)
    IN  IF rest = <<>> THEN pending' = <<>> /\ UNCHANGED executor
        ELSE /\ pending' = <<Head(rest)>>
             /\ executor' = Append(executor, Head(rest))

ProcessAll ==  \* MUTANT: submits every waiting list
    LET rest == Tail(pending)
    IN  pending' = rest /\ executor' = executor \o rest

ProcessQueue ==
    LET rest == Tail(pending)
    IN  IF rest = <<>> THEN pending' = <<>> /\ UNCHANGED executor
        ELSE /\ pending' = <<Last(rest)>>
             /\ executor' = Append(executor, Last(rest))

OnDiff ==
    /\ looper # <<>> /\ Head(looper).kind = "diff"
    /\ dataset' = Head(looper).made.list
    /\ looper' = Tail(looper)
    /\ ProcessQueue
    /\ UNCHANGED <<diffing, adding, asked, calls, wanted, overtaken>>

OnAdd ==
    /\ looper # <<>> /\ Head(looper).kind = "add"
    /\ Update(Head(looper).made.list.items)
    /\ overtaken' = (overtaken \/ Head(looper).made.base # asked)
    /\ looper' = Tail(looper)
    /\ UNCHANGED <<dataset, diffing, adding, calls, wanted>>

-----------------------------------------------------------------------------
UserCall ==
    \/ \E items \in SUBSET Items : SetList(items) \/ \E t \in Tasks : Add(t, items)
    \/ \E item \in Items : AddItem(item) \/ RemoveItem(item)
    \/ SortBy

Next ==
    \/ UserCall
    \/ \E t \in Tasks : AddTask(t)
    \/ StartDiff \/ EndDiff
    \/ OnDiff \/ OnAdd

(* The executor's thread, the pool's threads and the main looper run on.   *)
Fairness ==
    /\ WF_vars(StartDiff) /\ WF_vars(EndDiff)
    /\ WF_vars(OnDiff \/ OnAdd)
    /\ \A t \in Tasks : WF_vars(AddTask(t))

Spec == Init /\ [][Next]_vars

FairSpec == Spec /\ Fairness

-----------------------------------------------------------------------------
(* Properties *)

(* The diffs whose messages wait for the main thread.                      *)
Posted == {k \in DOMAIN looper : looper[k].kind = "diff"}

(* While updates wait one diff is in the making, and it is for the first   *)
(* of them; otherwise there is none.  processQueue would otherwise drop a  *)
(* list that was never shown, or find the queue empty and throw.           *)
OneDiffAtATime ==
    \/ pending = <<>> /\ executor = <<>> /\ diffing = <<>> /\ Posted = {}
    \/ pending # <<>> /\ executor = <<Head(pending)>> /\ diffing = <<>> /\ Posted = {}
    \/ /\ pending # <<>> /\ executor = <<>> /\ Posted = {}
       /\ Len(diffing) = 1 /\ diffing[1].list = Head(pending)
    \/ /\ pending # <<>> /\ executor = <<>> /\ diffing = <<>>
       /\ \E k \in DOMAIN looper : Posted = {k} /\ looper[k].made.list = Head(pending)

(* A diff that is applied was computed from the list on display: the view  *)
(* is told of insertions and removals at positions it has.                 *)
DiffFitsDisplay ==
    /\ \A k \in DOMAIN diffing : diffing[k].base = dataset.id
    /\ \A k \in DOMAIN looper : looper[k].kind = "diff" => looper[k].made.base = dataset.id

(* Coalescing loses nothing: the last list has what the calls asked for,   *)
(* unless an update came between the copy and the update of an add().      *)
NothingLost ==
    /\ ~overtaken
    /\ \A t \in Tasks : adding[t] = None
    /\ \A k \in DOMAIN looper : looper[k].kind # "add"
    => PeekLast.items = wanted

(* The adapter implements LatestList: it never goes back to an older list, *)
(* and the last list it was given is on display in the end.                *)
Latest == INSTANCE LatestList WITH shown <- dataset.id
ShowsTheLatest == Latest!Spec
=============================================================================
