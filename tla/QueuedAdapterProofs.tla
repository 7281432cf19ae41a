------------------------- MODULE QueuedAdapterProofs -------------------------
(***************************************************************************)
(* What is proved about QueuedAdapter, for every set of items and of       *)
(* tasks and any number of calls.  The inductive invariant has four parts: *)
(*   - Types,                                                              *)
(*   - Phases: the diff in the making, if there is one, is at one place,   *)
(*     is for the first list that waits, and fits the list on display,     *)
(*   - Numbers: the lists that wait are newer than the one on display, in  *)
(*     the order of the calls,                                             *)
(*   - Kept: what the calls asked for is in the last list, or in the one   *)
(*     addition that is under way.                                         *)
(* The refinement of LatestList follows from Phases and Numbers.           *)
(***************************************************************************)
EXTENDS QueuedAdapter, SequenceTheorems, TLAPS

Types ==
    /\ dataset \in List /\ pending \in Seq(List)
    /\ executor \in Seq(List) /\ diffing \in Seq(Derived)
    /\ looper \in Seq(Message)
    /\ adding \in [Tasks -> Derived \cup {None}]
    /\ asked \in Nat /\ calls \in Nat
    /\ wanted \in SUBSET Items /\ overtaken \in BOOLEAN

Phases == OneDiffAtATime /\ DiffFitsDisplay

Numbers ==
    /\ dataset.id <= asked
    /\ \A k \in DOMAIN pending : dataset.id < pending[k].id /\ pending[k].id <= asked
    /\ \A k, l \in DOMAIN pending : k < l => pending[k].id < pending[l].id

(* No addition is copied from a list that is not the last one any more.    *)
Timely ==
    /\ \A t \in Tasks : adding[t] # None => adding[t].base = asked
    /\ \A k \in DOMAIN looper : looper[k].kind = "add" => looper[k].made.base = asked

NoTaskBut(t) == \A s \in Tasks : s # t => adding[s] = None
NoTask == \A t \in Tasks : adding[t] = None
NoAddBut(k) == \A l \in DOMAIN looper : l # k => looper[l].kind # "add"
NoAdd == \A k \in DOMAIN looper : looper[k].kind # "add"

Kept ==
    ~overtaken /\ Timely =>
        /\ NoTask /\ NoAdd => PeekLast.items = wanted
        /\ \A t \in Tasks :
               adding[t] # None /\ NoTaskBut(t) /\ NoAdd => adding[t].list.items = wanted
        /\ \A k \in DOMAIN looper :
               looper[k].kind = "add" /\ NoTask /\ NoAddBut(k)
                   => looper[k].made.list.items = wanted

(* The copies were not taken after an update that is yet to come.          *)
Bases ==
    /\ \A t \in Tasks : adding[t] # None => adding[t].base <= asked
    /\ \A k \in DOMAIN looper : looper[k].kind = "add" => looper[k].made.base <= asked

IInv == Types /\ Phases /\ Numbers /\ Bases /\ Kept

-----------------------------------------------------------------------------
(* Sequences *)

(* The positions and elements of a sequence with one more element.         *)
LEMMA AppendElements ==
    ASSUME NEW S, NEW s \in Seq(S), NEW e \in S
    PROVE  /\ Append(s, e) \in Seq(S) /\ Append(s, e) # <<>>
           /\ \A k \in DOMAIN s : k \in DOMAIN Append(s, e) /\ Append(s, e)[k] = s[k]
           /\ Len(s) + 1 \in DOMAIN Append(s, e) /\ Len(s) + 1 \notin DOMAIN s
           /\ Append(s, e)[Len(s) + 1] = e
           /\ \A k \in DOMAIN Append(s, e) : k \in DOMAIN s \/ k = Len(s) + 1
           /\ Head(Append(s, e)) = IF s = <<>> THEN e ELSE Head(s)
           /\ Last(Append(s, e)) = e
  BY AppendProperties, HeadTailAppend, LenProperties DEF Last

(* The positions and elements of a sequence without its head.              *)
LEMMA TailElements ==
    ASSUME NEW S, NEW s \in Seq(S), s # <<>>
    PROVE  /\ Tail(s) \in Seq(S)
           /\ 1 \in DOMAIN s /\ Head(s) = s[1] /\ Head(s) \in S
           /\ \A k \in DOMAIN Tail(s) : k + 1 \in DOMAIN s /\ k + 1 # 1 /\ Tail(s)[k] = s[k + 1]
           /\ \A k \in DOMAIN s : k # 1 => k - 1 \in DOMAIN Tail(s) /\ Tail(s)[k - 1] = s[k]
           /\ \A k \in DOMAIN s : k \in Int
  BY HeadTailProperties, LenProperties

(* The last element is one of the elements.                                *)
LEMMA LastElement ==
    ASSUME NEW S, NEW s \in Seq(S), s # <<>>
    PROVE  /\ Last(s) \in S /\ Len(s) \in DOMAIN s /\ Last(s) = s[Len(s)]
           /\ \A k \in DOMAIN s : k <= Len(s)
  BY LenProperties, EmptySeq, ElementOfSeq DEF Last

-----------------------------------------------------------------------------
(* Types *)

LEMMA PeekType ==
    ASSUME Types
    PROVE  PeekLast \in List
  BY LastElement DEF Types, PeekLast

LEMMA UpdateType ==
    ASSUME Types, NEW items \in SUBSET Items, Update(items)
    PROVE  /\ pending' \in Seq(List) /\ executor' \in Seq(List)
           /\ asked' \in Nat /\ asked' = asked + 1
           /\ pending' = Append(pending, [id |-> asked', items |-> items])
           /\ [id |-> asked', items |-> items] \in List
<1> DEFINE list == [id |-> asked + 1, items |-> items]
<1>1. list \in List
  BY DEF Types, List
<1>2. Append(pending, list) \in Seq(List) /\ Append(executor, list) \in Seq(List)
  BY <1>1, AppendElements DEF Types
<1> QED
  BY <1>1, <1>2 DEF Types, Update

LEMMA ItemsType ==
    ASSUME NEW list \in List
    PROVE  list.items \in SUBSET Items /\ list.id \in Nat
  BY DEF List

LEMMA DerivedType ==
    ASSUME NEW made \in Derived
    PROVE  made.list \in List /\ made.base \in Nat
  BY DEF Derived

LEMMA MessageType ==
    ASSUME NEW message \in Message
    PROVE  message.made \in Derived
  BY DEF Message

(* No call and no derived list are the same thing.                         *)
LEMMA NoneIsNoCall == None \notin Derived
  BY NoneAssumption DEF Derived, List

(* The types hold after a call of update(), or after none.                 *)
LEMMA UserCallTypes ==
    ASSUME Types, UserCall
    PROVE  Types'
<1>1. ASSUME NEW items \in SUBSET Items, Update(items),
             UNCHANGED <<dataset, diffing, looper, adding, overtaken>>,
             calls' = calls + 1, wanted' \in SUBSET Items
      PROVE  Types'
  <2>1. pending' \in Seq(List) /\ executor' \in Seq(List) /\ asked' \in Nat
    BY <1>1, UpdateType
  <2> QED
    BY <1>1, <2>1 DEF Types
<1>2. PeekLast.items \in SUBSET Items /\ PeekLast.id \in Nat
  BY PeekType, ItemsType
<1>3. wanted \in SUBSET Items /\ asked \in Nat
  BY DEF Types
<1>4. ASSUME NEW items \in SUBSET Items, SetList(items)
      PROVE  Types'
  BY <1>4, <1>1 DEF SetList, Call
<1>5. ASSUME NEW item \in Items, AddItem(item)
      PROVE  Types'
  <2>1. PeekLast.items \cup {item} \in SUBSET Items /\ wanted \cup {item} \in SUBSET Items
    BY <1>2, <1>3
  <2> QED
    BY <1>5, <1>1, <2>1 DEF AddItem, Call
<1>6. ASSUME NEW item \in Items, RemoveItem(item)
      PROVE  Types'
  <2>1. PeekLast.items \ {item} \in SUBSET Items /\ wanted \ {item} \in SUBSET Items
    BY <1>2, <1>3
  <2> QED
    BY <1>6, <1>1, <2>1 DEF RemoveItem, Call
<1>7. CASE SortBy
  BY <1>7, <1>1, <1>2, <1>3 DEF SortBy, Call
<1>8. ASSUME NEW t \in Tasks, NEW items \in SUBSET Items, Add(t, items)
      PROVE  Types'
  <2> DEFINE made == [list |-> [id |-> PeekLast.id, items |-> PeekLast.items \cup items],
                      base |-> asked]
  <2>1. made \in Derived
    BY <1>2, <1>3 DEF Derived, List
  <2>2. adding' = [adding EXCEPT ![t] = made]
    BY <1>8 DEF Add
  <2>3. adding' \in [Tasks -> Derived \cup {None}]
    BY <2>1, <2>2 DEF Types
  <2> QED
    BY <1>8, <2>3, <1>3 DEF Types, Add, Call
<1> QED
  BY <1>4, <1>5, <1>6, <1>7, <1>8 DEF UserCall

LEMMA BackgroundTypes ==
    ASSUME Types, (\E t \in Tasks : AddTask(t)) \/ StartDiff \/ EndDiff
    PROVE  Types'
<1>1. ASSUME NEW t \in Tasks, AddTask(t)
      PROVE  Types'
  <2>1. adding[t] \in Derived
    BY <1>1 DEF Types, AddTask
  <2>2. [kind |-> "add", made |-> adding[t]] \in Message
    BY <2>1 DEF Message
  <2>3. looper' \in Seq(Message)
    BY <1>1, <2>2, AppendElements DEF Types, AddTask
  <2>4. adding' \in [Tasks -> Derived \cup {None}]
    BY <1>1 DEF Types, AddTask
  <2> QED
    BY <1>1, <2>3, <2>4 DEF Types, AddTask
<1>2. CASE StartDiff
  <2>1. Head(executor) \in List /\ Tail(executor) \in Seq(List)
    BY <1>2, TailElements DEF Types, StartDiff
  <2>2. [list |-> Head(executor), base |-> dataset.id] \in Derived
    BY <2>1, ItemsType DEF Types, Derived
  <2> QED
    BY <1>2, <2>1, <2>2 DEF Types, StartDiff
<1>3. CASE EndDiff
  <2>1. Head(diffing) \in Derived
    BY <1>3, TailElements DEF Types, EndDiff
  <2>2. [kind |-> "diff", made |-> Head(diffing)] \in Message
    BY <2>1 DEF Message
  <2>3. looper' \in Seq(Message)
    BY <1>3, <2>2, AppendElements DEF Types, EndDiff
  <2> QED
    BY <1>3, <2>3 DEF Types, EndDiff
<1> QED
  BY <1>1, <1>2, <1>3

(* What processQueue makes of the lists that wait.                         *)
LEMMA ProcessQueueType ==
    ASSUME Types, pending # <<>>, ProcessQueue
    PROVE  /\ pending' \in Seq(List) /\ executor' \in Seq(List)
           /\ Tail(pending) = <<>> => pending' = <<>> /\ executor' = executor
           /\ Tail(pending) # <<>> =>
                  /\ Last(Tail(pending)) \in List
                  /\ pending' = <<Last(Tail(pending))>>
                  /\ executor' = Append(executor, Last(Tail(pending)))
<1>1. Tail(pending) \in Seq(List)
  BY TailElements DEF Types
<1>2. CASE Tail(pending) = <<>>
  BY <1>2 DEF ProcessQueue, Types
<1>3. CASE Tail(pending) # <<>>
  <2>1. Last(Tail(pending)) \in List
    BY <1>1, <1>3, LastElement
  <2>2. pending' = <<Last(Tail(pending))>> /\ executor' = Append(executor, Last(Tail(pending)))
    BY <1>3 DEF ProcessQueue
  <2>3. executor' \in Seq(List)
    BY <2>1, <2>2, AppendElements DEF Types
  <2> QED
    BY <1>3, <2>1, <2>2, <2>3
<1> QED
  BY <1>2, <1>3

LEMMA MainTypes ==
    ASSUME Types, OneDiffAtATime, OnDiff \/ OnAdd
    PROVE  Types'
<1>1. looper # <<>> /\ Head(looper) \in Message /\ Tail(looper) \in Seq(Message)
  BY TailElements DEF Types, OnDiff, OnAdd
<1>2. Head(looper).made.list \in List
  BY <1>1, MessageType, DerivedType
<1>3. CASE OnDiff
  <2>1. 1 \in Posted
    BY <1>3, TailElements DEF Posted, OnDiff, Types
  <2>2. pending # <<>>
    BY <2>1 DEF OneDiffAtATime
  <2>3. pending' \in Seq(List) /\ executor' \in Seq(List)
    BY <1>3, <2>2, ProcessQueueType DEF OnDiff
  <2> QED
    BY <1>1, <1>2, <1>3, <2>3 DEF Types, OnDiff
<1>4. CASE OnAdd
  <2>1. Head(looper).made.list.items \in SUBSET Items
    BY <1>2, ItemsType
  <2>2. pending' \in Seq(List) /\ executor' \in Seq(List) /\ asked' \in Nat
    BY <1>4, <2>1, UpdateType DEF OnAdd
  <2> QED
    BY <1>1, <1>4, <2>2 DEF Types, OnAdd
<1> QED
  BY <1>3, <1>4

LEMMA TypesInductive ==
    ASSUME Types, OneDiffAtATime, [Next]_vars
    PROVE  Types'
<1>1. CASE Next
  BY <1>1, UserCallTypes, BackgroundTypes, MainTypes DEF Next
<1>2. CASE UNCHANGED vars
  BY <1>2 DEF Types, vars
<1> QED
  BY <1>1, <1>2

-----------------------------------------------------------------------------
(* Phases *)

(* A step that leaves the posted diffs in the order of the looper, and adds *)
(* none.                                                                    *)
SameDiffs ==
    /\ Posted = {} => Posted' = {}
    /\ \A k \in DOMAIN looper :
           Posted = {k} => \E l \in DOMAIN looper' : Posted' = {l} /\ looper'[l] = looper[k]
    /\ \A l \in DOMAIN looper' :
           looper'[l].kind = "diff" => \E k \in DOMAIN looper : looper'[l] = looper[k]

LEMMA SameLooper ==
    ASSUME UNCHANGED looper
    PROVE  SameDiffs
  BY DEF SameDiffs, Posted

LEMMA PostedAdd ==
    ASSUME Types, NEW m \in Message, m.kind # "diff", looper' = Append(looper, m)
    PROVE  SameDiffs
<1>1. /\ \A k \in DOMAIN looper : k \in DOMAIN looper' /\ looper'[k] = looper[k]
      /\ \A k \in DOMAIN looper' : k \in DOMAIN looper \/ k = Len(looper) + 1
      /\ looper'[Len(looper) + 1] = m
  BY AppendElements DEF Types
<1>2. Posted' = Posted
  BY <1>1 DEF Posted
<1>3. \A k \in DOMAIN looper' : looper'[k].kind = "diff" => k \in DOMAIN looper
  BY <1>1
<1> QED
  BY <1>1, <1>2, <1>3 DEF SameDiffs

LEMMA TookAdd ==
    ASSUME Types, looper # <<>>, Head(looper).kind # "diff", looper' = Tail(looper)
    PROVE  SameDiffs
<1>1. /\ \A k \in DOMAIN looper' : k + 1 \in DOMAIN looper /\ looper'[k] = looper[k + 1]
      /\ \A k \in DOMAIN looper : k # 1 => k - 1 \in DOMAIN looper' /\ looper'[k - 1] = looper[k]
      /\ \A k \in DOMAIN looper : k \in Int
      /\ \A k \in DOMAIN looper' : k \in Int
  BY TailElements, LenProperties DEF Types
<1>2. 1 \notin Posted
  BY TailElements DEF Types, Posted
<1>3. Posted = {} => Posted' = {}
  BY <1>1 DEF Posted
<1>4. ASSUME NEW k \in DOMAIN looper, Posted = {k}
      PROVE  \E l \in DOMAIN looper' : Posted' = {l} /\ looper'[l] = looper[k]
  <2>1. k # 1 /\ k \in Int
    BY <1>1, <1>2, <1>4
  <2>2. k - 1 \in DOMAIN looper' /\ looper'[k - 1] = looper[k]
    BY <1>1, <2>1
  <2>3. looper[k].kind = "diff"
    BY <1>4 DEF Posted
  <2>4. ASSUME NEW l \in DOMAIN looper', looper'[l].kind = "diff"
        PROVE  l = k - 1
    <3>1. l + 1 \in Posted
      BY <1>1, <2>4 DEF Posted
    <3> QED
      BY <3>1, <1>1, <1>4, <2>1
  <2>5. Posted' = {k - 1}
    BY <2>2, <2>3, <2>4 DEF Posted
  <2> QED
    BY <2>2, <2>5
<1>5. ASSUME NEW l \in DOMAIN looper'
      PROVE  \E k \in DOMAIN looper : looper'[l] = looper[k]
  BY <1>1
<1> QED
  BY <1>3, <1>4, <1>5 DEF SameDiffs

LEMMA FitsKept ==
    ASSUME DiffFitsDisplay, SameDiffs, UNCHANGED <<dataset, diffing>>
    PROVE  DiffFitsDisplay'
  BY DEF DiffFitsDisplay, SameDiffs

(* A step that touches neither the display nor the diff in the making.     *)
LEMMA PhasesKept ==
    ASSUME Phases, SameDiffs, UNCHANGED <<dataset, diffing, executor, pending>>
    PROVE  Phases'
<1>1. OneDiffAtATime'
  <2>1. CASE Posted = {}
    BY <2>1 DEF Phases, OneDiffAtATime, SameDiffs
  <2>2. CASE Posted # {}
    <3>1. PICK k \in DOMAIN looper : Posted = {k} /\ looper[k].made.list = Head(pending)
      BY <2>2 DEF Phases, OneDiffAtATime
    <3>2. PICK l \in DOMAIN looper' : Posted' = {l} /\ looper'[l] = looper[k]
      BY <3>1 DEF SameDiffs
    <3>3. looper'[l].made.list = Head(pending)
      BY <3>1, <3>2
    <3>4. pending # <<>> /\ executor = <<>> /\ diffing = <<>>
      BY <2>2 DEF Phases, OneDiffAtATime
    <3> QED
      BY <3>2, <3>3, <3>4 DEF OneDiffAtATime
  <2> QED
    BY <2>1, <2>2
<1> QED
  BY <1>1, FitsKept DEF Phases

(* A call of update().                                                     *)
LEMMA PhasesAfterUpdate ==
    ASSUME Types, Phases, NEW items \in SUBSET Items, Update(items),
           SameDiffs, UNCHANGED <<dataset, diffing>>
    PROVE  Phases'
<1> DEFINE list == [id |-> asked + 1, items |-> items]
<1>1. list \in List /\ pending' = Append(pending, list)
  BY UpdateType DEF Update
<1>2. /\ pending' # <<>>
      /\ Head(pending') = IF pending = <<>> THEN list ELSE Head(pending)
  BY <1>1, AppendElements DEF Types
<1>3. OneDiffAtATime'
  <2>1. CASE pending = <<>>
    <3>1. executor = <<>> /\ diffing = <<>> /\ Posted = {}
      BY <2>1 DEF Phases, OneDiffAtATime
    <3>2. executor' = <<list>>
      BY <2>1, <3>1 DEF Update
    <3> QED
      BY <1>2, <2>1, <3>1, <3>2 DEF OneDiffAtATime, SameDiffs
  <2>2. CASE pending # <<>> /\ Posted = {}
    BY <1>2, <2>2 DEF Phases, OneDiffAtATime, SameDiffs, Update
  <2>3. CASE pending # <<>> /\ Posted # {}
    <3>1. PICK k \in DOMAIN looper : Posted = {k} /\ looper[k].made.list = Head(pending)
      BY <2>3 DEF Phases, OneDiffAtATime
    <3>2. PICK l \in DOMAIN looper' : Posted' = {l} /\ looper'[l] = looper[k]
      BY <3>1 DEF SameDiffs
    <3>3. looper'[l].made.list = Head(pending')
      BY <1>2, <2>3, <3>1, <3>2
    <3>4. executor = <<>> /\ diffing = <<>>
      BY <2>3 DEF Phases, OneDiffAtATime
    <3>5. executor' = <<>> /\ diffing' = <<>>
      BY <2>3, <3>4 DEF Update
    <3> QED
      BY <1>2, <3>2, <3>3, <3>5 DEF OneDiffAtATime
  <2> QED
    BY <2>1, <2>2, <2>3
<1> QED
  BY <1>3, FitsKept DEF Phases

LEMMA PhasesAfterStart ==
    ASSUME Types, Phases, StartDiff
    PROVE  Phases'
<1>1. executor # <<>> /\ diffing = <<>>
  BY DEF StartDiff
<1>2. pending # <<>> /\ executor = <<Head(pending)>> /\ Posted = {}
  BY <1>1 DEF Phases, OneDiffAtATime
<1>3. diffing' = <<[list |-> Head(pending), base |-> dataset.id]>> /\ executor' = <<>>
  BY <1>2 DEF StartDiff
<1>4. UNCHANGED <<dataset, pending, looper>> /\ Posted' = {}
  BY <1>2 DEF StartDiff, Posted
<1>5. OneDiffAtATime'
  BY <1>2, <1>3, <1>4 DEF OneDiffAtATime
<1>6. DiffFitsDisplay'
  BY <1>3, <1>4 DEF Phases, DiffFitsDisplay
<1> QED
  BY <1>5, <1>6 DEF Phases

LEMMA PhasesAfterEnd ==
    ASSUME Types, Phases, EndDiff
    PROVE  Phases'
<1> DEFINE m == [kind |-> "diff", made |-> Head(diffing)]
<1>1. diffing # <<>>
  BY DEF EndDiff
<1>2. /\ pending # <<>> /\ executor = <<>> /\ Posted = {}
      /\ Len(diffing) = 1 /\ diffing[1].list = Head(pending)
  BY <1>1 DEF Phases, OneDiffAtATime
<1>3. 1 \in DOMAIN diffing /\ Head(diffing) = diffing[1] /\ Head(diffing) \in Derived
  BY <1>1, TailElements DEF Types
<1>4. m \in Message /\ m.kind = "diff" /\ m.made = diffing[1]
  BY <1>3 DEF Message
<1>5. diffing' = <<>> /\ looper' = Append(looper, m) /\ UNCHANGED <<dataset, pending, executor>>
  BY DEF EndDiff
<1>6. /\ \A k \in DOMAIN looper : looper'[k] = looper[k]
      /\ Len(looper) + 1 \in DOMAIN looper' /\ looper'[Len(looper) + 1] = m
      /\ \A k \in DOMAIN looper' : k \in DOMAIN looper \/ k = Len(looper) + 1
  BY <1>4, <1>5, AppendElements DEF Types
<1>7. Posted' = {Len(looper) + 1}
  BY <1>2, <1>4, <1>6 DEF Posted
<1>8. OneDiffAtATime'
  BY <1>2, <1>4, <1>5, <1>6, <1>7 DEF OneDiffAtATime
<1>9. diffing[1].base = dataset.id
  BY <1>3 DEF Phases, DiffFitsDisplay
<1>10. DiffFitsDisplay'
  BY <1>4, <1>5, <1>6, <1>9 DEF Phases, DiffFitsDisplay
<1> QED
  BY <1>8, <1>10 DEF Phases

(* The diff that arrives is the only one, and for the first list.          *)
LEMMA FirstIsShown ==
    ASSUME Types, OneDiffAtATime, OnDiff
    PROVE  /\ pending # <<>> /\ executor = <<>> /\ diffing = <<>>
           /\ Posted = {1} /\ dataset' = Head(pending)
<1>1. 1 \in Posted /\ Head(looper) = looper[1]
  BY TailElements DEF Posted, OnDiff, Types
<1>2. /\ pending # <<>> /\ executor = <<>> /\ diffing = <<>>
      /\ \E k \in DOMAIN looper : Posted = {k} /\ looper[k].made.list = Head(pending)
  BY <1>1 DEF OneDiffAtATime
<1>3. Posted = {1} /\ looper[1].made.list = Head(pending)
  BY <1>1, <1>2
<1> QED
  BY <1>1, <1>2, <1>3 DEF OnDiff

LEMMA PhasesAfterDiff ==
    ASSUME Types, Phases, OnDiff
    PROVE  Phases'
<1>1. pending # <<>> /\ executor = <<>> /\ diffing = <<>> /\ Posted = {1}
  BY FirstIsShown DEF Phases
<1>2. \A k \in DOMAIN looper' : k + 1 \in DOMAIN looper /\ k + 1 # 1 /\ looper'[k] = looper[k + 1]
  BY TailElements DEF Types, OnDiff
<1>3. \A k \in DOMAIN looper' : looper'[k].kind # "diff"
  BY <1>1, <1>2 DEF Posted
<1>4. Posted' = {} /\ diffing' = <<>>
  BY <1>1, <1>3 DEF Posted, OnDiff
<1>5. DiffFitsDisplay'
  BY <1>3, <1>4 DEF DiffFitsDisplay
<1>6. OneDiffAtATime'
  <2>1. CASE Tail(pending) = <<>>
    <3>1. pending' = <<>> /\ executor' = <<>>
      BY <1>1, <2>1, ProcessQueueType DEF OnDiff
    <3> QED
      BY <1>4, <3>1 DEF OneDiffAtATime
  <2>2. CASE Tail(pending) # <<>>
    <3> DEFINE last == Last(Tail(pending))
    <3>1. last \in List /\ pending' = <<last>> /\ executor' = Append(<<>>, last)
      BY <1>1, <2>2, ProcessQueueType DEF OnDiff
    <3>2. pending' # <<>> /\ executor' = <<Head(pending')>>
      BY <3>1
    <3> QED
      BY <1>4, <3>2 DEF OneDiffAtATime
  <2> QED
    BY <2>1, <2>2
<1> QED
  BY <1>5, <1>6 DEF Phases

LEMMA PhasesInductive ==
    ASSUME Types, Phases, [Next]_vars
    PROVE  Phases'
<1>1. CASE UserCall
  <2>1. PeekLast.items \in SUBSET Items /\ PeekLast.id \in Nat
    BY PeekType, ItemsType
  <2>2. ASSUME NEW items \in SUBSET Items, SetList(items)
        PROVE  Phases'
    BY <2>2, PhasesAfterUpdate, SameLooper DEF SetList
  <2>3. ASSUME NEW item \in Items, AddItem(item)
        PROVE  Phases'
    <3>1. PeekLast.items \cup {item} \in SUBSET Items
      BY <2>1
    <3> QED
      BY <2>3, <3>1, PhasesAfterUpdate, SameLooper DEF AddItem
  <2>4. ASSUME NEW item \in Items, RemoveItem(item)
        PROVE  Phases'
    <3>1. PeekLast.items \ {item} \in SUBSET Items
      BY <2>1
    <3> QED
      BY <2>4, <3>1, PhasesAfterUpdate, SameLooper DEF RemoveItem
  <2>5. CASE SortBy
    BY <2>1, <2>5, PhasesAfterUpdate, SameLooper DEF SortBy
  <2>6. ASSUME NEW t \in Tasks, NEW items \in SUBSET Items, Add(t, items)
        PROVE  Phases'
    BY <2>6, PhasesKept, SameLooper DEF Add
  <2> QED
    BY <1>1, <2>2, <2>3, <2>4, <2>5, <2>6 DEF UserCall
<1>2. ASSUME NEW t \in Tasks, AddTask(t)
      PROVE  Phases'
  <2> DEFINE m == [kind |-> "add", made |-> adding[t]]
  <2>1. adding[t] \in Derived
    BY <1>2 DEF Types, AddTask
  <2>2. m \in Message /\ m.kind # "diff"
    BY <2>1 DEF Message
  <2>3. looper' = Append(looper, m) /\ UNCHANGED <<dataset, diffing, executor, pending>>
    BY <1>2 DEF AddTask
  <2> QED
    BY <2>2, <2>3, PostedAdd, PhasesKept
<1>3. CASE OnAdd
  <2>1. looper # <<>> /\ Head(looper) \in Message
    BY <1>3, TailElements DEF Types, OnAdd
  <2>2. Head(looper).made.list.items \in SUBSET Items
    BY <2>1, MessageType, DerivedType, ItemsType
  <2>3. SameDiffs
    BY <1>3, TookAdd DEF OnAdd
  <2> QED
    BY <1>3, <2>2, <2>3, PhasesAfterUpdate DEF OnAdd
<1>4. CASE UNCHANGED vars
  BY <1>4, PhasesKept, SameLooper DEF vars
<1> QED
  BY <1>1, <1>2, <1>3, <1>4, PhasesAfterStart, PhasesAfterEnd, PhasesAfterDiff DEF Next

-----------------------------------------------------------------------------
(* Numbers *)

LEMMA NumbersAfterUpdate ==
    ASSUME Types, Numbers, NEW items \in SUBSET Items, Update(items), UNCHANGED dataset
    PROVE  Numbers'
<1> DEFINE list == [id |-> asked + 1, items |-> items]
<1>1. list \in List /\ pending' = Append(pending, list) /\ asked' = asked + 1 /\ asked \in Nat
  BY UpdateType DEF Update, Types
<1>2. list.id = asked + 1 /\ dataset.id \in Nat
  BY ItemsType DEF Types
<1>3. /\ \A k \in DOMAIN pending : pending'[k] = pending[k]
      /\ \A k \in DOMAIN pending' : k \in DOMAIN pending \/ k = Len(pending) + 1
      /\ pending'[Len(pending) + 1] = list
  BY <1>1, AppendElements DEF Types
<1>4. /\ \A k \in DOMAIN pending : k \in Nat /\ k <= Len(pending) /\ pending[k].id \in Nat
      /\ Len(pending) \in Nat
  BY LenProperties, ElementOfSeq, ItemsType DEF Types
<1>5. /\ dataset.id <= asked
      /\ \A k \in DOMAIN pending : dataset.id < pending[k].id /\ pending[k].id <= asked
      /\ \A k, l \in DOMAIN pending : k < l => pending[k].id < pending[l].id
  BY DEF Numbers
<1> HIDE DEF list
<1>6. dataset'.id <= asked'
  BY <1>1, <1>2, <1>5
<1>7. ASSUME NEW k \in DOMAIN pending'
      PROVE  dataset'.id < pending'[k].id /\ pending'[k].id <= asked'
  BY <1>1, <1>2, <1>3, <1>4, <1>5
<1>8. ASSUME NEW k \in DOMAIN pending', NEW l \in DOMAIN pending', k < l
      PROVE  pending'[k].id < pending'[l].id
  <2>1. k \in DOMAIN pending
    BY <1>3, <1>4, <1>8
  <2>2. CASE l \in DOMAIN pending
    BY <1>3, <1>5, <1>8, <2>1, <2>2
  <2>3. CASE l = Len(pending) + 1
    BY <1>1, <1>2, <1>3, <1>4, <1>5, <2>1, <2>3
  <2> QED
    BY <1>3, <2>2, <2>3
<1> QED
  BY <1>6, <1>7, <1>8 DEF Numbers

(* The list shown by a diff is newer than the one before it.               *)
LEMMA NewerIsShown ==
    ASSUME Types, OneDiffAtATime, Numbers, OnDiff
    PROVE  /\ dataset'.id \in dataset.id + 1 .. asked
           /\ asked' = asked
<1>1. pending # <<>> /\ dataset' = Head(pending)
  BY FirstIsShown
<1>2. 1 \in DOMAIN pending /\ Head(pending) = pending[1] /\ Head(pending) \in List
  BY <1>1, TailElements DEF Types
<1>3. dataset.id \in Nat /\ Head(pending).id \in Nat /\ asked \in Nat
  BY <1>2, ItemsType DEF Types
<1>4. dataset.id < pending[1].id /\ pending[1].id <= asked
  BY <1>2 DEF Numbers
<1> QED
  BY <1>1, <1>2, <1>3, <1>4 DEF OnDiff

(* The last list that waits is the last one after processQueue, if any.    *)
LEMMA LastIsKept ==
    ASSUME Types, OneDiffAtATime, OnDiff
    PROVE  /\ pending' = <<>> =>
                  dataset' = Last(pending)
           /\ pending' # <<>> =>
                  /\ pending' = <<Last(pending)>>
                  /\ 1 \in DOMAIN pending /\ Len(pending) \in DOMAIN pending /\ 1 < Len(pending)
           /\ pending # <<>> /\ dataset' = pending[1] /\ Last(pending) = pending[Len(pending)]
<1>1. pending # <<>> /\ dataset' = Head(pending) /\ pending \in Seq(List)
  BY FirstIsShown DEF Types
<1>2. /\ Tail(pending) \in Seq(List) /\ 1 \in DOMAIN pending /\ Head(pending) = pending[1]
      /\ Len(pending) \in DOMAIN pending /\ Last(pending) = pending[Len(pending)]
      /\ Len(Tail(pending)) = Len(pending) - 1 /\ Len(pending) \in Nat
  BY <1>1, TailElements, LastElement, HeadTailProperties, LenProperties
<1>3. CASE Tail(pending) = <<>>
  <2>1. pending' = <<>>
    BY <1>1, <1>3, ProcessQueueType DEF OnDiff
  <2>2. Len(pending) = 1
    <3> DEFINE rest == Tail(pending)
    <3>1. Len(rest) = Len(pending) - 1 /\ rest = <<>>
      BY <1>2, <1>3
    <3> HIDE DEF rest
    <3>2. Len(rest) = 0
      BY <3>1
    <3>3. Len(pending) - 1 = 0
      BY <3>1, <3>2
    <3>4. Len(pending) \in Nat
      BY <1>2
    <3> QED
      BY <3>3, <3>4
  <2> QED
    BY <1>1, <1>2, <2>1, <2>2
<1>4. CASE Tail(pending) # <<>>
  <2>1. pending' = <<Last(Tail(pending))>>
    BY <1>1, <1>4, ProcessQueueType DEF OnDiff
  <2>2. Len(Tail(pending)) # 0 /\ Len(Tail(pending)) \in Nat
    BY <1>2, <1>4, EmptySeq, LenProperties
  <2>3. 1 < Len(pending)
    BY <1>2, <2>2
  <2>4. Last(Tail(pending)) = Tail(pending)[Len(pending) - 1]
    <3>1. Last(Tail(pending)) = Tail(pending)[Len(Tail(pending))]
      BY <1>2, <1>4, LastElement
    <3> QED
      BY <1>2, <3>1
  <2>5. Tail(pending)[Len(pending) - 1] = pending[Len(pending)]
    BY <1>1, <1>2, <2>3, HeadTailProperties
  <2> QED
    BY <1>1, <1>2, <2>1, <2>3, <2>4, <2>5
<1> QED
  BY <1>3, <1>4

LEMMA NumbersAfterDiff ==
    ASSUME Types, OneDiffAtATime, Numbers, OnDiff
    PROVE  Numbers'
<1>1. dataset'.id \in dataset.id + 1 .. asked /\ asked' = asked
  BY NewerIsShown
<1>2. dataset.id \in Nat /\ asked \in Nat
  BY ItemsType DEF Types
<1>3. CASE pending' = <<>>
  BY <1>1, <1>2, <1>3 DEF Numbers
<1>4. CASE pending' # <<>>
  <2>1. /\ pending' = <<pending[Len(pending)]>>
        /\ dataset'.id < pending[Len(pending)].id /\ pending[Len(pending)].id <= asked
    BY <1>4, LastIsKept DEF Numbers
  <2>2. DOMAIN pending' = {1} /\ pending'[1] = pending[Len(pending)]
    BY <2>1
  <2> QED
    BY <1>1, <1>2, <2>1, <2>2 DEF Numbers
<1> QED
  BY <1>3, <1>4

LEMMA NumbersInductive ==
    ASSUME Types, OneDiffAtATime, Numbers, [Next]_vars
    PROVE  Numbers'
<1>1. PeekLast.items \in SUBSET Items
  BY PeekType, ItemsType
<1>2. ASSUME NEW items \in SUBSET Items, SetList(items)
      PROVE  Numbers'
  BY <1>2, NumbersAfterUpdate DEF SetList
<1>3. ASSUME NEW item \in Items, AddItem(item)
      PROVE  Numbers'
  <2>1. PeekLast.items \cup {item} \in SUBSET Items
    BY <1>1
  <2> QED
    BY <1>3, <2>1, NumbersAfterUpdate DEF AddItem
<1>4. ASSUME NEW item \in Items, RemoveItem(item)
      PROVE  Numbers'
  <2>1. PeekLast.items \ {item} \in SUBSET Items
    BY <1>1
  <2> QED
    BY <1>4, <2>1, NumbersAfterUpdate DEF RemoveItem
<1>5. CASE SortBy
  BY <1>1, <1>5, NumbersAfterUpdate DEF SortBy
<1>6. CASE OnAdd
  <2>1. looper # <<>> /\ Head(looper) \in Message
    BY <1>6, TailElements DEF Types, OnAdd
  <2>2. Head(looper).made.list.items \in SUBSET Items
    BY <2>1, MessageType, DerivedType, ItemsType
  <2> QED
    BY <1>6, <2>2, NumbersAfterUpdate DEF OnAdd
<1>7. ASSUME UNCHANGED <<dataset, pending, asked>>
      PROVE  Numbers'
  BY <1>7 DEF Numbers
<1>8. ASSUME NEW t \in Tasks,
             AddTask(t) \/ (\E items \in SUBSET Items : Add(t, items))
      PROVE  UNCHANGED <<dataset, pending, asked>>
  BY <1>8 DEF AddTask, Add
<1>9. (StartDiff \/ EndDiff \/ UNCHANGED vars) => UNCHANGED <<dataset, pending, asked>>
  BY DEF StartDiff, EndDiff, vars
<1> QED
  BY <1>2, <1>3, <1>4, <1>5, <1>6, <1>7, <1>8, <1>9, NumbersAfterDiff DEF Next, UserCall

-----------------------------------------------------------------------------
(* What the calls asked for is kept *)

(* What is under way in a step that is not a call of add(), before and     *)
(* after: nothing new.                                                     *)
SameAdds ==
    /\ adding' = adding
    /\ \A k \in DOMAIN looper' :
           looper'[k].kind = "add" => \E l \in DOMAIN looper : looper[l] = looper'[k]

LEMMA BasesKept ==
    ASSUME Types, Bases, SameAdds, asked' \in {asked, asked + 1}
    PROVE  Bases'
<1>1. ASSUME NEW t \in Tasks, adding[t] # None
      PROVE  adding[t].base <= asked'
  <2>1. adding[t].base \in Nat /\ asked \in Nat
    BY <1>1, DerivedType DEF Types
  <2>2. adding[t].base <= asked
    BY <1>1 DEF Bases
  <2> QED
    BY <2>1, <2>2
<1>2. ASSUME NEW k \in DOMAIN looper', looper'[k].kind = "add"
      PROVE  looper'[k].made.base <= asked'
  <2>1. PICK l \in DOMAIN looper : looper[l] = looper'[k]
    BY <1>2 DEF SameAdds
  <2>2. looper[l].made.base \in Nat /\ asked \in Nat
    BY MessageType, DerivedType, ElementOfSeq, LenProperties DEF Types
  <2>3. looper[l].made.base <= asked
    BY <1>2, <2>1 DEF Bases
  <2> QED
    BY <2>1, <2>2, <2>3
<1> QED
  BY <1>1, <1>2 DEF Bases, SameAdds

(* After another update, only what is not under way any more is timely.    *)
LEMMA NothingTimelyLeft ==
    ASSUME Types, Bases, SameAdds, asked' = asked + 1, Timely'
    PROVE  NoTask' /\ NoAdd'
<1>1. ASSUME NEW t \in Tasks, adding[t] # None
      PROVE  FALSE
  <2>1. adding[t].base \in Nat /\ asked \in Nat
    BY <1>1, DerivedType DEF Types
  <2>2. adding[t].base <= asked /\ adding[t].base = asked + 1
    BY <1>1 DEF Bases, Timely, SameAdds
  <2> QED
    BY <2>1, <2>2
<1>2. ASSUME NEW k \in DOMAIN looper', looper'[k].kind = "add"
      PROVE  FALSE
  <2>1. PICK l \in DOMAIN looper : looper[l] = looper'[k]
    BY <1>2 DEF SameAdds
  <2>2. looper[l].made.base \in Nat /\ asked \in Nat
    BY MessageType, DerivedType, ElementOfSeq, LenProperties DEF Types
  <2>3. looper[l].made.base <= asked /\ looper'[k].made.base = asked + 1
    BY <1>2, <2>1 DEF Bases, Timely
  <2> QED
    BY <2>1, <2>2, <2>3
<1> QED
  BY <1>1, <1>2 DEF NoTask, NoAdd, SameAdds

(* A call of update() with the items that are wanted.                      *)
LEMMA KeptAfterUpdate ==
    ASSUME Types, Bases, SameAdds, NEW items \in SUBSET Items, Update(items),
           ~overtaken' /\ NoTask' /\ NoAdd' => items = wanted'
    PROVE  Bases' /\ Kept'
<1> DEFINE list == [id |-> asked + 1, items |-> items]
<1>1. pending' = Append(pending, list) /\ asked' = asked + 1 /\ list \in List
  BY UpdateType DEF Update
<1>2. pending' # <<>> /\ Last(pending') = list
  BY <1>1, AppendElements DEF Types
<1>3. PeekLast'.items = items
  BY <1>2 DEF PeekLast
<1>4. ASSUME ~overtaken', Timely'
      PROVE  NoTask' /\ NoAdd' /\ PeekLast'.items = wanted'
  BY <1>1, <1>3, <1>4, NothingTimelyLeft
<1>5. Kept'
  BY <1>4 DEF Kept, NoTask, NoAdd
<1> QED
  BY <1>1, <1>5, BasesKept

(* A call of add() that starts.                                            *)
LEMMA KeptAfterAdd ==
    ASSUME Types, Bases, Kept, NEW t \in Tasks, NEW items \in SUBSET Items, Add(t, items)
    PROVE  Bases' /\ Kept'
<1> DEFINE made == [list |-> [id |-> PeekLast.id, items |-> PeekLast.items \cup items],
                    base |-> asked]
<1>1. made \in Derived /\ made # None
  BY PeekType, ItemsType, NoneIsNoCall DEF Types, Derived, List
<1>2. /\ adding[t] = None /\ adding' = [adding EXCEPT ![t] = made]
      /\ wanted' = wanted \cup items
      /\ UNCHANGED <<dataset, pending, looper, asked, overtaken>>
  BY DEF Add
<1>3. /\ adding'[t] = made
      /\ \A s \in Tasks : s # t => adding'[s] = adding[s]
  BY <1>2 DEF Types
<1>4. made.base = asked /\ made.list.items = PeekLast.items \cup items /\ asked \in Nat
  BY DEF Types
<1> HIDE DEF made
<1>5. Bases'
  BY <1>2, <1>3, <1>4 DEF Bases
<1>6. Timely' => Timely
  BY <1>2, <1>3 DEF Timely
<1>7. ~NoTask'
  BY <1>1, <1>3 DEF NoTask
<1>8. ASSUME ~overtaken', Timely', NEW s \in Tasks,
             adding'[s] # None, NoTaskBut(s)', NoAdd'
      PROVE  adding'[s].list.items = wanted'
  <2>1. s = t
    BY <1>1, <1>3, <1>8 DEF NoTaskBut
  <2>2. NoTask
    BY <1>2, <1>3, <1>8, <2>1 DEF NoTask, NoTaskBut
  <2>3. NoAdd
    BY <1>2, <1>8 DEF NoAdd
  <2>4. PeekLast.items = wanted
    BY <1>2, <1>6, <1>8, <2>2, <2>3 DEF Kept
  <2> QED
    BY <1>2, <1>3, <1>4, <2>1, <2>4
<1>9. Kept'
  BY <1>7, <1>8 DEF Kept
<1> QED
  BY <1>5, <1>9

(* An addition that is posted to the main thread.                          *)
LEMMA KeptAfterTask ==
    ASSUME Types, Bases, Kept, NEW t \in Tasks, AddTask(t)
    PROVE  Bases' /\ Kept'
<1> DEFINE m == [kind |-> "add", made |-> adding[t]]
           n == Len(looper) + 1
<1>1. adding[t] \in Derived /\ adding[t] # None
  BY DEF Types, AddTask
<1>2. m \in Message /\ m.kind = "add" /\ m.made = adding[t]
  BY <1>1 DEF Message
<1>3. /\ looper' = Append(looper, m) /\ adding' = [adding EXCEPT ![t] = None]
      /\ UNCHANGED <<asked, overtaken, wanted>>
  BY DEF AddTask
<1>4. /\ \A k \in DOMAIN looper : k \in DOMAIN looper' /\ looper'[k] = looper[k]
      /\ n \in DOMAIN looper' /\ n \notin DOMAIN looper /\ looper'[n] = m
      /\ \A k \in DOMAIN looper' : k \in DOMAIN looper \/ k = n
  BY <1>2, <1>3, AppendElements DEF Types
<1>5. /\ adding'[t] = None
      /\ \A s \in Tasks : s # t => adding'[s] = adding[s]
  BY <1>3 DEF Types
<1> HIDE DEF m, n
<1>6. Bases'
  <2>1. \A s \in Tasks : adding'[s] # None => adding'[s].base <= asked
    BY <1>5 DEF Bases
  <2>2. \A k \in DOMAIN looper' : looper'[k].kind = "add" => looper'[k].made.base <= asked
    BY <1>1, <1>2, <1>4 DEF Bases
  <2> QED
    BY <1>3, <2>1, <2>2 DEF Bases
<1>7. Timely' => Timely
  BY <1>2, <1>3, <1>4, <1>5 DEF Timely
<1>8. ~NoAdd'
  BY <1>2, <1>4 DEF NoAdd
<1>9. ASSUME ~overtaken', Timely', NEW k \in DOMAIN looper',
             looper'[k].kind = "add", NoTask', NoAddBut(k)'
      PROVE  looper'[k].made.list.items = wanted'
  <2>1. k = n
    BY <1>2, <1>4, <1>9 DEF NoAddBut
  <2>2. NoAdd
    BY <1>4, <1>9, <2>1 DEF NoAdd, NoAddBut
  <2>3. NoTaskBut(t)
    BY <1>5, <1>9 DEF NoTask, NoTaskBut
  <2>4. adding[t].list.items = wanted
    BY <1>1, <1>3, <1>7, <1>9, <2>2, <2>3 DEF Kept
  <2> QED
    BY <1>2, <1>3, <1>4, <2>1, <2>4
<1>10. Kept'
  BY <1>8, <1>9 DEF Kept
<1> QED
  BY <1>6, <1>10

(* A diff that arrives shows the list it is for; the last one is the same. *)
LEMMA KeptAfterDiff ==
    ASSUME Types, OneDiffAtATime, Bases, Kept, OnDiff
    PROVE  Bases' /\ Kept'
<1>1. /\ looper # <<>> /\ Head(looper) = looper[1] /\ looper[1].kind # "add"
      /\ UNCHANGED <<adding, asked, overtaken, wanted>>
  BY TailElements DEF Types, OnDiff
<1>2. /\ \A k \in DOMAIN looper' : k + 1 \in DOMAIN looper /\ looper'[k] = looper[k + 1]
      /\ \A k \in DOMAIN looper : k # 1 => k - 1 \in DOMAIN looper' /\ looper'[k - 1] = looper[k]
      /\ \A k \in DOMAIN looper : k \in Int
      /\ \A k \in DOMAIN looper' : k \in Int
  BY TailElements, LenProperties DEF Types, OnDiff
<1>3. PeekLast' = PeekLast
  <2>1. pending # <<>>
    BY LastIsKept
  <2>2. CASE pending' = <<>>
    BY <2>1, <2>2, LastIsKept DEF PeekLast
  <2>3. CASE pending' # <<>>
    <3> DEFINE last == Last(pending)
    <3>1. last \in List /\ pending' = <<last>>
      BY <2>1, <2>3, LastIsKept, LastElement DEF Types
    <3> HIDE DEF last
    <3>2. Last(pending') = last
      BY <3>1 DEF Last
    <3> USE DEF last
    <3> QED
      BY <2>1, <2>3, <3>2 DEF PeekLast
  <2> QED
    BY <2>2, <2>3
<1>4. ASSUME NEW k \in DOMAIN looper, looper[k].kind = "add"
      PROVE  k - 1 \in DOMAIN looper' /\ looper'[k - 1] = looper[k]
  BY <1>1, <1>2, <1>4
<1>5. Bases'
  BY <1>1, <1>2, BasesKept DEF SameAdds
<1>6. Timely' => Timely
  <2> SUFFICES ASSUME Timely' PROVE Timely
    OBVIOUS
  <2>1. ASSUME NEW k \in DOMAIN looper, looper[k].kind = "add"
        PROVE  looper[k].made.base = asked
    BY <1>1, <1>4, <2>1 DEF Timely
  <2> QED
    BY <1>1, <2>1 DEF Timely
<1>7. NoAdd' => NoAdd
  BY <1>4 DEF NoAdd
<1>8. ASSUME NEW k \in DOMAIN looper', NoAddBut(k)'
      PROVE  NoAddBut(k + 1)
  <2>1. ASSUME NEW l \in DOMAIN looper, l # k + 1, looper[l].kind = "add"
        PROVE  FALSE
    <3>1. l - 1 \in DOMAIN looper' /\ looper'[l - 1] = looper[l]
      BY <1>4, <2>1
    <3>2. l - 1 # k
      BY <1>2, <2>1
    <3> QED
      BY <1>8, <2>1, <3>1, <3>2 DEF NoAddBut
  <2> QED
    BY <2>1 DEF NoAddBut
<1>9. NoTask' = NoTask /\ \A t \in Tasks : NoTaskBut(t)' = NoTaskBut(t)
  BY <1>1 DEF NoTask, NoTaskBut
<1>10. Kept'
  <2> SUFFICES ASSUME ~overtaken', Timely'
               PROVE  /\ NoTask' /\ NoAdd' => PeekLast'.items = wanted'
                      /\ \A t \in Tasks : adding'[t] # None /\ NoTaskBut(t)' /\ NoAdd'
                             => adding'[t].list.items = wanted'
                      /\ \A k \in DOMAIN looper' : looper'[k].kind = "add" /\ NoTask' /\ NoAddBut(k)'
                             => looper'[k].made.list.items = wanted'
    BY DEF Kept
  <2>1. NoTask' /\ NoAdd' => PeekLast'.items = wanted'
    BY <1>1, <1>3, <1>6, <1>7, <1>9 DEF Kept
  <2>2. ASSUME NEW t \in Tasks, adding'[t] # None, NoTaskBut(t)', NoAdd'
        PROVE  adding'[t].list.items = wanted'
    BY <1>1, <1>6, <1>7, <1>9, <2>2 DEF Kept
  <2>3. ASSUME NEW k \in DOMAIN looper', looper'[k].kind = "add", NoTask', NoAddBut(k)'
        PROVE  looper'[k].made.list.items = wanted'
    BY <1>1, <1>2, <1>6, <1>8, <1>9, <2>3 DEF Kept
  <2> QED
    BY <2>1, <2>2, <2>3
<1> QED
  BY <1>5, <1>10

(* A diff that is posted, or started: no addition is concerned.            *)
LEMMA KeptAfterEnd ==
    ASSUME Types, Bases, Kept, EndDiff
    PROVE  Bases' /\ Kept'
<1> DEFINE m == [kind |-> "diff", made |-> Head(diffing)]
           n == Len(looper) + 1
<1>1. m \in Message /\ m.kind = "diff"
  <2>1. Head(diffing) \in Derived
    BY TailElements DEF Types, EndDiff
  <2> QED
    BY <2>1 DEF Message
<1>2. looper' = Append(looper, m) /\ UNCHANGED <<dataset, pending, adding, asked, wanted, overtaken>>
  BY DEF EndDiff
<1>3. /\ \A k \in DOMAIN looper : k \in DOMAIN looper' /\ looper'[k] = looper[k]
      /\ n \in DOMAIN looper' /\ looper'[n] = m
      /\ \A k \in DOMAIN looper' : k \in DOMAIN looper \/ k = n
  BY <1>1, <1>2, AppendElements DEF Types
<1> HIDE DEF m, n
<1>4. \A k \in DOMAIN looper' :
          looper'[k].kind = "add" => k \in DOMAIN looper /\ looper'[k] = looper[k]
  BY <1>1, <1>3
<1>5. Bases'
  BY <1>2, <1>4, BasesKept DEF SameAdds
<1>6. Timely' => Timely
  BY <1>2, <1>3 DEF Timely
<1>7. NoAdd' => NoAdd
  BY <1>3 DEF NoAdd
<1>8. \A k \in DOMAIN looper : NoAddBut(k)' => NoAddBut(k)
  BY <1>3 DEF NoAddBut
<1>9. /\ NoTask' = NoTask /\ \A t \in Tasks : NoTaskBut(t)' = NoTaskBut(t)
      /\ PeekLast' = PeekLast
  BY <1>2 DEF NoTask, NoTaskBut, PeekLast
<1>10. Kept'
  BY <1>2, <1>4, <1>6, <1>7, <1>8, <1>9 DEF Kept
<1> QED
  BY <1>5, <1>10

(* An addition that arrives.  If it is timely and the only one, it holds   *)
(* what is wanted; if it is not timely, it sets overtaken.                 *)
LEMMA KeptAfterOnAdd ==
    ASSUME Types, Bases, Kept, OnAdd
    PROVE  Bases' /\ Kept'
<1> DEFINE items == Head(looper).made.list.items
<1>1. /\ looper # <<>> /\ 1 \in DOMAIN looper /\ Head(looper) = looper[1]
      /\ looper[1] \in Message /\ looper[1].kind = "add"
  BY TailElements DEF Types, OnAdd
<1>2. items \in SUBSET Items
  BY <1>1, MessageType, DerivedType, ItemsType
<1>3. /\ \A k \in DOMAIN looper' : looper'[k] = looper[k + 1] /\ k + 1 \in DOMAIN looper
      /\ \A k \in DOMAIN looper : k # 1 => k - 1 \in DOMAIN looper' /\ looper'[k - 1] = looper[k]
  BY TailElements DEF Types, OnAdd
<1>4. SameAdds
  BY <1>3 DEF SameAdds, OnAdd
<1>5. ASSUME ~overtaken', NoTask', NoAdd'
      PROVE  items = wanted'
  <2>1. ~overtaken /\ looper[1].made.base = asked /\ wanted' = wanted /\ adding' = adding
    BY <1>1, <1>5 DEF OnAdd
  <2>2. NoTask /\ NoAddBut(1)
    BY <1>3, <1>5, <2>1 DEF NoTask, NoAdd, NoAddBut
  <2>3. Timely
    BY <2>1, <2>2 DEF Timely, NoTask, NoAddBut
  <2>4. looper[1].made.list.items = wanted
    BY <1>1, <2>1, <2>2, <2>3 DEF Kept
  <2> QED
    BY <1>1, <2>1, <2>4
<1> HIDE DEF items
<1>6. Update(items)
  BY DEF OnAdd, items
<1> QED
  BY <1>2, <1>4, <1>5, <1>6, KeptAfterUpdate

(* The calls that update at once leave what is under way behind.           *)
LEMMA KeptAfterCall ==
    ASSUME Types, Bases, Kept, UserCall
    PROVE  Bases' /\ Kept'
<1>1. PeekLast.items \in SUBSET Items
  BY PeekType, ItemsType
<1>2. (UNCHANGED <<adding, looper>>) => SameAdds
  BY DEF SameAdds
<1>3. ASSUME UNCHANGED <<adding, looper, overtaken>>, ~overtaken', NoTask', NoAdd'
      PROVE  PeekLast.items = wanted
  <2>1. NoTask /\ NoAdd /\ ~overtaken
    BY <1>3 DEF NoTask, NoAdd
  <2>2. Timely
    BY <2>1 DEF Timely, NoTask, NoAdd
  <2> QED
    BY <2>1, <2>2 DEF Kept
<1>4. ASSUME NEW items \in SUBSET Items, SetList(items)
      PROVE  Bases' /\ Kept'
  <2>1. Update(items) /\ SameAdds /\ items = wanted'
    BY <1>2, <1>4 DEF SetList
  <2> QED
    BY <2>1, KeptAfterUpdate
<1>5. ASSUME NEW item \in Items, AddItem(item)
      PROVE  Bases' /\ Kept'
  <2> DEFINE items == PeekLast.items \cup {item}
  <2>1. items \in SUBSET Items /\ Update(items) /\ SameAdds
    BY <1>1, <1>2, <1>5 DEF AddItem
  <2>2. ~overtaken' /\ NoTask' /\ NoAdd' => items = wanted'
    BY <1>3, <1>5 DEF AddItem
  <2> HIDE DEF items
  <2> QED
    BY <2>1, <2>2, KeptAfterUpdate
<1>6. ASSUME NEW item \in Items, RemoveItem(item)
      PROVE  Bases' /\ Kept'
  <2> DEFINE items == PeekLast.items \ {item}
  <2>1. items \in SUBSET Items /\ Update(items) /\ SameAdds
    BY <1>1, <1>2, <1>6 DEF RemoveItem
  <2>2. ~overtaken' /\ NoTask' /\ NoAdd' => items = wanted'
    BY <1>3, <1>6 DEF RemoveItem
  <2> HIDE DEF items
  <2> QED
    BY <2>1, <2>2, KeptAfterUpdate
<1>7. CASE SortBy
  <2> DEFINE items == PeekLast.items
  <2>1. items \in SUBSET Items /\ Update(items) /\ SameAdds
    BY <1>1, <1>2, <1>7 DEF SortBy
  <2>2. ~overtaken' /\ NoTask' /\ NoAdd' => items = wanted'
    BY <1>3, <1>7 DEF SortBy
  <2> HIDE DEF items
  <2> QED
    BY <2>1, <2>2, KeptAfterUpdate
<1> QED
  BY <1>4, <1>5, <1>6, <1>7, KeptAfterAdd DEF UserCall

LEMMA KeptInductive ==
    ASSUME Types, OneDiffAtATime, Bases, Kept, [Next]_vars
    PROVE  Bases' /\ Kept'
<1>1. ASSUME UNCHANGED <<dataset, pending, looper, adding, asked, wanted, overtaken>>
      PROVE  Bases' /\ Kept'
  BY <1>1 DEF Bases, Kept, Timely, NoTask, NoAdd, NoTaskBut, NoAddBut, PeekLast
<1>2. CASE StartDiff
  BY <1>1, <1>2 DEF StartDiff
<1>3. CASE UNCHANGED vars
  BY <1>1, <1>3 DEF vars
<1> QED
  BY <1>2, <1>3, KeptAfterCall, KeptAfterTask, KeptAfterEnd, KeptAfterDiff, KeptAfterOnAdd DEF Next

-----------------------------------------------------------------------------
(* The theorems *)

LEMMA InitIInv == Init => IInv
<1> SUFFICES ASSUME Init PROVE IInv
  OBVIOUS
<1>1. EmptyList \in List /\ EmptyList.id = 0 /\ EmptyList.items = {}
  BY DEF EmptyList, List
<1>2. Types
  <2>1. <<>> \in Seq(List) /\ <<>> \in Seq(Derived) /\ <<>> \in Seq(Message)
    OBVIOUS
  <2>2. adding \in [Tasks -> Derived \cup {None}]
    BY DEF Init
  <2> QED
    BY <1>1, <2>1, <2>2 DEF Init, Types
<1>3. Phases
  BY DEF Init, Phases, OneDiffAtATime, DiffFitsDisplay, Posted
<1>4. Numbers /\ Bases
  BY <1>1 DEF Init, Numbers, Bases
<1>5. PeekLast.items = wanted
  BY <1>1 DEF Init, PeekLast
<1>6. Kept
  BY <1>5 DEF Init, Kept
<1> QED
  BY <1>2, <1>3, <1>4, <1>6 DEF IInv

LEMMA IInvInductive == IInv /\ [Next]_vars => IInv'
<1> SUFFICES ASSUME IInv, [Next]_vars PROVE IInv'
  OBVIOUS
<1>1. Types /\ Phases /\ OneDiffAtATime /\ Numbers /\ Bases /\ Kept
  BY DEF IInv, Phases
<1>2. Types' /\ Phases'
  BY <1>1, TypesInductive, PhasesInductive
<1>3. Numbers' /\ Bases' /\ Kept'
  BY <1>1, NumbersInductive, KeptInductive
<1> QED
  BY <1>2, <1>3 DEF IInv

LEMMA AlwaysIInv == Spec => []IInv
  BY InitIInv, IInvInductive, PTL DEF Spec

(* However updates, additions and diffs interleave, at most one diff is in *)
(* the making, it is for the first list that waits, and there is one as    *)
(* long as a list waits: processQueue never finds the queue empty.         *)
THEOREM OneDiff == Spec => []OneDiffAtATime
<1>1. IInv => OneDiffAtATime
  BY DEF IInv, Phases
<1> QED
  BY <1>1, AlwaysIInv, PTL

(* What is dispatched to the view was computed from the list it shows.     *)
THEOREM DiffsFit == Spec => []DiffFitsDisplay
<1>1. IInv => DiffFitsDisplay
  BY DEF IInv, Phases
<1> QED
  BY <1>1, AlwaysIInv, PTL

(* Skipping the lists in the middle of the queue loses no item that was    *)
(* added and brings back none that was removed.                            *)
THEOREM ItemsAreKept == Spec => []NothingLost
<1>1. IInv => NothingLost
  <2> SUFFICES ASSUME IInv, ~overtaken, NoTask, NoAdd
               PROVE  PeekLast.items = wanted
    BY DEF NothingLost, NoTask, NoAdd
  <2>1. Timely
    BY DEF Timely, NoTask, NoAdd
  <2> QED
    BY <2>1 DEF IInv, Kept
<1> QED
  BY <1>1, AlwaysIInv, PTL

(* A call of update() is a list asked for; the arrival of a diff shows a   *)
(* newer one; all else is invisible.                                       *)
LEMMA StepsAreLatest ==
    ASSUME Types, OneDiffAtATime, Numbers, [Next]_vars
    PROVE  [Latest!Next]_Latest!vars
<1>1. ASSUME NEW items, Update(items), UNCHANGED dataset
      PROVE  Latest!Ask
  BY <1>1 DEF Latest!Ask, Update
<1>2. CASE OnDiff
  BY <1>2, NewerIsShown DEF Latest!Next, Latest!Show
<1>3. CASE OnAdd
  BY <1>1, <1>3 DEF Latest!Next, OnAdd
<1>4. CASE StartDiff \/ EndDiff \/ UNCHANGED vars
  BY <1>4 DEF Latest!vars, StartDiff, EndDiff, vars
<1>5. ASSUME NEW t \in Tasks, AddTask(t)
      PROVE  UNCHANGED Latest!vars
  BY <1>5 DEF Latest!vars, AddTask
<1>6. CASE UserCall
  <2>1. ASSUME NEW items \in SUBSET Items, SetList(items)
        PROVE  Latest!Ask
    BY <2>1, <1>1 DEF SetList
  <2>2. ASSUME NEW item \in Items, AddItem(item) \/ RemoveItem(item)
        PROVE  Latest!Ask
    BY <2>2, <1>1 DEF AddItem, RemoveItem
  <2>3. CASE SortBy
    BY <2>3, <1>1 DEF SortBy, Latest!Next
  <2>4. ASSUME NEW t \in Tasks, NEW items \in SUBSET Items, Add(t, items)
        PROVE  UNCHANGED Latest!vars
    BY <2>4 DEF Latest!vars, Add
  <2> QED
    BY <1>6, <2>1, <2>2, <2>3, <2>4 DEF UserCall, Latest!Next
<1> QED
  BY <1>2, <1>3, <1>4, <1>5, <1>6 DEF Next

(* Every step of the adapter is a step of LatestList or leaves it alone:   *)
(* the display never goes back to an older list.                           *)
THEOREM ImplementsLatestList == Spec => Latest!Init /\ [][Latest!Next]_Latest!vars
<1>1. Init => Latest!Init
  BY DEF Init, Latest!Init, EmptyList
<1>2. IInv /\ [Next]_vars => [Latest!Next]_Latest!vars
  BY StepsAreLatest DEF IInv, Phases
<1> QED
  BY <1>1, <1>2, AlwaysIInv, PTL DEF Spec
=============================================================================
