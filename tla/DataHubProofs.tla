----------------------------- MODULE DataHubProofs -----------------------------
(***************************************************************************)
(* Safety of DataHub, for every value of the constants: that properties    *)
(* which were confirmed stand, and that a read that is accepted is whole.  *)
(*                                                                         *)
(* The first rests on the one worker: while it works, nothing else is with *)
(* it, so a mutation that was abandoned delays the next instead of landing *)
(* after it; only a request that the client gave up itself can still land, *)
(* and the history says when one did.  The second follows a read from page to page: what has been   *)
(* read of a list is the beginning of that list, as long as the list was   *)
(* not changed, and the total is that of some moment of the read.          *)
(***************************************************************************)
EXTENDS DataHub, FiniteSetTheorems, SequenceTheorems, TLAPS

-----------------------------------------------------------------------------
(* The invariant.                                                          *)

\* The items that any catalogue has.
Items == UNION {UNION {ToSet(cat[l]) : l \in Lists} : cat \in Catalogues}

\* What an operation is.
Operation ==
  [kind : {"idle", "load", "discover", "write", "accepted"}, list : Lists,
   read : [Lists -> Seq(Items)], total : Nat, versions : SUBSET Catalogues]

\* What is with the worker: at most one call.
WorkerInv ==
  /\ IsFiniteSet(running)
  /\ \A job, other \in running : job = other
  /\ \A job \in running :
       /\ job = [caller |-> job.caller, call |-> job.call, live |-> job.live]
       /\ job.caller \in Callers

\* While a call writes properties nothing is confirmed, and once it has written
\* them DataHub names its run, unless a late request has landed since.
Writing(job) ==
  WritesProperties(job.call) =>
    /\ confirmed = None
    /\ job.call \in written /\ ~ overtaken => lastRun = job.call.arg

\* The properties named by DataHub are the confirmed ones, unless the worker is
\* writing others.
WriteInv ==
  /\ WorkerInv
  /\ ConfirmedWriteStands
  /\ written \subseteq {job.call : job \in running}
  /\ \A job \in running : Writing(job)

\* A caller waits in the queue once; a reader not while the worker has its call.
QueueInv ==
  /\ queue \in Seq(Callers) /\ IsInjective(queue)
  /\ \A k \in DOMAIN queue : queue[k] \in Readers => Awaits(queue[k])
  /\ \A job \in running : job.caller \in Readers /\ job.live =>
       /\ Awaits(job.caller) /\ pending[job.caller] = job.call
       /\ \A k \in DOMAIN queue : queue[k] # job.caller

\* The states a list had while it was read.
Was(o, l) == {cat[l] : cat \in o.versions}

Total(o, l) == \E list \in Was(o, l) : o.total = Len(list)

\* What has been read of a list: items it had, the first ones if it did not
\* change.
Part(o, l) ==
  /\ ToSet(o.read[l]) \subseteq UNION {ToSet(list) : list \in Was(o, l)}
  /\ \A list : Was(o, l) = {list} =>
       /\ Len(o.read[l]) <= Len(list)
       /\ o.read[l] = SubSeq(list, 1, Len(o.read[l]))

\* A list that has been read: so many items as it had at some moment, all of them
\* if it did not change.
Done(o, l) ==
  /\ ToSet(o.read[l]) \subseteq UNION {ToSet(list) : list \in Was(o, l)}
  /\ \E list \in Was(o, l) : Len(o.read[l]) = Len(list)
  /\ \A list : Was(o, l) = {list} => o.read[l] = list

\* The lists that are read before l, and after it.
Before(l) ==
  CASE l = "schema"      -> {}
    [] l = "upstreams"   -> {"schema"}
    [] l = "downstreams" -> {"schema", "upstreams"}
    [] l = "assets"      -> {"schema", "upstreams", "downstreams"}

After(l) == Lists \ (Before(l) \cup {l})

\* A read that is under way.
Reading(o) ==
  /\ o.kind \in {"load", "discover"}
  /\ o.versions # {} /\ IsFiniteSet(o.versions)
  /\ o.kind = "discover" => o.list = "schema"
  /\ \A l \in Before(o.list) : Done(o, l)
  /\ Part(o, o.list)
  /\ \A l \in After(o.list) : o.read[l] = <<>>

\* The call that it awaits is for what comes next.
FitsCall(o, call) ==
  /\ call.tool \in Lists =>
       /\ call.tool = o.list /\ call.arg = Len(o.read[o.list])
       /\ call.arg > 0 => Total(o, o.list)
  /\ call.tool = "get_entities" =>
       /\ call.arg \in 0..2
       /\ call.arg = 0 => o.list = "schema" /\ o.read["schema"] = <<>>
       /\ call.arg = 1 => o.list # "schema" /\ Total(o, o.list)
  /\ call.tool = "get_dataset_queries" =>
       o.kind = "load" /\ o.list = "assets" /\ Done(o, "assets")

\* What is accepted is complete.
Whole(o) ==
  \A l \in IF o.list = "schema" THEN {"schema"} ELSE Lists :
    Done(o, l) /\ IsInjective(o.read[l])

\* A reader whose operation is o and that awaits the call p.
ReaderOK(o, p) ==
  /\ p # None => p \in ReadCall /\ Reading(o) /\ FitsCall(o, p)
  /\ o.kind = "accepted" => p = None /\ Whole(o) /\ IsFiniteSet(o.versions)

Current(o, p) == p # None => catalogue \in o.versions

ReadInv ==
  /\ DOMAIN pending = Callers /\ op \in [Callers -> Operation]
  /\ QueueInv
  /\ \A c \in Readers :
       ReaderOK(op[c], pending[c]) /\ Current(op[c], pending[c])

IInv == catalogue \in Catalogues /\ WriteInv /\ ReadInv

-----------------------------------------------------------------------------
(* Facts about sequences and sets.                                         *)

\* A caller that leaves the queue (Submits, Rests) is no longer in it; the
\* others are.
LEMMA Leaving ==
  ASSUME NEW T, NEW s \in Seq(T), IsInjective(s), NEW e
  PROVE  /\ RemoveFirst(s, e) \in Seq(T)
         /\ IsInjective(RemoveFirst(s, e))
         /\ \A k \in DOMAIN RemoveFirst(s, e) :
              /\ RemoveFirst(s, e)[k] # e
              /\ \E n \in DOMAIN s : RemoveFirst(s, e)[k] = s[n]
<1>1. DOMAIN s = 1..Len(s) /\ Len(s) \in Nat
  BY LenProperties
<1>2. CASE ~ \E i \in 1..Len(s) : s[i] = e
  BY <1>1, <1>2 DEF RemoveFirst
<1>3. CASE \E i \in 1..Len(s) : s[i] = e
  <2>1. PICK i \in 1..Len(s) : s[i] = e
    BY <1>3
  <2>2. {j \in 1..Len(s) : s[j] = e} = {i}
    BY <1>1, <2>1 DEF IsInjective
  <2>3. Min({i}) = i
    BY <2>1, <1>1 DEF Min
  <2>4. RemoveFirst(s, e) = RemoveAt(s, i)
    <3>1. SelectInSeq(s, LAMBDA v : v = e) = i
      BY <2>2, <2>3 DEF SelectInSeq
    <3> QED BY <3>1, <1>3 DEF RemoveFirst
  <2> DEFINE u == SubSeq(s, 1, i - 1)
             v == SubSeq(s, i + 1, Len(s))
  <2>5. /\ u \in Seq(T) /\ Len(u) = i - 1
        /\ \A k \in 1..(i - 1) : u[k] = s[k]
    <3>1. \A k \in 1..(i - 1) : s[k] \in T
      BY <1>1, <2>1, ElementOfSeq
    <3> QED BY <3>1, <1>1, <2>1, SubSeqProperties, 1 \in Int, i - 1 \in Int
  <2>6. /\ v \in Seq(T) /\ Len(v) = Len(s) - i
        /\ \A k \in 1..(Len(s) - i) : v[k] = s[i + k]
    <3>1. \A k \in (i + 1)..Len(s) : s[k] \in T
      BY <1>1, <2>1, ElementOfSeq
    <3>2. /\ v \in Seq(T)
          /\ Len(v) = IF i + 1 <= Len(s) THEN Len(s) - (i + 1) + 1 ELSE 0
          /\ \A k \in 1..(Len(s) - (i + 1) + 1) : v[k] = s[i + 1 + k - 1]
      BY <3>1, <1>1, <2>1, SubSeqProperties, i + 1 \in Int, Len(s) \in Int
    <3>3. Len(v) = Len(s) - i
      <4>1. CASE i + 1 <= Len(s)
        BY <4>1, <3>2, <1>1, <2>1
      <4>2. CASE ~ (i + 1 <= Len(s))
        <5>1. Len(v) = 0
          BY <4>2, <3>2
        <5>2. i \in Nat /\ i <= Len(s) /\ Len(s) \in Nat
          BY <1>1, <2>1
        <5>3. Len(s) = i
          BY <4>2, <5>2
        <5> QED BY <5>1, <5>2, <5>3
      <4> QED BY <4>1, <4>2
    <3>4. ASSUME NEW k \in 1..(Len(s) - i)
          PROVE  v[k] = s[i + k]
      <4>1. k \in 1..(Len(s) - (i + 1) + 1) /\ i + 1 + k - 1 = i + k
        BY <1>1, <2>1
      <4> QED BY <4>1, <3>2
    <3> QED BY <3>2, <3>3, <3>4
  <2> HIDE DEF u, v
  <2>7. /\ u \o v \in Seq(T) /\ Len(u \o v) = Len(s) - 1
        /\ \A k \in 1..(Len(s) - 1) :
             (u \o v)[k] = IF k < i THEN s[k] ELSE s[k + 1]
    <3>1. /\ u \o v \in Seq(T) /\ Len(u \o v) = Len(u) + Len(v)
          /\ \A k \in 1..(Len(u) + Len(v)) :
               (u \o v)[k] = IF k <= Len(u) THEN u[k] ELSE v[k - Len(u)]
      BY <2>5, <2>6, ConcatProperties
    <3>2. Len(u) + Len(v) = Len(s) - 1
      BY <2>5, <2>6, <1>1, <2>1
    <3>3. ASSUME NEW k \in 1..(Len(s) - 1)
          PROVE  (u \o v)[k] = IF k < i THEN s[k] ELSE s[k + 1]
      <4>1. CASE k < i
        <5>1. k \in 1..(i - 1) /\ k <= Len(u)
          BY <4>1, <2>5, <1>1, <2>1
        <5> QED BY <5>1, <3>1, <3>2, <2>5, <4>1
      <4>2. CASE ~ (k < i)
        <5>1. /\ ~ (k <= Len(u)) /\ k - Len(u) \in 1..(Len(s) - i)
              /\ i + (k - Len(u)) = k + 1
          BY <4>2, <2>5, <1>1, <2>1
        <5>2. (u \o v)[k] = v[k - Len(u)]
          BY <5>1, <3>1, <3>2
        <5>3. v[k - Len(u)] = s[i + (k - Len(u))]
          BY <5>1, <2>6
        <5> QED BY <5>1, <5>2, <5>3, <4>2
      <4> QED BY <4>1, <4>2
    <3> QED BY <3>1, <3>2, <3>3
  <2>8. RemoveFirst(s, e) = u \o v
    BY <2>4 DEF RemoveAt, u, v
  <2>9. DOMAIN (u \o v) = 1..(Len(s) - 1)
    BY <2>7, LenProperties
  <2>10. IsInjective(u \o v)
    <3> SUFFICES ASSUME NEW j \in 1..(Len(s) - 1), NEW k \in 1..(Len(s) - 1),
                        (u \o v)[j] = (u \o v)[k]
                 PROVE  j = k
      BY <2>9 DEF IsInjective
    <3> DEFINE At(n) == IF n < i THEN n ELSE n + 1
    <3>1. s[At(j)] = s[At(k)]
      BY <2>7
    <3>2. At(j) \in 1..Len(s) /\ At(k) \in 1..Len(s)
      BY <1>1, <2>1
    <3>3. At(j) = At(k)
      BY <3>1, <3>2, <1>1 DEF IsInjective
    <3> QED BY <3>3, <1>1, <2>1
  <2>11. ASSUME NEW k \in 1..(Len(s) - 1)
         PROVE  (u \o v)[k] # e /\ \E n \in 1..Len(s) : (u \o v)[k] = s[n]
    <3> DEFINE n == IF k < i THEN k ELSE k + 1
    <3>1. (u \o v)[k] = s[n]
      BY <2>7
    <3>2. n \in 1..Len(s) /\ n # i
      BY <1>1, <2>1
    <3>3. s[n] # s[i]
      BY <3>2, <1>1, <2>1 DEF IsInjective
    <3> QED BY <3>1, <3>2, <3>3, <2>1
  <2> QED BY <2>7, <2>8, <2>9, <2>10, <2>11, <1>1
<1> QED BY <1>2, <1>3

\* A caller that joins the queue after leaving it is there once, at the end.
LEMMA Joining ==
  ASSUME NEW T, NEW s \in Seq(T), IsInjective(s), NEW e \in T
  PROVE  LET t == Append(RemoveFirst(s, e), e) IN
         /\ t \in Seq(T) /\ IsInjective(t)
         /\ \A k \in DOMAIN t : t[k] = e \/ \E n \in DOMAIN s : t[k] = s[n]
<1> DEFINE r == RemoveFirst(s, e)
<1>1. /\ r \in Seq(T) /\ IsInjective(r)
      /\ \A k \in DOMAIN r : r[k] # e /\ \E n \in DOMAIN s : r[k] = s[n]
  BY Leaving
<1> HIDE DEF r
<1>2. DOMAIN r = 1..Len(r) /\ Len(r) \in Nat
  BY <1>1, LenProperties
<1> DEFINE t == Append(r, e)
<1>3. /\ t \in Seq(T) /\ Len(t) = Len(r) + 1
      /\ \A k \in 1..Len(r) : t[k] = r[k]
      /\ t[Len(r) + 1] = e
  BY <1>1, AppendProperties
<1> HIDE DEF t
<1>4. DOMAIN t = 1..(Len(r) + 1)
  BY <1>3, LenProperties
<1>5. ASSUME NEW k \in 1..(Len(r) + 1)
      PROVE  \/ k = Len(r) + 1 /\ t[k] = e
             \/ k \in 1..Len(r) /\ t[k] = r[k] /\ t[k] # e
  BY <1>1, <1>2, <1>3
<1>6. IsInjective(t)
  <2> SUFFICES ASSUME NEW j \in 1..(Len(r) + 1), NEW k \in 1..(Len(r) + 1),
                      t[j] = t[k]
               PROVE  j = k
    BY <1>4 DEF IsInjective
  <2> QED BY <1>5, <1>1, <1>2 DEF IsInjective
<1>7. \A k \in DOMAIN t : t[k] = e \/ \E n \in DOMAIN s : t[k] = s[n]
  BY <1>4, <1>5, <1>1, <1>2
<1> QED BY <1>3, <1>6, <1>7 DEF t, r

\* The beginning of a list and what follows it are a longer beginning.
LEMMA Longer ==
  ASSUME NEW T, NEW list \in Seq(T), NEW m \in 0..Len(list), NEW k \in Nat,
         m + k <= Len(list)
  PROVE  SubSeq(list, 1, m) \o SubSeq(list, m + 1, m + k)
           = SubSeq(list, 1, m + k)
<1>1. Len(list) \in Nat
  BY LenProperties
<1>2. /\ 1 \in 1..(Len(list) + 1) /\ m \in (1 - 1)..Len(list)
      /\ m + k \in m..Len(list)
  BY <1>1
<1> QED BY <1>2, ConcatAdjacentSubSeq

\* A page of a list has items of the list, and its length.
LEMMA PageOf ==
  ASSUME NEW T, NEW list \in Seq(T), NEW m \in Nat, NEW k \in Nat,
         m + k <= Len(list)
  PROVE  LET items == SubSeq(list, m + 1, m + k) IN
         /\ items \in Seq(T) /\ Len(items) = k
         /\ ToSet(items) \subseteq ToSet(list)
<1>1. Len(list) \in Nat /\ DOMAIN list = 1..Len(list)
  BY LenProperties
<1> DEFINE items == SubSeq(list, m + 1, m + k)
<1>2. \A n \in (m + 1)..(m + k) : list[n] \in T
  BY <1>1, ElementOfSeq
<1>3. /\ items \in Seq(T)
      /\ Len(items) = IF m + 1 <= m + k THEN (m + k) - (m + 1) + 1 ELSE 0
      /\ \A n \in 1..((m + k) - (m + 1) + 1) : items[n] = list[(m + 1) + n - 1]
  BY <1>2, SubSeqProperties, m + 1 \in Int, m + k \in Int
<1> HIDE DEF items
<1>4. Len(items) = k
  BY <1>3
<1>5. DOMAIN items = 1..k
  BY <1>3, <1>4, LenProperties
<1>6. ASSUME NEW n \in 1..k
      PROVE  items[n] \in ToSet(list)
  <2>1. /\ n \in 1..((m + k) - (m + 1) + 1) /\ (m + 1) + n - 1 = m + n
        /\ m + n \in DOMAIN list
    BY <1>1
  <2> QED BY <2>1, <1>3 DEF ToSet
<1>7. ToSet(items) \subseteq ToSet(list)
  BY <1>5, <1>6 DEF ToSet
<1> QED BY <1>3, <1>4, <1>7 DEF items

\* The items of two sequences put together are those of both.
LEMMA ItemsOfBoth ==
  ASSUME NEW T, NEW s \in Seq(T), NEW t \in Seq(T)
  PROVE  ToSet(s \o t) \subseteq ToSet(s) \cup ToSet(t)
<1>1. /\ s \o t \in Seq(T) /\ Len(s \o t) = Len(s) + Len(t)
      /\ \A i \in 1..(Len(s) + Len(t)) :
           (s \o t)[i] = IF i <= Len(s) THEN s[i] ELSE t[i - Len(s)]
  BY ConcatProperties
<1>2. /\ Len(s) \in Nat /\ DOMAIN s = 1..Len(s)
      /\ Len(t) \in Nat /\ DOMAIN t = 1..Len(t)
      /\ DOMAIN (s \o t) = 1..(Len(s) + Len(t))
  BY <1>1, LenProperties
<1>3. ASSUME NEW i \in 1..(Len(s) + Len(t))
      PROVE  (s \o t)[i] \in ToSet(s) \cup ToSet(t)
  <2>1. CASE i <= Len(s)
    BY <2>1, <1>1, <1>2 DEF ToSet
  <2>2. CASE ~ (i <= Len(s))
    <3>1. i - Len(s) \in DOMAIN t
      BY <2>2, <1>2
    <3> QED BY <3>1, <2>2, <1>1 DEF ToSet
  <2> QED BY <2>1, <2>2
<1> QED BY <1>2, <1>3 DEF ToSet

\* The lists of a catalogue have its items.
LEMMA ListsAreSequences ==
  ASSUME NEW cat \in Catalogues, NEW l \in Lists
  PROVE  cat[l] \in Seq(Items) /\ cat[l] \in Seq(ToSet(cat[l]))
<1>1. cat[l] \in Seq(ToSet(cat[l]))
  BY ConstantsAssumption
<1>2. ToSet(cat[l]) \subseteq Items
  BY DEF Items
<1> QED BY <1>1, <1>2, SeqMonotonic

\* A list had finitely many states.
LEMMA FiniteWas ==
  ASSUME NEW o, NEW l, IsFiniteSet(o.versions)
  PROVE  IsFiniteSet(Was(o, l))
<1> DEFINE f == [cat \in o.versions |-> cat[l]]
<1>1. f \in Surjection(o.versions, Was(o, l))
  BY DEF Surjection, Was
<1> QED BY <1>1, FS_Surjection

\* Which list comes after which.
LEMMA Order ==
  /\ NextList["schema"] = "upstreams" /\ NextList["upstreams"] = "downstreams"
  /\ NextList["downstreams"] = "assets"
BY DEF NextList, Lists

-----------------------------------------------------------------------------
(* A reader's step.                                                        *)

\* The caller's operation becomes o, and it awaits p.
Goes(c, o, p) ==
  /\ op' = [op EXCEPT ![c] = o] /\ pending' = [pending EXCEPT ![c] = p]
  /\ \/ queue' = RemoveFirst(queue, c)
     \/ queue' = Append(RemoveFirst(queue, c), c) /\ (c \in Readers => p # None)

\* It goes on, or ends, as a reader may.
Proceeds(c) ==
  \E o \in Operation : \E p :
    Goes(c, o, p) /\ ReaderOK(o, p) /\ Current(o, p)

\* An operation that is idle has read nothing.
LEMMA IdleIsOperation == Idle \in Operation
<1>1. <<>> \in Seq(Items)
  BY EmptySeq
<1> QED BY <1>1 DEF Idle, Operation, Lists

\* A read that fails is none any more (Fails).
LEMMA FailingProceeds ==
  ASSUME NEW c \in Readers, Fails(c)
  PROVE  Proceeds(c)
<1>1. Goes(c, Idle, None)
  BY DEF Fails, Ends, Rests, Goes
<1>2. ReaderOK(Idle, None) /\ Current(Idle, None)
  BY DEF ReaderOK, Current, Idle
<1> QED BY <1>1, <1>2, IdleIsOperation DEF Proceeds

\* A read goes on with the call for what comes next (Asks).
LEMMA AskingProceeds ==
  ASSUME NEW c \in Readers, NEW o \in Operation,
         NEW tool \in Lists \cup {"get_entities", "get_dataset_queries"},
         NEW arg \in Nat,
         Asks(c, o, tool, arg), Reading(o), FitsCall(o, Call(tool, arg)),
         catalogue \in o.versions
  PROVE  Proceeds(c)
<1> DEFINE p == Call(tool, arg)
<1>1. p \in ReadCall
  BY DEF Call, ReadCall
<1>2. p # None
  BY <1>1, NoneAssumption
<1>3. Goes(c, o, p)
  BY <1>2 DEF Asks, Submits, Goes
<1>4. ReaderOK(o, p)
  BY <1>1, <1>2 DEF ReaderOK, Reading
<1>5. Current(o, p)
  BY DEF Current
<1> QED BY <1>3, <1>4, <1>5 DEF Proceeds

\* A read that is whole is accepted (Accepts).
LEMMA AcceptingProceeds ==
  ASSUME NEW c \in Readers, NEW o \in Operation, IsFiniteSet(o.versions),
         Accepts(c, o), Whole(o)
  PROVE  Proceeds(c)
<1> DEFINE a == [o EXCEPT !.kind = "accepted"]
<1>1. /\ a \in Operation /\ a.list = o.list /\ a.read = o.read
      /\ a.versions = o.versions
  BY DEF Operation
<1>2. Goes(c, a, None)
  BY DEF Accepts, Ends, Rests, Goes
<1> HIDE DEF a
<1>3. Whole(a)
  <2>1. \A l : Done(o, l) => Done(a, l)
    BY <1>1 DEF Done, Was
  <2> QED BY <1>1, <2>1 DEF Whole
<1>4. ReaderOK(a, None) /\ Current(a, None)
  BY <1>1, <1>3 DEF ReaderOK, Current
<1> QED BY <1>1, <1>2, <1>4 DEF Proceeds

\* The lists before and after the next one.
LEMMA AfterOrder ==
  ASSUME NEW l \in Lists, l # "assets"
  PROVE  /\ NextList[l] \in Lists \cap After(l)
         /\ Before(NextList[l]) = Before(l) \cup {l}
         /\ After(NextList[l]) \subseteq After(l)
BY Order DEF Lists, Before, After

\* A list was read: on to the next, or the read is complete (ListRead).
LEMMA ReadingOn ==
  ASSUME NEW c \in Readers, NEW o \in Operation,
         Reading(o), Done(o, o.list), catalogue \in o.versions,
         ListRead(c, o, o.list)
  PROVE  Proceeds(c)
<1> DEFINE l == o.list
<1>1. l \in Lists
  BY DEF Operation
<1>2. CASE l = "schema" /\ ~ SchemaOK(c, o)
  BY <1>2, FailingProceeds DEF ListRead
<1>3. CASE ~ (l = "schema" /\ ~ SchemaOK(c, o)) /\ o.kind = "discover"
  <2>1. l = "schema" /\ IsInjective(o.read["schema"])
    BY <1>3 DEF Reading, SchemaOK
  <2>2. Whole(o)
    BY <2>1 DEF Whole
  <2>3. Accepts(c, o)
    BY <1>3 DEF ListRead
  <2>4. IsFiniteSet(o.versions)
    BY DEF Reading
  <2> QED BY <2>2, <2>3, <2>4, AcceptingProceeds
<1>4. CASE ~ (l = "schema" /\ ~ SchemaOK(c, o)) /\ o.kind # "discover" /\ l = "assets"
  <2>1. Asks(c, o, "get_dataset_queries", 0)
    BY <1>4 DEF ListRead
  <2>2. FitsCall(o, Call("get_dataset_queries", 0))
    BY <1>4 DEF FitsCall, Call, Reading, Lists
  <2> QED BY <2>1, <2>2, AskingProceeds, 0 \in Nat
<1>5. CASE ~ (l = "schema" /\ ~ SchemaOK(c, o)) /\ o.kind # "discover" /\ l # "assets"
  <2> DEFINE n == NextList[l]
             b == [o EXCEPT !.list = n, !.total = 0]
  <2>1. Asks(c, b, n, 0)
    BY <1>5 DEF ListRead
  <2>2. /\ n \in Lists /\ n \in After(l) /\ Before(n) = Before(l) \cup {l}
        /\ After(n) \subseteq After(l)
    BY <1>1, <1>5, AfterOrder
  <2> HIDE DEF n
  <2>3. /\ b \in Operation /\ b.kind = o.kind /\ b.list = n /\ b.read = o.read
        /\ b.versions = o.versions
    BY <2>2 DEF Operation
  <2> HIDE DEF b
  <2>4. b.read[n] = <<>>
    BY <2>2, <2>3 DEF Reading
  <2>5. Part(b, n)
    <3>1. ToSet(<<>>) = {}
      BY DEF ToSet
    <3>2. ASSUME NEW list, Was(b, n) = {list}
          PROVE  0 <= Len(list) /\ <<>> = SubSeq(list, 1, 0)
      <4>1. list \in Seq(Items)
        <5>1. PICK cat \in b.versions : list = cat[n]
          BY <3>2 DEF Was
        <5>2. cat \in Catalogues
          BY <2>3, <5>1 DEF Operation
        <5> QED BY <5>1, <5>2, <2>2, ListsAreSequences
      <4> QED BY <4>1, LenProperties, SubSeqEmpty, 1 \in Int, 0 \in Int
    <3> QED BY <3>1, <3>2, <2>4 DEF Part
  <2>6. \A k \in Before(n) : Done(b, k)
    <3>1. \A k \in Before(n) : Done(o, k)
      BY <2>2 DEF Reading
    <3>2. \A k : Done(o, k) => Done(b, k)
      BY <2>3 DEF Done, Was
    <3> QED BY <3>1, <3>2
  <2>7. Reading(b)
    BY <2>2, <2>3, <2>5, <2>6, <1>5 DEF Reading
  <2>8. FitsCall(b, Call(n, 0))
    BY <2>2, <2>3, <2>4 DEF FitsCall, Call, Lists
  <2> QED BY <2>1, <2>2, <2>3, <2>7, <2>8, AskingProceeds, 0 \in Nat
<1> QED BY <1>2, <1>3, <1>4, <1>5

\* A page was merged: the list is complete, or the next page is due (Merged).
LEMMA MergingProceeds ==
  ASSUME NEW c \in Readers, NEW o \in Operation,
         Reading(o), Total(o, o.list), catalogue \in o.versions,
         Merged(c, o, o.list)
  PROVE  Proceeds(c)
<1> DEFINE l == o.list
<1>1. l \in Lists /\ o.read[l] \in Seq(Items) /\ Len(o.read[l]) \in Nat
  BY LenProperties DEF Operation
<1>2. CASE LastPage(o, l)
  <2>1. Done(o, l)
    <3>1. \E list \in Was(o, l) : Len(o.read[l]) = Len(list)
      BY <1>2 DEF Total, LastPage
    <3>2. ASSUME NEW list, Was(o, l) = {list}
          PROVE  o.read[l] = list
      <4>1. Len(o.read[l]) = Len(list)
        BY <3>1, <3>2
      <4>2. o.read[l] = SubSeq(list, 1, Len(list))
        BY <4>1, <3>2 DEF Reading, Part
      <4>3. PICK cat \in o.versions : list = cat[l]
        BY <3>2 DEF Was
      <4>4. list \in Seq(Items)
        BY <4>3, <1>1, ListsAreSequences DEF Operation
      <4> QED BY <4>2, <4>4, SubSeqFull
    <3> QED BY <3>1, <3>2 DEF Done, Reading, Part
  <2>2. ListRead(c, o, l)
    BY <1>2 DEF Merged
  <2> QED BY <2>1, <2>2, ReadingOn
<1>3. CASE ~ LastPage(o, l)
  <2>1. Asks(c, o, l, Len(o.read[l]))
    BY <1>3 DEF Merged
  <2>2. FitsCall(o, Call(l, Len(o.read[l])))
    BY <1>1 DEF FitsCall, Call, Lists
  <2> QED BY <1>1, <2>1, <2>2, AskingProceeds
<1> QED BY <1>2, <1>3

\* A read with the next k items that the list has now.
Extended(o, k, total) ==
  LET at == Len(o.read[o.list]) IN
  [o EXCEPT !.read[o.list] = @ \o SubSeq(catalogue[o.list], at + 1, at + k),
            !.total = total]

\* What a page does to a read: it is longer, and has still the beginning of a
\* list that did not change.
LEMMA PageExtends ==
  ASSUME NEW o \in Operation, Reading(o), catalogue \in o.versions,
         NEW k \in Nat, NEW total \in Nat,
         Len(o.read[o.list]) + k <= Len(catalogue[o.list])
  PROVE  LET b == Extended(o, k, total) IN
         /\ b \in Operation /\ Reading(b) /\ b.list = o.list
         /\ b.versions = o.versions /\ b.total = total
<1> DEFINE l == o.list
           m == Len(o.read[l])
           now == catalogue[l]
           items == SubSeq(now, m + 1, m + k)
           read == o.read[l] \o items
<1>1. /\ l \in Lists /\ o.read[l] \in Seq(Items) /\ m \in Nat
      /\ catalogue \in Catalogues /\ now \in Was(o, l)
  BY LenProperties DEF Operation, Was
<1>2. now \in Seq(Items)
  BY <1>1, ListsAreSequences
<1> HIDE DEF now
<1>3. m + k <= Len(now)
  BY DEF now
<1>4. /\ items \in Seq(Items) /\ Len(items) = k
      /\ ToSet(items) \subseteq ToSet(now)
  <2> HIDE DEF m
  <2> QED BY <1>1, <1>2, <1>3, PageOf
<1>5. read \in Seq(Items) /\ Len(read) = m + k
  <2>1. o.read[l] \o items \in Seq(Items)
        /\ Len(o.read[l] \o items) = Len(o.read[l]) + Len(items)
    BY <1>1, <1>4, ConcatProperties
  <2> QED BY <2>1, <1>4
<1>6. ToSet(read) \subseteq ToSet(o.read[l]) \cup ToSet(items)
  BY <1>1, <1>4, ItemsOfBoth
<1>7. ToSet(read) \subseteq UNION {ToSet(list) : list \in Was(o, l)}
  BY <1>1, <1>4, <1>6 DEF Reading, Part
<1>8. ASSUME NEW list, Was(o, l) = {list}
      PROVE  Len(read) <= Len(list) /\ read = SubSeq(list, 1, Len(read))
  <2>1. list = now
    BY <1>1, <1>8
  <2>2. m <= Len(now) /\ o.read[l] = SubSeq(now, 1, m)
    BY <1>8, <2>1 DEF Reading, Part
  <2>3. Len(now) \in Nat
    BY <1>2, LenProperties
  <2>4. SubSeq(now, 1, m) \o SubSeq(now, m + 1, m + k) = SubSeq(now, 1, m + k)
    <3>1. m \in 0..Len(now)
      BY <1>1, <2>2, <2>3
    <3> QED BY <3>1, <1>2, <1>3, Longer
  <2> QED BY <1>3, <1>5, <2>1, <2>2, <2>4
<1> DEFINE b == Extended(o, k, total)
<1> HIDE DEF read
<1>9. /\ b \in Operation /\ b.kind = o.kind /\ b.list = l /\ b.total = total
      /\ b.versions = o.versions /\ b.read[l] = read
      /\ \A n \in Lists \ {l} : b.read[n] = o.read[n]
  <2>1. b = [o EXCEPT !.read = [o.read EXCEPT ![l] = read], !.total = total]
    BY <1>1 DEF Operation, read, Extended, now
  <2>2. o.read \in [Lists -> Seq(Items)]
    BY DEF Operation
  <2>3. /\ [o.read EXCEPT ![l] = read] \in [Lists -> Seq(Items)]
        /\ [o.read EXCEPT ![l] = read][l] = read
        /\ \A n \in Lists \ {l} : [o.read EXCEPT ![l] = read][n] = o.read[n]
    BY <1>1, <1>5, <2>2
  <2> DEFINE reads == [o.read EXCEPT ![l] = read]
  <2> HIDE DEF reads
  <2> HIDE DEF b
  <2>4. b = [o EXCEPT !.read = reads, !.total = total]
    BY <2>1 DEF reads
  <2>5. /\ reads \in [Lists -> Seq(Items)] /\ reads[l] = read
        /\ \A n \in Lists \ {l} : reads[n] = o.read[n]
    BY <2>3 DEF reads
  <2> QED BY <2>4, <2>5 DEF Operation
<1> HIDE DEF b
<1>10. \A n : Was(b, n) = Was(o, n)
  BY <1>9 DEF Was
<1>11. Part(b, l)
  BY <1>7, <1>8, <1>9, <1>10 DEF Part
<1>12. \A n \in Before(l) : Done(b, n)
  <2>1. \A n \in Before(l) : n \in Lists \ {l} /\ Done(o, n)
    BY <1>1 DEF Before, Lists, Reading
  <2>2. \A n \in Lists \ {l} : Done(o, n) => Done(b, n)
    BY <1>9, <1>10 DEF Done
  <2> QED BY <2>1, <2>2
<1>13. \A n \in After(l) : b.read[n] = <<>>
  BY <1>9 DEF After, Reading
<1>14. Reading(b)
  BY <1>9, <1>11, <1>12, <1>13 DEF Reading
<1> QED BY <1>9, <1>14 DEF b

\* A page arrives (PageArrives): refused, or merged at once or after the root
\* identity is checked.
LEMMA PageProceeds ==
  ASSUME NEW c \in Readers, op[c] \in Operation, Reading(op[c]),
         catalogue \in op[c].versions,
         NEW call \in ReadCall, call.tool \in Lists, FitsCall(op[c], call),
         NEW page \in Pages(c, call.tool, call.arg),
         PageArrives(c, call.tool, call.arg, page)
  PROVE  Proceeds(c)
<1> DEFINE l == call.tool
           at == call.arg
           total == IF at = 0 THEN page.total ELSE op[c].total
           o == [op[c] EXCEPT !.read[l] = @ \o page.items, !.total = total]
           refused == \/ at > 0 /\ ~ SameTotal(op[c], page)
                      \/ page.items = <<>> /\ page.total > at
                      \/ Len(o.read[l]) > o.total
<1>1. /\ l \in Lists /\ l = op[c].list /\ at = Len(op[c].read[l]) /\ at \in Nat
      /\ at > 0 => Total(op[c], l)
  BY DEF FitsCall, ReadCall
<1>2. /\ catalogue \in Catalogues /\ op[c].total \in Nat
      /\ catalogue[l] \in Was(op[c], l)
  BY DEF Operation, Was
<1>3. catalogue[l] \in Seq(Items) /\ Len(catalogue[l]) \in Nat
  BY <1>1, <1>2, ListsAreSequences, LenProperties
<1>4. PICK k \in Nat :
        /\ at + k <= Len(catalogue[l])
        /\ page = [items |-> SubSeq(catalogue[l], at + 1, at + k),
                   total |-> Len(catalogue[l])]
  <2>1. Limit(c, l, at) \in Nat
    BY <1>1, <1>2, ConstantsAssumption DEF Limit
  <2> QED BY <2>1 DEF Pages
<1>5. /\ page.items = SubSeq(catalogue[l], at + 1, at + k)
      /\ page.total = Len(catalogue[l])
  BY <1>4
<1>6. total \in Nat
  BY <1>2, <1>3, <1>5
<1> HIDE DEF total
<1>7. /\ o \in Operation /\ Reading(o) /\ o.list = l
      /\ o.versions = op[c].versions /\ o.total = total
  <2>1. PICK was \in Operation : was = op[c]
    OBVIOUS
  <2>2. PICK sum \in Nat : sum = total
    BY <1>6
  <2>3. PICK b : b = Extended(was, k, sum)
    OBVIOUS
  <2>4. /\ Len(was.read[was.list]) + k <= Len(catalogue[was.list])
        /\ Reading(was) /\ catalogue \in was.versions
    BY <1>1, <1>4, <2>1
  <2>5. o = b
    BY <1>1, <1>5, <2>1, <2>2, <2>3 DEF Extended
  <2> HIDE DEF o
  <2>6. /\ b \in Operation /\ Reading(b) /\ b.list = was.list
        /\ b.versions = was.versions /\ b.total = sum
    BY <2>3, <2>4, PageExtends
  <2> QED BY <1>1, <2>1, <2>2, <2>5, <2>6
<1>8. Total(o, l)
  <2>1. Was(o, l) = Was(op[c], l)
    BY <1>7 DEF Was
  <2>2. CASE at = 0
    BY <2>1, <2>2, <1>2, <1>5, <1>7 DEF Total, total
  <2>3. CASE at # 0
    BY <2>1, <2>3, <1>1, <1>7 DEF Total, total
  <2> QED BY <2>2, <2>3
<1>9. IF l = "schema" THEN IF refused THEN Fails(c) ELSE Merged(c, o, l)
      ELSE Asks(c, IF refused THEN op[c] ELSE o, "get_entities",
                IF refused THEN 2 ELSE 1)
  BY DEF PageArrives, total
<1> HIDE DEF o, refused
<1>10. CASE l = "schema" /\ refused
  BY <1>9, <1>10, FailingProceeds
<1>11. CASE l = "schema" /\ ~ refused
  BY <1>7, <1>8, <1>9, <1>11, MergingProceeds
<1>12. CASE l # "schema" /\ refused
  <2>1. Asks(c, op[c], "get_entities", 2)
    BY <1>9, <1>12
  <2>2. FitsCall(op[c], Call("get_entities", 2))
    BY DEF FitsCall, Call, Lists
  <2> QED BY <2>1, <2>2, AskingProceeds, 2 \in Nat
<1>13. CASE l # "schema" /\ ~ refused
  <2>1. Asks(c, o, "get_entities", 1)
    BY <1>9, <1>13
  <2>2. FitsCall(o, Call("get_entities", 1))
    BY <1>7, <1>8, <1>13 DEF FitsCall, Call, Lists
  <2> QED BY <2>1, <2>2, <1>7, AskingProceeds, 1 \in Nat
<1> QED BY <1>10, <1>11, <1>12, <1>13

\* A read takes its answer (ReadAnswered).
LEMMA AnsweredProceeds ==
  ASSUME NEW c \in Readers, op[c] \in Operation, Reading(op[c]),
         catalogue \in op[c].versions,
         NEW call \in ReadCall, FitsCall(op[c], call), ReadAnswered(c, call)
  PROVE  Proceeds(c)
<1> DEFINE o == op[c]
<1>1. CASE call.tool = "get_entities" /\ call.arg = 0
  <2>1. Asks(c, o, "schema", 0)
    BY <1>1 DEF ReadAnswered, Lists
  <2>2. o.list = "schema" /\ o.read["schema"] = <<>>
    BY <1>1 DEF FitsCall
  <2>3. FitsCall(o, Call("schema", 0))
    BY <2>2, EmptySeq DEF FitsCall, Call, Lists
  <2> QED BY <2>1, <2>3, AskingProceeds, 0 \in Nat DEF Lists
<1>2. CASE call.tool = "get_entities" /\ call.arg = 1
  <2>1. Merged(c, o, o.list)
    BY <1>2 DEF ReadAnswered, Lists
  <2>2. Total(o, o.list)
    BY <1>2 DEF FitsCall
  <2> QED BY <2>1, <2>2, MergingProceeds
<1>3. CASE call.tool = "get_entities" /\ call.arg = 2
  BY <1>3, FailingProceeds DEF ReadAnswered, Lists
<1>4. CASE call.tool \in Lists
  <2>1. PICK page \in Pages(c, call.tool, call.arg) :
          PageArrives(c, call.tool, call.arg, page)
    BY <1>4 DEF ReadAnswered, Lists
  <2> QED BY <1>4, <2>1, PageProceeds
<1>5. CASE call.tool = "get_dataset_queries"
  <2>1. IF ContextOK(o) THEN Accepts(c, o) ELSE Fails(c)
    BY <1>5 DEF ReadAnswered, Lists
  <2>2. CASE ContextOK(o)
    <3>1. o.list = "assets" /\ Done(o, "assets")
      BY <1>5 DEF FitsCall
    <3>2. \A l \in Lists : Done(o, l) /\ IsInjective(o.read[l])
      BY <3>1, <2>2 DEF Reading, Before, Lists, ContextOK
    <3>3. Whole(o)
      BY <3>1, <3>2 DEF Whole
    <3>4. IsFiniteSet(o.versions)
      BY DEF Reading
    <3>5. Accepts(c, o)
      BY <2>1, <2>2
    <3> QED BY <3>3, <3>4, <3>5, AcceptingProceeds
  <2>3. CASE ~ ContextOK(o)
    BY <2>1, <2>3, FailingProceeds
  <2> QED BY <2>2, <2>3
<1>6. call.tool = "get_entities" => call.arg \in {0, 1, 2}
  BY DEF FitsCall
<1> QED BY <1>1, <1>2, <1>3, <1>4, <1>5, <1>6 DEF ReadAnswered

\* Whoever goes on or ends leaves the others as they are.
LEMMA GoingKeeps ==
  ASSUME ReadInv, NEW c \in Callers, NEW o \in Operation, NEW p, Goes(c, o, p),
         c \in Readers => ReaderOK(o, p) /\ Current(o, p),
         catalogue' = catalogue,
         \A job \in running' : job.caller \in Readers /\ job.live =>
           job \in running /\ job.caller # c
  PROVE  ReadInv'
<1>1. /\ DOMAIN pending' = Callers /\ op' \in [Callers -> Operation]
      /\ pending'[c] = p /\ op'[c] = o
      /\ \A d \in Callers \ {c} : pending'[d] = pending[d] /\ op'[d] = op[d]
  BY DEF ReadInv, Goes
<1>2. Readers \subseteq Callers
  BY DEF Readers
<1>3. /\ queue \in Seq(Callers) /\ IsInjective(queue)
      /\ \A k \in DOMAIN queue : queue[k] \in Readers => pending[queue[k]] # None
  BY DEF ReadInv, QueueInv, Awaits
<1>4. /\ queue' \in Seq(Callers) /\ IsInjective(queue')
      /\ \A k \in DOMAIN queue' :
           \/ queue'[k] = c /\ (c \in Readers => p # None)
           \/ queue'[k] # c /\ \E n \in DOMAIN queue : queue'[k] = queue[n]
  <2>1. CASE queue' = RemoveFirst(queue, c)
    BY <1>3, <2>1, Leaving
  <2>2. CASE queue' = Append(RemoveFirst(queue, c), c) /\ (c \in Readers => p # None)
    BY <1>3, <2>2, Joining
  <2> QED BY <2>1, <2>2 DEF Goes
<1>5. ASSUME NEW k \in DOMAIN queue', queue'[k] \in Readers
      PROVE  pending'[queue'[k]] # None
  BY <1>1, <1>2, <1>3, <1>4, <1>5
<1>6. ASSUME NEW job \in running', job.caller \in Readers, job.live
      PROVE  /\ pending'[job.caller] # None /\ pending'[job.caller] = job.call
             /\ \A k \in DOMAIN queue' : queue'[k] # job.caller
  <2>1. job \in running /\ job.caller # c /\ job.caller \in Callers
    BY <1>2, <1>6
  <2>2. /\ pending[job.caller] # None /\ pending[job.caller] = job.call
        /\ \A k \in DOMAIN queue : queue[k] # job.caller
    BY <1>6, <2>1 DEF ReadInv, QueueInv, Awaits
  <2> QED BY <1>1, <1>4, <2>1, <2>2
<1>7. QueueInv'
  BY <1>4, <1>5, <1>6 DEF QueueInv, Awaits
<1>8. ASSUME NEW d \in Readers
      PROVE  (ReaderOK(op[d], pending[d]) /\ Current(op[d], pending[d]))'
  <2>1. CASE d = c
    BY <1>1, <2>1 DEF Current
  <2>2. CASE d # c
    <3>1. ReaderOK(op[d], pending[d]) /\ Current(op[d], pending[d])
      BY DEF ReadInv
    <3>2. op'[d] = op[d] /\ pending'[d] = pending[d]
      BY <1>1, <1>2, <2>2
    <3> QED BY <3>1, <3>2 DEF Current
  <2> QED BY <2>1, <2>2
<1> QED BY <1>1, <1>7, <1>8 DEF ReadInv

\* For a reader that proceeds.
LEMMA ProceedingKeeps ==
  ASSUME ReadInv, NEW c \in Readers, Proceeds(c), catalogue' = catalogue,
         \A job \in running' : job.caller \in Readers /\ job.live =>
           job \in running /\ job.caller # c
  PROVE  ReadInv'
<1>1. PICK o, p :
        o \in Operation /\ Goes(c, o, p) /\ ReaderOK(o, p) /\ Current(o, p)
  BY DEF Proceeds
<1>2. c \in Callers
  BY DEF Readers
<1> QED BY <1>1, <1>2, GoingKeeps

\* Nobody moves: only calls that no reader awaits are gone.
LEMMA RestingKeeps ==
  ASSUME ReadInv, UNCHANGED <<pending, queue, op, catalogue>>,
         \A job \in running' : job.caller \in Readers /\ job.live =>
           job \in running
  PROVE  ReadInv'
<1>1. QueueInv'
  BY DEF ReadInv, QueueInv, Awaits
<1>2. ASSUME NEW d \in Readers
      PROVE  (ReaderOK(op[d], pending[d]) /\ Current(op[d], pending[d]))'
  BY DEF ReadInv, Current
<1> QED BY <1>1, <1>2 DEF ReadInv

-----------------------------------------------------------------------------
(* The steps.                                                              *)

\* The worker is as it was, and nothing else is confirmed (BeginRead,
\* BeginWrite, Edit).
LEMMA SameWorker ==
  ASSUME WriteInv, UNCHANGED <<running, writeVars>>
  PROVE  WriteInv'
BY DEF writeVars, WriteInv, WorkerInv, Writing, ConfirmedWriteStands

\* What a worker with a free hand has is nothing.
LEMMA FreeWorker ==
  ASSUME IsFiniteSet(running), Cardinality(running) < Workers
  PROVE  running = {}
<1>1. Cardinality(running) \in Nat
  BY FS_CardinalityType
<1> QED BY <1>1, FS_EmptySet DEF Workers

\* The worker takes a call (StartCall): properties that are being written are not
\* confirmed.
LEMMA StartKeeps ==
  ASSUME IInv, StartCall
  PROVE  IInv'
<1> DEFINE c == Head(queue)
<1>1. /\ queue # <<>> /\ queue \in Seq(Callers) /\ IsInjective(queue)
      /\ DOMAIN queue = 1..Len(queue) /\ Len(queue) \in Nat
  BY LenProperties DEF IInv, ReadInv, QueueInv, StartCall, Start
<1>2. c = queue[1] /\ 1 \in DOMAIN queue /\ c \in Callers
  <2>1. Len(queue) # 0
    BY <1>1, EmptySeq
  <2> QED BY <1>1, <2>1, ElementOfSeq
<1>3. /\ queue' \in Seq(Callers) /\ DOMAIN queue' = 1..(Len(queue) - 1)
      /\ \A k \in DOMAIN queue' : queue'[k] = queue[k + 1] /\ k + 1 \in DOMAIN queue
  <2>1. /\ Tail(queue) \in Seq(Callers) /\ Len(Tail(queue)) = Len(queue) - 1
        /\ \A i \in 1..Len(Tail(queue)) : Tail(queue)[i] = queue[i + 1]
    BY <1>1, HeadTailProperties
  <2>2. DOMAIN Tail(queue) = 1..(Len(queue) - 1)
    BY <2>1, LenProperties
  <2> QED BY <1>1, <2>1, <2>2 DEF StartCall, Start
<1>4. running = {}
  BY FreeWorker DEF IInv, WriteInv, WorkerInv, StartCall, Start
<1>5. running' = {Job(c, TRUE)}
  BY <1>4 DEF StartCall, Start
<1>6. WorkerInv'
  <2>1. IsFiniteSet({Job(c, TRUE)})
    BY FS_Singleton
  <2> QED BY <1>2, <1>5, <2>1 DEF WorkerInv, Job
<1>7. WriteInv'
  <2>1. UNCHANGED <<lastRun, written, overtaken>>
    BY DEF StartCall
  <2>2. confirmed' = IF WritesProperties(pending[c]) THEN None ELSE confirmed
    BY DEF StartCall
  <2>3. ConfirmedWriteStands'
    BY <2>1, <2>2 DEF IInv, WriteInv, ConfirmedWriteStands
  <2>4. written' = {}
    BY <1>4, <2>1 DEF IInv, WriteInv
  <2>5. \A job \in running' : Writing(job)'
    BY <1>5, <2>2, <2>4 DEF Job, Writing, WritesProperties
  <2> QED BY <1>6, <2>3, <2>4, <2>5 DEF WriteInv
<1>8. IsInjective(queue')
  <2> SUFFICES ASSUME NEW j \in DOMAIN queue', NEW k \in DOMAIN queue',
                      queue'[j] = queue'[k]
               PROVE  j = k
    BY DEF IsInjective
  <2>1. j + 1 = k + 1
    BY <1>1, <1>3 DEF IsInjective
  <2> QED BY <2>1, <1>1, <1>3
<1>9. \A k \in DOMAIN queue' : queue'[k] # c
  <2> SUFFICES ASSUME NEW k \in DOMAIN queue', queue'[k] = c
               PROVE  FALSE
    OBVIOUS
  <2>1. k + 1 = 1
    BY <1>1, <1>2, <1>3 DEF IsInjective
  <2> QED BY <2>1, <1>1, <1>3
<1>10. UNCHANGED <<pending, op, catalogue>>
  BY DEF StartCall, Start, readVars
<1>11. QueueInv'
  <2>1. \A k \in DOMAIN queue' : queue'[k] \in Readers => pending'[queue'[k]] # None
    BY <1>3, <1>10 DEF IInv, ReadInv, QueueInv, Awaits
  <2>2. c \in Readers => pending'[c] # None
    BY <1>2, <1>10 DEF IInv, ReadInv, QueueInv, Awaits
  <2>3. \A job \in running' : job.caller = c /\ job.call = pending'[c]
    BY <1>5, <1>10 DEF Job
  <2> QED BY <1>3, <1>8, <1>9, <2>1, <2>2, <2>3 DEF QueueInv, Awaits
<1>12. ReadInv'
  <2>1. ASSUME NEW d \in Readers
        PROVE  (ReaderOK(op[d], pending[d]) /\ Current(op[d], pending[d]))'
    BY <1>10 DEF IInv, ReadInv, Current
  <2> QED BY <1>10, <1>11, <2>1 DEF IInv, ReadInv
<1> QED BY <1>7, <1>10, <1>12 DEF IInv

\* A read begins (BeginRead).
LEMMA BeginReadKeeps ==
  ASSUME IInv, NEW c \in Callers, NEW kind \in {"load", "discover"},
         BeginRead(c, kind)
  PROVE  IInv'
<1> DEFINE o == Op(kind)
<1>1. /\ c \in Readers /\ ~ Awaits(c) /\ Asks(c, o, "get_entities", 0)
      /\ UNCHANGED <<running, catalogue, writeVars>>
  BY DEF BeginRead, readVars
<1>2. /\ o \in Operation /\ o.kind = kind /\ o.list = "schema"
      /\ o.versions = {catalogue} /\ \A l \in Lists : o.read[l] = <<>>
  BY IdleIsOperation DEF Op, Idle, Operation, IInv
<1> HIDE DEF o
<1>3. Part(o, "schema")
  <2>1. ToSet(<<>>) = {} /\ Len(<<>>) = 0
    BY EmptySeq DEF ToSet
  <2>2. Was(o, "schema") = {catalogue["schema"]}
    BY <1>2 DEF Was
  <2>3. catalogue["schema"] \in Seq(Items)
    BY ListsAreSequences DEF IInv, Lists
  <2>4. 0 <= Len(catalogue["schema"]) /\ <<>> = SubSeq(catalogue["schema"], 1, 0)
    BY <2>3, LenProperties, SubSeqEmpty, 1 \in Int, 0 \in Int
  <2>5. o.read["schema"] = <<>>
    BY <1>2 DEF Lists
  <2> QED BY <2>1, <2>2, <2>4, <2>5 DEF Part
<1>4. Reading(o)
  BY <1>2, <1>3, FS_Singleton DEF Reading, Before, After
<1>5. FitsCall(o, Call("get_entities", 0))
  BY <1>2 DEF FitsCall, Call, Lists
<1>6. Proceeds(c)
  BY <1>1, <1>2, <1>4, <1>5, AskingProceeds, 0 \in Nat
<1>7. \A job \in running' : job.caller \in Readers /\ job.live =>
        job \in running /\ job.caller # c
  BY <1>1 DEF IInv, ReadInv, QueueInv
<1>8. ReadInv'
  BY <1>1, <1>6, <1>7, ProceedingKeeps DEF IInv
<1> QED BY <1>1, <1>8, SameWorker DEF IInv

\* The publisher moves: no read is concerned.
LEMMA PublisherKeeps ==
  ASSUME ReadInv, NEW o \in Operation, NEW p, Goes(Publisher, o, p),
         catalogue' = catalogue,
         \A job \in running' : job.caller \in Readers /\ job.live =>
           job \in running
  PROVE  ReadInv'
<1>1. Publisher \in Callers /\ Publisher \notin Readers
  BY ConstantsAssumption DEF Readers
<1> QED BY <1>1, GoingKeeps

\* A writeback begins (BeginWrite).
LEMMA BeginWriteKeeps ==
  ASSUME IInv, NEW r \in Runs, BeginWrite(r)
  PROVE  IInv'
<1> DEFINE o == Op("write")
           p == Call(Head(Due(progress[r])), r)
<1>1. /\ Asks(Publisher, o, Head(Due(progress[r])), r)
      /\ UNCHANGED <<running, catalogue, writeVars>>
  BY DEF BeginWrite, readVars
<1>2. o \in Operation
  BY IdleIsOperation DEF Op, Idle, Operation, IInv
<1>3. Publisher \notin Readers
  BY DEF Readers
<1> HIDE DEF o
<1>4. Goes(Publisher, o, p)
  BY <1>1, <1>3 DEF Asks, Submits, Goes
<1> HIDE DEF p
<1>5. ReadInv'
  BY <1>1, <1>2, <1>4, PublisherKeeps DEF IInv
<1> QED BY <1>1, <1>5, SameWorker DEF IInv

\* A read during which the catalogue changes is still a read.
LEMMA EditedReads ==
  ASSUME NEW o \in Operation, NEW p, Reading(o), FitsCall(o, p),
         NEW cat \in Catalogues,
         NEW b, b = [o EXCEPT !.versions = @ \cup {cat}]
  PROVE  b \in Operation /\ Reading(b) /\ FitsCall(b, p) /\ cat \in b.versions
<1>1. /\ b \in Operation /\ b.kind = o.kind /\ b.list = o.list /\ b.read = o.read
      /\ b.total = o.total /\ b.versions = o.versions \cup {cat}
  BY DEF Operation
<1>2. \A l : Was(o, l) \subseteq Was(b, l) /\ Was(o, l) # {}
  BY <1>1 DEF Was, Reading
<1>3. \A l, list : Was(b, l) = {list} => Was(o, l) = {list}
  BY <1>2
<1> DEFINE Had(x, l) == UNION {ToSet(list) : list \in Was(x, l)}
<1>4. \A l : Had(o, l) \subseteq Had(b, l)
  BY <1>2
<1>5. ASSUME NEW l, Done(o, l)
      PROVE  Done(b, l)
  <2>1. ToSet(b.read[l]) \subseteq Had(b, l)
    <3>1. ToSet(o.read[l]) \subseteq Had(o, l)
      BY <1>5 DEF Done
    <3> HIDE DEF Had
    <3> QED BY <1>1, <1>4, <3>1
  <2>2. \E list \in Was(b, l) : Len(b.read[l]) = Len(list)
    BY <1>1, <1>2, <1>5 DEF Done
  <2>3. \A list : Was(b, l) = {list} => b.read[l] = list
    BY <1>1, <1>3, <1>5 DEF Done
  <2> QED BY <2>1, <2>2, <2>3 DEF Done
<1>6. ASSUME NEW l, Part(o, l)
      PROVE  Part(b, l)
  <2>1. ToSet(b.read[l]) \subseteq Had(b, l)
    <3>1. ToSet(o.read[l]) \subseteq Had(o, l)
      BY <1>6 DEF Part
    <3> HIDE DEF Had
    <3> QED BY <1>1, <1>4, <3>1
  <2>2. \A list : Was(b, l) = {list} =>
          /\ Len(b.read[l]) <= Len(list)
          /\ b.read[l] = SubSeq(list, 1, Len(b.read[l]))
    BY <1>1, <1>3, <1>6 DEF Part
  <2> QED BY <2>1, <2>2 DEF Part
<1>7. \A l : Total(o, l) => Total(b, l)
  BY <1>1, <1>2 DEF Total
<1>8. Reading(b)
  <2>1. IsFiniteSet(b.versions)
    BY <1>1, FS_AddElement DEF Reading
  <2> QED BY <1>1, <1>5, <1>6, <2>1 DEF Reading
<1>9. FitsCall(b, p)
  BY <1>1, <1>5, <1>7 DEF FitsCall
<1> QED BY <1>1, <1>8, <1>9

\* Somebody changes the catalogue (Edit).
LEMMA EditKeeps ==
  ASSUME IInv, Edit
  PROVE  IInv'
<1>1. PICK cat \in Catalogues :
        /\ catalogue' = cat
        /\ op' = [c \in Callers |->
                    IF Awaits(c) THEN [op[c] EXCEPT !.versions = @ \cup {cat}]
                    ELSE op[c]]
  BY DEF Edit
<1>2. UNCHANGED <<pending, queue, running, writeVars>>
  BY DEF Edit, runnerVars
<1>3. ASSUME NEW c \in Callers
      PROVE  op'[c] \in Operation
  <2>1. op[c] \in Operation
    BY DEF IInv, ReadInv
  <2> QED BY <1>1, <2>1 DEF Operation
<1>4. ASSUME NEW c \in Readers
      PROVE  (ReaderOK(op[c], pending[c]) /\ Current(op[c], pending[c]))'
  <2>1. c \in Callers
    BY DEF Readers
  <2>2. op[c] \in Operation /\ ReaderOK(op[c], pending[c])
    BY <2>1 DEF IInv, ReadInv
  <2>3. CASE ~ Awaits(c)
    <3>1. op'[c] = op[c] /\ pending'[c] = pending[c] /\ pending[c] = None
      BY <1>1, <1>2, <2>1, <2>3 DEF Awaits
    <3> QED BY <2>2, <3>1 DEF Current
  <2>4. CASE Awaits(c)
    <3>1. pending[c] \in ReadCall /\ Reading(op[c]) /\ FitsCall(op[c], pending[c])
      BY <2>2, <2>4 DEF ReaderOK, Awaits
    <3>2. op'[c] = [op[c] EXCEPT !.versions = @ \cup {cat}]
      BY <1>1, <2>1, <2>4
    <3>3. PICK o, p, b :
            /\ o \in Operation /\ o = op[c] /\ p = pending[c]
            /\ b = [o EXCEPT !.versions = @ \cup {cat}]
      BY <2>2
    <3>4. /\ b \in Operation /\ Reading(b) /\ FitsCall(b, p) /\ cat \in b.versions
      BY <3>1, <3>3, EditedReads
    <3>5. op'[c] = b /\ pending'[c] = p
      BY <1>2, <3>2, <3>3
    <3>6. ReaderOK(b, p)
      BY <3>1, <3>3, <3>4 DEF ReaderOK, Reading
    <3> QED BY <1>1, <3>4, <3>5, <3>6 DEF Current
  <2> QED BY <2>3, <2>4
<1>5. QueueInv'
  BY <1>2 DEF IInv, ReadInv, QueueInv, Awaits
<1>6. ReadInv'
  <2>1. op' \in [Callers -> Operation]
    BY <1>1, <1>3
  <2> QED BY <1>2, <1>4, <1>5, <2>1 DEF IInv, ReadInv
<1> QED BY <1>1, <1>2, <1>6, SameWorker DEF IInv

\* A timeout or an error: the call is made again, or the operation has failed
\* (RetryOrFail).
LEMMA RetryingKeeps ==
  ASSUME ReadInv, NEW c \in Callers, c \in Readers => Awaits(c),
         RetryOrFail(c) \/ Fails(c),
         catalogue' = catalogue,
         \A job \in running' : job.caller \in Readers /\ job.live =>
           job \in running /\ job.caller # c
  PROVE  ReadInv'
<1>1. CASE Fails(c)
  <2>1. Goes(c, Idle, None)
    BY <1>1 DEF Fails, Ends, Rests, Goes
  <2>2. ReaderOK(Idle, None) /\ Current(Idle, None)
    BY DEF ReaderOK, Current, Idle
  <2> QED BY <2>1, <2>2, IdleIsOperation, GoingKeeps
<1>2. CASE ~ Fails(c)
  <2> DEFINE p == Retry(c)
  <2>1. Submits(c, p) /\ UNCHANGED op
    BY <1>2 DEF RetryOrFail
  <2>2. op \in [Callers -> Operation] /\ op[c] \in Operation
    BY DEF ReadInv
  <2>3. ASSUME c \in Readers
        PROVE  p # None /\ ReaderOK(op[c], p) /\ Current(op[c], p)
    <3>1. /\ pending[c] \in ReadCall /\ Reading(op[c])
          /\ FitsCall(op[c], pending[c]) /\ catalogue \in op[c].versions
      BY <2>3 DEF ReadInv, ReaderOK, Current, Awaits
    <3>2. p \in ReadCall /\ p.tool = pending[c].tool /\ p.arg = pending[c].arg
      BY <3>1 DEF Retry, ReadCall
    <3> HIDE DEF p
    <3>3. FitsCall(op[c], p)
      BY <3>1, <3>2 DEF FitsCall
    <3> QED BY <3>1, <3>2, <3>3, NoneAssumption DEF ReaderOK, Reading, Current
  <2> HIDE DEF p
  <2>4. Goes(c, op[c], p)
    BY <2>1, <2>2, <2>3 DEF Submits, Goes
  <2> QED BY <2>2, <2>3, <2>4, GoingKeeps
<1> QED BY <1>1, <1>2

\* wait_for() gives up (Timeout): the worker may go on with the call, for nobody.
LEMMA TimeoutKeeps ==
  ASSUME IInv, NEW c \in Callers, Timeout(c)
  PROVE  IInv'
<1> DEFINE Left(job) == IF job.caller = c THEN [job EXCEPT !.live = FALSE] ELSE job
<1>1. /\ Awaits(c) /\ RetryOrFail(c)
      /\ running' = {Left(job) : job \in running}
      /\ UNCHANGED <<catalogue, writeVars>>
  BY DEF Timeout, Abandoned, readVars
<1>2. ASSUME NEW job \in running
      PROVE  /\ Left(job).caller = job.caller /\ Left(job).call = job.call
             /\ Left(job).live => Left(job) = job /\ job.caller # c
             /\ Left(job) = [caller |-> Left(job).caller, call |-> Left(job).call,
                             live |-> Left(job).live]
  <2>1. job = [caller |-> job.caller, call |-> job.call, live |-> job.live]
    BY DEF IInv, WriteInv, WorkerInv
  <2> QED BY <2>1
<1> HIDE DEF Left
<1>3. WorkerInv'
  <2>1. IsFiniteSet(running')
    <3>1. CASE running = {}
      <4>1. running' = {}
        BY <1>1, <3>1
      <4> QED BY <4>1, FS_EmptySet
    <3>2. CASE running # {}
      <4>1. PICK job : running = {job}
        BY <3>2 DEF IInv, WriteInv, WorkerInv
      <4>2. running' = {Left(job)}
        BY <1>1, <4>1
      <4> QED BY <4>2, FS_Singleton
    <3> QED BY <3>1, <3>2
  <2>2. \A job, other \in running' : job = other
    BY <1>1 DEF IInv, WriteInv, WorkerInv
  <2>3. \A job \in running' :
          /\ job = [caller |-> job.caller, call |-> job.call, live |-> job.live]
          /\ job.caller \in Callers
    BY <1>1, <1>2 DEF IInv, WriteInv, WorkerInv
  <2> QED BY <2>1, <2>2, <2>3 DEF WorkerInv
<1>4. WriteInv'
  <2>1. UNCHANGED <<lastRun, written, confirmed, overtaken>>
    BY <1>1 DEF writeVars
  <2>2. \A job \in running' : Writing(job)'
    BY <1>1, <1>2, <2>1 DEF IInv, WriteInv, Writing, WritesProperties
  <2>3. written' \subseteq {job.call : job \in running'}
    BY <1>1, <1>2, <2>1 DEF IInv, WriteInv
  <2> QED BY <1>3, <2>1, <2>2, <2>3 DEF IInv, WriteInv, ConfirmedWriteStands
<1>5. \A job \in running' : job.caller \in Readers /\ job.live =>
        job \in running /\ job.caller # c
  BY <1>1, <1>2
<1>6. ReadInv'
  BY <1>1, <1>5, RetryingKeeps DEF IInv
<1> QED BY <1>1, <1>4, <1>6 DEF IInv

\* The worker is done with its call: what it wrote is confirmed, or nothing is.
LEMMA IdleWorker ==
  ASSUME WriteInv, NEW job \in running, Leaves(job),
         UNCHANGED <<lastRun, overtaken>>,
         \/ UNCHANGED confirmed
         \/ /\ WritesProperties(job.call) => job.call \in written
            /\ confirmed' = IF WritesProperties(job.call)
                            THEN job.call.arg ELSE confirmed
  PROVE  running' = {} /\ WriteInv'
<1>1. running' = {}
  BY DEF WriteInv, WorkerInv, Leaves
<1>2. WorkerInv'
  BY <1>1, FS_EmptySet DEF WorkerInv
<1>3. ConfirmedWriteStands'
  BY DEF WriteInv, Writing, ConfirmedWriteStands
<1>4. written' = {}
  BY DEF WriteInv, WorkerInv, Leaves
<1> QED BY <1>1, <1>2, <1>3, <1>4 DEF WriteInv

\* A mutation takes effect, in time or late (Lands, LandsLate): in time only that
\* of the call which the worker has.
LEMMA LandingKeeps ==
  ASSUME IInv, \/ \E job \in running : Lands(job)
               \/ \E r \in Runs : LandsLate(r)
  PROVE  IInv'
<1>1. UNCHANGED <<pending, queue, running, op, catalogue, confirmed>>
  BY DEF Lands, LandsLate, runnerVars, readVars
<1>2. ReadInv'
  BY <1>1, RestingKeeps DEF IInv
<1>3. WorkerInv'
  BY <1>1 DEF IInv, WriteInv, WorkerInv
<1>4. ASSUME NEW job \in running, Lands(job)
      PROVE  WriteInv'
  <2>1. running = {job} /\ confirmed = None
    BY <1>4 DEF IInv, WriteInv, WorkerInv, Writing, Lands
  <2>2. written' \subseteq {job.call} /\ lastRun' = job.call.arg
    BY <1>4, <2>1 DEF IInv, WriteInv, Lands
  <2> QED BY <1>1, <1>3, <2>1, <2>2 DEF WriteInv, Writing, ConfirmedWriteStands
<1>5. ASSUME NEW r \in Runs, LandsLate(r)
      PROVE  WriteInv'
  <2>1. overtaken' = TRUE /\ UNCHANGED written
    BY <1>5 DEF LandsLate
  <2> QED BY <1>1, <1>3, <2>1
          DEF IInv, WriteInv, Writing, WritesProperties, ConfirmedWriteStands
<1>6. WriteInv'
  BY <1>4, <1>5
<1> QED BY <1>1, <1>2, <1>6 DEF IInv

\* The tool raises (Raise).
LEMMA RaiseKeeps ==
  ASSUME IInv, NEW job \in running, Raise(job)
  PROVE  IInv'
<1>1. Leaves(job) /\ UNCHANGED <<catalogue, lastRun, confirmed, overtaken>>
  BY DEF Raise, readVars
<1>2. running' = {} /\ WriteInv'
  BY <1>1, IdleWorker DEF IInv
<1>3. ReadInv'
  <2>1. CASE ~ job.live
    BY <1>1, <1>2, <2>1, RestingKeeps DEF Raise, IInv
  <2>2. CASE job.live
    <3>1. RetryOrFail(job.caller) \/ Fails(job.caller)
      BY <2>2 DEF Raise
    <3>2. job.caller \in Callers
      BY DEF IInv, WriteInv, WorkerInv
    <3>3. job.caller \in Readers => Awaits(job.caller)
      BY <2>2 DEF IInv, ReadInv, QueueInv
    <3> QED BY <1>1, <1>2, <3>1, <3>2, <3>3, RetryingKeeps DEF IInv
  <2> QED BY <2>1, <2>2
<1> QED BY <1>1, <1>2, <1>3 DEF IInv

\* The tool answers (Answer).
LEMMA AnswerKeeps ==
  ASSUME IInv, NEW job \in running, Answer(job)
  PROVE  IInv'
<1> DEFINE c == job.caller
<1>1. /\ Leaves(job) /\ UNCHANGED <<catalogue, lastRun, overtaken>>
      /\ WritesProperties(job.call) => job.call \in written
  BY DEF Answer, readVars
<1>2. c \in Callers
  BY DEF IInv, WriteInv, WorkerInv
<1>3. CASE ~ job.live
  <2>1. UNCHANGED <<pending, queue, op, confirmed>>
    BY <1>3 DEF Answer
  <2>2. running' = {} /\ WriteInv'
    BY <1>1, <2>1, IdleWorker DEF IInv
  <2>3. ReadInv'
    BY <1>1, <2>1, <2>2, RestingKeeps DEF IInv
  <2> QED BY <1>1, <2>2, <2>3 DEF IInv
<1>4. CASE job.live /\ c = Publisher
  <2> DEFINE r == job.call.arg
             done == progress[r] \cup {job.call.tool}
  <2>1. WriteAnswered(job.call)
    BY <1>4 DEF Answer, Mutating
  <2>2. confirmed' = IF WritesProperties(job.call)
                     THEN job.call.arg ELSE confirmed
    BY <2>1 DEF WriteAnswered
  <2>3. running' = {} /\ WriteInv'
    BY <1>1, <2>1, <2>2, IdleWorker DEF IInv
  <2>4. Publisher \notin Readers /\ Publisher \in Callers
    BY ConstantsAssumption DEF Readers
  <2>5. op[Publisher] \in Operation
    BY <2>4 DEF IInv, ReadInv
  <2>6. \E o \in Operation : \E p : Goes(Publisher, o, p)
    <3>1. CASE Due(done) = <<>>
      <4>1. Goes(Publisher, Idle, None)
        BY <2>1, <3>1 DEF WriteAnswered, Ends, Rests, Goes
      <4> QED BY <4>1, IdleIsOperation
    <3>2. CASE Due(done) # <<>>
      <4>1. Goes(Publisher, op[Publisher], Call(Head(Due(done)), r))
        BY <2>1, <2>4, <3>2 DEF WriteAnswered, Asks, Submits, Goes
      <4> QED BY <4>1, <2>5
    <3> QED BY <3>1, <3>2
  <2>7. ReadInv'
    BY <1>1, <2>3, <2>6, PublisherKeeps DEF IInv
  <2> QED BY <1>1, <2>3, <2>7 DEF IInv
<1>5. CASE job.live /\ c # Publisher
  <2>1. UNCHANGED confirmed /\ ReadAnswered(c, job.call)
    BY <1>5 DEF Answer, Mutating
  <2>2. running' = {} /\ WriteInv'
    BY <1>1, <2>1, IdleWorker DEF IInv
  <2>3. c \in Readers
    BY <1>2, <1>5 DEF Readers
  <2>4. pending[c] # None /\ pending[c] = job.call /\ op[c] \in Operation
    BY <1>2, <1>5, <2>3 DEF IInv, ReadInv, QueueInv, Awaits
  <2>5. /\ job.call \in ReadCall /\ Reading(op[c]) /\ FitsCall(op[c], job.call)
        /\ catalogue \in op[c].versions
    BY <2>3, <2>4 DEF IInv, ReadInv, ReaderOK, Current
  <2>6. Proceeds(c)
    BY <2>1, <2>3, <2>4, <2>5, AnsweredProceeds
  <2>7. ReadInv'
    BY <1>1, <2>2, <2>3, <2>6, ProceedingKeeps DEF IInv
  <2> QED BY <1>1, <2>2, <2>7 DEF IInv
<1> QED BY <1>3, <1>4, <1>5

-----------------------------------------------------------------------------
(* The theorems.                                                           *)

\* The invariant holds: reads are the beginning of what was there, the worker has
\* one call, properties are confirmed while nobody writes others.
THEOREM Invariance == Spec => []IInv
<1>1. Init => IInv
  <2> SUFFICES ASSUME Init
               PROVE  IInv
    OBVIOUS
  <2>1. /\ pending = [c \in Callers |-> None] /\ queue = <<>> /\ running = {}
        /\ op = [c \in Callers |-> Idle] /\ catalogue \in Catalogues
        /\ confirmed = None /\ written = {}
    BY ConstantsAssumption DEF Init, RunnerInit
  <2>2. WriteInv
    BY <2>1, FS_EmptySet DEF WriteInv, WorkerInv, ConfirmedWriteStands
  <2>3. QueueInv
    <3>1. queue \in Seq(Callers) /\ DOMAIN queue = 1..0
      BY <2>1, EmptySeq, LenProperties
    <3> QED BY <2>1, <3>1 DEF QueueInv, IsInjective
  <2>4. ASSUME NEW c \in Readers
        PROVE  ReaderOK(op[c], pending[c]) /\ Current(op[c], pending[c])
    <3>1. op[c] = Idle /\ pending[c] = None
      BY <2>1 DEF Readers
    <3> QED BY <3>1 DEF ReaderOK, Current, Idle
  <2> QED BY <2>1, <2>2, <2>3, <2>4, IdleIsOperation DEF IInv, ReadInv
<1>2. IInv /\ [Next]_vars => IInv'
  <2> SUFFICES ASSUME IInv, [Next]_vars
               PROVE  IInv'
    OBVIOUS
  <2>1. ASSUME NEW c \in Callers, NEW kind \in {"load", "discover"},
               BeginRead(c, kind)
        PROVE  IInv'
    BY <2>1, BeginReadKeeps
  <2>2. ASSUME NEW c \in Callers, Timeout(c)
        PROVE  IInv'
    BY <2>2, TimeoutKeeps
  <2>3. ASSUME NEW r \in Runs, BeginWrite(r)
        PROVE  IInv'
    BY <2>3, BeginWriteKeeps
  <2>4. CASE StartCall
    BY <2>4, StartKeeps
  <2>5. CASE Edit
    BY <2>5, EditKeeps
  <2>6. ASSUME NEW job \in running, Answer(job)
        PROVE  IInv'
    BY <2>6, AnswerKeeps
  <2>7. ASSUME NEW job \in running, Raise(job)
        PROVE  IInv'
    BY <2>7, RaiseKeeps
  <2>8. ASSUME \/ \E job \in running : Lands(job)
               \/ \E r \in Runs : LandsLate(r)
        PROVE  IInv'
    BY <2>8, LandingKeeps
  <2>9. CASE UNCHANGED vars
    <3>1. UNCHANGED <<pending, queue, running, op, catalogue, writeVars>>
      BY <2>9 DEF vars, runnerVars, hubVars, readVars
    <3> QED BY <3>1, SameWorker, RestingKeeps DEF IInv
  <2> QED BY <2>1, <2>2, <2>3, <2>4, <2>5, <2>6, <2>7, <2>8, <2>9 DEF Next
<1> QED BY <1>1, <1>2, PTL DEF Spec

\* The properties that were confirmed last stand until the worker writes others,
\* however many calls were abandoned on the way (AgentContextToolRunner), unless
\* a request that the client gave up has overtaken them.
THEOREM ConfirmedWritesStand == Spec => []ConfirmedWriteStands
<1>1. IInv => ConfirmedWriteStands
  BY DEF IInv, WriteInv
<1> QED BY <1>1, Invariance, PTL

\* What a read accepts is whole, whatever changed while it read
\* (_load_schema_fields, _load_lineage).
THEOREM AcceptedReadsAreWhole == Spec => []AcceptedReadIsWhole
<1>1. IInv => AcceptedReadIsWhole
  <2> SUFFICES ASSUME IInv, NEW c \in Readers, op[c].kind = "accepted",
                      NEW l \in ReadLists(c)
               PROVE  LET was == {cat[l] : cat \in op[c].versions} IN
                      /\ Cardinality(was) = 1 => op[c].read[l] \in was
                      /\ IsInjective(op[c].read[l])
                      /\ ToSet(op[c].read[l])
                           \subseteq UNION {ToSet(list) : list \in was}
                      /\ \E list \in was : Len(op[c].read[l]) = Len(list)
    BY DEF AcceptedReadIsWhole
  <2>1. Whole(op[c])
    BY DEF IInv, ReadInv, ReaderOK
  <2>2. Done(op[c], l) /\ IsInjective(op[c].read[l])
    BY <2>1 DEF Whole, ReadLists
  <2>3. ASSUME Cardinality(Was(op[c], l)) = 1
        PROVE  op[c].read[l] \in Was(op[c], l)
    <3>1. IsFiniteSet(Was(op[c], l))
      BY FiniteWas DEF IInv, ReadInv, ReaderOK
    <3>2. PICK list : Was(op[c], l) = {list}
      BY <2>3, <3>1, FS_Singleton
    <3> QED BY <2>2, <3>2 DEF Done
  <2> QED BY <2>2, <2>3 DEF Done, Was
<1> QED BY <1>1, Invariance, PTL
=============================================================================
