---------------------------- MODULE ServiceProofs ----------------------------
(***************************************************************************)
(* The bounded queue under the logger and ThreadSafeQueue, for every       *)
(* capacity, message size, set of formatted lengths and list of            *)
(* subscribers, and the SD card session, for every limit of its startup,   *)
(* its repeats and its block accesses: what is queued comes out once and   *)
(* in order, and a session that says it is ready has a usable card, with   *)
(* one user of its bus at a time and the clock the card is set to.         *)
(***************************************************************************)
EXTENDS LogQueue, SdSession, TLAPS

(***************************************************************************)
(* The ring buffer, and the two queues made of it.                         *)
(***************************************************************************)
\* Sequences are equal element by element; what joining and appending give.
LEMMA QuSame ==
  ASSUME NEW I, NEW a \in Seq(I), NEW b \in Seq(I),
         Len(a) = Len(b), \A k \in 1 .. Len(a) : a[k] = b[k]
  PROVE  a = b
OBVIOUS

LEMMA QuJoined ==
  ASSUME NEW I, NEW a \in Seq(I), NEW b \in Seq(I)
  PROVE  /\ a \o b \in Seq(I) /\ Len(a \o b) = Len(a) + Len(b)
         /\ \A k \in 1 .. Len(a) + Len(b) :
              (a \o b)[k] = (IF k <= Len(a) THEN a[k] ELSE b[k - Len(a)])
OBVIOUS

LEMMA QuJoinedEmpty ==
  ASSUME NEW I, NEW a \in Seq(I)
  PROVE  a \o <<>> = a /\ <<>> \o a = a
OBVIOUS

LEMMA QuJoinedTwice ==
  ASSUME NEW I, NEW a \in Seq(I), NEW b \in Seq(I), NEW c \in Seq(I)
  PROVE  (a \o b) \o c = a \o (b \o c)
OBVIOUS

LEMMA QuAppended ==
  ASSUME NEW I, NEW a \in Seq(I), NEW x \in I
  PROVE  /\ Append(a, x) \in Seq(I)
         /\ Len(Append(a, x)) = Len(a) + 1 /\ Append(a, x)[Len(a) + 1] = x
         /\ \A k \in 1 .. Len(a) : Append(a, x)[k] = a[k]
OBVIOUS

LEMMA QuAppendJoins ==
  ASSUME NEW I, NEW a \in Seq(I), NEW x \in I
  PROVE  Append(a, x) = a \o <<x>>
OBVIOUS

LEMMA QuNothing ==
  ASSUME NEW I
  PROVE  /\ <<>> \in Seq(I) /\ Len(<<>>) = 0
         /\ \A a \in Seq(I) : a # <<>> => Len(a) \in Nat \ {0}
OBVIOUS

\* What a slot of either ring may hold.
QuItems == {QuNone} \cup [id : Nat] \cup [id : Nat, length : Int]

QuRings == [items : [0 .. (QuCapacity - 1) -> QuItems],
            head : 0 .. (QuCapacity - 1), count : 0 .. QuCapacity]

\* An index past the last slot wraps to the front.
LEMMA QuWraps ==
  ASSUME NEW i \in Nat, i < 2 * QuCapacity
  PROVE  /\ i % QuCapacity = (IF i < QuCapacity THEN i ELSE i - QuCapacity)
         /\ i % QuCapacity \in 0 .. (QuCapacity - 1)
<1>1. QuCapacity \in Nat \ {0}
  BY QuAssumption, Zenon
<1> QED
  BY <1>1

\* The contents of a ring are a sequence of items.
LEMMA QuContentsType ==
  ASSUME NEW q \in QuRings
  PROVE  /\ QuContents(q) \in Seq(QuItems) /\ Len(QuContents(q)) = q.count
         /\ \A i \in 1 .. q.count :
              QuContents(q)[i] = q.items[(q.head + i - 1) % QuCapacity]
<1>1. /\ QuCapacity \in Nat \ {0} /\ q.count \in 0 .. QuCapacity
      /\ q.head \in 0 .. (QuCapacity - 1)
      /\ q.items \in [0 .. (QuCapacity - 1) -> QuItems]
  BY QuAssumption, Zenon DEF QuRings
<1>2. ASSUME NEW i \in 1 .. q.count
      PROVE  q.items[(q.head + i - 1) % QuCapacity] \in QuItems
  <2>1. q.head + i - 1 \in Nat /\ q.head + i - 1 < 2 * QuCapacity
    BY <1>1
  <2>2. (q.head + i - 1) % QuCapacity \in 0 .. (QuCapacity - 1)
    BY <2>1, QuWraps, Zenon
  <2> QED
    BY <1>1, <2>2, Zenon
<1>3. QuContents(q) \in [1 .. q.count -> QuItems]
  BY <1>2, Zenon DEF QuContents
<1>4. q.count \in Nat
  BY <1>1
<1>5. QuContents(q) \in Seq(QuItems) /\ Len(QuContents(q)) = q.count
  BY <1>3, <1>4
<1>6. \A i \in 1 .. q.count :
        QuContents(q)[i] = q.items[(q.head + i - 1) % QuCapacity]
  BY Zenon DEF QuContents
<1> QED
  BY <1>5, <1>6, Zenon

\* The copy to the tail is not part of the contents until it is counted.
LEMMA QuStoredKeeps ==
  ASSUME NEW q \in QuRings, NEW item \in QuItems, q.count < QuCapacity
  PROVE  /\ QuStored(q, item) \in QuRings
         /\ QuStored(q, item).count = q.count /\ QuStored(q, item).head = q.head
         /\ QuStored(q, item).items[(q.head + q.count) % QuCapacity] = item
         /\ QuContents(QuStored(q, item)) = QuContents(q)
<1> DEFINE t == (q.head + q.count) % QuCapacity
           r == QuStored(q, item)
<1>1. /\ QuCapacity \in Nat \ {0} /\ q.count \in 0 .. QuCapacity
      /\ q.head \in 0 .. (QuCapacity - 1)
      /\ q.items \in [0 .. (QuCapacity - 1) -> QuItems]
  BY QuAssumption, Zenon DEF QuRings
<1>2. q.head + q.count \in Nat /\ q.head + q.count < 2 * QuCapacity
  BY <1>1
<1>3. t \in 0 .. (QuCapacity - 1)
  BY <1>2, QuWraps, Zenon
<1>4. /\ r.items = [q.items EXCEPT ![t] = item]
      /\ r.head = q.head /\ r.count = q.count /\ r \in QuRings
  BY <1>1, <1>3, Zenon DEF QuStored, QuRings
<1>5. ASSUME NEW i \in 1 .. q.count
      PROVE  r.items[(r.head + i - 1) % QuCapacity] = q.items[(q.head + i - 1) % QuCapacity]
  <2>1. q.head + i - 1 \in Nat /\ q.head + i - 1 < 2 * QuCapacity
    BY <1>1
  <2>2. (q.head + i - 1) % QuCapacity # t
    <3> DEFINE a == q.head + i - 1
               b == q.head + q.count
               u == a % QuCapacity
               v == b % QuCapacity
    <3>1. u = (IF a < QuCapacity THEN a ELSE a - QuCapacity)
      BY <2>1, QuWraps, Zenon
    <3>2. v = (IF b < QuCapacity THEN b ELSE b - QuCapacity)
      BY <1>2, QuWraps, Zenon
    <3>3. a < b /\ b - a < QuCapacity /\ a \in Nat /\ b \in Nat
      BY <1>1
    <3> HIDE DEF a, b, u, v
    <3>4. u # v
      BY <1>1, <3>1, <3>2, <3>3
    <3> QED
      BY <3>4, Zenon DEF a, b, u, v
  <2>3. (q.head + i - 1) % QuCapacity \in 0 .. (QuCapacity - 1)
    BY <2>1, QuWraps, Zenon
  <2> QED
    BY <1>1, <1>4, <2>2, <2>3, Zenon
<1>6. QuContents(r) = QuContents(q)
  <2>1. Len(QuContents(r)) = Len(QuContents(q))
    BY <1>4, QuContentsType, Zenon
  <2>4. /\ Len(QuContents(r)) = r.count
        /\ \A i \in 1 .. r.count : QuContents(r)[i] = r.items[(r.head + i - 1) % QuCapacity]
    BY <1>4, QuContentsType, Zenon
  <2>5. \A i \in 1 .. q.count : QuContents(q)[i] = q.items[(q.head + i - 1) % QuCapacity]
    BY QuContentsType, Zenon
  <2>6. \A i \in 1 .. q.count : QuContents(r)[i] = r.items[(r.head + i - 1) % QuCapacity]
    BY <1>4, <2>4, Zenon
  <2>7. \A i \in 1 .. q.count : QuContents(r)[i] = QuContents(q)[i]
    BY <1>5, <2>5, <2>6, Zenon
  <2>2. \A i \in 1 .. Len(QuContents(r)) : QuContents(r)[i] = QuContents(q)[i]
    BY <1>4, <2>4, <2>7, Zenon
  <2>3. QuContents(r) \in Seq(QuItems) /\ QuContents(q) \in Seq(QuItems)
    BY <1>4, QuContentsType, Zenon
  <2> QED
    BY <2>1, <2>2, <2>3, QuSame, Zenon
<1> QED
  BY <1>1, <1>3, <1>4, <1>6, Zenon

\* Counting the copied item adds it at the end.
LEMMA QuCountedAdds ==
  ASSUME NEW q \in QuRings, q.count < QuCapacity
  PROVE  /\ QuCounted(q) \in QuRings
         /\ QuContents(QuCounted(q)) = Append(QuContents(q), q.items[(q.head + q.count) % QuCapacity])
<1> DEFINE item == q.items[(q.head + q.count) % QuCapacity]
           r == QuCounted(q)
<1>1. /\ QuCapacity \in Nat \ {0} /\ q.count \in 0 .. QuCapacity
      /\ q.head \in 0 .. (QuCapacity - 1)
      /\ q.items \in [0 .. (QuCapacity - 1) -> QuItems]
  BY QuAssumption, Zenon DEF QuRings
<1>2. q.head + q.count \in Nat /\ q.head + q.count < 2 * QuCapacity
  BY <1>1
<1>3. item \in QuItems
  BY <1>1, <1>2, QuWraps, Zenon
<1>4. /\ r.items = q.items /\ r.head = q.head /\ r.count = q.count + 1 /\ r \in QuRings
  BY <1>1 DEF QuCounted, QuRings
<1>5. /\ Append(QuContents(q), item) \in Seq(QuItems)
      /\ Len(Append(QuContents(q), item)) = q.count + 1
      /\ \A i \in 1 .. q.count : Append(QuContents(q), item)[i] = QuContents(q)[i]
      /\ Append(QuContents(q), item)[q.count + 1] = item
  BY <1>3, QuContentsType, QuAppended
<1>6. q.head + (q.count + 1) - 1 = q.head + q.count
  BY <1>1
<1>7. \A i \in 1 .. q.count + 1 : QuContents(r)[i] = Append(QuContents(q), item)[i]
  <2>4. \A i \in 1 .. q.count + 1 :
          QuContents(r)[i] = q.items[(q.head + i - 1) % QuCapacity]
    BY <1>4, QuContentsType, Zenon
  <2>5. \A i \in 1 .. q.count : QuContents(q)[i] = q.items[(q.head + i - 1) % QuCapacity]
    BY QuContentsType, Zenon
  <2>6. /\ \A i \in 1 .. q.count : i \in 1 .. q.count + 1
        /\ q.count + 1 \in 1 .. q.count + 1
    BY <1>1
  <2>1. \A i \in 1 .. q.count : QuContents(r)[i] = Append(QuContents(q), item)[i]
    BY <1>5, <2>4, <2>5, <2>6, Zenon
  <2>2. QuContents(r)[q.count + 1] = item
    BY <1>6, <2>4, <2>6, Zenon
  <2>3. \A i \in 1 .. q.count + 1 : i \in 1 .. q.count \/ i = q.count + 1
    BY <1>1
  <2> QED
    BY <1>5, <2>1, <2>2, <2>3, Zenon
<1>8. QuContents(r) \in Seq(QuItems) /\ Len(QuContents(r)) = q.count + 1
  BY <1>4, QuContentsType, Zenon
<1>9. QuContents(r) = Append(QuContents(q), item)
  BY <1>5, <1>7, <1>8, QuSame, Zenon
<1> QED
  BY <1>4, <1>9, Zenon

\* What push leaves: the item after all that was queued.
LEMMA QuPushAdds ==
  ASSUME NEW q \in QuRings, NEW item \in QuItems, q.count < QuCapacity
  PROVE  /\ QuPush(q, item) \in QuRings
         /\ QuContents(QuPush(q, item)) = Append(QuContents(q), item)
<1> DEFINE r == QuStored(q, item)
<1>1. /\ r \in QuRings /\ r.count < QuCapacity
      /\ r.items[(r.head + r.count) % QuCapacity] = item
      /\ QuContents(r) = QuContents(q)
  BY QuStoredKeeps, Zenon
<1>2. /\ QuCounted(r) \in QuRings
      /\ QuContents(QuCounted(r)) = Append(QuContents(q), item)
  BY <1>1, QuCountedAdds, Zenon
<1> QED
  BY <1>2, Zenon DEF QuPush

\* What pop leaves: the contents without their first item, the one at head_.
LEMMA QuAdvancedTakes ==
  ASSUME NEW q \in QuRings, q.count > 0
  PROVE  /\ QuAdvanced(q) \in QuRings /\ QuHead(q) \in QuItems
         /\ QuContents(q) = <<QuHead(q)>> \o QuContents(QuAdvanced(q))
<1> DEFINE r == QuAdvanced(q)
           s == <<QuHead(q)>> \o QuContents(r)
<1>1. /\ QuCapacity \in Nat \ {0} /\ q.count \in 0 .. QuCapacity
      /\ q.head \in 0 .. (QuCapacity - 1)
      /\ q.items \in [0 .. (QuCapacity - 1) -> QuItems]
  BY QuAssumption, Zenon DEF QuRings
<1>2. q.head + 1 \in Nat /\ q.head + 1 < 2 * QuCapacity
  BY <1>1
<1>3. (q.head + 1) % QuCapacity \in 0 .. (QuCapacity - 1)
  BY <1>2, QuWraps, Zenon
<1>4. /\ r.items = q.items /\ r.head = (q.head + 1) % QuCapacity /\ r.count = q.count - 1
      /\ r \in QuRings
  <2> DEFINE h == (q.head + 1) % QuCapacity
  <2>1. h \in 0 .. (QuCapacity - 1) /\ q.count - 1 \in 0 .. QuCapacity
    BY <1>1, <1>3
  <2>2. q = [items |-> q.items, head |-> q.head, count |-> q.count]
    BY Zenon DEF QuRings
  <2> HIDE DEF h
  <2>5. r = [q EXCEPT !.head = h, !.count = q.count - 1]
    BY Zenon DEF QuAdvanced, h
  <2>3. r = [items |-> q.items, head |-> h, count |-> q.count - 1]
    BY <2>2, <2>5, Zenon
  <2>4. r \in QuRings
    BY <1>1, <2>1, <2>3 DEF QuRings
  <2> QED
    BY <2>3, <2>4 DEF h
<1>5. QuHead(q) \in QuItems
  BY <1>1, Zenon DEF QuHead
<1>6. /\ QuContents(r) \in Seq(QuItems) /\ Len(QuContents(r)) = q.count - 1
      /\ \A i \in 1 .. r.count : QuContents(r)[i] = r.items[(r.head + i - 1) % QuCapacity]
  BY <1>4, QuContentsType, Zenon
<1>7. /\ QuContents(q) \in Seq(QuItems) /\ Len(QuContents(q)) = q.count
      /\ \A i \in 1 .. q.count : QuContents(q)[i] = q.items[(q.head + i - 1) % QuCapacity]
  BY QuContentsType, Zenon
<1>8. <<QuHead(q)>> \in Seq(QuItems) /\ Len(<<QuHead(q)>>) = 1
  BY <1>5
<1>9. /\ s \in Seq(QuItems) /\ Len(s) = q.count
      /\ s[1] = QuHead(q) /\ \A i \in 2 .. q.count : s[i] = QuContents(r)[i - 1]
  <2> DEFINE u == QuContents(r)
             v == <<QuHead(q)>>
  <2>1. v[1] = QuHead(q) /\ q.count \in Nat
    BY <1>1
  <2>2. u \in Seq(QuItems) /\ Len(u) = q.count - 1 /\ v \in Seq(QuItems) /\ Len(v) = 1
    BY <1>6, <1>8, Zenon
  <2> HIDE DEF u, v
  <2>3. /\ v \o u \in Seq(QuItems) /\ Len(v \o u) = Len(v) + Len(u)
        /\ \A i \in 1 .. Len(v) + Len(u) :
             (v \o u)[i] = IF i <= Len(v) THEN v[i] ELSE u[i - Len(v)]
    BY <2>2, QuJoined, Zenon
  <2>4. /\ v \o u \in Seq(QuItems) /\ Len(v \o u) = q.count
        /\ (v \o u)[1] = v[1] /\ \A i \in 2 .. q.count : (v \o u)[i] = u[i - 1]
    BY <2>1, <2>2, <2>3
  <2> QED
    BY <2>1, <2>4, Zenon DEF u, v
<1>10. ASSUME NEW i \in 2 .. q.count
       PROVE  (r.head + (i - 1) - 1) % QuCapacity = (q.head + i - 1) % QuCapacity
  <2> DEFINE a == q.head + 1
             h == a % QuCapacity
             b == h + (i - 1) - 1
             c == q.head + i - 1
             u == b % QuCapacity
             v == c % QuCapacity
  <2>1. h = (IF a < QuCapacity THEN a ELSE a - QuCapacity)
    BY <1>2, QuWraps, Zenon
  <2>2. h \in 0 .. (QuCapacity - 1)
    BY <1>3, Zenon
  <2> HIDE DEF h
  <2>3. b \in Nat /\ b < 2 * QuCapacity /\ c \in Nat /\ c < 2 * QuCapacity
    BY <1>1, <2>2
  <2>4. b = c \/ (b = c - QuCapacity /\ QuCapacity <= c)
    <3>1. q.head \in Int /\ i \in Int /\ i >= 2 /\ QuCapacity \in Int
      BY <1>1
    <3>2. CASE a < QuCapacity
      <4>1. h = a
        BY <2>1, <3>2, Zenon
      <4> QED
        BY <3>1, <4>1
    <3>3. CASE ~(a < QuCapacity)
      <4>1. h = a - QuCapacity
        BY <2>1, <3>3, Zenon
      <4> QED
        BY <3>1, <3>3, <4>1
    <3> QED
      BY <3>2, <3>3, Zenon
  <2>5. u = (IF b < QuCapacity THEN b ELSE b - QuCapacity)
    BY <2>3, QuWraps, Zenon
  <2>6. v = (IF c < QuCapacity THEN c ELSE c - QuCapacity)
    BY <2>3, QuWraps, Zenon
  <2> HIDE DEF b, c, u, v
  <2>7. u = v
    BY <1>1, <2>3, <2>4, <2>5, <2>6
  <2> QED
    BY <1>4, <2>7, Zenon DEF u, v, b, c, h
<1>11. ASSUME NEW i \in 1 .. q.count
       PROVE  QuContents(q)[i] = s[i]
  <2>1. CASE i = 1
    <3>1. q.head + i - 1 = q.head /\ q.head < 2 * QuCapacity /\ q.head \in Nat
      BY <1>1, <2>1
    <3>2. q.head % QuCapacity = q.head
      BY <1>1, <3>1, QuWraps
    <3> QED
      BY <1>7, <1>9, <2>1, <3>1, <3>2, Zenon DEF QuHead
  <2>2. CASE i # 1
    <3>1. i \in 2 .. q.count /\ i - 1 \in 1 .. (q.count - 1)
      BY <1>1, <2>2
    <3>2. QuContents(r)[i - 1] = q.items[(r.head + (i - 1) - 1) % QuCapacity]
      BY <1>4, <1>6, <3>1, Zenon
    <3> QED
      BY <1>7, <1>9, <1>10, <3>1, <3>2, Zenon
  <2> QED
    BY <2>1, <2>2, Zenon
<1>12. QuContents(q) = s
  BY <1>7, <1>9, <1>11, QuSame, Zenon
<1> QED
  BY <1>4, <1>5, <1>12, Zenon

\* An empty ring, and a cleared one.
LEMMA QuEmptyRing ==
  /\ QuEmpty \in QuRings /\ QuContents(QuEmpty) = <<>>
  /\ \A q \in QuRings : QuCleared(q) \in QuRings /\ QuContents(QuCleared(q)) = <<>>
<1>1. QuCapacity \in Nat \ {0} /\ 0 \in 0 .. (QuCapacity - 1) /\ 0 \in 0 .. QuCapacity
  BY QuAssumption
<1>2. [i \in 0 .. (QuCapacity - 1) |-> QuNone] \in [0 .. (QuCapacity - 1) -> QuItems]
  BY Zenon DEF QuItems
<1>3. QuEmpty \in QuRings /\ QuEmpty.count = 0
  BY <1>1, <1>2, Zenon DEF QuEmpty, QuRings
<1>4. \A q \in QuRings : QuCleared(q) \in QuRings /\ QuCleared(q).count = 0
  BY <1>1, Zenon DEF QuCleared, QuRings
<1>5. \A q \in QuRings : q.count = 0 => QuContents(q) = <<>>
  BY QuContentsType, QuNothing, Zenon
<1> QED
  BY <1>3, <1>4, <1>5, Zenon

\* Taking an item in at the end of the last part.
LEMMA QuTakesIn ==
  ASSUME NEW a \in Seq(QuItems), NEW c \in Seq(QuItems), NEW x \in QuItems
  PROVE  Append(a \o c, x) = a \o Append(c, x) /\ Append(a \o c, x) \in Seq(QuItems)
<1>1. <<x>> \in Seq(QuItems)
  OBVIOUS
<1>2. a \o c \in Seq(QuItems)
  BY QuJoined, Zenon
<1>3. Append(a \o c, x) = (a \o c) \o <<x>>
  BY <1>2, QuAppendJoins, Zenon
<1>4. Append(c, x) = c \o <<x>>
  BY QuAppendJoins, Zenon
<1>5. (a \o c) \o <<x>> = a \o (c \o <<x>>)
  BY <1>1, QuJoinedTwice
<1>6. Append(a \o c, x) \in Seq(QuItems)
  BY <1>2, QuAppended, Zenon
<1> QED
  BY <1>3, <1>4, <1>5, <1>6, Zenon

\* Moving one from the last part to the middle and on to the end of the first.
LEMMA QuMovesOn ==
  ASSUME NEW a \in Seq(QuItems), NEW c \in Seq(QuItems), NEW x \in QuItems
  PROVE  /\ a \o <<>> \o (<<x>> \o c) = a \o <<x>> \o c
         /\ a \o <<x>> \o c = Append(a, x) \o <<>> \o c
         /\ a \o (<<x>> \o c) = Append(a, x) \o c
<1>1. <<x>> \in Seq(QuItems)
  OBVIOUS
<1>2. a \o <<x>> \in Seq(QuItems)
  BY <1>1, QuJoined, Zenon
<1>3. Append(a, x) = a \o <<x>>
  BY QuAppendJoins, Zenon
<1>4. (a \o <<x>>) \o c = a \o (<<x>> \o c)
  BY <1>1, QuJoinedTwice
<1>5. a \o <<>> = a /\ (a \o <<x>>) \o <<>> = a \o <<x>>
  BY <1>2, QuJoinedEmpty, Zenon
<1> QED
  BY <1>3, <1>4, <1>5, Zenon

\* The records of the logger, and what each context has stamped.
LgWritten == {QuNone} \cup [id : Nat, length : Int]

LgViews == [record : QuItems, next : Nat]

\* What the logger holds, with LgDelivered itself.
LgInvariant ==
  /\ lgRecords \in QuRings
  /\ lgWriting \in [QuContexts -> LgWritten] /\ lgWrites \in Nat
  /\ lgView \in LgViews
  /\ lgAccepted \in Seq(QuItems) /\ lgSeen \in [DOMAIN LgSubscribers -> Seq(QuItems)]
  /\ LgDelivered

TqCallStates == [step : {"idle", "locked", "copied", "done"},
                 op : {"none", "push", "pop", "peek", "clear", "query"}, item : QuItems]

\* The call under way is the holder's, and what it copied is still in place.
TqInside ==
  \A c \in QuContexts :
    /\ tqAt[c] # TqIdle => tqMutex /\ tqHolder = c
    /\ tqAt[c].step = "copied" =>
         \/ /\ tqAt[c].op = "push" /\ tqQueue.count < QuCapacity
            /\ tqQueue.items[(tqQueue.head + tqQueue.count) % QuCapacity] = tqAt[c].item
         \/ tqAt[c].op = "pop" /\ tqQueue.count > 0 /\ tqAt[c].item = QuHead(tqQueue)
         \/ tqAt[c].op = "clear"

\* What was taken and what is queued is what was pushed, inside a call too.
TqInvariant ==
  /\ tqQueue \in QuRings /\ tqMutex \in BOOLEAN /\ tqHolder \in QuContexts \cup {"none"}
  /\ tqAt \in [QuContexts -> TqCallStates] /\ tqCalls \in Nat
  /\ tqPushed \in Seq(QuItems) /\ tqPopped \in Seq(QuItems)
  /\ TqInside
  /\ tqPushed = tqPopped \o QuContents(tqQueue)

QuInvariant == LgInvariant /\ TqInvariant

LEMMA QuInitially == QuInit => QuInvariant
<1> SUFFICES ASSUME QuInit PROVE QuInvariant
  BY Zenon
<1>1. QuEmpty \in QuRings /\ QuContents(QuEmpty) = <<>>
  BY QuEmptyRing, Zenon
<1>2. <<>> \in Seq(QuItems) /\ <<>> \o <<>> = <<>> /\ QuNone \in QuItems /\ 0 \in Nat
  <2>1. <<>> \in Seq(QuItems)
    OBVIOUS
  <2> QED
    BY <2>1, QuJoinedEmpty, Zenon DEF QuItems
<1>3. LgInvariant
  <2>1. lgView \in LgViews /\ lgView.next = 0
    BY <1>2, Zenon DEF QuInit, LgInit, LgViews
  <2>2. lgWriting \in [QuContexts -> LgWritten] /\ lgWrites \in Nat
    BY <1>2, Zenon DEF QuInit, LgInit, LgWritten
  <2>3. lgSeen \in [DOMAIN LgSubscribers -> Seq(QuItems)]
    BY <1>2, Zenon DEF QuInit, LgInit
  <2>4. LgDelivered
    BY <1>1, <1>2, <2>1, Zenon DEF QuInit, LgInit, LgDelivered
  <2> QED
    BY <1>1, <1>2, <2>1, <2>2, <2>3, <2>4, Zenon DEF QuInit, LgInit, LgInvariant
<1>4. TqInvariant
  <2>1. TqIdle \in TqCallStates /\ TqIdle.step = "idle"
    BY <1>2, Zenon DEF TqIdle, TqCallStates
  <2>2. \A c \in QuContexts : tqAt[c] = TqIdle
    BY Zenon DEF QuInit, TqInit
  <2>3. tqAt \in [QuContexts -> TqCallStates]
    BY <2>1, Zenon DEF QuInit, TqInit
  <2>4. TqInside
    BY <2>1, <2>2, Zenon DEF TqInside
  <2> QED
    BY <1>1, <1>2, <2>3, <2>4, Zenon DEF QuInit, TqInit, TqInvariant
<1> QED
  BY <1>3, <1>4, Zenon DEF QuInvariant

\* The record on its way to subscriber s.
LgPassing(view, s) == IF view.next # 0 /\ view.next <= s THEN <<view.record>> ELSE <<>>

LEMMA LgPassingType ==
  ASSUME NEW v \in LgViews, NEW s
  PROVE  LgPassing(v, s) \in Seq(QuItems)
<1>1. v.record \in QuItems
  BY Zenon DEF LgViews
<1>2. <<v.record>> \in Seq(QuItems) /\ <<>> \in Seq(QuItems)
  BY <1>1
<1> QED
  BY <1>2, Zenon DEF LgPassing

\* A stamped record, and what is queued of it.
LEMMA LgRecordTypes ==
  /\ \A n \in Nat, l \in Int : [id |-> n + 1, length |-> l] \in LgWritten
  /\ \A r \in LgWritten, l \in Int :
       r # QuNone => [r EXCEPT !.length = l] \in QuItems /\ r.length \in Int
  /\ QuNone \in LgWritten /\ QuNone \in QuItems
<1>1. \A n \in Nat, l \in Int : [id |-> n + 1, length |-> l] \in [id : Nat, length : Int]
  OBVIOUS
<1>2. \A r \in [id : Nat, length : Int], l \in Int :
        [r EXCEPT !.length = l] \in [id : Nat, length : Int] /\ r.length \in Int
  BY Zenon
<1> QED
  BY <1>1, <1>2, Zenon DEF LgWritten, QuItems

LEMMA LgWriteKeeps ==
  ASSUME LgInvariant, NEW c \in QuContexts, NEW l \in QuLevels, NEW n \in LgLengths,
         LgWrite(c, l, n)
  PROVE  LgInvariant'
<1>1. n \in Int
  BY QuAssumption, Zenon
<1>2. [id |-> lgWrites + 1, length |-> n] \in LgWritten
  BY <1>1, LgRecordTypes, Zenon DEF LgInvariant
<1>3. lgWriting' \in [QuContexts -> LgWritten]
  BY <1>2, Zenon DEF LgInvariant, LgWrite
<1>4. lgWrites' \in Nat
  BY DEF LgInvariant, LgWrite
<1>5. LgDelivered'
  BY Zenon DEF LgInvariant, LgWrite, LgDelivered
<1> QED
  BY <1>3, <1>4, <1>5, Zenon DEF LgInvariant, LgWrite

LEMMA LgPushKeeps ==
  ASSUME LgInvariant, NEW c \in QuContexts, LgPush(c)
  PROVE  LgInvariant'
<1> DEFINE record == lgWriting[c]
           stored == [record EXCEPT !.length = IF record.length >= LgMessageSize
                                               THEN LgMessageSize - 1 ELSE @]
<1>1. record \in LgWritten /\ record # QuNone
  BY Zenon DEF LgInvariant, LgPush
<1>2. (IF record.length >= LgMessageSize THEN LgMessageSize - 1 ELSE record.length) \in Int
  <2>1. record.length \in Int
    BY <1>1, LgRecordTypes, 0 \in Int, Zenon
  <2> HIDE DEF record
  <2> QED
    BY <2>1, QuAssumption
<1>3. stored \in QuItems
  BY <1>1, <1>2, LgRecordTypes, Zenon
<1>4. lgWriting' \in [QuContexts -> LgWritten]
  BY LgRecordTypes, Zenon DEF LgInvariant, LgPush
<1>5. CASE lgRecords' = lgRecords /\ lgAccepted' = lgAccepted
  <2>1. LgDelivered'
    BY <1>5, Zenon DEF LgInvariant, LgPush, LgDelivered
  <2> QED
    BY <1>4, <1>5, <2>1, Zenon DEF LgInvariant, LgPush
<1>6. CASE /\ ~QuFull(lgRecords) /\ lgRecords' = QuPush(lgRecords, stored)
           /\ lgAccepted' = Append(lgAccepted, stored)
  <2>1. lgRecords \in QuRings /\ lgRecords.count < QuCapacity
    BY <1>6, QuAssumption DEF LgInvariant, QuFull, QuRings
  <2>2. /\ lgRecords' \in QuRings
        /\ QuContents(lgRecords') = Append(QuContents(lgRecords), stored)
    BY <1>3, <1>6, <2>1, QuPushAdds, Zenon
  <2>3. lgAccepted' \in Seq(QuItems)
    BY <1>3, <1>6, QuAppended, Zenon DEF LgInvariant
  <2>4. LgDelivered'
    <3> SUFFICES ASSUME NEW s \in DOMAIN LgSubscribers, LgSubscribers[s]
                 PROVE  lgAccepted' = lgSeen'[s] \o LgPassing(lgView', s) \o QuContents(lgRecords')
      BY Zenon DEF LgDelivered, LgPassing
    <3>1. lgAccepted = lgSeen[s] \o LgPassing(lgView, s) \o QuContents(lgRecords)
      BY Zenon DEF LgInvariant, LgDelivered, LgPassing
    <3>2. lgSeen[s] \in Seq(QuItems) /\ LgPassing(lgView, s) \in Seq(QuItems)
      BY LgPassingType, Zenon DEF LgInvariant
    <3>3. QuContents(lgRecords) \in Seq(QuItems)
      BY <2>1, QuContentsType, Zenon
    <3>4. lgSeen' = lgSeen /\ lgView' = lgView
      BY Zenon DEF LgPush
    <3> HIDE DEF stored
    <3>5. Append(lgSeen[s] \o LgPassing(lgView, s) \o QuContents(lgRecords), stored)
            = lgSeen[s] \o LgPassing(lgView, s) \o Append(QuContents(lgRecords), stored)
      <4>1. lgSeen[s] \o LgPassing(lgView, s) \in Seq(QuItems)
        BY <3>2, QuJoined, Zenon
      <4> QED
        BY <1>3, <3>3, <4>1, QuTakesIn, Zenon
    <3> QED
      BY <1>6, <2>2, <3>1, <3>4, <3>5, Zenon
  <2> QED
    BY <1>4, <2>2, <2>3, <2>4, Zenon DEF LgInvariant, LgPush
<1> QED
  BY <1>5, <1>6, Zenon DEF LgPush

LEMMA LgDispatchKeeps ==
  ASSUME LgInvariant, LgDispatch
  PROVE  LgInvariant'
<1>1. lgRecords \in QuRings /\ lgRecords.count > 0 /\ lgView.next = 0
  BY Zenon DEF LgInvariant, LgDispatch
<1>2. /\ lgRecords' \in QuRings /\ QuHead(lgRecords) \in QuItems
      /\ QuContents(lgRecords) = <<QuHead(lgRecords)>> \o QuContents(lgRecords')
  BY <1>1, QuAdvancedTakes, Zenon DEF LgDispatch
<1>3. lgView' \in LgViews /\ lgView'.next = 1 /\ lgView'.record = QuHead(lgRecords)
  BY <1>2, Zenon DEF LgDispatch, LgViews
<1>4. LgDelivered'
  <2> SUFFICES ASSUME NEW s \in DOMAIN LgSubscribers, LgSubscribers[s]
               PROVE  lgAccepted' = lgSeen'[s] \o LgPassing(lgView', s) \o QuContents(lgRecords')
    BY Zenon DEF LgDelivered, LgPassing
  <2>1. lgAccepted = lgSeen[s] \o <<>> \o QuContents(lgRecords)
    BY <1>1, Zenon DEF LgInvariant, LgDelivered
  <2>2. 1 <= s
    BY QuAssumption
  <2>3. LgPassing(lgView', s) = <<QuHead(lgRecords)>>
    BY <1>3, <2>2 DEF LgPassing
  <2>4. lgSeen[s] \in Seq(QuItems) /\ QuContents(lgRecords') \in Seq(QuItems)
    BY <1>2, QuContentsType, Zenon DEF LgInvariant
  <2>5. lgSeen' = lgSeen /\ lgAccepted' = lgAccepted
    BY Zenon DEF LgDispatch
  <2>6. lgSeen[s] \o <<>> \o (<<QuHead(lgRecords)>> \o QuContents(lgRecords'))
          = lgSeen[s] \o <<QuHead(lgRecords)>> \o QuContents(lgRecords')
    BY <1>2, <2>4, QuMovesOn, Zenon
  <2> QED
    BY <1>2, <2>1, <2>3, <2>5, <2>6, Zenon
<1> QED
  BY <1>2, <1>3, <1>4, Zenon DEF LgInvariant, LgDispatch

LEMMA LgDeliverKeeps ==
  ASSUME LgInvariant, LgDeliver
  PROVE  LgInvariant'
<1> DEFINE n == lgView.next
<1>1. n \in Nat /\ n # 0 /\ lgView.record \in QuItems
  BY Zenon DEF LgInvariant, LgDeliver, LgViews
<1>2. DOMAIN LgSubscribers = 1 .. Len(LgSubscribers) /\ Len(LgSubscribers) \in Nat
  BY QuAssumption
<1>3. \/ n = Len(LgSubscribers) /\ lgView' = [record |-> QuNone, next |-> 0]
      \/ n # Len(LgSubscribers) /\ lgView' = [lgView EXCEPT !.next = n + 1]
  BY Zenon DEF LgDeliver
<1>4. lgView' \in LgViews
  <2>1. \A r \in QuItems, k \in Nat : [record |-> r, next |-> k] \in LgViews
    BY Zenon DEF LgViews
  <2>2. \A v \in LgViews, k \in Nat : [v EXCEPT !.next = k] \in LgViews
    BY Zenon DEF LgViews
  <2>3. n + 1 \in Nat /\ 0 \in Nat
    BY <1>1
  <2> QED
    BY <1>3, <2>1, <2>2, <2>3, LgRecordTypes, Zenon DEF LgInvariant
<1>5. /\ \A s \in DOMAIN LgSubscribers : s # n => lgSeen'[s] = lgSeen[s]
      /\ n \in DOMAIN LgSubscribers /\ LgSubscribers[n] => lgSeen'[n] = Append(lgSeen[n], lgView.record)
      /\ lgSeen' \in [DOMAIN LgSubscribers -> Seq(QuItems)]
  <2>1. n \in DOMAIN LgSubscribers => Append(lgSeen[n], lgView.record) \in Seq(QuItems)
    BY <1>1, QuAppended, Zenon DEF LgInvariant
  <2> QED
    BY <2>1, Zenon DEF LgInvariant, LgDeliver
<1>6. ASSUME NEW s \in DOMAIN LgSubscribers
      PROVE  /\ s # n => LgPassing(lgView', s) = LgPassing(lgView, s)
             /\ LgPassing(lgView, n) = <<lgView.record>> /\ LgPassing(lgView', n) = <<>>
  <2>1. s \in Nat /\ s # 0 /\ s <= Len(LgSubscribers)
    BY <1>2
  <2>2. CASE lgView' = [record |-> QuNone, next |-> 0] /\ n = Len(LgSubscribers)
    BY <1>1, <1>2, <2>1, <2>2 DEF LgPassing
  <2>3. CASE lgView' = [lgView EXCEPT !.next = n + 1]
    <3>1. lgView'.next = n + 1 /\ lgView'.record = lgView.record
      BY <2>3, Zenon DEF LgInvariant, LgViews
    <3> QED
      BY <1>1, <2>1, <3>1 DEF LgPassing
  <2> QED
    BY <1>3, <2>2, <2>3, Zenon
<1>7. LgDelivered'
  <2> SUFFICES ASSUME NEW s \in DOMAIN LgSubscribers, LgSubscribers[s]
               PROVE  lgAccepted' = lgSeen'[s] \o LgPassing(lgView', s) \o QuContents(lgRecords')
    BY Zenon DEF LgDelivered, LgPassing
  <2>1. lgAccepted = lgSeen[s] \o LgPassing(lgView, s) \o QuContents(lgRecords)
    BY Zenon DEF LgInvariant, LgDelivered, LgPassing
  <2>2. lgRecords' = lgRecords /\ lgAccepted' = lgAccepted
    BY Zenon DEF LgDeliver
  <2>3. lgSeen[s] \in Seq(QuItems) /\ QuContents(lgRecords) \in Seq(QuItems)
    BY QuContentsType, Zenon DEF LgInvariant
  <2>4. CASE s # n
    BY <1>5, <1>6, <2>1, <2>2, <2>4, Zenon
  <2>5. CASE s = n
    <3>1. lgSeen[n] \o <<lgView.record>> \o QuContents(lgRecords)
            = Append(lgSeen[n], lgView.record) \o <<>> \o QuContents(lgRecords)
      BY <1>1, <2>3, <2>5, QuMovesOn, Zenon
    <3> QED
      BY <1>5, <1>6, <2>1, <2>2, <2>5, <3>1, Zenon
  <2> QED
    BY <2>4, <2>5, Zenon
<1> QED
  BY <1>4, <1>5, <1>7, Zenon DEF LgInvariant, LgDeliver

LEMMA LgRestKeeps ==
  ASSUME LgInvariant,
         LgReset \/ (\E l \in QuLevels : LgSetMinimum(l)) \/ UNCHANGED lgVars
  PROVE  LgInvariant'
<1>1. UNCHANGED <<lgRecords, lgWriting, lgView, lgWrites, lgAccepted, lgSeen>>
  BY Zenon DEF LgReset, LgSetMinimum, lgVars
<1> QED
  BY <1>1, Zenon DEF LgInvariant, LgDelivered

\* The ring and its history after a push, a pop and a clear.
TqHistory ==
  /\ tqQueue \in QuRings /\ tqPushed \in Seq(QuItems) /\ tqPopped \in Seq(QuItems)
  /\ tqPushed = tqPopped \o QuContents(tqQueue)

LEMMA TqPushed ==
  ASSUME TqHistory, NEW item \in QuItems, tqQueue' \in QuRings,
         QuContents(tqQueue') = Append(QuContents(tqQueue), item),
         tqPushed' = Append(tqPushed, item), tqPopped' = tqPopped
  PROVE  TqHistory'
<1>1. QuContents(tqQueue) \in Seq(QuItems)
  BY QuContentsType, Zenon DEF TqHistory
<1>2. /\ Append(tqPopped \o QuContents(tqQueue), item)
            = tqPopped \o Append(QuContents(tqQueue), item)
      /\ Append(tqPopped \o QuContents(tqQueue), item) \in Seq(QuItems)
  BY <1>1, QuTakesIn, Zenon DEF TqHistory
<1> QED
  BY <1>2, Zenon DEF TqHistory

LEMMA TqPopped ==
  ASSUME TqHistory, tqQueue.count > 0, tqQueue' = QuAdvanced(tqQueue),
         tqPopped' = Append(tqPopped, QuHead(tqQueue)), tqPushed' = tqPushed
  PROVE  TqHistory'
<1>1. /\ tqQueue' \in QuRings /\ QuHead(tqQueue) \in QuItems
      /\ QuContents(tqQueue) = <<QuHead(tqQueue)>> \o QuContents(tqQueue')
  BY QuAdvancedTakes, Zenon DEF TqHistory
<1>2. QuContents(tqQueue') \in Seq(QuItems)
  BY <1>1, QuContentsType, Zenon
<1>3. tqPopped \o (<<QuHead(tqQueue)>> \o QuContents(tqQueue')) = tqPopped' \o QuContents(tqQueue')
  BY <1>1, <1>2, QuMovesOn, Zenon DEF TqHistory
<1>4. tqPopped' \in Seq(QuItems)
  BY <1>1, QuAppended, Zenon DEF TqHistory
<1> QED
  BY <1>1, <1>3, <1>4, Zenon DEF TqHistory

LEMMA TqCleared ==
  ASSUME TqHistory, tqQueue' = QuCleared(tqQueue), tqPushed' = tqPopped, tqPopped' = tqPopped
  PROVE  TqHistory'
<1>1. tqQueue' \in QuRings /\ QuContents(tqQueue') = <<>>
  BY QuEmptyRing, Zenon DEF TqHistory
<1>2. tqPopped \o <<>> = tqPopped
  BY QuJoinedEmpty, Zenon DEF TqHistory
<1> QED
  BY <1>1, <1>2, Zenon DEF TqHistory

\* The states of a call.
LEMMA TqCallTypes ==
  /\ TqIdle \in TqCallStates /\ TqIdle.step = "idle"
  /\ \A n \in Nat : [id |-> n + 1] \in QuItems
  /\ \A op \in {"push", "pop", "peek", "clear", "query"}, x \in QuItems :
       LET at == [step |-> "locked", op |-> op, item |-> x]
       IN at \in TqCallStates /\ at.step = "locked"
  /\ \A at \in TqCallStates : at.item \in QuItems /\ (at = TqIdle => at.step = "idle")
  /\ \A at \in TqCallStates, step \in {"copied", "done"} :
       LET next == [at EXCEPT !.step = step]
       IN /\ next \in TqCallStates /\ next.step = step
          /\ next.op = at.op /\ next.item = at.item
  /\ \A at \in TqCallStates, x \in QuItems :
       LET next == [at EXCEPT !.step = "copied", !.item = x]
       IN next \in TqCallStates /\ next.step = "copied" /\ next.op = at.op /\ next.item = x
<1>1. QuNone \in QuItems
  BY Zenon DEF QuItems
<1>2. TqIdle \in TqCallStates /\ TqIdle.step = "idle"
  BY <1>1, Zenon DEF TqIdle, TqCallStates
<1>3. \A n \in Nat : [id |-> n + 1] \in QuItems
  <2>1. \A n \in Nat : [id |-> n + 1] \in [id : Nat]
    OBVIOUS
  <2> QED
    BY <2>1, Zenon DEF QuItems
<1>4. \A op \in {"push", "pop", "peek", "clear", "query"}, x \in QuItems :
       LET at == [step |-> "locked", op |-> op, item |-> x]
       IN at \in TqCallStates /\ at.step = "locked"
  BY Zenon DEF TqCallStates
<1>5. \A at \in TqCallStates : at.item \in QuItems /\ (at = TqIdle => at.step = "idle")
  BY <1>2, Zenon DEF TqCallStates
<1>6. \A at \in TqCallStates, step \in {"copied", "done"} :
       LET next == [at EXCEPT !.step = step]
       IN /\ next \in TqCallStates /\ next.step = step
          /\ next.op = at.op /\ next.item = at.item
  BY Zenon DEF TqCallStates
<1>7. \A at \in TqCallStates, x \in QuItems :
       LET next == [at EXCEPT !.step = "copied", !.item = x]
       IN next \in TqCallStates /\ next.step = "copied" /\ next.op = at.op /\ next.item = x
  BY Zenon DEF TqCallStates
<1> QED
  BY <1>2, <1>3, <1>4, <1>5, <1>6, <1>7, Zenon

LEMMA TqCallKeeps ==
  ASSUME TqInvariant, NEW c \in QuContexts,
         NEW op \in {"push", "pop", "peek", "clear", "query"}, TqCall(c, op)
  PROVE  TqInvariant'
<1> DEFINE item == [id |-> tqCalls + 1]
<1>1. item \in QuItems
  BY TqCallTypes, Zenon DEF TqInvariant
<1>2. tqCalls' \in Nat /\ tqMutex' = tqMutex
  BY DEF TqInvariant, TqCall
<1> HIDE DEF item
<1>3. CASE UNCHANGED <<tqQueue, tqPushed, tqPopped, tqHolder, tqAt>>
  <2>1. TqInside'
    BY <1>2, <1>3, Zenon DEF TqInvariant, TqInside
  <2> QED
    BY <1>2, <1>3, <2>1, Zenon DEF TqInvariant
<1>4. CASE /\ tqMutex /\ tqHolder = "none" /\ tqHolder' = c
           /\ tqAt' = [tqAt EXCEPT ![c] = [step |-> "locked", op |-> op, item |-> item]]
           /\ UNCHANGED <<tqQueue, tqPushed, tqPopped>>
  <2>1. \A d \in QuContexts : tqAt[d] = TqIdle
    <3>1. "none" \notin QuContexts
      BY Zenon DEF QuContexts
    <3> QED
      BY <1>4, <3>1, Zenon DEF TqInvariant, TqInside
  <2>2. /\ [step |-> "locked", op |-> op, item |-> item] \in TqCallStates
        /\ [step |-> "locked", op |-> op, item |-> item].step = "locked"
    BY <1>1, TqCallTypes, Zenon
  <2>3. tqAt' \in [QuContexts -> TqCallStates]
    BY <1>4, <2>2, Zenon DEF TqInvariant
  <2>4. \A d \in QuContexts : /\ d # c => tqAt'[d] = TqIdle
                              /\ tqAt'[d].step # "copied"
    <3>1. "idle" # "copied" /\ "locked" # "copied"
      BY Zenon
    <3>2. \A d \in QuContexts : d # c => tqAt'[d] = TqIdle
      BY <1>4, <2>1, Zenon DEF TqInvariant
    <3>3. tqAt'[c].step = "locked"
      BY <1>4, <2>2, Zenon DEF TqInvariant
    <3>4. TqIdle.step = "idle"
      BY TqCallTypes, Zenon
    <3> QED
      BY <3>1, <3>2, <3>3, <3>4, Zenon
  <2>5. TqInside'
    BY <1>2, <1>4, <2>4, Zenon DEF TqInside
  <2> QED
    BY <1>2, <1>4, <2>3, <2>5, Zenon DEF TqInvariant
<1>5. CASE ~tqMutex /\ TqDo(op, item) /\ UNCHANGED <<tqHolder, tqAt>>
  <2>1. TqHistory
    BY Zenon DEF TqInvariant, TqHistory
  <2>2. TqHistory'
    <3>1. CASE /\ ~QuFull(tqQueue) /\ tqQueue' = QuPush(tqQueue, item)
               /\ tqPushed' = Append(tqPushed, item) /\ UNCHANGED tqPopped
      <4>1. tqQueue \in QuRings /\ tqQueue.count < QuCapacity
        BY <2>1, <3>1, QuAssumption DEF TqHistory, QuFull, QuRings
      <4>2. tqQueue' \in QuRings /\ QuContents(tqQueue') = Append(QuContents(tqQueue), item)
        BY <1>1, <3>1, <4>1, QuPushAdds, Zenon
      <4> QED
        BY <1>1, <2>1, <3>1, <4>2, TqPushed, Zenon
    <3>2. CASE /\ tqQueue.count > 0 /\ tqQueue' = QuAdvanced(tqQueue)
               /\ tqPopped' = Append(tqPopped, QuHead(tqQueue)) /\ UNCHANGED tqPushed
      BY <2>1, <3>2, TqPopped, Zenon
    <3>3. CASE tqQueue' = QuCleared(tqQueue) /\ tqPushed' = tqPopped /\ UNCHANGED tqPopped
      BY <2>1, <3>3, TqCleared, Zenon
    <3>4. CASE UNCHANGED <<tqQueue, tqPushed, tqPopped>>
      BY <2>1, <3>4, Zenon DEF TqHistory
    <3> QED
      BY <1>5, <3>1, <3>2, <3>3, <3>4, Zenon DEF TqDo
  <2>3. TqInside'
    <3>1. \A d \in QuContexts : tqAt'[d] = TqIdle
      BY <1>5, Zenon DEF TqInvariant, TqInside
    <3>2. TqIdle.step # "copied"
      BY TqCallTypes, Zenon
    <3> QED
      BY <3>1, <3>2, Zenon DEF TqInside
  <2> QED
    BY <1>2, <1>5, <2>2, <2>3, Zenon DEF TqInvariant, TqHistory
<1> QED
  BY <1>3, <1>4, <1>5, Zenon DEF TqCall, TqTryLock, item

\* A step of the holder's call: the others are outside, before and after.
LEMMA TqAlone ==
  ASSUME TqInvariant, NEW c \in QuContexts, tqAt[c].step # "idle"
  PROVE  /\ tqMutex /\ tqHolder = c /\ tqAt[c] \in TqCallStates
         /\ \A d \in QuContexts : d # c => tqAt[d] = TqIdle /\ tqAt[d].step # "copied"
<1>1. tqAt[c] # TqIdle
  BY TqCallTypes, Zenon
<1>2. tqMutex /\ tqHolder = c /\ tqAt[c] \in TqCallStates
  BY <1>1, Zenon DEF TqInvariant, TqInside
<1>3. \A d \in QuContexts : d # c => tqAt[d] = TqIdle
  BY <1>2, Zenon DEF TqInvariant, TqInside
<1>4. TqIdle.step # "copied"
  BY TqCallTypes, Zenon
<1> QED
  BY <1>2, <1>3, <1>4, Zenon

LEMMA TqCopyKeeps ==
  ASSUME TqInvariant, NEW c \in QuContexts, TqCopy(c)
  PROVE  TqInvariant'
<1> DEFINE at == tqAt[c]
<1>1. at.step = "locked" /\ at.step # "idle"
  BY Zenon DEF TqCopy
<1>2. /\ tqMutex /\ tqHolder = c /\ at \in TqCallStates /\ at.item \in QuItems
      /\ \A d \in QuContexts : d # c => tqAt[d] = TqIdle /\ tqAt[d].step # "copied"
  BY <1>1, TqAlone, TqCallTypes, Zenon
<1>3. UNCHANGED <<tqMutex, tqHolder, tqCalls, tqPushed, tqPopped>>
  BY Zenon DEF TqCopy
<1>4. tqQueue \in QuRings
  BY Zenon DEF TqInvariant
<1>5. CASE /\ at.op = "push" /\ ~QuFull(tqQueue)
           /\ tqQueue' = QuStored(tqQueue, at.item)
           /\ tqAt' = [tqAt EXCEPT ![c].step = "copied"]
  <2>1. tqQueue.count < QuCapacity
    BY <1>4, <1>5, QuAssumption DEF QuFull, QuRings
  <2>2. /\ tqQueue' \in QuRings /\ tqQueue'.count = tqQueue.count
        /\ tqQueue'.head = tqQueue.head
        /\ tqQueue'.items[(tqQueue.head + tqQueue.count) % QuCapacity] = at.item
        /\ QuContents(tqQueue') = QuContents(tqQueue)
    BY <1>2, <1>4, <1>5, <2>1, QuStoredKeeps, Zenon
  <2>3. /\ [at EXCEPT !.step = "copied"] \in TqCallStates
        /\ [at EXCEPT !.step = "copied"].op = "push"
        /\ [at EXCEPT !.step = "copied"].item = at.item
    BY <1>2, <1>5, TqCallTypes, Zenon
  <2>4. /\ tqAt' \in [QuContexts -> TqCallStates]
        /\ tqAt'[c] = [at EXCEPT !.step = "copied"]
        /\ \A d \in QuContexts : d # c => tqAt'[d] = tqAt[d]
    BY <1>5, <2>3, Zenon DEF TqInvariant
  <2>5. TqInside'
    BY <1>2, <1>3, <2>1, <2>2, <2>3, <2>4, Zenon DEF TqInside
  <2> QED
    BY <1>3, <2>2, <2>4, <2>5, Zenon DEF TqInvariant
<1>6. CASE /\ at.op = "pop" /\ tqQueue.count > 0
           /\ tqAt' = [tqAt EXCEPT ![c].step = "copied", ![c].item = QuHead(tqQueue)]
           /\ UNCHANGED tqQueue
  <2> DEFINE next == [at EXCEPT !.step = "copied", !.item = QuHead(tqQueue)]
  <2>1. QuHead(tqQueue) \in QuItems
    BY <1>4, <1>6, QuAdvancedTakes, Zenon
  <2>2. next \in TqCallStates /\ next.op = "pop" /\ next.item = QuHead(tqQueue)
    BY <1>2, <1>6, <2>1, Zenon DEF TqCallStates
  <2>3. tqAt' = [tqAt EXCEPT ![c] = next]
    BY <1>6, Zenon DEF TqInvariant
  <2> HIDE DEF next
  <2>4. /\ tqAt' \in [QuContexts -> TqCallStates] /\ tqAt'[c] = next
        /\ \A d \in QuContexts : d # c => tqAt'[d] = tqAt[d]
    BY <2>2, <2>3, Zenon DEF TqInvariant
  <2>5. TqInside'
    BY <1>2, <1>3, <1>6, <2>2, <2>4, Zenon DEF TqInside
  <2> QED
    BY <1>3, <1>6, <2>4, <2>5, Zenon DEF TqInvariant
<1>7. CASE /\ tqAt' = [tqAt EXCEPT ![c].step = "done"]
           /\ UNCHANGED tqQueue
  <2>3. /\ [at EXCEPT !.step = "done"] \in TqCallStates
        /\ [at EXCEPT !.step = "done"].step = "done"
    BY <1>2, TqCallTypes, Zenon
  <2>4. /\ tqAt' \in [QuContexts -> TqCallStates]
        /\ tqAt'[c] = [at EXCEPT !.step = "done"]
        /\ \A d \in QuContexts : d # c => tqAt'[d] = tqAt[d]
    BY <1>7, <2>3, Zenon DEF TqInvariant
  <2>5. TqInside'
    <3>1. "done" # "copied"
      BY Zenon
    <3> QED
      BY <1>2, <1>3, <2>3, <2>4, <3>1, Zenon DEF TqInside
  <2> QED
    BY <1>3, <1>7, <2>4, <2>5, Zenon DEF TqInvariant
<1>8. CASE /\ at.op = "clear" /\ UNCHANGED tqQueue
           /\ tqAt' = [tqAt EXCEPT ![c].step = "copied"]
  <2>3. /\ [at EXCEPT !.step = "copied"] \in TqCallStates
        /\ [at EXCEPT !.step = "copied"].op = "clear"
    BY <1>2, <1>8, TqCallTypes, Zenon
  <2>4. /\ tqAt' \in [QuContexts -> TqCallStates]
        /\ tqAt'[c] = [at EXCEPT !.step = "copied"]
        /\ \A d \in QuContexts : d # c => tqAt'[d] = tqAt[d]
    BY <1>8, <2>3, Zenon DEF TqInvariant
  <2>5. TqInside'
    BY <1>2, <1>3, <1>8, <2>3, <2>4, Zenon DEF TqInside
  <2> QED
    BY <1>3, <1>8, <2>4, <2>5, Zenon DEF TqInvariant
<1> QED
  BY <1>5, <1>6, <1>7, <1>8, Zenon DEF TqCopy

LEMMA TqIndexKeeps ==
  ASSUME TqInvariant, NEW c \in QuContexts, TqIndex(c)
  PROVE  TqInvariant'
<1> DEFINE at == tqAt[c]
<1>1. at.step = "copied" /\ at.step # "idle"
  BY Zenon DEF TqIndex
<1>2. /\ tqMutex /\ tqHolder = c /\ at \in TqCallStates /\ at.item \in QuItems
      /\ \A d \in QuContexts : d # c => tqAt[d] = TqIdle /\ tqAt[d].step # "copied"
  BY <1>1, TqAlone, TqCallTypes, Zenon
<1>3. UNCHANGED <<tqMutex, tqHolder, tqCalls>> /\ tqAt' = [tqAt EXCEPT ![c].step = "done"]
  BY Zenon DEF TqIndex
<1>4. TqHistory
  BY Zenon DEF TqInvariant, TqHistory
<1>5. TqHistory'
  <2>1. CASE /\ at.op = "push" /\ tqQueue.count < QuCapacity
             /\ tqQueue.items[(tqQueue.head + tqQueue.count) % QuCapacity] = at.item
    <3>1. /\ tqQueue' = QuCounted(tqQueue) /\ tqPushed' = Append(tqPushed, at.item)
          /\ tqPopped' = tqPopped
      BY <2>1, Zenon DEF TqIndex
    <3>2. tqQueue' \in QuRings /\ QuContents(tqQueue') = Append(QuContents(tqQueue), at.item)
      BY <1>4, <2>1, <3>1, QuCountedAdds, Zenon DEF TqHistory
    <3> QED
      BY <1>2, <1>4, <3>1, <3>2, TqPushed, Zenon
  <2>2. CASE at.op = "pop" /\ tqQueue.count > 0 /\ at.item = QuHead(tqQueue)
    <3>1. /\ tqQueue' = QuAdvanced(tqQueue) /\ tqPopped' = Append(tqPopped, QuHead(tqQueue))
          /\ tqPushed' = tqPushed
      BY <2>2, Zenon DEF TqIndex
    <3> QED
      BY <1>4, <2>2, <3>1, TqPopped, Zenon
  <2>3. CASE at.op = "clear"
    <3>1. tqQueue' = QuCleared(tqQueue) /\ tqPushed' = tqPopped /\ tqPopped' = tqPopped
      BY <2>3, Zenon DEF TqIndex
    <3> QED
      BY <1>4, <3>1, TqCleared, Zenon
  <2> QED
    BY <1>1, <2>1, <2>2, <2>3, Zenon DEF TqInvariant, TqInside
<1>6. /\ [at EXCEPT !.step = "done"] \in TqCallStates
      /\ [at EXCEPT !.step = "done"].step = "done"
  BY <1>2, TqCallTypes, Zenon
<1>7. /\ tqAt' \in [QuContexts -> TqCallStates]
      /\ tqAt'[c] = [at EXCEPT !.step = "done"]
      /\ \A d \in QuContexts : d # c => tqAt'[d] = tqAt[d]
  BY <1>3, <1>6, Zenon DEF TqInvariant
<1>8. TqInside'
  <2>1. "done" # "copied"
    BY Zenon
  <2> QED
    BY <1>2, <1>3, <1>6, <1>7, <2>1, Zenon DEF TqInside
<1> QED
  BY <1>3, <1>5, <1>7, <1>8, Zenon DEF TqInvariant, TqHistory

LEMMA TqUnlockKeeps ==
  ASSUME TqInvariant, NEW c \in QuContexts, TqUnlock(c)
  PROVE  TqInvariant'
<1>1. tqAt[c].step # "idle"
  BY Zenon DEF TqUnlock
<1>2. \A d \in QuContexts : d # c => tqAt[d] = TqIdle /\ tqAt[d].step # "copied"
  BY <1>1, TqAlone, Zenon
<1>3. TqIdle \in TqCallStates /\ TqIdle.step # "copied"
  BY TqCallTypes, Zenon
<1>4. \A d \in QuContexts : tqAt'[d] = TqIdle
  BY <1>2, Zenon DEF TqUnlock, TqInvariant
<1>5. TqInside'
  BY <1>3, <1>4, Zenon DEF TqInside
<1>6. tqAt' \in [QuContexts -> TqCallStates]
  BY <1>3, Zenon DEF TqUnlock, TqInvariant
<1> QED
  BY <1>5, <1>6, Zenon DEF TqUnlock, TqInvariant

LEMMA QuStepKeeps == QuInvariant /\ [QuNext]_quVars => QuInvariant'
<1> SUFFICES ASSUME QuInvariant, [QuNext]_quVars PROVE QuInvariant'
  BY Zenon
<1>1. LgInvariant /\ TqInvariant
  BY Zenon DEF QuInvariant
<1>2. LgInvariant'
  <2>1. LgNext \/ UNCHANGED lgVars
    BY Zenon DEF QuNext, quVars
  <2> QED
    BY <1>1, <2>1, LgWriteKeeps, LgPushKeeps, LgDispatchKeeps, LgDeliverKeeps,
       LgRestKeeps, Zenon
       DEF LgNext
<1>3. TqInvariant'
  <2>1. TqNext \/ UNCHANGED tqVars
    BY Zenon DEF QuNext, quVars
  <2>2. CASE UNCHANGED tqVars
    BY <1>1, <2>2, Zenon DEF tqVars, TqInvariant, TqInside
  <2> QED
    BY <1>1, <2>1, <2>2, TqCallKeeps, TqCopyKeeps, TqIndexKeeps, TqUnlockKeeps, Zenon
       DEF TqNext
<1> QED
  BY <1>2, <1>3, Zenon DEF QuInvariant

\* Queue under Logger and ThreadSafeQueue, for every capacity and every interleaving
\* of tasks and interrupts: the records Logger::write accepted are, in order, those a
\* subscriber was given, the one on its way to it and those in the ring; and what
\* ThreadSafeQueue gave out, with what it still holds, is what was pushed since the
\* last clear.
THEOREM QueuesOrdered == QuSpec => []QuOrdered
<1>1. QuInvariant => QuOrdered
  BY Zenon DEF QuInvariant, LgInvariant, TqInvariant, QuOrdered, TqFifo
<1> QED
  BY <1>1, QuInitially, QuStepKeeps, PTL DEF QuSpec

(***************************************************************************)
(* The SD card session.                                                    *)
(***************************************************************************)
\* Whose transfer the device carries out, and when it can be whose.
SdWireHeld ==
  /\ \A o \in SdOwners : sdDone[o] = "pending" <=> sdBus = o
  /\ \A o \in SdOwners : sdDone[o] # "busy"
  /\ sdBus = "initializer" => sdState = "initializing"
  /\ sdBus = "session" => sdState \in {"gap", "command"}
  /\ sdBus = "transport" => sdOp.kind # "none"

\* Who may use the card: a probe or reset, or the holder of the lease.
SdTurns ==
  /\ sdRunning <=> sdState \notin SdFinal
  /\ ~(sdRequested /\ sdResetRequested)
  /\ sdRunning => ~sdRequested /\ ~sdResetRequested
  /\ sdLeased => ~sdRunning /\ ~sdRequested /\ ~sdResetRequested
  /\ sdReady => ~sdRunning /\ ~sdRequested /\ ~sdResetRequested
  /\ sdOp.kind # "none" => sdLeased

\* How far the access is.
SdOpOK == \/ sdOp = SdNoOp
          \/ /\ sdOp.kind \in {"read", "write"} /\ sdOp.left >= 1
             /\ sdOp.step \in 1 .. SdSteps(sdOp.kind)

\* What the card can do, and at which clock.
SdCardOK ==
  /\ sdReady /\ (sdOp = SdNoOp \/ sdDone["transport"] \in {"pending", "ok"})
       => sdCard = "usable"
  /\ sdState = "initializing" => sdRate = "startup"
  /\ sdReady => sdRate = "data"
  /\ sdState \in {"initializing", "gap", "command"} => sdWalk.reads < 2 * SdReadRepeats

SdInvariant == SdTypeOK /\ SdWireHeld /\ SdTurns /\ SdOpOK /\ SdCardOK

LEMMA SdInitially == SdInitial => SdInvariant
<1> SUFFICES ASSUME SdInitial PROVE SdInvariant
  BY Zenon
<1> USE DEF SdInitial
<1>1. /\ sdProbe \in BOOLEAN /\ sdReady \in BOOLEAN /\ sdRunning \in BOOLEAN
      /\ sdRequested \in BOOLEAN /\ sdResetRequested \in BOOLEAN
      /\ sdLeased \in BOOLEAN /\ sdFault \in BOOLEAN
  BY Zenon
<1>2. sdInit \in SdInitializers
  BY SdAssumption DEF SdIdleInit, SdInitializers, SdFinal
<1>3. sdWalk \in SdWalks /\ sdWalk.reads < 2 * SdReadRepeats
  BY SdAssumption DEF SdWalks
<1>4. sdOp \in SdOps
  BY SdAssumption DEF SdNoOp, SdOps
<1>5. /\ sdState \in SdFinal \union {"resetting", "initializing", "command", "gap"}
      /\ sdReset \in {"none", "pending", "ready"} /\ sdCommand \in SdCommands
      /\ sdRate \in {"startup", "data"} /\ sdDone \in [SdOwners -> SdResults]
      /\ sdBus \in SdOwners \union {SdNobody} /\ sdCard \in {"unknown", "usable"}
  BY Zenon DEF SdFinal, SdCommands, SdResults
<1>6. SdTypeOK
  BY <1>1, <1>2, <1>3, <1>4, <1>5, Zenon DEF SdTypeOK
<1>7. SdWireHeld
  BY Zenon DEF SdWireHeld, SdOwners, SdNobody
<1>8. SdTurns /\ SdOpOK /\ SdCardOK
  BY Zenon DEF SdTurns, SdOpOK, SdCardOK, SdNoOp, SdFinal
<1> QED
  BY <1>6, <1>7, <1>8, Zenon DEF SdInvariant

\* A transfer started while the device is free is pending, or refused by a faulted controller.
LEMMA SdStarts ==
  ASSUME sdDone \in [SdOwners -> SdResults], SdWireHeld, sdBus = SdNobody,
         NEW owner \in SdOwners, SdStart(owner)
  PROVE  /\ sdDone' \in [SdOwners -> SdResults] /\ sdBus' \in {owner, SdNobody}
         /\ \A o \in SdOwners : sdDone'[o] = "pending" <=> sdBus' = o
         /\ \A o \in SdOwners : sdDone'[o] # "busy"
         /\ \A o \in SdOwners : o # owner => sdDone'[o] = sdDone[o]
<1>1. sdDone[owner] # "pending" /\ \A o \in SdOwners : o # SdNobody
  BY Zenon DEF SdWireHeld, SdOwners, SdNobody
<1>2. /\ sdDone' = [sdDone EXCEPT ![owner] = IF sdFault THEN "failed" ELSE "pending"]
      /\ sdBus' = IF sdDone'[owner] = "pending" THEN owner ELSE sdBus
  BY <1>1, Zenon DEF SdStart
<1>3. /\ sdDone'[owner] \in {"failed", "pending"} /\ sdDone' \in [SdOwners -> SdResults]
      /\ \A o \in SdOwners : o # owner => sdDone'[o] = sdDone[o]
  BY <1>2, Zenon DEF SdResults
<1>4. \A o \in SdOwners : sdDone[o] # "pending" /\ sdDone[o] # "busy"
  BY <1>1, Zenon DEF SdWireHeld
<1> QED
  BY <1>1, <1>2, <1>3, <1>4, Zenon

\* The device is free whenever the session or an access starts a transfer.
LEMMA SdFree ==
  ASSUME SdInvariant
  PROVE  /\ sdState = "initializing" /\ sdDone["initializer"] # "pending" => sdBus = SdNobody
         /\ sdState \in {"gap", "command"} /\ sdDone["session"] # "pending" => sdBus = SdNobody
         /\ ~sdRunning /\ (sdOp = SdNoOp \/ sdDone["transport"] # "pending") => sdBus = SdNobody
BY DEF SdInvariant, SdTypeOK, SdWireHeld, SdTurns, SdOwners, SdFinal, SdNoOp

\* The requests of the application, and the lease.
LEMMA SdRequestsKeep ==
  ASSUME SdInvariant, SdRequest \/ SdResetRequest \/ SdAcquire \/ SdRelease
  PROVE  SdInvariant'
<1> USE DEF sdWire, SdRequest, SdResetRequest, SdAcquire, SdRelease, SdBusy
<1>1. UNCHANGED <<sdProbe, sdState, sdRunning, sdReset, sdCommand, sdInit, sdWalk, sdRate, sdWire,
                  sdFault, sdOp, sdCard>>
  BY Zenon
<1>2. /\ sdReady' \in BOOLEAN /\ sdRequested' \in BOOLEAN /\ sdResetRequested' \in BOOLEAN
      /\ sdLeased' \in BOOLEAN
  BY Zenon DEF SdInvariant, SdTypeOK
<1>3. SdTypeOK'
  BY <1>1, <1>2, Zenon DEF SdInvariant, SdTypeOK
<1>4. SdWireHeld' /\ SdOpOK'
  BY <1>1, Zenon DEF SdInvariant, SdWireHeld, SdOpOK
<1>5. SdTurns'
  BY <1>1 DEF SdInvariant, SdTurns, SdNoOp
<1>6. SdCardOK'
  BY <1>1 DEF SdInvariant, SdCardOK
<1> QED
  BY <1>3, <1>4, <1>5, <1>6, Zenon DEF SdInvariant

\* The interrupts.
LEMMA SdInterruptsKeep ==
  ASSUME SdInvariant, SdBusCompletes \/ SdResetCompletes
  PROVE  SdInvariant'
<1> USE DEF sdFlags
<1>1. CASE SdResetCompletes
  <2> USE <1>1 DEF SdResetCompletes, sdWire
  <2>2. /\ sdReset' \in {"none", "pending", "ready"} /\ sdFault' \in BOOLEAN
        /\ UNCHANGED <<sdProbe, sdState, sdReady, sdRunning, sdRequested, sdResetRequested,
                       sdLeased, sdCommand, sdInit, sdWalk, sdRate, sdDone, sdBus, sdOp, sdCard>>
    OBVIOUS
  <2>1. SdTypeOK'
    BY <2>2 DEF SdInvariant, SdTypeOK
  <2> QED
    BY <2>1, Zenon DEF SdInvariant, SdWireHeld, SdTurns, SdOpOK, SdCardOK
<1>2. CASE SdBusCompletes
  <2>1. PICK status \in {"ok", "failed"}, fault \in BOOLEAN :
          /\ sdDone' = [sdDone EXCEPT ![sdBus] = status]
          /\ sdFault' = fault
          /\ sdCard' = IF status = "ok" THEN sdCard ELSE "unknown"
    BY <1>2, Zenon DEF SdBusCompletes
  <2>2. /\ sdBus # SdNobody /\ sdBus' = SdNobody
        /\ UNCHANGED <<sdProbe, sdState, sdFlags, sdReset, sdCommand, sdInit, sdWalk, sdRate, sdOp>>
    BY <1>2, Zenon DEF SdBusCompletes
  <2>3. sdBus \in SdOwners /\ sdDone \in [SdOwners -> SdResults]
    BY <2>2, Zenon DEF SdInvariant, SdTypeOK
  <2>4. /\ sdDone' \in [SdOwners -> SdResults] /\ sdDone'[sdBus] = status
        /\ \A o \in SdOwners : o # sdBus => sdDone'[o] = sdDone[o]
    BY <2>1, <2>3, Zenon DEF SdResults
  <2>5. sdCard' \in {"unknown", "usable"} /\ (status = "ok" => sdCard' = sdCard)
    BY <2>1, Zenon DEF SdInvariant, SdTypeOK
  <2>6. SdTypeOK'
    <3>1. sdFault' \in BOOLEAN /\ sdBus' \in SdOwners \union {SdNobody}
      BY <2>1, <2>2, Zenon
    <3> QED
      BY <2>2, <2>4, <2>5, <3>1 DEF SdInvariant, SdTypeOK
  <2>7. SdWireHeld'
    BY <2>2, <2>3, <2>4, Zenon DEF SdInvariant, SdWireHeld, SdOwners, SdNobody
  <2>8. SdTurns' /\ SdOpOK'
    BY <2>2, Zenon DEF SdInvariant, SdTurns, SdOpOK
  <2>9. SdCardOK'
    <3>1. sdReady => sdBus = "transport"
      BY <2>2, <2>3, Zenon DEF SdInvariant, SdWireHeld, SdTurns, SdOwners, SdFinal
    <3>2. sdBus = "transport" => sdOp # SdNoOp /\ sdDone["transport"] = "pending"
      BY DEF SdInvariant, SdWireHeld, SdNoOp, SdOwners
    <3> QED
      BY <2>2, <2>4, <2>5, <3>1, <3>2, Zenon DEF SdInvariant, SdCardOK
  <2> QED
    BY <2>6, <2>7, <2>8, <2>9, Zenon DEF SdInvariant
<1> QED
  BY <1>1, <1>2, Zenon

\* A tick that begins a reset or a probe, or ends a reset.
LEMMA SdBeginKeeps ==
  ASSUME SdInvariant, SdTickIdle \/ SdTickResetting
  PROVE  SdInvariant'
<1> USE DEF sdWire
<1>1. CASE SdTickResetting
  <2> USE <1>1 DEF SdTickResetting
  <2>1. sdRunning' \in BOOLEAN
    BY Zenon
  <2>2. SdTypeOK'
    BY <2>1, Zenon DEF SdInvariant, SdTypeOK, SdFinal
  <2> QED
    BY <2>2, Zenon DEF SdInvariant, SdWireHeld, SdTurns, SdOpOK, SdCardOK, SdFinal
<1>2. CASE SdTickIdle
  <2>1. /\ sdState \in SdFinal /\ sdRunning' = TRUE
        /\ UNCHANGED <<sdProbe, sdReady, sdLeased, sdWire, sdFault, sdOp>>
        /\ sdResetRequested \/ sdRequested
    BY <1>2, Zenon DEF SdTickIdle
  <2>2. ~sdReady /\ ~sdLeased /\ sdOp = SdNoOp /\ sdBus = SdNobody
    BY <2>1, Zenon
       DEF SdInvariant, SdTypeOK, SdWireHeld, SdTurns, SdOpOK, SdFinal, SdOwners
  <2>3. CASE /\ sdResetRequested /\ sdResetRequested' = FALSE /\ sdState' = "resetting"
             /\ sdReset' \in {"pending", "ready"} /\ sdCard' = "unknown"
             /\ UNCHANGED <<sdRequested, sdCommand, sdInit, sdWalk, sdRate>>
    <3>1. sdRunning' \in BOOLEAN /\ sdResetRequested' \in BOOLEAN
      BY <2>1, <2>3, Zenon
    <3>2. SdTypeOK'
      BY <2>1, <2>3, <3>1, Zenon DEF SdInvariant, SdTypeOK
    <3> QED
      BY <2>1, <2>2, <2>3, <3>2, Zenon
         DEF SdInvariant, SdWireHeld, SdTurns, SdOpOK, SdCardOK, SdFinal, SdOwners,
             SdNobody, SdNoOp
  <2>4. CASE /\ sdRequested /\ sdRequested' = FALSE /\ sdState' = "initializing" /\ sdRate' = SdStartupRate
             /\ sdCommand' = 0 /\ sdWalk' = [reads |-> 0, parts |-> 0]
             /\ sdInit' = [sdInit EXCEPT !.requested = TRUE, !.active = TRUE, !.result = "none"]
             /\ sdCard' = "unknown" /\ UNCHANGED <<sdResetRequested, sdReset>>
    <3>1. sdRunning' \in BOOLEAN /\ sdRequested' \in BOOLEAN
      BY <2>1, <2>4, Zenon
    <3>2. sdInit' \in SdInitializers
      BY <2>4, Zenon DEF SdInvariant, SdTypeOK, SdInitializers
    <3>3. sdWalk' \in SdWalks /\ sdWalk'.reads < 2 * SdReadRepeats
      BY <2>4, SdAssumption DEF SdWalks
    <3>4. sdRate' \in {"startup", "data"} /\ sdCommand' \in SdCommands
      BY <2>4, Zenon DEF SdStartupRate, SdCommands
    <3>5. SdTypeOK'
      BY <2>1, <2>4, <3>1, <3>2, <3>3, <3>4, Zenon DEF SdInvariant, SdTypeOK
    <3>6. SdWireHeld' /\ SdTurns' /\ SdOpOK'
      BY <2>1, <2>2, <2>4, Zenon
         DEF SdInvariant, SdWireHeld, SdTurns, SdOpOK, SdFinal, SdOwners, SdNobody,
             SdNoOp
    <3>7. SdCardOK'
      BY <2>1, <2>2, <2>4, <3>3, Zenon DEF SdCardOK, SdStartupRate
    <3> QED
      BY <3>5, <3>6, <3>7, Zenon DEF SdInvariant
  <2> QED
    BY <1>2, <2>3, <2>4, Zenon DEF SdTickIdle
<1> QED
  BY <1>1, <1>2, Zenon

\* The session is not leased while it runs, and no access is under way.
LEMMA SdAlone ==
  ASSUME SdInvariant, sdState \notin SdFinal
  PROVE  sdRunning /\ ~sdReady /\ ~sdLeased /\ ~sdRequested /\ ~sdResetRequested /\ sdOp = SdNoOp
BY Zenon DEF SdInvariant, SdTurns, SdOpOK

\* A probe goes on: the session or its initializer starts its next transfer.
LEMMA SdGoesOn ==
  ASSUME SdInvariant, sdState \notin SdFinal, sdBus = SdNobody,
         NEW owner \in {"session", "initializer"}, SdStart(owner),
         sdState' \in {"gap", "command", "initializing"},
         owner = "initializer" <=> sdState' = "initializing",
         sdState' = "initializing" => sdRate' = "startup",
         sdCommand' \in SdCommands, sdInit' \in SdInitializers, sdRate' \in {"startup", "data"},
         sdWalk' \in SdWalks, sdWalk'.reads < 2 * SdReadRepeats,
         UNCHANGED <<sdProbe, sdReady, sdRunning, sdRequested, sdResetRequested, sdLeased,
                     sdReset, sdFault, sdOp, sdCard>>
  PROVE  SdInvariant'
<1>1. /\ sdDone' \in [SdOwners -> SdResults] /\ sdBus' \in {owner, SdNobody}
      /\ \A o \in SdOwners : sdDone'[o] = "pending" <=> sdBus' = o
      /\ \A o \in SdOwners : sdDone'[o] # "busy"
  BY SdStarts, Zenon DEF SdInvariant, SdTypeOK, SdOwners
<1>2. sdRunning /\ ~sdReady /\ ~sdLeased /\ sdOp = SdNoOp
  BY SdAlone, Zenon
<1>3. SdTypeOK'
  <2>1. sdBus' \in SdOwners \union {SdNobody}
    BY <1>1, Zenon DEF SdOwners
  <2>2. sdState' \in SdFinal \union {"resetting", "initializing", "command", "gap"}
    BY Zenon
  <2> QED
    BY <1>1, <2>1, <2>2, Zenon DEF SdInvariant, SdTypeOK
<1>4. SdWireHeld'
  BY <1>1, Zenon DEF SdWireHeld, SdNobody
<1>5. SdTurns' /\ SdOpOK'
  BY <1>2, Zenon DEF SdInvariant, SdTurns, SdOpOK, SdFinal
<1>6. SdCardOK'
  BY <1>2, Zenon DEF SdCardOK
<1> QED
  BY <1>3, <1>4, <1>5, <1>6, Zenon DEF SdInvariant

\* A probe ends; a card that is ready is left at its data rate.
LEMMA SdEnds ==
  ASSUME SdInvariant, sdState \notin SdFinal, sdBus = SdNobody,
         NEW success \in BOOLEAN, SdEnd(success), success => sdRate' = "data",
         sdCommand' \in SdCommands, sdInit' \in SdInitializers, sdRate' \in {"startup", "data"},
         sdWalk' \in SdWalks,
         UNCHANGED <<sdProbe, sdRequested, sdResetRequested, sdLeased, sdReset, sdFault,
                     sdOp, sdWire>>
  PROVE  SdInvariant'
<1> USE DEF sdWire
<1>1. /\ sdState' \in SdFinal /\ sdRunning' = FALSE /\ sdReady' = success
      /\ sdCard' = IF success THEN "usable" ELSE sdCard
  BY Zenon DEF SdEnd, SdFinal
<1>2. ~sdLeased /\ ~sdRequested /\ ~sdResetRequested /\ sdOp = SdNoOp
  BY SdAlone, Zenon
<1>3. SdTypeOK'
  <2>1. sdRunning' \in BOOLEAN /\ sdReady' \in BOOLEAN
    BY <1>1, Zenon
  <2>2. sdCard' \in {"unknown", "usable"}
    BY <1>1, Zenon DEF SdInvariant, SdTypeOK
  <2>3. sdState' \in SdFinal \union {"resetting", "initializing", "command", "gap"}
    BY <1>1, Zenon
  <2> QED
    BY <2>1, <2>2, <2>3, Zenon DEF SdInvariant, SdTypeOK
<1>4. SdWireHeld'
  BY Zenon DEF SdInvariant, SdWireHeld, SdNobody
<1>5. SdTurns' /\ SdOpOK'
  BY <1>1, <1>2, Zenon DEF SdInvariant, SdTurns, SdOpOK, SdNoOp
<1>6. SdCardOK'
  BY <1>1, <1>2, Zenon DEF SdCardOK, SdFinal
<1> QED
  BY <1>3, <1>4, <1>5, <1>6, Zenon DEF SdInvariant

\* The initializer's record after a tick.
LEMMA SdInitStepType ==
  ASSUME sdInit \in SdInitializers, NEW p \in SdInitSteps
  PROVE  p \in SdInitializers
<1> DEFINE begun == [sdInit EXCEPT !.state = "clocks", !.requested = FALSE, !.command = 0,
                                   !.attempts = 0]
           sends == [sdInit EXCEPT !.state = "command"]
           counts(next) == [sdInit EXCEPT !.state = "gap", !.command = next,
                              !.attempts = IF sdInit.command = 41 /\ next = 55
                                           THEN SdCounted(sdInit) ELSE @]
<1>1. begun \in SdInitializers
  <2>1. 0 \in 0 .. SdStartupLimit /\ 0 \in {0, 8, 41, 55, 58} /\ FALSE \in BOOLEAN
    BY SdAssumption
  <2> QED
    BY <2>1, Zenon DEF SdInitializers
<1>2. sends \in SdInitializers
  BY Zenon DEF SdInitializers
<1>3. \A result \in {"ok", "failed"} : SdInitEnded(sdInit, result) \in SdInitializers
  <2> SUFFICES ASSUME NEW result \in {"ok", "failed"}
               PROVE  SdInitEnded(sdInit, result) \in SdInitializers
    BY Zenon
  <2> QED
    BY Zenon DEF SdInitializers, SdFinal, SdInitEnded
<1>4. ASSUME NEW r \in SdResponses, SdNextCommand(sdInit, r) \notin {SdInitialized, SdRejected}
      PROVE  counts(SdNextCommand(sdInit, r)) \in SdInitializers
  <2>1. PICK next : next = SdNextCommand(sdInit, r)
    BY Zenon
  <2>2. next \in {8, 41, 55, 58}
    BY <1>4, <2>1 DEF SdNextCommand, SdInitialized, SdRejected
  <2>3. sdInit.attempts \in 0 .. SdStartupLimit /\ sdInit.command \in {0, 8, 41, 55, 58}
    BY Zenon DEF SdInitializers
  <2>4. sdInit.command = 41 /\ next = 55 => SdCounted(sdInit) < SdStartupLimit
    BY <2>1 DEF SdNextCommand, SdInitialized, SdRejected
  <2>5. (IF sdInit.command = 41 /\ next = 55 THEN SdCounted(sdInit) ELSE sdInit.attempts)
          \in 0 .. SdStartupLimit
    BY <2>3, <2>4, SdAssumption DEF SdCounted
  <2>6. counts(next) \in SdInitializers
    BY <2>2, <2>5 DEF SdInitializers
  <2> QED
    BY <2>1, <2>6, Zenon
<1> HIDE DEF begun, sends, counts
<1>5. CASE sdInit.state \in SdFinal
  <2>1. SdInitSteps = {begun}
    BY <1>5, Zenon DEF SdInitSteps, begun, SdFinal
  <2> QED
    BY <1>1, <2>1, Zenon
<1>6. CASE sdInit.state \notin SdFinal /\ sdDone["initializer"] # "ok"
  BY <1>3, <1>6, Zenon DEF SdInitSteps
<1>7. CASE sdInit.state \in {"clocks", "gap"} /\ sdDone["initializer"] = "ok"
  BY <1>2, <1>7, Zenon DEF SdInitSteps, sends, SdFinal
<1>8. CASE sdInit.state \notin SdFinal \union {"clocks", "gap"} /\ sdDone["initializer"] = "ok"
  <2>1. PICK r \in SdResponses :
          p = LET next == SdNextCommand(sdInit, r) IN
              CASE next = SdInitialized -> SdInitEnded(sdInit, "ok")
                [] next = SdRejected -> SdInitEnded(sdInit, "failed")
                [] OTHER -> counts(next)
    BY <1>8, Zenon DEF SdInitSteps, counts
  <2>2. CASE SdNextCommand(sdInit, r) = SdInitialized
    BY <1>3, <2>1, <2>2, Zenon DEF SdInitialized, SdRejected
  <2>3. CASE SdNextCommand(sdInit, r) = SdRejected
    BY <1>3, <2>1, <2>3, Zenon DEF SdInitialized, SdRejected
  <2>4. CASE SdNextCommand(sdInit, r) \notin {SdInitialized, SdRejected}
    BY <1>4, <2>1, <2>4, Zenon
  <2> QED
    BY <2>2, <2>3, <2>4, Zenon
<1> QED
  BY <1>5, <1>6, <1>7, <1>8, Zenon

\* A tick while the card is identified.
LEMMA SdInitializingKeeps ==
  ASSUME SdInvariant, SdTickInitializing
  PROVE  SdInvariant'
<1>1. /\ sdState = "initializing" /\ sdDone["initializer"] # "pending" /\ sdInit' \in SdInitSteps
      /\ UNCHANGED <<sdProbe, sdRequested, sdResetRequested, sdLeased, sdReset, sdWalk, sdRate,
                     sdFault, sdOp>>
  BY Zenon DEF SdTickInitializing
<1>2. sdInit' \in SdInitializers
  BY <1>1, SdInitStepType, Zenon DEF SdInvariant, SdTypeOK
<1>3. /\ sdBus = SdNobody /\ sdState \notin SdFinal /\ sdRate = "startup"
      /\ sdWalk \in SdWalks /\ sdWalk.reads < 2 * SdReadRepeats /\ sdCommand \in SdCommands
  BY <1>1, SdFree, Zenon DEF SdInvariant, SdTypeOK, SdCardOK, SdFinal
<1>4. CASE sdInit'.result = "none"
  <2>1. SdStart("initializer") /\ UNCHANGED <<sdState, sdRunning, sdReady, sdCommand, sdCard>>
    BY <1>4, Zenon DEF SdTickInitializing
  <2> QED
    BY <1>1, <1>2, <1>3, <2>1, SdGoesOn, Zenon
<1>5. CASE sdInit'.result = "ok"
  <2>1. /\ SdStart("session") /\ sdCommand' = 9 /\ sdState' = "gap"
        /\ UNCHANGED <<sdRunning, sdReady, sdCard>>
    BY <1>5, Zenon DEF SdTickInitializing
  <2>2. sdCommand' \in SdCommands
    BY <2>1, Zenon DEF SdCommands
  <2> QED
    BY <1>1, <1>2, <1>3, <2>1, <2>2, SdGoesOn, Zenon
<1>6. CASE sdInit'.result = "failed"
  <2>1. sdCommand' = sdInit'.command /\ SdEnd(FALSE) /\ UNCHANGED sdWire
    BY <1>6, Zenon DEF SdTickInitializing
  <2>2. sdCommand' \in SdCommands
    BY <1>2, <2>1, Zenon DEF SdInitializers, SdCommands
  <2>3. FALSE \in BOOLEAN /\ sdRate' \in {"startup", "data"} /\ sdWalk' \in SdWalks
    BY <1>1, <1>3, Zenon
  <2> QED
    BY <1>1, <1>2, <1>3, <2>1, <2>2, <2>3, SdEnds, Zenon
<1> QED
  BY <1>2, <1>4, <1>5, <1>6, Zenon DEF SdInitializers

\* What the answer to a read of a probe may lead to.
SdStepOK(step) ==
  /\ step.kind \in {"fail", "read", "finish"} /\ step.command \in SdCommands
  /\ step.rate \in {"startup", "data"} /\ step.walk \in SdWalks
  /\ step.kind = "read" => step.walk.reads < 2 * SdReadRepeats
  /\ step.kind = "finish" => step.rate = "data"

LEMMA SdReceivedOK ==
  ASSUME sdWalk \in SdWalks, sdWalk.reads < 2 * SdReadRepeats, sdCommand \in SdCommands,
         sdRate \in {"startup", "data"}, NEW step \in SdReceived
  PROVE  SdStepOK(step)
<1> DEFINE walk == [sdWalk EXCEPT !.reads = @ + 1]
           read(c, w, rate) == [kind |-> "read", command |-> c, walk |-> w, rate |-> rate]
           fail == [kind |-> "fail", command |-> sdCommand, walk |-> sdWalk, rate |-> sdRate]
           finish(c, w) == [kind |-> "finish", command |-> c, walk |-> w, rate |-> "data"]
<1>1. sdWalk.reads \in 0 .. 2 * SdReadRepeats /\ sdWalk.parts \in 0 .. SdPartitions
  BY Zenon DEF SdWalks
<1>2. walk \in SdWalks /\ walk.reads = sdWalk.reads + 1 /\ walk.parts = sdWalk.parts
  <2>1. sdWalk.reads + 1 \in 0 .. 2 * SdReadRepeats
    BY <1>1, SdAssumption
  <2> QED
    BY <2>1, Zenon DEF SdWalks
<1> HIDE DEF walk
<1>3. SdStepOK(fail) /\ \A w \in SdWalks, c \in SdCommands : SdStepOK(finish(c, w))
  BY Zenon DEF SdStepOK
<1>4. \A w \in SdWalks, c \in SdCommands, rate \in {"startup", "data"} :
        w.reads < 2 * SdReadRepeats => SdStepOK(read(c, w, rate))
  BY DEF SdStepOK
<1>5. {9, 10, 17} \subseteq SdCommands
  BY Zenon DEF SdCommands
<1>6. ASSUME NEW s \in SdInspect(walk) PROVE SdStepOK(s)
  <2>1. CASE s = finish(17, walk)
    BY <1>2, <1>3, <1>5, <2>1, Zenon
  <2>2. CASE s = read(17, [reads |-> 0, parts |-> walk.parts + 1], "startup")
             /\ walk.parts < SdPartitions
    <3>1. [reads |-> 0, parts |-> walk.parts + 1] \in SdWalks
      BY <1>1, <1>2, <2>2, SdAssumption DEF SdWalks
    <3>2. 0 < 2 * SdReadRepeats
      BY SdAssumption
    <3> QED
      BY <1>4, <1>5, <2>2, <3>1, <3>2, Zenon
  <2> QED
    BY <1>6, <2>1, <2>2, Zenon DEF SdInspect
<1>7. ASSUME NEW s \in SdObserverNext PROVE SdStepOK(s)
  <2>1. CASE s = fail
    BY <1>3, <2>1, Zenon
  <2>2. CASE s \in {read(10, sdWalk, sdRate), read(17, sdWalk, sdRate)}
    BY <1>4, <1>5, <2>2, Zenon
  <2>3. CASE s = read(17, walk, "data") /\ walk.reads = SdReadRepeats
    <3>1. walk.reads < 2 * SdReadRepeats
      BY <2>3, SdAssumption
    <3> QED
      BY <1>2, <1>4, <1>5, <2>3, <3>1, Zenon
  <2>4. CASE s = read(17, walk, sdRate) /\ walk.reads # 2 * SdReadRepeats
    <3>1. walk.reads < 2 * SdReadRepeats
      BY <1>1, <1>2, <2>4, SdAssumption
    <3> QED
      BY <1>2, <1>4, <1>5, <2>4, <3>1, Zenon
  <2>5. CASE s \in SdInspect(walk)
    BY <1>6, <2>5, Zenon
  <2>6. SdObserverNext =
          CASE sdCommand = 9 -> {read(10, sdWalk, sdRate)}
            [] sdCommand = 10 -> {read(17, sdWalk, sdRate)}
            [] OTHER ->
                 (IF sdWalk.reads > 0 THEN {fail} ELSE {}) \union
                 CASE walk.reads = SdReadRepeats -> {read(17, walk, "data")}
                   [] walk.reads = 2 * SdReadRepeats -> SdInspect(walk)
                   [] OTHER -> {read(17, walk, sdRate)}
    BY Zenon DEF SdObserverNext, walk
  <2> HIDE DEF read, fail
  <2>7. \/ s = fail \/ s \in {read(10, sdWalk, sdRate), read(17, sdWalk, sdRate)}
        \/ s = read(17, walk, "data") /\ walk.reads = SdReadRepeats
        \/ s = read(17, walk, sdRate) /\ walk.reads # 2 * SdReadRepeats
        \/ s \in SdInspect(walk)
    <3>1. SdReadRepeats # 2 * SdReadRepeats
      BY SdAssumption
    <3> QED
      BY <1>7, <2>6, <3>1, Zenon
  <2> QED
    BY <2>1, <2>2, <2>3, <2>4, <2>5, <2>7, Zenon
<1> QED
  BY <1>3, <1>7, Zenon DEF SdReceived

\* A tick while a probe reads the card.
LEMMA SdReadingKeeps ==
  ASSUME SdInvariant, SdTickGap \/ SdTickTransferFailed \/ SdTickCommand
  PROVE  SdInvariant'
<1>1. /\ sdState \in {"gap", "command"} /\ sdDone["session"] # "pending"
      /\ UNCHANGED <<sdProbe, sdRequested, sdResetRequested, sdLeased, sdReset, sdInit, sdFault,
                     sdOp>>
  BY Zenon DEF SdTickGap, SdTickTransferFailed, SdTickCommand, sdFlags
<1>2. /\ sdBus = SdNobody /\ sdState \notin SdFinal /\ sdInit \in SdInitializers
      /\ sdWalk \in SdWalks /\ sdWalk.reads < 2 * SdReadRepeats /\ sdCommand \in SdCommands
      /\ sdRate \in {"startup", "data"}
  BY <1>1, SdFree, Zenon DEF SdInvariant, SdTypeOK, SdCardOK, SdFinal
<1>3. CASE SdTickGap
  <2>1. /\ SdStart("session") /\ sdState' = "command"
        /\ UNCHANGED <<sdRunning, sdReady, sdCommand, sdCard, sdWalk, sdRate>>
    BY <1>3, Zenon DEF SdTickGap, sdFlags
  <2> QED
    BY <1>1, <1>2, <2>1, SdGoesOn, Zenon
<1>4. CASE SdTickTransferFailed
  <2>1. SdEnd(FALSE) /\ UNCHANGED <<sdCommand, sdWalk, sdRate, sdWire>>
    BY <1>4, Zenon DEF SdTickTransferFailed
  <2>2. FALSE \in BOOLEAN /\ sdRate' \in {"startup", "data"} /\ sdWalk' \in SdWalks
        /\ sdCommand' \in SdCommands /\ sdInit' \in SdInitializers
    BY <1>1, <1>2, <2>1, Zenon
  <2> QED
    BY <1>1, <1>2, <2>1, <2>2, SdEnds, Zenon
<1>5. CASE SdTickCommand
  <2>1. PICK step \in SdReceived :
          /\ sdWalk' = step.walk /\ sdRate' = step.rate /\ sdCommand' = step.command
          /\ IF step.kind = "read"
             THEN /\ sdState' = "gap" /\ SdStart("session")
                  /\ UNCHANGED <<sdRunning, sdReady, sdCard>>
             ELSE /\ SdEnd(step.kind = "finish")
                  /\ UNCHANGED sdWire
    BY <1>5, Zenon DEF SdTickCommand
  <2>2. SdStepOK(step)
    BY <1>2, SdReceivedOK, Zenon
  <2>3. /\ sdWalk' \in SdWalks /\ sdRate' \in {"startup", "data"} /\ sdCommand' \in SdCommands
        /\ sdInit' \in SdInitializers
    BY <1>1, <1>2, <2>1, <2>2, Zenon DEF SdStepOK
  <2>4. CASE step.kind = "read"
    <3>1. sdWalk'.reads < 2 * SdReadRepeats
      BY <2>1, <2>2, <2>4, Zenon DEF SdStepOK
    <3> QED
      BY <1>1, <1>2, <2>1, <2>3, <2>4, <3>1, SdGoesOn, Zenon
  <2>5. CASE step.kind # "read"
    <3>1. SdEnd(step.kind = "finish") /\ UNCHANGED sdWire /\ (step.kind = "finish") \in BOOLEAN
      BY <2>1, <2>5, Zenon
    <3>2. step.kind = "finish" => sdRate' = "data"
      BY <2>1, <2>2, Zenon DEF SdStepOK
    <3> QED
      BY <1>1, <1>2, <2>3, <3>1, <3>2, SdEnds, Zenon
  <2> QED
    BY <2>4, <2>5, Zenon
<1> QED
  BY <1>3, <1>4, <1>5, Zenon

\* An access ends.
LEMMA SdAccessEnds ==
  ASSUME SdInvariant, sdLeased, NEW success \in BOOLEAN, SdReturn(success),
         sdBus' = SdNobody, sdDone' \in [SdOwners -> SdResults],
         \A o \in SdOwners : sdDone'[o] \notin {"pending", "busy"},
         sdCard' \in {"unknown", "usable"}, success /\ sdReady => sdCard' = "usable",
         UNCHANGED <<sdProbe, sdState, sdRunning, sdRequested, sdResetRequested, sdLeased, sdReset,
                     sdCommand, sdInit, sdWalk, sdRate, sdFault>>
  PROVE  SdInvariant'
<1>1. sdOp' = SdNoOp /\ (sdReady' => success /\ sdReady)
  BY Zenon DEF SdReturn, SdReadyAfterFailure
<1>2. sdReady' \in BOOLEAN
  BY Zenon DEF SdReturn, SdReadyAfterFailure, SdInvariant, SdTypeOK
<1>3. sdOp' \in SdOps
  BY <1>1, SdAssumption DEF SdNoOp, SdOps
<1>4. SdTypeOK'
  <2>1. sdBus' \in SdOwners \union {SdNobody}
    BY Zenon
  <2> QED
    BY <1>2, <1>3, <2>1, Zenon DEF SdInvariant, SdTypeOK
<1>5. SdWireHeld'
  BY Zenon DEF SdWireHeld, SdOwners, SdNobody
<1>6. SdTurns' /\ SdOpOK'
  BY <1>1, Zenon DEF SdInvariant, SdTurns, SdOpOK, SdNoOp
<1>7. SdCardOK'
  BY <1>1, Zenon DEF SdInvariant, SdCardOK
<1> QED
  BY <1>4, <1>5, <1>6, <1>7, Zenon DEF SdInvariant

\* An access starts its next transfer, or fails when the controller refuses it.
LEMMA SdAccessGoesOn ==
  ASSUME SdInvariant, sdLeased, sdBus = SdNobody, SdStart("transport"),
         sdReady => sdCard = "usable",
         NEW op \in SdOps, op.kind \in {"read", "write"}, op.left >= 1,
         op.step \in 1 .. SdSteps(op.kind),
         IF sdDone'["transport"] = "pending" THEN sdOp' = op /\ UNCHANGED sdReady
         ELSE SdReturn(FALSE),
         UNCHANGED <<sdProbe, sdState, sdRunning, sdRequested, sdResetRequested, sdLeased, sdReset,
                     sdCommand, sdInit, sdWalk, sdRate, sdFault, sdCard>>
  PROVE  SdInvariant'
<1>1. /\ sdDone' \in [SdOwners -> SdResults] /\ sdBus' \in {"transport", SdNobody}
      /\ \A o \in SdOwners : sdDone'[o] = "pending" <=> sdBus' = o
      /\ \A o \in SdOwners : sdDone'[o] # "busy"
  <2>1. "transport" \in SdOwners
    BY Zenon DEF SdOwners
  <2> QED
    BY <2>1, SdStarts, Zenon DEF SdInvariant, SdTypeOK
<1>2. CASE sdDone'["transport"] = "pending"
  <2>1. sdOp' = op /\ sdReady' = sdReady /\ sdBus' = "transport"
    BY <1>1, <1>2, Zenon DEF SdOwners
  <2>2. sdBus' \in SdOwners \union {SdNobody}
    BY <2>1, Zenon DEF SdOwners
  <2>7. sdOp' \in SdOps /\ sdReady' \in BOOLEAN
    BY <2>1, Zenon DEF SdInvariant, SdTypeOK
  <2>3. SdTypeOK'
    BY <1>1, <2>2, <2>7, Zenon DEF SdInvariant, SdTypeOK
  <2>4. SdWireHeld'
    BY <1>1, <2>1, Zenon DEF SdWireHeld
  <2>5. SdTurns' /\ SdOpOK'
    BY <2>1, Zenon DEF SdInvariant, SdTurns, SdOpOK
  <2>6. SdCardOK'
    BY <2>1, Zenon DEF SdInvariant, SdCardOK
  <2> QED
    BY <2>3, <2>4, <2>5, <2>6, Zenon DEF SdInvariant
<1>3. CASE sdDone'["transport"] # "pending"
  <2>1. SdReturn(FALSE) /\ FALSE \in BOOLEAN
    BY <1>3, Zenon
  <2>2. sdBus' = SdNobody /\ \A o \in SdOwners : sdDone'[o] \notin {"pending", "busy"}
    BY <1>1, <1>3, Zenon DEF SdOwners, SdNobody
  <2>3. sdCard' \in {"unknown", "usable"}
    BY Zenon DEF SdInvariant, SdTypeOK
  <2> QED
    BY <1>1, <2>1, <2>2, <2>3, SdAccessEnds, Zenon
<1> QED
  BY <1>2, <1>3, Zenon

\* read() or write() is called.
LEMMA SdAccessKeeps ==
  ASSUME SdInvariant, NEW kind \in {"read", "write"}, SdAccess(kind)
  PROVE  SdInvariant'
<1>1. /\ sdReady /\ sdLeased /\ sdOp = SdNoOp
      /\ UNCHANGED <<sdProbe, sdState, sdRunning, sdRequested, sdResetRequested, sdLeased, sdReset,
                     sdCommand, sdInit, sdWalk, sdRate, sdFault, sdCard>>
  BY Zenon DEF SdAccess
<1>2. /\ sdBus = SdNobody /\ sdCard = "usable" /\ sdCard \in {"unknown", "usable"}
      /\ sdDone \in [SdOwners -> SdResults]
      /\ \A o \in SdOwners : sdDone[o] \notin {"pending", "busy"}
  BY <1>1, SdFree, Zenon
     DEF SdInvariant, SdTypeOK, SdTurns, SdCardOK, SdWireHeld, SdOwners, SdNobody
<1>3. CASE SdReturn(FALSE) /\ UNCHANGED sdWire
  <2>1. FALSE \in BOOLEAN /\ sdBus' = sdBus /\ sdDone' = sdDone
    BY <1>3, Zenon DEF sdWire
  <2> QED
    BY <1>1, <1>2, <1>3, <2>1, SdAccessEnds, Zenon
<1>4. ASSUME NEW n \in 1 .. SdSectors, SdStart("transport"),
             IF sdDone'["transport"] = "pending"
             THEN /\ sdOp' = [kind |-> kind, left |-> n, step |-> 1, keep |-> TRUE]
                  /\ UNCHANGED sdReady
             ELSE SdReturn(FALSE)
      PROVE  SdInvariant'
  <2> DEFINE op == [kind |-> kind, left |-> n, step |-> 1, keep |-> TRUE]
  <2>1. op \in SdOps
    BY SdAssumption DEF SdOps
  <2>2. op.kind \in {"read", "write"} /\ op.left >= 1 /\ op.step \in 1 .. SdSteps(op.kind)
    BY SdAssumption DEF SdSteps
  <2>3. IF sdDone'["transport"] = "pending" THEN sdOp' = op /\ UNCHANGED sdReady
        ELSE SdReturn(FALSE)
    BY <1>4, Zenon
  <2> HIDE DEF op
  <2> QED
    BY <1>1, <1>2, <1>4, <2>1, <2>2, <2>3, SdAccessGoesOn, Zenon
<1> QED
  BY <1>3, <1>4, Zenon DEF SdAccess

\* The access goes on to its next sector.
LEMMA SdNextSector ==
  ASSUME NEW op \in SdOps, NEW n \in 0 .. SdSectors
  PROVE  [op EXCEPT !.step = 1, !.left = n] \in SdOps
<1> DEFINE v == [op EXCEPT !.step = 1]
<1>1. v \in SdOps
  BY DEF SdOps
<1> HIDE DEF v
<1>2. [v EXCEPT !.left = n] \in SdOps
  BY <1>1, Zenon DEF SdOps
<1> QED
  BY <1>2, Zenon DEF v

\* The access after a transfer, and an abort asked for by the pump.
LEMMA SdAccessStepKeeps ==
  ASSUME SdInvariant, SdAccessStep
  PROVE  SdInvariant'
<1>1. /\ sdOp.kind # "none" /\ sdDone["transport"] # "pending"
      /\ UNCHANGED <<sdProbe, sdState, sdRunning, sdRequested, sdResetRequested, sdLeased, sdReset,
                     sdCommand, sdInit, sdWalk, sdRate, sdFault>>
  BY Zenon DEF SdAccessStep
<1>2. /\ sdLeased /\ ~sdRunning /\ sdOp # SdNoOp
  BY <1>1 DEF SdInvariant, SdTurns, SdNoOp
<1>3. /\ sdBus = SdNobody /\ sdCard \in {"unknown", "usable"} /\ sdDone \in [SdOwners -> SdResults]
      /\ \A o \in SdOwners : sdDone[o] \notin {"pending", "busy"}
  BY <1>1, <1>2, SdFree, Zenon DEF SdInvariant, SdTypeOK, SdWireHeld, SdOwners, SdNobody
<1>4. sdDone["transport"] = "ok" /\ sdReady => sdCard = "usable"
  BY Zenon DEF SdInvariant, SdCardOK
<1>5. CASE SdOpFails
  <2>1. /\ SdReturn(FALSE) /\ FALSE \in BOOLEAN /\ sdBus' = sdBus /\ sdDone' = sdDone
        /\ sdCard' = "unknown" /\ sdCard' \in {"unknown", "usable"}
    BY <1>5, Zenon DEF SdOpFails, sdWire
  <2> QED
    BY <1>1, <1>2, <1>3, <2>1, SdAccessEnds, Zenon
<1>6. CASE sdDone["transport"] = "ok" /\ SdReturn(TRUE) /\ UNCHANGED <<sdWire, sdCard>>
  <2>1. /\ SdReturn(TRUE) /\ TRUE \in BOOLEAN /\ sdBus' = sdBus /\ sdDone' = sdDone
        /\ sdCard' = sdCard
    BY <1>6, Zenon DEF sdWire
  <2> QED
    BY <1>1, <1>2, <1>3, <1>4, <1>6, <2>1, SdAccessEnds, Zenon
<1>7. ASSUME sdDone["transport"] = "ok", SdStart("transport"), UNCHANGED sdCard,
             ~(sdOp.step = SdSteps(sdOp.kind) /\ sdOp.left = 1),
             IF sdDone'["transport"] # "pending"
             THEN SdReturn(FALSE)
             ELSE /\ sdOp' = IF sdOp.step = SdSteps(sdOp.kind)
                             THEN [sdOp EXCEPT !.step = 1, !.left = @ - 1]
                             ELSE [sdOp EXCEPT !.step = @ + 1]
                  /\ UNCHANGED sdReady
      PROVE  SdInvariant'
  <2> DEFINE op == IF sdOp.step = SdSteps(sdOp.kind)
                   THEN [sdOp EXCEPT !.step = 1, !.left = @ - 1]
                   ELSE [sdOp EXCEPT !.step = @ + 1]
  <2>1. /\ sdOp \in SdOps /\ sdOp.kind \in {"read", "write"} /\ sdOp.left \in 1 .. SdSectors
        /\ sdOp.step \in 1 .. SdSteps(sdOp.kind) /\ SdSteps(sdOp.kind) \in {2, 4}
    BY <1>2 DEF SdInvariant, SdTypeOK, SdOps, SdOpOK, SdSteps
  <2>4. IF sdDone'["transport"] = "pending" THEN sdOp' = op /\ UNCHANGED sdReady
        ELSE SdReturn(FALSE)
    BY <1>7, Zenon
  <2>2. CASE sdOp.step = SdSteps(sdOp.kind)
    <3>1. sdOp.left - 1 \in 1 .. SdSectors /\ sdOp.left - 1 \in 0 .. SdSectors
      BY <1>7, <2>1, <2>2, SdAssumption
    <3>2. op = [sdOp EXCEPT !.step = 1, !.left = sdOp.left - 1]
      BY <2>2, Zenon
    <3> HIDE DEF op
    <3>3. op.kind = sdOp.kind /\ op.left = sdOp.left - 1 /\ op.step = 1
      BY <2>1, <3>2, Zenon DEF SdOps
    <3>4. op \in SdOps
      BY <2>1, <3>1, <3>2, SdNextSector, Zenon
    <3>5. op.kind \in {"read", "write"} /\ op.left >= 1 /\ op.step \in 1 .. SdSteps(op.kind)
      BY <2>1, <3>1, <3>3
    <3> QED
      BY <1>1, <1>2, <1>3, <1>4, <1>7, <2>4, <3>4, <3>5, SdAccessGoesOn, Zenon
  <2>3. CASE sdOp.step # SdSteps(sdOp.kind)
    <3>1. sdOp.step + 1 \in 1 .. SdSteps(sdOp.kind) /\ sdOp.step + 1 \in 0 .. 4
      BY <2>1, <2>3
    <3>2. op = [sdOp EXCEPT !.step = @ + 1]
      BY <2>3, Zenon
    <3> HIDE DEF op
    <3>3. op.kind = sdOp.kind /\ op.left = sdOp.left /\ op.step = sdOp.step + 1
      BY <2>1, <3>2, Zenon DEF SdOps
    <3>4. op \in SdOps
      BY <2>1, <3>1, <3>2, Zenon DEF SdOps
    <3>5. op.kind \in {"read", "write"} /\ op.left >= 1 /\ op.step \in 1 .. SdSteps(op.kind)
      BY <2>1, <3>1, <3>3
    <3> QED
      BY <1>1, <1>2, <1>3, <1>4, <1>7, <2>4, <3>4, <3>5, SdAccessGoesOn, Zenon
  <2> QED
    BY <2>2, <2>3, Zenon
<1> QED
  BY <1>1, <1>5, <1>6, <1>7, Zenon DEF SdAccessStep

LEMMA SdAbortKeeps ==
  ASSUME SdInvariant, SdPumpAborts
  PROVE  SdInvariant'
<1> USE DEF sdFlags, sdWire
<1>1. /\ sdOp.kind # "none" /\ sdOp' = [sdOp EXCEPT !.keep = FALSE]
      /\ UNCHANGED <<sdProbe, sdState, sdFlags, sdReset, sdCommand, sdInit, sdWalk, sdRate, sdWire,
                     sdFault, sdCard>>
  BY Zenon DEF SdPumpAborts
<1>2. sdOp \in SdOps
  BY Zenon DEF SdInvariant, SdTypeOK
<1>3. /\ sdOp' \in SdOps /\ sdOp'.kind = sdOp.kind /\ sdOp'.left = sdOp.left
      /\ sdOp'.step = sdOp.step
  BY <1>1, <1>2, Zenon DEF SdOps
<1>4. SdTypeOK'
  BY <1>1, <1>3 DEF SdInvariant, SdTypeOK
<1>5. sdOp # SdNoOp /\ sdOp' # SdNoOp
  BY <1>1, <1>3 DEF SdNoOp
<1>6. SdWireHeld' /\ SdTurns'
  BY <1>1, <1>3, Zenon DEF SdInvariant, SdWireHeld, SdTurns
<1>7. SdOpOK'
  BY <1>3, <1>5, Zenon DEF SdInvariant, SdOpOK
<1>8. SdCardOK'
  BY <1>1, <1>5, Zenon DEF SdInvariant, SdCardOK
<1> QED
  BY <1>4, <1>6, <1>7, <1>8, Zenon DEF SdInvariant

\* The invariant of the session: requests, ticks, accesses and interrupts keep it in every
\* interleaving.
THEOREM SdInvariantHolds == SdSpec => []SdInvariant
<1>1. SdInvariant /\ [SdNext]_sdVars => SdInvariant'
  <2> SUFFICES ASSUME SdInvariant, [SdNext]_sdVars PROVE SdInvariant'
    BY Zenon
  <2>1. CASE UNCHANGED sdVars
    <3> USE <2>1 DEF sdVars, sdFlags, sdWire
    <3>1. SdTypeOK'
      BY DEF SdInvariant, SdTypeOK
    <3>2. SdWireHeld' /\ SdTurns' /\ SdOpOK' /\ SdCardOK'
      BY Zenon DEF SdInvariant, SdWireHeld, SdTurns, SdOpOK, SdCardOK
    <3> QED
      BY <3>1, <3>2, Zenon DEF SdInvariant
  <2>2. CASE SdTick
    BY <2>2, SdBeginKeeps, SdInitializingKeeps, SdReadingKeeps, Zenon DEF SdTick
  <2>3. CASE SdAccess("read") \/ SdAccess("write")
    BY <2>3, SdAccessKeeps, Zenon
  <2> QED
    BY <2>1, <2>2, <2>3, SdRequestsKeep, SdInterruptsKeep, SdAccessStepKeeps,
       SdAbortKeeps, Zenon
       DEF SdNext
<1> QED
  BY <1>1, SdInitially, PTL DEF SdSpec

\* A ready card was initialized since its last failure and is at its data rate; the session,
\* its initializer and the accesses of the volume never find the SPI device taken; no probe or
\* reset disturbs the holder of the lease (Session::request, reset, acquire, tick, read, write).
THEOREM SdCardAlwaysKept == SdSpec => []SdCardKept
<1>1. SdInvariant => SdCardKept
  BY Zenon
     DEF SdInvariant, SdTypeOK, SdWireHeld, SdTurns, SdCardOK, SdCardKept,
         SdReadyMeansUsable, SdNeverContends, SdClockRates
<1> QED
  BY <1>1, SdInvariantHolds, PTL
==============================================================================
