---------------------------- MODULE Upload_proofs ----------------------------
(***************************************************************************)
(* Proofs about Upload, for any number of events, kills and restarts and   *)
(* any size of the buffer: type correctness, that every event is accounted *)
(* for, that a full buffer gives up its oldest rows, and that duplicates   *)
(* have a cause.                                                           *)
(***************************************************************************)
EXTENDS Upload, SequenceTheorems, TLAPS

Rows == Events \union {Health}

(***************************************************************************)
(* What TypeOK rests on: the detector's counter is no longer than the log, *)
(* and the events the agent knows of are in the log.                       *)
(***************************************************************************)
Bounded ==
  /\ seq <= Len(log)
  /\ \A i \in DOMAIN batch : batch[i] <= Len(log)
  /\ \A i \in DOMAIN buffer : buffer[i] <= Len(log)
  /\ \A n \in received : n <= Len(log)

\* Where the main loop is: only the upload has a batch; an item is being
\* posted, or has been sent, only while it is in hand; what was sent arrived.
InStep ==
  /\ batch # <<>> => phase = "upload"
  /\ step # "send" => Holding
  /\ Uploaded /\ Item # Health => Item \in received

SafeInv == TypeOK /\ Bounded /\ InStep /\ Accounted

\* Until the first kill, the events in the buffer, then those of the batch,
\* are in the order of detection, after everything the buffer has dropped.
InOrder ==
  /\ \A i, j \in DOMAIN batch : i < j => batch[i] < batch[j]
  /\ \A j \in DOMAIN batch : batch[j] <= offset
  /\ \A i, j \in DOMAIN buffer : i < j /\ buffer[j] # Health => buffer[i] < buffer[j]
  /\ \A i \in DOMAIN buffer, j \in DOMAIN batch : buffer[i] < batch[j]
  /\ \A i \in DOMAIN buffer : buffer[i] <= offset
  /\ \A n \in trimmed : /\ n <= offset
                        /\ \A i \in DOMAIN buffer : buffer[i] # Health => n < buffer[i]
                        /\ \A j \in DOMAIN batch : n < batch[j]
  /\ \A n \in received : n <= offset

\* A kill that tears the offset aside: an event that has arrived and is still to be
\* sent is one with an arrival the agent has no record of, and no event is to be sent
\* by two of the rows and the events of the batch.
Recorded ==
  \A n \in received : n \in ToSet(buffer) \union ToSet(batch) =>
    n \in unrecorded \union reread \/ (Uploaded /\ n = Item)

HeldOnce ==
  /\ \A i, j \in DOMAIN batch : i < j => batch[i] < batch[j]
  /\ \A i, j \in DOMAIN buffer :
       i < j /\ buffer[j] # Health => buffer[i] # buffer[j] \/ buffer[j] \in reread
  /\ \A i \in DOMAIN buffer, j \in DOMAIN batch : buffer[i] # batch[j] \/ batch[j] \in reread
  /\ \A j \in DOMAIN batch : batch[j] <= offset
  /\ \A i \in DOMAIN buffer : buffer[i] <= offset \/ buffer[i] \in reread
  /\ \A n \in received : n <= offset \/ n \in reread

OrderInv == SafeInv /\ (kills = 0 => InOrder)

OnceInv == SafeInv /\ HeldOnce /\ Recorded /\ DuplicatesExplained

-----------------------------------------------------------------------------
\* Sequences.

LEMMA TailFacts ==
  ASSUME NEW S, NEW s \in Seq(S), s # <<>>
  PROVE  /\ Tail(s) \in Seq(S)
         /\ Len(Tail(s)) = Len(s) - 1
         /\ \A i \in DOMAIN Tail(s) : i + 1 \in DOMAIN s /\ Tail(s)[i] = s[i + 1]
         /\ 1 \in DOMAIN s /\ Head(s) = s[1] /\ Head(s) \in S
         /\ ToSet(s) = {Head(s)} \union ToSet(Tail(s))
<1>1. /\ Tail(s) \in Seq(S)
      /\ Len(Tail(s)) = Len(s) - 1
      /\ \A i \in 1 .. Len(s) - 1 : Tail(s)[i] = s[i + 1]
      /\ 1 \in 1 .. Len(s) /\ Head(s) = s[1]
  OBVIOUS
<1>2. DOMAIN s = 1 .. Len(s) /\ DOMAIN Tail(s) = 1 .. Len(s) - 1 /\ Len(s) \in Nat
  BY <1>1
<1>3. ASSUME NEW i \in DOMAIN s, i # 1
      PROVE  i - 1 \in DOMAIN Tail(s) /\ Tail(s)[i - 1] = s[i]
  BY <1>1, <1>2, <1>3
<1>4. ToSet(s) \subseteq {Head(s)} \union ToSet(Tail(s))
  <2>1. SUFFICES ASSUME NEW i \in DOMAIN s, i # 1
                 PROVE  s[i] \in ToSet(Tail(s))
    BY <1>1 DEF ToSet
  <2> DEFINE t == Tail(s)
  <2>2. i - 1 \in DOMAIN t /\ t[i - 1] = s[i]
    BY <1>3, <2>1
  <2> HIDE DEF t
  <2>3. s[i] \in ToSet(t)
    BY <2>2 DEF ToSet
  <2> QED
    BY <2>3 DEF t
<1>5. {Head(s)} \union ToSet(Tail(s)) \subseteq ToSet(s)
  BY <1>1, <1>2 DEF ToSet
<1> QED
  BY <1>1, <1>2, <1>4, <1>5

LEMMA RemoveAtFacts ==
  ASSUME NEW S, NEW s \in Seq(S), NEW k \in DOMAIN s
  PROVE  /\ RemoveAt(s, k) \in Seq(S)
         /\ Len(RemoveAt(s, k)) = Len(s) - 1
         /\ \A i \in DOMAIN RemoveAt(s, k) :
              /\ i \in DOMAIN s /\ i + 1 \in DOMAIN s
              /\ RemoveAt(s, k)[i] = IF i < k THEN s[i] ELSE s[i + 1]
         /\ ToSet(s) = {s[k]} \union ToSet(RemoveAt(s, k))
<1> DEFINE a == SubSeq(s, 1, k - 1)
           b == SubSeq(s, k + 1, Len(s))
           r == RemoveAt(s, k)
<1>1. Len(s) \in Nat /\ DOMAIN s = 1 .. Len(s) /\ k \in 1 .. Len(s)
  OBVIOUS
<1>2. /\ a \in Seq(S) /\ Len(a) = k - 1
      /\ \A i \in 1 .. k - 1 : a[i] = s[i]
  BY <1>1
<1>3. /\ b \in Seq(S) /\ Len(b) = Len(s) - k
      /\ \A i \in 1 .. Len(s) - k : b[i] = s[k + i]
  BY <1>1
<1> HIDE DEF a, b
<1>4. r = a \o b
  BY DEF RemoveAt, a, b
<1>5. /\ r \in Seq(S) /\ Len(r) = Len(s) - 1
      /\ \A i \in 1 .. Len(s) - 1 : r[i] = IF i <= k - 1 THEN a[i] ELSE b[i - (k - 1)]
  <2>1. /\ a \o b \in Seq(S)
        /\ Len(a \o b) = Len(a) + Len(b)
        /\ \A i \in 1 .. Len(a) + Len(b) :
             (a \o b)[i] = IF i <= Len(a) THEN a[i] ELSE b[i - Len(a)]
    BY <1>2, <1>3, ConcatProperties
  <2>2. Len(a) + Len(b) = Len(s) - 1
    BY <1>1, <1>2, <1>3
  <2> HIDE DEF r
  <2> QED
    BY <2>1, <2>2, <1>2, <1>4
<1> HIDE DEF r
<1>6. DOMAIN r = 1 .. Len(s) - 1
  BY <1>5
<1>7. ASSUME NEW i \in 1 .. Len(s) - 1
      PROVE  r[i] = IF i < k THEN s[i] ELSE s[i + 1]
  <2>1. CASE i < k
    BY <2>1, <1>1, <1>2, <1>5
  <2>2. CASE ~(i < k)
    <3>1. i - (k - 1) \in 1 .. Len(s) - k /\ k + (i - (k - 1)) = i + 1 /\ ~(i <= k - 1)
      BY <2>2, <1>1
    <3> QED
      BY <2>2, <3>1, <1>3, <1>5
  <2> QED
    BY <2>1, <2>2
<1>8. ASSUME NEW i \in DOMAIN s, i # k
      PROVE  s[i] \in ToSet(r)
  <2>1. CASE i < k
    <3>1. i \in 1 .. Len(s) - 1 /\ r[i] = s[i]
      BY <2>1, <1>1, <1>7
    <3> QED
      BY <3>1, <1>6 DEF ToSet
  <2>2. CASE i > k
    <3>1. i - 1 \in 1 .. Len(s) - 1 /\ ~(i - 1 < k) /\ (i - 1) + 1 = i
      BY <2>2, <1>1
    <3>2. r[i - 1] = s[i]
      BY <3>1, <1>7
    <3> QED
      BY <3>1, <3>2, <1>6 DEF ToSet
  <2> QED
    BY <2>1, <2>2, <1>1, <1>8
<1>9. ToSet(s) \subseteq {s[k]} \union ToSet(r)
  BY <1>8 DEF ToSet
<1>10. {s[k]} \union ToSet(r) \subseteq ToSet(s)
  BY <1>1, <1>6, <1>7 DEF ToSet
<1> QED
  BY <1>1, <1>5, <1>6, <1>7, <1>9, <1>10 DEF r

\* A sequence cut in two after k elements.
LEMMA CutFacts ==
  ASSUME NEW S, NEW w \in Seq(S), NEW k \in Nat, k < Len(w)
  PROVE  /\ SubSeq(w, k + 1, Len(w)) \in Seq(S)
         /\ Len(SubSeq(w, k + 1, Len(w))) = Len(w) - k
         /\ \A i \in 1 .. Len(w) - k : SubSeq(w, k + 1, Len(w))[i] = w[i + k]
         /\ \A x : x \in ToSet(SubSeq(w, k + 1, Len(w))) <=> \E i \in k + 1 .. Len(w) : x = w[i]
         /\ \A x : x \in ToSet(SubSeq(w, 1, k)) <=> \E i \in 1 .. k : x = w[i]
<1> DEFINE r == SubSeq(w, k + 1, Len(w))
           d == SubSeq(w, 1, k)
<1>1. Len(w) \in Nat /\ \A i \in 1 .. Len(w) : w[i] \in S
  BY LenProperties, ElementOfSeq
<1>2. /\ r \in Seq(S) /\ Len(r) = Len(w) - k
      /\ \A i \in 1 .. Len(w) - k : r[i] = w[i + k]
  BY <1>1
<1>3. /\ d \in Seq(S) /\ Len(d) = k
      /\ \A i \in 1 .. k : d[i] = w[i]
  BY <1>1
<1> HIDE DEF r, d
<1>4. DOMAIN r = 1 .. Len(w) - k /\ DOMAIN d = 1 .. k
  BY <1>2, <1>3, LenProperties
<1>5. \A x : x \in ToSet(d) <=> \E i \in 1 .. k : x = w[i]
  BY <1>3, <1>4 DEF ToSet
<1>6. ASSUME NEW i \in k + 1 .. Len(w)
      PROVE  w[i] \in ToSet(r)
  <2>1. i - k \in 1 .. Len(w) - k /\ (i - k) + k = i
    BY <1>1
  <2>2. r[i - k] = w[i]
    BY <2>1, <1>2
  <2> QED
    BY <2>1, <2>2, <1>4 DEF ToSet
<1>7. ASSUME NEW i \in DOMAIN r
      PROVE  \E j \in k + 1 .. Len(w) : r[i] = w[j]
  <2>1. i \in 1 .. Len(w) - k /\ i + k \in k + 1 .. Len(w)
    BY <1>1, <1>4
  <2> QED
    BY <2>1, <1>2
<1>8. \A x : x \in ToSet(r) <=> \E i \in k + 1 .. Len(w) : x = w[i]
  <2>1. \A x \in ToSet(r) : \E i \in k + 1 .. Len(w) : x = w[i]
    BY <1>7 DEF ToSet
  <2> QED
    BY <2>1, <1>6
<1> QED
  BY <1>2, <1>5, <1>8 DEF r, d

-----------------------------------------------------------------------------
\* The state.

LEMMA Types ==
  ASSUME TypeOK
  PROVE  /\ MaxEvents \in Nat /\ BufferMax \in Nat /\ BufferMax # 0 /\ Listed \subseteq Events
         /\ seq \in Nat /\ offset \in Nat /\ offset <= Len(log)
         /\ log \in Seq(Events) /\ Len(log) \in Nat /\ Len(log) <= MaxEvents
         /\ batch \in Seq(Events) /\ Len(batch) \in Nat
         /\ buffer \in Seq(Rows) /\ Len(buffer) \in Nat /\ Len(buffer) <= BufferMax
         /\ received \subseteq Events /\ repeated \subseteq Events
         /\ unrecorded \subseteq Events /\ reread \subseteq Events /\ suppressed \subseteq Events
         /\ trimmed \subseteq Events /\ killedInHand \subseteq Events
<1>1. log \in Seq(Events) /\ batch \in Seq(Events) /\ buffer \in Seq(Rows)
  BY DEF TypeOK, Rows
<1>2. Len(log) \in Nat /\ Len(batch) \in Nat /\ Len(buffer) \in Nat
  BY <1>1, LenProperties
<1> QED
  BY <1>1, <1>2, ConstantsAssumption DEF TypeOK

\* The item in hand is the oldest row, or the first event of the batch.
LEMMA ItemFacts ==
  ASSUME TypeOK, Bounded, Holding
  PROVE  /\ Item \in Rows /\ Item <= Len(log)
         /\ phase = "flush" => buffer # <<>> /\ 1 \in DOMAIN buffer /\ Item = Head(buffer) /\ Item = buffer[1]
         /\ phase # "flush" => /\ phase = "upload" /\ batch # <<>> /\ 1 \in DOMAIN batch
                               /\ Item = Head(batch) /\ Item = batch[1] /\ Item \in Events
<1>1. CASE phase = "flush"
  <2>1. buffer \in Seq(Rows) /\ buffer # <<>> /\ Item = Head(buffer)
    BY <1>1, Types DEF Holding, Item
  <2>2. 1 \in DOMAIN buffer /\ Head(buffer) = buffer[1] /\ Head(buffer) \in Rows
    BY <2>1, TailFacts
  <2> QED
    BY <2>1, <2>2, <1>1 DEF Bounded
<1>2. CASE phase # "flush"
  <2>1. batch \in Seq(Events) /\ batch # <<>> /\ phase = "upload" /\ Item = Head(batch)
    BY <1>2, Types DEF Holding, Item
  <2>2. 1 \in DOMAIN batch /\ Head(batch) = batch[1] /\ Head(batch) \in Events
    BY <2>1, TailFacts
  <2> QED
    BY <2>1, <2>2, <1>2 DEF Bounded, Rows
<1> QED
  BY <1>1, <1>2

\* A settled event stays settled: what has arrived has not been forgotten, and
\* the log is only appended to.
LEMMA StaysSettled ==
  ASSUME TypeOK, Bounded,
         received \subseteq received', suppressed \subseteq suppressed',
         trimmed \subseteq trimmed', killedInHand \subseteq killedInHand',
         \A i \in 1 .. Len(log) : log'[i] = log[i],
         NEW n \in 1 .. Len(log), Settled(n)
  PROVE  Settled(n)'
<1>1. CASE n \in received \union suppressed \union trimmed \union killedInHand
  BY <1>1 DEF Settled
<1>2. CASE \E m \in received : m # n /\ log[m] = log[n]
  <2>1. PICK m \in received : m # n /\ log[m] = log[n]
    BY <1>2
  <2>2. m \in 1 .. Len(log)
    BY Types DEF Bounded, Events
  <2>3. m \in received' /\ log'[m] = log'[n]
    BY <2>1, <2>2
  <2> QED
    BY <2>1, <2>3 DEF Settled
<1> QED
  BY <1>1, <1>2 DEF Settled

\* A step that consumes nothing keeps every event accounted for, if it accounts
\* for those that were in hand or in the buffer.
LEMMA StaysAccounted ==
  ASSUME TypeOK, Bounded, Accounted,
         received \subseteq received', suppressed \subseteq suppressed',
         trimmed \subseteq trimmed', killedInHand \subseteq killedInHand',
         \A i \in 1 .. Len(log) : log'[i] = log[i],
         offset' = offset \/ offset' = 0,
         \A n \in Events : n \in ToSet(batch) \union ToSet(buffer)
                             => n \in ToSet(batch') \union ToSet(buffer') \/ Settled(n)'
  PROVE  Accounted'
<1> SUFFICES ASSUME NEW n \in 1 .. offset'
             PROVE  n \in ToSet(batch') \union ToSet(buffer') \/ Settled(n)'
  BY DEF Accounted
<1>1. n \in 1 .. offset /\ n \in 1 .. Len(log) /\ n \in Events
  BY Types DEF Events
<1>2. n \in ToSet(batch) \union ToSet(buffer) \/ Settled(n)
  BY <1>1 DEF Accounted
<1> QED
  BY <1>1, <1>2, StaysSettled

\* enqueue appends the row, and drops the k oldest rows.
LEMMA EnqueueStep ==
  ASSUME TypeOK, Bounded, NEW row \in Rows, row <= Len(log), Enqueue(row)
  PROVE  /\ buffer' \in Seq(Rows) /\ Len(buffer') <= BufferMax
         /\ \A i \in DOMAIN buffer' : buffer'[i] <= Len(log)
         /\ trimmed' \subseteq Events /\ trimmed \subseteq trimmed'
         /\ ToSet(buffer) \union {row} \subseteq ToSet(buffer') \union trimmed' \union {Health}
         /\ ToSet(buffer') \subseteq ToSet(buffer) \union {row}
         /\ \E k \in Nat :
              /\ Len(buffer') \in DOMAIN buffer' /\ buffer'[Len(buffer')] = row
              /\ \A i \in DOMAIN buffer' :
                   i # Len(buffer') => i < Len(buffer') /\ i + k \in DOMAIN buffer /\ buffer'[i] = buffer[i + k]
              /\ \A x \in trimmed' : x \in trimmed \/ \E i \in DOMAIN buffer : i <= k /\ x = buffer[i]
<1>1. \E w \in Seq(Rows), k \in Nat :
        /\ Len(w) = Len(buffer) + 1
        /\ w[Len(buffer) + 1] = row
        /\ \A i \in 1 .. Len(buffer) : w[i] = buffer[i]
        /\ k <= Len(buffer) /\ Len(buffer) + 1 - k <= BufferMax
        /\ buffer' = SubSeq(w, k + 1, Len(w))
        /\ trimmed' = trimmed \union (ToSet(SubSeq(w, 1, k)) \ {Health})
  <2> DEFINE w == Append(buffer, row)
             k == IF Len(w) > BufferMax THEN Len(w) - BufferMax ELSE 0
  <2>1. buffer' = SubSeq(w, k + 1, Len(w)) /\ trimmed' = trimmed \union (ToSet(SubSeq(w, 1, k)) \ {Health})
    BY DEF Enqueue
  <2>2. /\ w \in Seq(Rows) /\ Len(w) = Len(buffer) + 1
        /\ \A i \in 1 .. Len(buffer) : w[i] = buffer[i]
        /\ w[Len(buffer) + 1] = row
    BY Types, AppendProperties
  <2> HIDE DEF w
  <2>3. k \in Nat /\ k <= Len(buffer) /\ Len(buffer) + 1 - k <= BufferMax
    BY <2>2, Types
  <2> HIDE DEF k
  <2> QED
    BY <2>1, <2>2, <2>3
<1>2. PICK w \in Seq(Rows), k \in Nat :
        /\ Len(w) = Len(buffer) + 1
        /\ w[Len(buffer) + 1] = row
        /\ \A i \in 1 .. Len(buffer) : w[i] = buffer[i]
        /\ k <= Len(buffer) /\ Len(buffer) + 1 - k <= BufferMax
        /\ buffer' = SubSeq(w, k + 1, Len(w))
        /\ trimmed' = trimmed \union (ToSet(SubSeq(w, 1, k)) \ {Health})
  BY <1>1
<1> DEFINE r == SubSeq(w, k + 1, Len(w))
           d == SubSeq(w, 1, k)
<1>3. /\ Len(w) = Len(buffer) + 1 /\ Len(buffer) \in Nat
      /\ DOMAIN buffer = 1 .. Len(buffer)
      /\ w[Len(buffer) + 1] = row
      /\ \A i \in 1 .. Len(buffer) : w[i] = buffer[i]
      /\ k <= Len(buffer) /\ Len(buffer) + 1 - k <= BufferMax
  BY <1>2, Types, LenProperties
<1>4. /\ r \in Seq(Rows) /\ Len(r) = Len(w) - k
      /\ \A i \in 1 .. Len(w) - k : r[i] = w[i + k]
      /\ \A x : x \in ToSet(r) <=> \E i \in k + 1 .. Len(w) : x = w[i]
      /\ \A x : x \in ToSet(d) <=> \E i \in 1 .. k : x = w[i]
  <2>1. k < Len(w)
    BY <1>3
  <2> QED
    BY <2>1, CutFacts
<1>5. buffer' = r /\ trimmed' = trimmed \union (ToSet(d) \ {Health})
  BY <1>2
<1> HIDE DEF r, d
<1>6. /\ DOMAIN r = 1 .. Len(r) /\ Len(r) \in DOMAIN r
      /\ Len(r) + k = Len(buffer) + 1 /\ Len(r) = Len(buffer) + 1 - k
  BY <1>3, <1>4, LenProperties
<1>7. r[Len(r)] = row
  BY <1>3, <1>4, <1>6
<1>8. ASSUME NEW i \in DOMAIN r, i # Len(r)
      PROVE  i < Len(r) /\ i + k \in DOMAIN buffer /\ r[i] = buffer[i + k]
  <2>1. i \in 1 .. Len(w) - k /\ i < Len(r) /\ i + k \in 1 .. Len(buffer)
    BY <1>3, <1>4, <1>6, <1>8
  <2> QED
    BY <2>1, <1>3, <1>4
<1>9. \A x \in ToSet(d) : x \in Rows /\ \E i \in DOMAIN buffer : i <= k /\ x = buffer[i]
  <2>1. \A i \in 1 .. k : i \in DOMAIN buffer /\ i <= k /\ w[i] = buffer[i] /\ buffer[i] \in Rows
    BY <1>3, Types, ElementOfSeq
  <2> QED
    BY <2>1, <1>4
<1>10. ToSet(r) \subseteq ToSet(buffer) \union {row}
  <2>1. ASSUME NEW i \in DOMAIN r
        PROVE  r[i] \in ToSet(buffer) \union {row}
    BY <1>7, <1>8 DEF ToSet
  <2> QED
    BY <2>1 DEF ToSet
<1>11. ToSet(buffer) \union {row} \subseteq ToSet(r) \union ToSet(d)
  <2>1. ASSUME NEW i \in 1 .. Len(w)
        PROVE  w[i] \in ToSet(r) \union ToSet(d)
    <3>1. i \in k + 1 .. Len(w) \/ i \in 1 .. k
      BY <1>3
    <3> QED
      BY <3>1, <1>4
  <2>2. row \in ToSet(r) \union ToSet(d)
    BY <2>1, <1>3
  <2>3. ASSUME NEW i \in DOMAIN buffer
        PROVE  buffer[i] \in ToSet(r) \union ToSet(d)
    <3>1. i \in 1 .. Len(w) /\ buffer[i] = w[i]
      BY <1>3
    <3> QED
      BY <3>1, <2>1
  <2>4. ToSet(buffer) \subseteq ToSet(r) \union ToSet(d)
    BY <2>3 DEF ToSet
  <2> QED
    BY <2>2, <2>4
<1>12. ASSUME NEW i \in DOMAIN r
       PROVE  r[i] <= Len(log)
  BY <1>7, <1>8 DEF Bounded
<1>13. trimmed' \subseteq Events /\ trimmed \subseteq trimmed'
  BY <1>5, <1>9, Types DEF Rows
<1>14. \A x \in trimmed' : x \in trimmed \/ \E i \in DOMAIN buffer : i <= k /\ x = buffer[i]
  BY <1>5, <1>9
<1>15. ToSet(buffer) \union {row} \subseteq ToSet(r) \union trimmed' \union {Health}
  BY <1>5, <1>11
<1>16. \E j \in Nat :
         /\ Len(r) \in DOMAIN r /\ r[Len(r)] = row
         /\ \A i \in DOMAIN r :
              i # Len(r) => i < Len(r) /\ i + j \in DOMAIN buffer /\ r[i] = buffer[i + j]
         /\ \A x \in trimmed' : x \in trimmed \/ \E i \in DOMAIN buffer : i <= j /\ x = buffer[i]
  BY <1>6, <1>7, <1>8, <1>14
<1>17. r \in Seq(Rows) /\ Len(r) <= BufferMax
  BY <1>3, <1>4, <1>6
<1>18. buffer' = r
  BY <1>5
<1> QED
  BY <1>10, <1>12, <1>13, <1>15, <1>16, <1>17, <1>18
-----------------------------------------------------------------------------
\* Every action keeps SafeInv.

LEMMA SafeInit == Init => SafeInv
<1> SUFFICES ASSUME Init PROVE SafeInv
  OBVIOUS
<1>1. TypeOK
  BY ConstantsAssumption DEF Init, TypeOK
<1>2. Bounded /\ InStep /\ Accounted
  BY DEF Init, Bounded, InStep, Holding, Uploaded, Accounted
<1> QED
  BY <1>1, <1>2 DEF SafeInv

LEMMA SafeSensor ==
  ASSUME SafeInv, Detect \/ RestartSensor
  PROVE  SafeInv'
<1> USE DEF SafeInv
<1>1. CASE Detect
  <2>1. /\ log' \in Seq(Events) /\ Len(log') = Len(log) + 1
        /\ \A i \in 1 .. Len(log) : log'[i] = log[i]
        /\ seq' = seq + 1 /\ seq' \in Events
    <3>1. seq + 1 \in Events
      BY <1>1, Types DEF Detect, Bounded, Events
    <3> QED
      BY <3>1, <1>1, Types, AppendProperties DEF Detect
  <2>2. UNCHANGED <<offset, batch, buffer, phase, step, kills, sensorRestarts, history>> /\ Len(log) < MaxEvents
    BY <1>1 DEF Detect
  <2>3. TypeOK'
    <3>1. Len(log') <= MaxEvents /\ offset' \in 0 .. Len(log') /\ seq' \in 0 .. MaxEvents
      BY <2>1, <2>2, Types DEF Events
    <3> QED
      BY <2>1, <2>2, <3>1 DEF TypeOK, history
  <2>4. Bounded'
    <3>1. \A i \in DOMAIN batch : batch[i] \in Int
      BY Types, LenProperties, ElementOfSeq DEF Events
    <3>2. \A i \in DOMAIN buffer : buffer[i] \in Int
      BY Types, LenProperties, ElementOfSeq DEF Events, Rows, Health
    <3>3. \A n \in received : n \in Int
      BY Types DEF Events
    <3> QED
      BY <2>1, <2>2, <3>1, <3>2, <3>3, Types DEF Bounded, history
  <2>5. InStep'
    BY <2>2 DEF InStep, Holding, Uploaded, Item, history
  <2>6. Accounted'
    BY <2>1, <2>2, StaysAccounted DEF history
  <2> QED
    BY <2>3, <2>4, <2>5, <2>6
<1>2. CASE RestartSensor
  <2>1. UNCHANGED <<log, offset, batch, buffer, phase, step, kills, history>> /\ seq' = 0
    BY <1>2 DEF RestartSensor
  <2>2. TypeOK'
    BY <1>2, <2>1, Types, ConstantsAssumption DEF TypeOK, RestartSensor, history
  <2>3. Bounded'
    BY <2>1, Types DEF Bounded, history
  <2>4. InStep'
    BY <2>1 DEF InStep, Holding, Uploaded, Item, history
  <2>5. Accounted'
    BY <2>1 DEF Accounted, Settled, history
  <2> QED
    BY <2>2, <2>3, <2>4, <2>5
<1> QED
  BY <1>1, <1>2

\* Sending: the item arrives, or may have, or is dropped as whitelisted.
LEMMA SafeSend ==
  ASSUME SafeInv, Publish \/ PublishFails \/ Post
  PROVE  SafeInv'
<1> USE DEF SafeInv
<1>1. /\ Holding
      /\ UNCHANGED <<sensor, offset, batch, buffer, phase, kills, reread, suppressed, trimmed, killedInHand>>
  BY DEF Publish, PublishFails, Post, HoldingEvent
<1>2. Item \in Rows /\ Item <= Len(log)
  BY <1>1, ItemFacts
<1>3. /\ received \subseteq received' /\ received' \subseteq received \union ({Item} \ {Health})
      /\ repeated' \subseteq repeated \union ({Item} \ {Health})
      /\ unrecorded' \subseteq unrecorded \union ({Item} \ {Health})
  <2>1. Health \notin received
    BY Types DEF Events, Health
  <2> QED
    BY <2>1 DEF Publish, PublishFails, Post, Unconfirmed, Arrives, ArrivesTwice, HoldingEvent
<1>4. /\ step' \in {"post", "sent", "posted"}
      /\ step' # "post" /\ Item # Health => Item \in received'
  BY DEF Publish, PublishFails, Post, Arrives, ArrivesTwice
<1>5. TypeOK'
  <2>1. received' \subseteq Events /\ repeated' \subseteq Events /\ unrecorded' \subseteq Events
    BY <1>2, <1>3, Types DEF Rows
  <2> QED
    BY <1>1, <1>4, <2>1 DEF TypeOK, sensor
<1>6. Bounded'
  BY <1>1, <1>2, <1>3 DEF Bounded, sensor
<1>7. InStep'
  BY <1>1, <1>4 DEF InStep, Holding, Uploaded, Item
<1>8. Accounted'
  BY <1>1, <1>3, StaysAccounted DEF sensor
<1> QED
  BY <1>5, <1>6, <1>7, <1>8

\* The first row, or the first event of the batch, is done with: Tail drops it.
LEMMA TailKeeps ==
  ASSUME NEW S, NEW s \in Seq(S), s # <<>>, NEW max, \A i \in DOMAIN s : s[i] <= max
  PROVE  /\ Tail(s) \in Seq(S)
         /\ Len(Tail(s)) <= Len(s)
         /\ \A i \in DOMAIN Tail(s) : Tail(s)[i] <= max
         /\ ToSet(s) = {Head(s)} \union ToSet(Tail(s))
BY TailFacts, LenProperties

LEMMA SafeSuppress ==
  ASSUME SafeInv, Suppress
  PROVE  SafeInv'
<1> USE DEF SafeInv, Uploaded
<1>1. /\ Holding /\ step = "send" /\ Item # Health
      /\ suppressed' = suppressed \union {Item}
      /\ UNCHANGED <<sensor, offset, phase, step, kills, received, repeated, unrecorded, reread, trimmed, killedInHand>>
  BY DEF Suppress, HoldingEvent
<1>2. Item \in Events
  BY <1>1, ItemFacts DEF Rows
<1>3. CASE phase = "flush"
  <2>1. buffer' = Tail(buffer) /\ batch' = batch /\ buffer # <<>> /\ Item = Head(buffer)
    BY <1>1, <1>3, ItemFacts DEF Suppress
  <2>2. /\ buffer' \in Seq(Rows) /\ Len(buffer') <= Len(buffer)
        /\ \A i \in DOMAIN buffer' : buffer'[i] <= Len(log)
        /\ ToSet(buffer) = {Item} \union ToSet(buffer')
    BY <2>1, Types, TailKeeps DEF Bounded
  <2>3. TypeOK'
    BY <1>1, <1>2, <2>1, <2>2, Types, LenProperties DEF TypeOK, Rows, sensor
  <2>4. Bounded'
    BY <1>1, <2>1, <2>2 DEF Bounded, sensor
  <2>5. InStep'
    BY <1>1, <2>1 DEF InStep
  <2>6. Accounted'
    BY <1>1, <2>1, <2>2, StaysAccounted DEF sensor, Settled
  <2> QED
    BY <2>3, <2>4, <2>5, <2>6
<1>4. CASE phase # "flush"
  <2>1. batch' = Tail(batch) /\ buffer' = buffer /\ batch # <<>> /\ Item = Head(batch) /\ phase = "upload"
    BY <1>1, <1>4, ItemFacts DEF Suppress
  <2>2. /\ batch' \in Seq(Events)
        /\ \A i \in DOMAIN batch' : batch'[i] <= Len(log)
        /\ ToSet(batch) = {Item} \union ToSet(batch')
    BY <2>1, Types, TailKeeps DEF Bounded
  <2>3. TypeOK'
    BY <1>1, <1>2, <2>1, <2>2 DEF TypeOK, sensor
  <2>4. Bounded'
    BY <1>1, <2>1, <2>2 DEF Bounded, sensor
  <2>5. InStep'
    BY <1>1, <2>1 DEF InStep
  <2>6. Accounted'
    BY <1>1, <2>1, <2>2, StaysAccounted DEF sensor, Settled
  <2> QED
    BY <2>3, <2>4, <2>5, <2>6
<1> QED
  BY <1>3, <1>4

LEMMA SafeFlush ==
  ASSUME SafeInv, FlushRemove \/ FlushRemoveFails \/ SuppressFails \/ FlushFails \/ FlushDone
  PROVE  SafeInv'
<1> USE DEF SafeInv
<1>1. CASE FlushRemove
  <2>1. /\ phase = "flush" /\ Holding /\ Uploaded /\ step' = "send" /\ buffer' = Tail(buffer)
        /\ UNCHANGED <<sensor, offset, batch, phase, kills, history>>
    BY <1>1 DEF FlushRemove, Uploaded
  <2>2. buffer # <<>> /\ Item = Head(buffer) /\ Item \in Rows
    BY <2>1, ItemFacts
  <2>3. /\ buffer' \in Seq(Rows) /\ Len(buffer') <= Len(buffer)
        /\ \A i \in DOMAIN buffer' : buffer'[i] <= Len(log)
        /\ ToSet(buffer) = {Item} \union ToSet(buffer')
    BY <2>1, <2>2, Types, TailKeeps DEF Bounded
  <2>4. Item = Health \/ Item \in received
    BY <2>1 DEF InStep
  <2>5. TypeOK'
    BY <2>1, <2>3, Types, LenProperties DEF TypeOK, Rows, sensor, history
  <2>6. Bounded'
    BY <2>1, <2>3 DEF Bounded, sensor, history
  <2>7. InStep'
    BY <2>1 DEF InStep, Uploaded
  <2>8. Accounted'
    BY <2>1, <2>3, <2>4, StaysAccounted DEF sensor, history, Settled, Events, Health
  <2> QED
    BY <2>5, <2>6, <2>7, <2>8
<1>2. CASE FlushRemoveFails \/ SuppressFails \/ FlushFails
  <2>1. /\ phase = "flush" /\ Holding /\ phase' = "tail" /\ step' = "send"
        /\ UNCHANGED <<sensor, offset, batch, buffer, kills, reread, suppressed, trimmed, killedInHand>>
        /\ received \subseteq received' /\ received' \subseteq received \union ({Item} \ {Health})
        /\ repeated' \subseteq repeated \union received
        /\ unrecorded' \subseteq unrecorded \union ({Item} \ {Health})
    BY <1>2 DEF FlushRemoveFails, SuppressFails, FlushFails, Unconfirmed, Unrecorded, Arrives,
                HoldingEvent, Uploaded, history
  <2>2. Item \in Rows /\ Item <= Len(log)
    BY <2>1, ItemFacts
  <2>3. TypeOK'
    <3>1. received' \subseteq Events /\ repeated' \subseteq Events /\ unrecorded' \subseteq Events
      BY <2>1, <2>2, Types DEF Rows
    <3> QED
      BY <2>1, <3>1 DEF TypeOK, sensor
  <2>4. Bounded'
    BY <2>1, <2>2 DEF Bounded, sensor
  <2>5. InStep'
    BY <2>1 DEF InStep, Uploaded
  <2>6. Accounted'
    BY <2>1, StaysAccounted DEF sensor
  <2> QED
    BY <2>3, <2>4, <2>5, <2>6
<1>3. CASE FlushDone
  <2>1. /\ phase = "flush" /\ phase' = "tail" /\ buffer = <<>>
        /\ UNCHANGED <<sensor, offset, batch, buffer, step, kills, history>>
    BY <1>3 DEF FlushDone
  <2>2. TypeOK' /\ Bounded'
    BY <2>1 DEF TypeOK, Bounded, sensor, history
  <2>3. InStep'
    BY <2>1 DEF InStep, Holding, Uploaded
  <2>4. Accounted'
    BY <2>1, StaysAccounted DEF sensor, history
  <2> QED
    BY <2>2, <2>3, <2>4
<1> QED
  BY <1>1, <1>2, <1>3

\* pending_events consumes the rest of the log into the batch.
LEMMA SafeRead ==
  ASSUME SafeInv, ReadLog
  PROVE  SafeInv'
<1> USE DEF SafeInv
<1> DEFINE rest == [i \in 1 .. Len(log) - offset |-> offset + i]
<1>1. /\ phase = "tail" /\ phase' = "upload" /\ offset' = Len(log) /\ batch' = rest
      /\ UNCHANGED <<sensor, buffer, step, kills, history>>
  BY DEF ReadLog
<1>2. batch = <<>> /\ step = "send"
  BY <1>1 DEF InStep, Holding, TypeOK
<1>3. /\ rest \in Seq(Events) /\ Len(rest) = Len(log) - offset
      /\ DOMAIN rest = 1 .. Len(log) - offset
      /\ \A i \in DOMAIN rest : rest[i] = offset + i
  <2>1. \A i \in 1 .. Len(log) - offset : offset + i \in Events
    BY Types, SMTT(60) DEF Events
  <2> QED
    BY <2>1, Types, SMTT(60)
<1> HIDE DEF rest
<1>4. TypeOK'
  BY <1>1, <1>3, Types DEF TypeOK, sensor, history
<1>5. Bounded'
  <2>1. \A i \in DOMAIN rest : rest[i] <= Len(log)
    BY <1>3, Types
  <2> QED
    BY <1>1, <2>1 DEF Bounded, sensor, history
<1>6. InStep'
  BY <1>1, <1>2 DEF InStep, Uploaded
<1>7. Accounted'
  <2> SUFFICES ASSUME NEW n \in 1 .. Len(log)
               PROVE  n \in ToSet(rest) \union ToSet(buffer) \/ Settled(n)
    BY <1>1 DEF Accounted, Settled, sensor, history
  <2>1. CASE n <= offset
    <3>1. n \in 1 .. offset /\ ToSet(batch) = {}
      BY <2>1, <1>2, Types DEF ToSet
    <3> QED
      BY <3>1 DEF Accounted
  <2>2. CASE n > offset
    <3>1. n - offset \in DOMAIN rest /\ rest[n - offset] = n
      BY <2>2, <1>3, Types
    <3> QED
      BY <3>1 DEF ToSet
  <2> QED
    BY <2>1, <2>2, Types
<1> QED
  BY <1>4, <1>5, <1>6, <1>7

LEMMA SafeUpload ==
  ASSUME SafeInv, UploadRemove \/ UploadRemoveFails \/ UploadNext \/ UploadFails \/ UploadDone
  PROVE  SafeInv'
<1> USE DEF SafeInv
<1>1. CASE UploadRemove
  <2>1. /\ phase = "upload" /\ Holding /\ Uploaded
        /\ UNCHANGED <<sensor, offset, batch, phase, step, kills, history>>
    BY <1>1 DEF UploadRemove, Uploaded
  <2>2. PICK i \in DOMAIN buffer : SameId(buffer[i]) /\ buffer' = RemoveAt(buffer, i)
    BY <1>1 DEF UploadRemove
  <2>3. Item \in Events /\ Item \in received
    BY <2>1, ItemFacts DEF InStep, Events, Health
  <2>4. /\ buffer' \in Seq(Rows) /\ Len(buffer') = Len(buffer) - 1
        /\ \A j \in DOMAIN buffer' : j \in DOMAIN buffer /\ j + 1 \in DOMAIN buffer
                                     /\ buffer'[j] = IF j < i THEN buffer[j] ELSE buffer[j + 1]
        /\ ToSet(buffer) = {buffer[i]} \union ToSet(buffer')
    <3>1. buffer \in Seq(Rows)
      BY Types
    <3> DEFINE r == RemoveAt(buffer, i)
    <3>2. /\ r \in Seq(Rows) /\ Len(r) = Len(buffer) - 1
          /\ \A j \in DOMAIN r : j \in DOMAIN buffer /\ j + 1 \in DOMAIN buffer
                                  /\ r[j] = IF j < i THEN buffer[j] ELSE buffer[j + 1]
      BY <3>1, RemoveAtFacts
    <3>3. ToSet(buffer) = {buffer[i]} \union ToSet(r)
      BY <3>1, RemoveAtFacts
    <3> HIDE DEF r
    <3>4. buffer' = r
      BY <2>2 DEF r
    <3> QED
      BY <3>2, <3>3, <3>4
  <2>5. TypeOK'
    BY <2>1, <2>4, Types DEF TypeOK, Rows, sensor, history
  <2>6. Bounded'
    BY <2>1, <2>4 DEF Bounded, sensor, history
  <2>7. InStep'
    BY <2>1 DEF InStep, Holding, Uploaded, Item, history
  <2>8. \A n \in Events : n = buffer[i] => Settled(n)'
    BY <2>1, <2>2, <2>3 DEF Settled, SameId, sensor, history
  <2>9. Accounted'
    BY <2>1, <2>4, <2>8, StaysAccounted DEF sensor, history
  <2> QED
    BY <2>5, <2>6, <2>7, <2>9
<1>2. CASE UploadNext
  <2>1. /\ phase = "upload" /\ Holding /\ Uploaded /\ step' = "send" /\ batch' = Tail(batch)
        /\ UNCHANGED <<sensor, offset, buffer, phase, kills, history>>
    BY <1>2 DEF UploadNext, Uploaded
  <2>2. batch # <<>> /\ Item = Head(batch) /\ Item \in received
    BY <2>1, ItemFacts DEF InStep, Events, Health
  <2>3. /\ batch' \in Seq(Events)
        /\ \A i \in DOMAIN batch' : batch'[i] <= Len(log)
        /\ ToSet(batch) = {Item} \union ToSet(batch')
    BY <2>1, <2>2, Types, TailKeeps DEF Bounded
  <2>4. TypeOK'
    BY <2>1, <2>3 DEF TypeOK, sensor, history
  <2>5. Bounded'
    BY <2>1, <2>3 DEF Bounded, sensor, history
  <2>6. InStep'
    BY <2>1 DEF InStep, Uploaded
  <2>7. Accounted'
    BY <2>1, <2>2, <2>3, StaysAccounted DEF sensor, history, Settled
  <2> QED
    BY <2>4, <2>5, <2>6, <2>7
<1>3. CASE UploadFails \/ UploadRemoveFails
  <2>1. /\ phase = "upload" /\ Holding /\ step' = "send" /\ batch' = Tail(batch) /\ Enqueue(Item)
        /\ UNCHANGED <<sensor, offset, phase, kills, reread, suppressed, killedInHand>>
        /\ received \subseteq received' /\ received' \subseteq received \union ({Item} \ {Health})
        /\ repeated' \subseteq repeated \union received
        /\ unrecorded' \subseteq unrecorded \union ({Item} \ {Health})
    BY <1>3 DEF UploadFails, UploadRemoveFails, Unconfirmed, Unrecorded, Arrives
  <2>2. batch # <<>> /\ Item = Head(batch) /\ Item \in Events /\ Item \in Rows /\ Item <= Len(log)
    BY <2>1, ItemFacts
  <2>3. /\ batch' \in Seq(Events)
        /\ \A i \in DOMAIN batch' : batch'[i] <= Len(log)
        /\ ToSet(batch) = {Item} \union ToSet(batch')
    BY <2>1, <2>2, Types, TailKeeps DEF Bounded
  <2>4. /\ buffer' \in Seq(Rows) /\ Len(buffer') <= BufferMax
        /\ \A i \in DOMAIN buffer' : buffer'[i] <= Len(log)
        /\ trimmed' \subseteq Events /\ trimmed \subseteq trimmed'
        /\ ToSet(buffer) \union {Item} \subseteq ToSet(buffer') \union trimmed' \union {Health}
    BY <2>1, <2>2, EnqueueStep
  <2>5. TypeOK'
    <3>1. received' \subseteq Events /\ repeated' \subseteq Events /\ unrecorded' \subseteq Events
      BY <2>1, <2>2, Types
    <3> QED
      BY <2>1, <2>3, <2>4, <3>1 DEF TypeOK, Rows, sensor
  <2>6. Bounded'
    BY <2>1, <2>2, <2>3, <2>4 DEF Bounded, sensor
  <2>7. InStep'
    BY <2>1 DEF InStep, Uploaded
  <2>8. Accounted'
    <3>1. \A n \in Events : n \in ToSet(batch) \union ToSet(buffer)
                              => n \in ToSet(batch') \union ToSet(buffer') \/ Settled(n)'
      BY <2>3, <2>4 DEF Settled, Events, Health
    <3> QED
      BY <2>1, <2>4, <3>1, StaysAccounted DEF sensor
  <2> QED
    BY <2>5, <2>6, <2>7, <2>8
<1>4. CASE UploadDone
  <2>1. /\ phase = "upload" /\ phase' = "health" /\ batch = <<>>
        /\ UNCHANGED <<sensor, offset, batch, buffer, step, kills, history>>
    BY <1>4 DEF UploadDone
  <2>2. TypeOK' /\ Bounded'
    BY <2>1 DEF TypeOK, Bounded, sensor, history
  <2>3. InStep'
    BY <2>1 DEF InStep, Holding, Uploaded
  <2>4. Accounted'
    BY <2>1, StaysAccounted DEF sensor, history
  <2> QED
    BY <2>2, <2>3, <2>4
<1> QED
  BY <1>1, <1>2, <1>3, <1>4

LEMMA SafeHealth ==
  ASSUME SafeInv, UploadHealth
  PROVE  SafeInv'
<1> USE DEF SafeInv
<1>1. /\ phase = "health" /\ phase' = "flush"
      /\ UNCHANGED <<sensor, offset, batch, step, kills, received, repeated, unrecorded, reread, suppressed, killedInHand>>
      /\ Enqueue(Health) \/ UNCHANGED <<buffer, trimmed>>
  BY DEF UploadHealth
<1>2. batch = <<>> /\ step = "send"
  BY <1>1 DEF InStep, Holding, TypeOK
<1>3. /\ buffer' \in Seq(Rows) /\ Len(buffer') <= BufferMax
      /\ \A i \in DOMAIN buffer' : buffer'[i] <= Len(log)
      /\ trimmed' \subseteq Events /\ trimmed \subseteq trimmed'
      /\ ToSet(buffer) \subseteq ToSet(buffer') \union trimmed' \union {Health}
  <2>1. CASE Enqueue(Health)
    <3>1. Health \in Rows /\ Health <= Len(log)
      BY Types DEF Rows, Health
    <3> QED
      BY <2>1, <3>1, EnqueueStep
  <2>2. CASE UNCHANGED <<buffer, trimmed>>
    BY <2>2, Types DEF Bounded
  <2> QED
    BY <1>1, <2>1, <2>2
<1>4. TypeOK'
  BY <1>1, <1>3 DEF TypeOK, Rows, sensor
<1>5. Bounded'
  BY <1>1, <1>3 DEF Bounded, sensor
<1>6. InStep'
  BY <1>1, <1>2 DEF InStep, Uploaded
<1>7. Accounted'
  <2>1. \A n \in Events : n \in ToSet(batch) \union ToSet(buffer)
                            => n \in ToSet(batch') \union ToSet(buffer') \/ Settled(n)'
    BY <1>1, <1>3 DEF Settled, Events, Health
  <2> QED
    BY <1>1, <1>3, <2>1, StaysAccounted DEF sensor
<1> QED
  BY <1>4, <1>5, <1>6, <1>7

LEMMA SafeKill ==
  ASSUME SafeInv, Kill
  PROVE  SafeInv'
<1> USE DEF SafeInv
<1>1. /\ kills < Kills /\ kills' = kills + 1 /\ batch' = <<>> /\ phase' = "flush" /\ step' = "send"
      /\ killedInHand' = killedInHand \union ToSet(batch)
      /\ \/ offset' = offset /\ reread' = reread
         \/ offset' = 0 /\ reread' = reread \union 1 .. offset
      /\ unrecorded' = unrecorded \/ (Holding /\ unrecorded' = unrecorded \union ({Item} \ {Health}))
      /\ UNCHANGED <<sensor, buffer, received, repeated, suppressed, trimmed>>
  BY DEF Kill, LosesOffset, Unrecorded, Uploaded
<1>2. ToSet(batch) \subseteq Events /\ unrecorded' \subseteq Events /\ reread' \subseteq Events
  <2>1. ToSet(batch) \subseteq Events
    BY Types, LenProperties, ElementOfSeq DEF ToSet
  <2>2. Holding => Item \in Rows
    BY ItemFacts
  <2>3. 1 .. offset \subseteq Events
    BY Types DEF Events
  <2> QED
    BY <1>1, <2>1, <2>2, <2>3, Types DEF Rows
<1>3. TypeOK'
  BY <1>1, <1>2, Types, ConstantsAssumption DEF TypeOK, sensor
<1>4. Bounded'
  BY <1>1 DEF Bounded, sensor
<1>5. InStep'
  BY <1>1 DEF InStep, Uploaded
<1>6. Accounted'
  <2>1. \A n \in Events : n \in ToSet(batch) \union ToSet(buffer)
                            => n \in ToSet(batch') \union ToSet(buffer') \/ Settled(n)'
    BY <1>1 DEF Settled
  <2> QED
    BY <1>1, <2>1, StaysAccounted DEF sensor
<1> QED
  BY <1>3, <1>4, <1>5, <1>6

LEMMA SafeStep == SafeInv /\ [Next]_vars => SafeInv'
<1> SUFFICES ASSUME SafeInv, [Next]_vars PROVE SafeInv'
  OBVIOUS
<1>1. CASE Detect \/ RestartSensor
  BY <1>1, SafeSensor
<1>2. CASE Suppress
  BY <1>2, SafeSuppress
<1>3. CASE Publish \/ PublishFails \/ Post
  BY <1>3, SafeSend
<1>4. CASE FlushRemove \/ FlushRemoveFails \/ SuppressFails \/ FlushFails \/ FlushDone
  BY <1>4, SafeFlush
<1>5. CASE ReadLog
  BY <1>5, SafeRead
<1>6. CASE UploadRemove \/ UploadRemoveFails \/ UploadNext \/ UploadFails \/ UploadDone
  BY <1>6, SafeUpload
<1>7. CASE UploadHealth
  BY <1>7, SafeHealth
<1>8. CASE Kill
  BY <1>8, SafeKill
<1>9. CASE UNCHANGED vars
  BY <1>9 DEF vars, sensor, history, SafeInv, TypeOK, Bounded, InStep, Holding, Uploaded, Item, Accounted, Settled
<1> QED
  BY <1>1, <1>2, <1>3, <1>4, <1>5, <1>6, <1>7, <1>8, <1>9 DEF Next, Turn

\* The state stays as TypeOK says: the offset within the log, the buffer within
\* max_events, and only detected events anywhere.
THEOREM TypeCorrect == Spec => []TypeOK
<1>1. SafeInv => TypeOK
  BY DEF SafeInv
<1> QED
  BY SafeInit, SafeStep, <1>1, PTL DEF Spec

\* Every event the tailer has consumed is in hand, buffered, or settled, however
\* the uploads fail, the buffer overflows and the agent is killed.
THEOREM AccountedCorrect == Spec => []Accounted
<1>1. SafeInv => Accounted
  BY DEF SafeInv
<1> QED
  BY SafeInit, SafeStep, <1>1, PTL DEF Spec

-----------------------------------------------------------------------------
\* The order of the buffer.

LEMMA Numbers ==
  ASSUME TypeOK
  PROVE  /\ \A i \in DOMAIN batch : batch[i] \in Int /\ batch[i] > 0
         /\ \A i \in DOMAIN buffer : buffer[i] \in Int /\ buffer[i] >= 0
         /\ DOMAIN batch \subseteq Int /\ DOMAIN buffer \subseteq Int
         /\ \A n \in Events : n \in Int /\ n > 0
         /\ Health = 0 /\ offset \in Nat
<1>1. /\ \A i \in DOMAIN batch : batch[i] \in Events
      /\ \A i \in DOMAIN buffer : buffer[i] \in Rows
      /\ DOMAIN batch \subseteq Int /\ DOMAIN buffer \subseteq Int
  BY Types, LenProperties, ElementOfSeq
<1> QED
  BY <1>1, Types DEF Events, Rows, Health

\* Removing a row, or the first event of the batch, keeps the order.
LEMMA OrderedRemoval ==
  ASSUME TypeOK, InOrder, NEW k \in DOMAIN buffer,
         UNCHANGED <<offset, batch, received, trimmed>>,
         \A j \in DOMAIN buffer' : j \in DOMAIN buffer /\ j + 1 \in DOMAIN buffer
                                  /\ buffer'[j] = IF j < k THEN buffer[j] ELSE buffer[j + 1]
  PROVE  InOrder'
<1>1. DOMAIN buffer \subseteq Int
  BY Numbers
<1>2. ASSUME NEW i \in DOMAIN buffer', NEW j \in DOMAIN buffer', i < j, buffer'[j] # Health
      PROVE  buffer'[i] < buffer'[j]
  <2>1. PICK a \in DOMAIN buffer : a \in {i, i + 1} /\ buffer'[i] = buffer[a] /\ (a = i \/ ~(i < k))
    OBVIOUS
  <2>2. PICK b \in DOMAIN buffer : b \in {j, j + 1} /\ buffer'[j] = buffer[b] /\ (b = j + 1 \/ j < k)
    OBVIOUS
  <2>3. i \in Int /\ j \in Int /\ k \in Int
    BY <1>1
  <2>4. a < b
    BY <1>2, <2>1, <2>2, <2>3
  <2> QED
    BY <1>2, <2>1, <2>2, <2>4 DEF InOrder
<1>3. \A i \in DOMAIN buffer' : \E a \in DOMAIN buffer : buffer'[i] = buffer[a]
  OBVIOUS
<1> QED
  BY <1>2, <1>3 DEF InOrder

LEMMA OrderedTail ==
  ASSUME TypeOK, InOrder, batch # <<>>, batch' = Tail(batch),
         UNCHANGED <<offset, buffer, received, trimmed>>
  PROVE  InOrder'
<1>1. \A i \in DOMAIN batch' : i + 1 \in DOMAIN batch /\ batch'[i] = batch[i + 1]
  BY Types, TailFacts
<1>2. DOMAIN batch' \subseteq Int
  BY Types, TailFacts, LenProperties
<1>3. \A i, j \in DOMAIN batch' : i < j => i + 1 < j + 1
  BY <1>2
<1> QED
  BY <1>1, <1>3 DEF InOrder

\* A row enqueued when every row is older than it, or with no batch, keeps the
\* order: the rows that go are older than those that stay.
LEMMA OrderedEnqueue ==
  ASSUME TypeOK, Bounded, InOrder, NEW row \in Rows, row <= Len(log), Enqueue(row),
         row # Health => /\ \A i \in DOMAIN buffer : buffer[i] < row
                         /\ \A n \in trimmed : n < row,
         row <= offset
  PROVE  /\ \A i, j \in DOMAIN buffer' : i < j /\ buffer'[j] # Health => buffer'[i] < buffer'[j]
         /\ \A i \in DOMAIN buffer' : buffer'[i] = row \/ \E j \in DOMAIN buffer : buffer'[i] = buffer[j]
         /\ \A n \in trimmed' : /\ n \in trimmed \/ \E i \in DOMAIN buffer : n = buffer[i]
                                /\ \A i \in DOMAIN buffer' : buffer'[i] # Health => n < buffer'[i]
<1>1. PICK k \in Nat :
        /\ Len(buffer') \in DOMAIN buffer' /\ buffer'[Len(buffer')] = row
        /\ \A i \in DOMAIN buffer' :
             i # Len(buffer') => i < Len(buffer') /\ i + k \in DOMAIN buffer /\ buffer'[i] = buffer[i + k]
        /\ \A x \in trimmed' : x \in trimmed \/ \E i \in DOMAIN buffer : i <= k /\ x = buffer[i]
  BY EnqueueStep
<1>2. DOMAIN buffer \subseteq Int /\ DOMAIN buffer' = 1 .. Len(buffer') /\ Len(buffer') \in Nat
  BY Numbers, EnqueueStep, LenProperties
<1>3. ASSUME NEW i \in DOMAIN buffer', NEW j \in DOMAIN buffer', i < j, buffer'[j] # Health
      PROVE  buffer'[i] < buffer'[j]
  <2>1. i # Len(buffer') /\ i + k \in DOMAIN buffer /\ buffer'[i] = buffer[i + k]
    BY <1>1, <1>2, <1>3
  <2>2. CASE j = Len(buffer')
    BY <2>1, <2>2, <1>1, <1>3
  <2>3. CASE j # Len(buffer')
    <3>1. j + k \in DOMAIN buffer /\ buffer'[j] = buffer[j + k] /\ i + k < j + k
      BY <2>3, <1>1, <1>2, <1>3
    <3> QED
      BY <2>1, <3>1, <1>3 DEF InOrder
  <2> QED
    BY <2>2, <2>3
<1>4. \A i \in DOMAIN buffer' : buffer'[i] = row \/ \E j \in DOMAIN buffer : buffer'[i] = buffer[j]
  BY <1>1
<1>5. ASSUME NEW n \in trimmed'
      PROVE  /\ n \in trimmed \/ \E i \in DOMAIN buffer : n = buffer[i]
             /\ \A i \in DOMAIN buffer' : buffer'[i] # Health => n < buffer'[i]
  <2> SUFFICES ASSUME NEW i \in DOMAIN buffer', buffer'[i] # Health
               PROVE  n < buffer'[i]
    BY <1>1
  <2>1. CASE i = Len(buffer')
    BY <2>1, <1>1
  <2>2. CASE i # Len(buffer')
    <3>1. i + k \in DOMAIN buffer /\ buffer'[i] = buffer[i + k] /\ i > 0
      BY <2>2, <1>1, <1>2
    <3>2. CASE n \in trimmed
      BY <3>1, <3>2 DEF InOrder
    <3>3. CASE \E j \in DOMAIN buffer : j <= k /\ n = buffer[j]
      <4>1. PICK j \in DOMAIN buffer : j <= k /\ n = buffer[j]
        BY <3>3
      <4>2. j < i + k
        BY <3>1, <4>1, <1>2
      <4> QED
        BY <3>1, <4>1, <4>2 DEF InOrder
    <3> QED
      BY <3>2, <3>3, <1>1
  <2> QED
    BY <2>1, <2>2
<1> QED
  BY <1>3, <1>4, <1>5

\* The rows that are left when the oldest is done with.
LEMMA TailDomain ==
  ASSUME TypeOK, buffer # <<>>, buffer' = Tail(buffer)
  PROVE  /\ \A j \in DOMAIN buffer' : /\ j > 0 /\ j \in DOMAIN buffer /\ j + 1 \in DOMAIN buffer
                                      /\ buffer'[j] = buffer[j + 1]
         /\ ToSet(buffer') \subseteq ToSet(buffer)
<1>1. /\ Tail(buffer) \in Seq(Rows) /\ Len(Tail(buffer)) = Len(buffer) - 1
      /\ \A i \in DOMAIN Tail(buffer) : i + 1 \in DOMAIN buffer /\ Tail(buffer)[i] = buffer[i + 1]
      /\ ToSet(Tail(buffer)) \subseteq ToSet(buffer)
  BY Types, TailFacts
<1>2. DOMAIN Tail(buffer) = 1 .. Len(buffer) - 1 /\ DOMAIN buffer = 1 .. Len(buffer)
  BY <1>1, Types, LenProperties
<1>3. \A j \in DOMAIN Tail(buffer) : j > 0 /\ j \in DOMAIN buffer
  BY <1>2, Types
<1> QED
  BY <1>1, <1>3

\* The item in hand is older than everything else that is held.
LEMMA ItemFirst ==
  ASSUME SafeInv, InOrder, Holding
  PROVE  /\ Item # Health => Item <= offset
         /\ phase = "flush" => /\ batch = <<>>
                               /\ Item # Health => \A i \in DOMAIN Tail(buffer) : Tail(buffer)[i] # Item
         /\ phase = "upload" => /\ \A i \in DOMAIN buffer : buffer[i] < Item
                                /\ \A j \in DOMAIN Tail(batch) : Tail(batch)[j] > Item
                                /\ \A n \in trimmed : n < Item
<1> USE DEF SafeInv
<1>1. CASE phase = "flush"
  <2>1. 1 \in DOMAIN buffer /\ Item = buffer[1] /\ buffer # <<>> /\ batch = <<>>
    BY <1>1, ItemFacts DEF InStep
  <2>2. \A i \in DOMAIN Tail(buffer) : i > 0 /\ i + 1 \in DOMAIN buffer /\ Tail(buffer)[i] = buffer[i + 1]
    BY <2>1, Types, TailFacts, LenProperties
  <2>3. ASSUME NEW i \in DOMAIN Tail(buffer), Item # Health
        PROVE  Tail(buffer)[i] # Item
    <3>1. i + 1 \in DOMAIN buffer /\ Tail(buffer)[i] = buffer[i + 1] /\ 1 < i + 1
      BY <2>2, Numbers
    <3> QED
      BY <2>1, <2>3, <3>1, Numbers DEF InOrder
  <2> QED
    BY <1>1, <2>1, <2>3 DEF InOrder
<1>2. CASE phase # "flush"
  <2>1. 1 \in DOMAIN batch /\ Item = batch[1] /\ batch # <<>>
    BY <1>2, ItemFacts
  <2>2. \A i \in DOMAIN Tail(batch) : i > 0 /\ i + 1 \in DOMAIN batch /\ Tail(batch)[i] = batch[i + 1]
    BY <2>1, Types, TailFacts, LenProperties
  <2>3. ASSUME NEW i \in DOMAIN Tail(batch)
        PROVE  Tail(batch)[i] > Item
    <3>1. i + 1 \in DOMAIN batch /\ Tail(batch)[i] = batch[i + 1] /\ 1 < i + 1
      BY <2>2, Numbers
    <3> QED
      BY <2>1, <3>1, Numbers DEF InOrder
  <2> QED
    BY <1>2, <2>1, <2>3 DEF InOrder
<1> QED
  BY <1>1, <1>2

LEMMA OrderSensor ==
  ASSUME SafeInv, InOrder, Detect \/ RestartSensor
  PROVE  InOrder'
<1>1. UNCHANGED <<offset, batch, buffer, phase, step, received, unrecorded, trimmed>>
  BY DEF Detect, RestartSensor, history
<1> QED
  BY <1>1 DEF InOrder

LEMMA OrderSend ==
  ASSUME SafeInv, InOrder, Publish \/ PublishFails \/ Post
  PROVE  InOrder'
<1>1. /\ Holding
      /\ UNCHANGED <<offset, batch, buffer, trimmed>>
      /\ received' \subseteq received \union ({Item} \ {Health})
  BY DEF Publish, PublishFails, Post, HoldingEvent, Unconfirmed, Arrives, ArrivesTwice
<1> QED
  BY <1>1, ItemFirst DEF InOrder

LEMMA OrderSuppress ==
  ASSUME SafeInv, InOrder, Suppress
  PROVE  InOrder'
<1> USE DEF SafeInv
<1>1. Holding /\ step = "send" /\ UNCHANGED <<offset, phase, step, received, unrecorded, trimmed>>
  BY DEF Suppress, HoldingEvent
<1>2. CASE phase = "flush"
  <2>1. buffer' = Tail(buffer) /\ batch' = batch /\ buffer # <<>> /\ 1 \in DOMAIN buffer
    BY <1>1, <1>2, ItemFacts DEF Suppress
  <2>2. /\ \A j \in DOMAIN buffer' : /\ j > 0 /\ j \in DOMAIN buffer /\ j + 1 \in DOMAIN buffer
                                     /\ buffer'[j] = buffer[j + 1]
        /\ ToSet(buffer') \subseteq ToSet(buffer)
    BY <2>1, TailDomain
  <2> QED
    BY <1>1, <2>1, <2>2, OrderedRemoval
<1>3. CASE phase # "flush"
  <2>1. batch' = Tail(batch) /\ buffer' = buffer /\ batch # <<>>
    BY <1>1, <1>3, ItemFacts DEF Suppress
  <2> QED
    BY <1>1, <2>1, OrderedTail
<1> QED
  BY <1>2, <1>3

LEMMA OrderFlush ==
  ASSUME SafeInv, InOrder, FlushRemove \/ FlushRemoveFails \/ SuppressFails \/ FlushFails \/ FlushDone
  PROVE  InOrder'
<1> USE DEF SafeInv
<1>1. CASE FlushRemove
  <2>1. /\ phase = "flush" /\ Holding /\ buffer' = Tail(buffer)
        /\ UNCHANGED <<offset, batch, received, unrecorded, trimmed>>
    BY <1>1 DEF FlushRemove, Uploaded, history
  <2>2. buffer # <<>> /\ 1 \in DOMAIN buffer
    BY <2>1, ItemFacts
  <2>3. /\ \A j \in DOMAIN buffer' : /\ j > 0 /\ j \in DOMAIN buffer /\ j + 1 \in DOMAIN buffer
                                     /\ buffer'[j] = buffer[j + 1]
        /\ ToSet(buffer') \subseteq ToSet(buffer)
    BY <2>1, <2>2, TailDomain
  <2> QED
    BY <2>1, <2>2, <2>3, OrderedRemoval
<1>2. CASE FlushRemoveFails \/ SuppressFails \/ FlushFails
  <2>1. /\ Holding
        /\ UNCHANGED <<offset, batch, buffer, trimmed>>
        /\ received' \subseteq received \union ({Item} \ {Health})
    BY <1>2 DEF FlushRemoveFails, SuppressFails, FlushFails, Unconfirmed, Arrives, HoldingEvent,
                Uploaded, history
  <2> QED
    BY <2>1, ItemFirst DEF InOrder
<1>3. CASE FlushDone
  BY <1>3 DEF FlushDone, history, InOrder
<1> QED
  BY <1>1, <1>2, <1>3

LEMMA OrderRead ==
  ASSUME SafeInv, InOrder, ReadLog
  PROVE  InOrder'
<1> USE DEF SafeInv
<1>1. /\ phase = "tail" /\ offset' = Len(log)
      /\ batch' = [i \in 1 .. Len(log) - offset |-> offset + i]
      /\ UNCHANGED <<buffer, step, received, unrecorded, trimmed>>
  BY DEF ReadLog, history
<1>3. DOMAIN batch' = 1 .. Len(log) - offset /\ \A i \in DOMAIN batch' : batch'[i] = offset + i
  BY <1>1
<1>4. \A i \in DOMAIN batch' : batch'[i] > offset /\ batch'[i] <= offset'
  BY <1>1, <1>3, Types
<1>5. \A i, j \in DOMAIN batch' : i < j => batch'[i] < batch'[j]
  BY <1>3, Types
<1>6. /\ \A i \in DOMAIN buffer : buffer[i] <= offset' /\ \A j \in DOMAIN batch' : buffer[i] < batch'[j]
      /\ \A n \in trimmed \union received : n <= offset' /\ \A j \in DOMAIN batch' : n < batch'[j]
  <2>1. \A m \in Int : m <= offset => m <= offset' /\ \A j \in DOMAIN batch' : m < batch'[j]
    BY <1>1, <1>3, Types
  <2> QED
    BY <2>1, Numbers, Types DEF InOrder
<1>7. InOrder'
  BY <1>1, <1>4, <1>5, <1>6 DEF InOrder
<1> QED
  BY <1>7

LEMMA OrderUpload ==
  ASSUME SafeInv, InOrder, UploadRemove \/ UploadRemoveFails \/ UploadNext \/ UploadFails \/ UploadDone
  PROVE  InOrder'
<1> USE DEF SafeInv
<1>1. CASE UploadRemove
  <2>1. /\ phase = "upload" /\ Holding
        /\ UNCHANGED <<offset, batch, phase, step, received, unrecorded, trimmed>>
    BY <1>1 DEF UploadRemove, Uploaded, history
  <2>2. PICK k \in DOMAIN buffer : buffer' = RemoveAt(buffer, k)
    BY <1>1 DEF UploadRemove
  <2>3. /\ \A j \in DOMAIN buffer' : j \in DOMAIN buffer /\ j + 1 \in DOMAIN buffer
                                     /\ buffer'[j] = IF j < k THEN buffer[j] ELSE buffer[j + 1]
        /\ ToSet(buffer') \subseteq ToSet(buffer)
    <3> DEFINE r == RemoveAt(buffer, k)
    <3>1. buffer \in Seq(Rows)
      BY Types
    <3>2. \A j \in DOMAIN r : j \in DOMAIN buffer /\ j + 1 \in DOMAIN buffer
                              /\ r[j] = IF j < k THEN buffer[j] ELSE buffer[j + 1]
      BY <3>1, RemoveAtFacts
    <3>3. ToSet(buffer) = {buffer[k]} \union ToSet(r)
      BY <3>1, RemoveAtFacts
    <3> HIDE DEF r
    <3>4. buffer' = r
      BY <2>2 DEF r
    <3> QED
      BY <3>2, <3>3, <3>4
  <2> QED
    BY <2>1, <2>3, OrderedRemoval
<1>2. CASE UploadNext
  <2>1. /\ phase = "upload" /\ Holding /\ batch' = Tail(batch)
        /\ UNCHANGED <<offset, buffer, phase, received, unrecorded, trimmed>>
    BY <1>2 DEF UploadNext, Uploaded, history
  <2>2. batch # <<>>
    BY <2>1, ItemFacts
  <2> QED
    BY <2>1, <2>2, OrderedTail
<1>3. CASE UploadFails \/ UploadRemoveFails
  <2>1. /\ phase = "upload" /\ Holding /\ batch' = Tail(batch) /\ Enqueue(Item)
        /\ UNCHANGED <<offset, phase>>
        /\ received' \subseteq received \union {Item}
    BY <1>3 DEF UploadFails, UploadRemoveFails, Unconfirmed, Arrives
  <2>2. /\ batch # <<>> /\ Item \in Events /\ Item \in Rows /\ Item <= Len(log)
        /\ Item \in Int /\ Item <= offset /\ Item = Head(batch)
    BY <2>1, ItemFacts, ItemFirst, Numbers
  <2>3. /\ \A i \in DOMAIN buffer : buffer[i] < Item
        /\ \A j \in DOMAIN Tail(batch) : Tail(batch)[j] > Item
        /\ \A n \in trimmed : n < Item
    BY <2>1, ItemFirst
  <2>4. /\ \A i, j \in DOMAIN buffer' : i < j /\ buffer'[j] # Health => buffer'[i] < buffer'[j]
        /\ \A i \in DOMAIN buffer' : buffer'[i] = Item \/ \E j \in DOMAIN buffer : buffer'[i] = buffer[j]
        /\ \A n \in trimmed' : /\ n \in trimmed \/ \E i \in DOMAIN buffer : n = buffer[i]
                               /\ \A i \in DOMAIN buffer' : buffer'[i] # Health => n < buffer'[i]
    BY <2>1, <2>2, <2>3, OrderedEnqueue
  <2>5. \A j \in DOMAIN batch' : j + 1 \in DOMAIN batch /\ batch'[j] = batch[j + 1]
    BY <2>1, <2>2, Types, TailFacts
  <2>6. DOMAIN batch' \subseteq Int
    BY <2>1, <2>2, Types, TailFacts, LenProperties
  <2>7. /\ \A i, j \in DOMAIN batch' : i < j => batch'[i] < batch'[j]
        /\ \A j \in DOMAIN batch' : /\ batch'[j] <= offset
                                    /\ Item < batch'[j]
                                    /\ \A i \in DOMAIN buffer : buffer[i] < batch'[j]
                                    /\ \A n \in trimmed : n < batch'[j]
    <3>1. \A i, j \in DOMAIN batch' : i < j => i + 1 < j + 1
      BY <2>6
    <3>2. \A j \in DOMAIN batch' : batch'[j] > Item /\ batch'[j] \in Int
      BY <2>1, <2>3, <2>5, Numbers
    <3> QED
      BY <2>2, <2>5, <3>1, <3>2 DEF InOrder
  <2> QED
    BY <2>1, <2>2, <2>4, <2>7 DEF InOrder
<1>4. CASE UploadDone
  BY <1>4 DEF UploadDone, history, InOrder
<1> QED
  BY <1>1, <1>2, <1>3, <1>4

LEMMA OrderHealth ==
  ASSUME SafeInv, InOrder, UploadHealth
  PROVE  InOrder'
<1> USE DEF SafeInv
<1>1. /\ phase = "health"
      /\ UNCHANGED <<offset, batch, step, received, unrecorded>>
  BY DEF UploadHealth
<1>2. batch = <<>>
  BY <1>1 DEF InStep, Holding
<1>3. CASE Enqueue(Health)
  <2>1. Health \in Rows /\ Health <= Len(log) /\ Health <= offset
    BY Types, Numbers DEF Rows
  <2>2. /\ \A i, j \in DOMAIN buffer' : i < j /\ buffer'[j] # Health => buffer'[i] < buffer'[j]
        /\ \A i \in DOMAIN buffer' : buffer'[i] = Health \/ \E j \in DOMAIN buffer : buffer'[i] = buffer[j]
        /\ \A n \in trimmed' : /\ n \in trimmed \/ \E i \in DOMAIN buffer : n = buffer[i]
                               /\ \A i \in DOMAIN buffer' : buffer'[i] # Health => n < buffer'[i]
    BY <1>3, <2>1, OrderedEnqueue
  <2>3. InOrder'
    BY <1>1, <1>2, <2>1, <2>2 DEF InOrder
  <2> QED
    BY <2>3
<1>4. CASE UNCHANGED <<buffer, trimmed>>
  BY <1>1, <1>2, <1>4 DEF InOrder
<1> QED
  BY <1>3, <1>4 DEF UploadHealth

\* The first kill ends the order.
LEMMA OrderStep == OrderInv /\ [Next]_vars => OrderInv'
<1> SUFFICES ASSUME OrderInv, [Next]_vars PROVE OrderInv'
  OBVIOUS
<1>1. SafeInv /\ kills \in Nat
  BY ConstantsAssumption DEF OrderInv, SafeInv, TypeOK
<1>2. SafeInv'
  BY <1>1, SafeStep
<1>3. kills' = kills \/ (Kill /\ kills' = kills + 1)
  BY DEF Next, Turn, Detect, RestartSensor, Suppress, SuppressFails, Publish, PublishFails, Post,
         FlushRemove, FlushRemoveFails, FlushFails, FlushDone, ReadLog, UploadRemove,
         UploadRemoveFails, UploadNext, UploadFails, UploadDone, UploadHealth, Kill, vars
<1>4. ASSUME kills' = 0
      PROVE  InOrder'
  <2>1. kills = 0 /\ ~(Kill /\ kills' = kills + 1)
    BY <1>1, <1>3, <1>4
  <2>2. ~Kill
    BY <2>1 DEF Kill
  <2>3. InOrder
    BY <2>1 DEF OrderInv
  <2>4. CASE Detect \/ RestartSensor
    BY <1>1, <2>3, <2>4, OrderSensor
  <2>5. CASE Suppress
    BY <1>1, <2>3, <2>5, OrderSuppress
  <2>6. CASE Publish \/ PublishFails \/ Post
    BY <1>1, <2>3, <2>6, OrderSend
  <2>7. CASE FlushRemove \/ FlushRemoveFails \/ SuppressFails \/ FlushFails \/ FlushDone
    BY <1>1, <2>3, <2>7, OrderFlush
  <2>8. CASE ReadLog
    BY <1>1, <2>3, <2>8, OrderRead
  <2>9. CASE UploadRemove \/ UploadRemoveFails \/ UploadNext \/ UploadFails \/ UploadDone
    BY <1>1, <2>3, <2>9, OrderUpload
  <2>10. CASE UploadHealth
    BY <1>1, <2>3, <2>10, OrderHealth
  <2>11. CASE UNCHANGED vars
    BY <2>3, <2>11 DEF vars, history, InOrder
  <2> QED
    BY <2>2, <2>4, <2>5, <2>6, <2>7, <2>8, <2>9, <2>10, <2>11 DEF Next, Turn
<1> QED
  BY <1>2, <1>4 DEF OrderInv

LEMMA OrderInit == Init => OrderInv
<1> SUFFICES ASSUME Init PROVE OrderInv
  OBVIOUS
<1>1. InOrder
  BY DEF Init, InOrder
<1> QED
  BY <1>1, SafeInit DEF OrderInv

\* Until the first kill a full buffer gives up older events for newer ones, and
\* keeps the order of detection.
THEOREM TrimsOldestCorrect == Spec => []TrimsOldest
<1>1. ASSUME OrderInv PROVE TrimsOldest
  <2> SUFFICES ASSUME kills = 0, NEW i \in 1 .. Len(buffer), buffer[i] # Health
               PROVE  /\ \A n \in trimmed : n < buffer[i]
                      /\ \A j \in 1 .. i - 1 : buffer[j] < buffer[i]
    BY DEF TrimsOldest
  <2>1. TypeOK /\ InOrder
    BY <1>1 DEF OrderInv, SafeInv
  <2>2. DOMAIN buffer = 1 .. Len(buffer) /\ Len(buffer) \in Nat
    BY <2>1, Types, LenProperties
  <2>3. \A j \in 1 .. i - 1 : j \in DOMAIN buffer /\ j < i
    BY <2>2
  <2> QED
    BY <2>1, <2>2, <2>3 DEF InOrder
<1> QED
  BY OrderInit, OrderStep, <1>1, PTL DEF Spec

-----------------------------------------------------------------------------
\* What is sent twice.

\* Removing a row, or the first event of the batch, leaves nothing held twice.
LEMMA HeldRemoval ==
  ASSUME TypeOK, HeldOnce, NEW k \in DOMAIN buffer,
         UNCHANGED <<offset, batch, received, reread>>,
         \A j \in DOMAIN buffer' : j \in DOMAIN buffer /\ j + 1 \in DOMAIN buffer
                                  /\ buffer'[j] = IF j < k THEN buffer[j] ELSE buffer[j + 1]
  PROVE  HeldOnce'
<1>1. DOMAIN buffer \subseteq Int
  BY Numbers
<1>2. ASSUME NEW i \in DOMAIN buffer', NEW j \in DOMAIN buffer', i < j, buffer'[j] # Health
      PROVE  buffer'[i] # buffer'[j] \/ buffer'[j] \in reread
  <2>1. PICK a \in DOMAIN buffer : a \in {i, i + 1} /\ buffer'[i] = buffer[a] /\ (a = i \/ ~(i < k))
    OBVIOUS
  <2>2. PICK b \in DOMAIN buffer : b \in {j, j + 1} /\ buffer'[j] = buffer[b] /\ (b = j + 1 \/ j < k)
    OBVIOUS
  <2>3. i \in Int /\ j \in Int /\ k \in Int
    BY <1>1
  <2>4. a < b
    BY <1>2, <2>1, <2>2, <2>3
  <2> QED
    BY <1>2, <2>1, <2>2, <2>4 DEF HeldOnce
<1>3. \A i \in DOMAIN buffer' : \E a \in DOMAIN buffer : buffer'[i] = buffer[a]
  OBVIOUS
<1> QED
  BY <1>2, <1>3 DEF HeldOnce

LEMMA HeldTail ==
  ASSUME TypeOK, HeldOnce, batch # <<>>, batch' = Tail(batch),
         UNCHANGED <<offset, buffer, received, reread>>
  PROVE  HeldOnce'
<1>1. \A i \in DOMAIN batch' : i + 1 \in DOMAIN batch /\ batch'[i] = batch[i + 1]
  BY Types, TailFacts
<1>2. DOMAIN batch' \subseteq Int
  BY Types, TailFacts, LenProperties
<1>3. \A i, j \in DOMAIN batch' : i < j => i + 1 < j + 1
  BY <1>2
<1> QED
  BY <1>1, <1>3 DEF HeldOnce

\* A row enqueued that is in no other row is held once.
LEMMA HeldEnqueue ==
  ASSUME TypeOK, Bounded, HeldOnce, NEW row \in Rows, row <= Len(log), Enqueue(row),
         row # Health => \A i \in DOMAIN buffer : buffer[i] # row \/ row \in reread
  PROVE  /\ \A i, j \in DOMAIN buffer' :
              i < j /\ buffer'[j] # Health => buffer'[i] # buffer'[j] \/ buffer'[j] \in reread
         /\ \A i \in DOMAIN buffer' : buffer'[i] = row \/ \E j \in DOMAIN buffer : buffer'[i] = buffer[j]
<1>1. PICK k \in Nat :
        /\ Len(buffer') \in DOMAIN buffer' /\ buffer'[Len(buffer')] = row
        /\ \A i \in DOMAIN buffer' :
             i # Len(buffer') => i < Len(buffer') /\ i + k \in DOMAIN buffer /\ buffer'[i] = buffer[i + k]
  BY EnqueueStep
<1>2. DOMAIN buffer \subseteq Int /\ DOMAIN buffer' = 1 .. Len(buffer') /\ Len(buffer') \in Nat
  BY Numbers, EnqueueStep, LenProperties
<1>3. ASSUME NEW i \in DOMAIN buffer', NEW j \in DOMAIN buffer', i < j, buffer'[j] # Health
      PROVE  buffer'[i] # buffer'[j] \/ buffer'[j] \in reread
  <2>1. i # Len(buffer') /\ i + k \in DOMAIN buffer /\ buffer'[i] = buffer[i + k]
    BY <1>1, <1>2, <1>3
  <2>2. CASE j = Len(buffer')
    BY <2>1, <2>2, <1>1, <1>3
  <2>3. CASE j # Len(buffer')
    <3>1. j + k \in DOMAIN buffer /\ buffer'[j] = buffer[j + k] /\ i + k < j + k
      BY <2>3, <1>1, <1>2, <1>3
    <3> QED
      BY <2>1, <3>1, <1>3 DEF HeldOnce
  <2> QED
    BY <2>2, <2>3
<1>4. \A i \in DOMAIN buffer' : buffer'[i] = row \/ \E j \in DOMAIN buffer : buffer'[i] = buffer[j]
  BY <1>1
<1> QED
  BY <1>3, <1>4

\* The item in hand is held nowhere else.
LEMMA ItemOnce ==
  ASSUME SafeInv, HeldOnce, Holding, Item # Health, Item \notin reread
  PROVE  /\ Item <= offset
         /\ phase = "flush" => /\ batch = <<>>
                               /\ \A i \in DOMAIN Tail(buffer) : Tail(buffer)[i] # Item
         /\ phase = "upload" => /\ \A i \in DOMAIN buffer : buffer[i] # Item
                                /\ \A j \in DOMAIN Tail(batch) : Tail(batch)[j] # Item
<1> USE DEF SafeInv
<1>1. CASE phase = "flush"
  <2>1. 1 \in DOMAIN buffer /\ Item = buffer[1] /\ buffer # <<>> /\ batch = <<>>
    BY <1>1, ItemFacts DEF InStep
  <2>2. \A i \in DOMAIN Tail(buffer) : i > 0 /\ i + 1 \in DOMAIN buffer /\ Tail(buffer)[i] = buffer[i + 1]
    BY <2>1, Types, TailFacts, LenProperties
  <2>3. ASSUME NEW i \in DOMAIN Tail(buffer)
        PROVE  Tail(buffer)[i] # Item
    <3>1. i + 1 \in DOMAIN buffer /\ Tail(buffer)[i] = buffer[i + 1] /\ 1 < i + 1
      BY <2>2, Numbers
    <3> QED
      BY <2>1, <3>1, Numbers DEF HeldOnce
  <2> QED
    BY <1>1, <2>1, <2>3 DEF HeldOnce
<1>2. CASE phase # "flush"
  <2>1. 1 \in DOMAIN batch /\ Item = batch[1] /\ batch # <<>>
    BY <1>2, ItemFacts
  <2>2. \A i \in DOMAIN Tail(batch) : i > 0 /\ i + 1 \in DOMAIN batch /\ Tail(batch)[i] = batch[i + 1]
    BY <2>1, Types, TailFacts, LenProperties
  <2>3. ASSUME NEW i \in DOMAIN Tail(batch)
        PROVE  Tail(batch)[i] # Item
    <3>1. i + 1 \in DOMAIN batch /\ Tail(batch)[i] = batch[i + 1] /\ 1 < i + 1
      BY <2>2, Numbers
    <3>2. batch[1] < batch[i + 1] /\ batch[1] \in Int /\ batch[i + 1] \in Int
      BY <2>1, <3>1, Numbers DEF HeldOnce
    <3> QED
      BY <2>1, <3>1, <3>2
  <2> QED
    BY <1>2, <2>1, <2>3 DEF HeldOnce
<1> QED
  BY <1>1, <1>2

LEMMA OnceSensor ==
  ASSUME SafeInv, HeldOnce, Recorded, Detect \/ RestartSensor
  PROVE  HeldOnce' /\ Recorded'
<1>1. UNCHANGED <<offset, batch, buffer, phase, step, received, unrecorded, reread>>
  BY DEF Detect, RestartSensor, history
<1> QED
  BY <1>1 DEF HeldOnce, Recorded, Item, Uploaded, Holding

LEMMA OnceSend ==
  ASSUME SafeInv, HeldOnce, Recorded, Publish \/ PublishFails \/ Post
  PROVE  HeldOnce' /\ Recorded'
<1>1. /\ Holding /\ ~Uploaded
      /\ UNCHANGED <<offset, batch, buffer, phase, reread>>
      /\ received \subseteq received' /\ received' \subseteq received \union ({Item} \ {Health})
      /\ unrecorded \subseteq unrecorded'
      /\ Item \in received' \ received => step' \in {"sent", "posted"} \/ Item \in unrecorded'
  BY DEF Publish, PublishFails, Post, HoldingEvent, Unconfirmed, Arrives, ArrivesTwice, Uploaded
<1>2. Item' = Item /\ Holding'
  BY <1>1 DEF Item, Holding
<1>3. HeldOnce'
  BY <1>1, ItemOnce DEF HeldOnce
<1>4. Recorded'
  BY <1>1, <1>2 DEF Recorded, Uploaded
<1> QED
  BY <1>3, <1>4

LEMMA OnceSuppress ==
  ASSUME SafeInv, HeldOnce, Recorded, Suppress
  PROVE  HeldOnce' /\ Recorded'
<1> USE DEF SafeInv
<1>1. Holding /\ ~Uploaded /\ UNCHANGED <<offset, phase, step, received, unrecorded, reread>>
  BY DEF Suppress, HoldingEvent, Uploaded
<1>2. CASE phase = "flush"
  <2>1. buffer' = Tail(buffer) /\ batch' = batch /\ buffer # <<>> /\ 1 \in DOMAIN buffer
    BY <1>1, <1>2, ItemFacts DEF Suppress
  <2>2. /\ \A j \in DOMAIN buffer' : /\ j > 0 /\ j \in DOMAIN buffer /\ j + 1 \in DOMAIN buffer
                                     /\ buffer'[j] = buffer[j + 1]
        /\ ToSet(buffer') \subseteq ToSet(buffer)
    BY <2>1, TailDomain
  <2>3. HeldOnce'
    BY <1>1, <2>1, <2>2, HeldRemoval
  <2>4. Recorded'
    BY <1>1, <2>1, <2>2 DEF Recorded
  <2> QED
    BY <2>3, <2>4
<1>3. CASE phase # "flush"
  <2>1. batch' = Tail(batch) /\ buffer' = buffer /\ batch # <<>>
    BY <1>1, <1>3, ItemFacts DEF Suppress
  <2>2. ToSet(batch') \subseteq ToSet(batch)
    BY <2>1, Types, TailFacts
  <2>3. HeldOnce'
    BY <1>1, <2>1, HeldTail
  <2>4. Recorded'
    BY <1>1, <2>1, <2>2 DEF Recorded
  <2> QED
    BY <2>3, <2>4
<1> QED
  BY <1>2, <1>3

LEMMA OnceFlush ==
  ASSUME SafeInv, HeldOnce, Recorded,
         FlushRemove \/ FlushRemoveFails \/ SuppressFails \/ FlushFails \/ FlushDone
  PROVE  HeldOnce' /\ Recorded'
<1> USE DEF SafeInv
<1>1. CASE FlushRemove
  <2>1. /\ phase = "flush" /\ Holding /\ buffer' = Tail(buffer)
        /\ UNCHANGED <<offset, batch, received, unrecorded, reread>>
    BY <1>1 DEF FlushRemove, Uploaded, history
  <2>2. /\ buffer # <<>> /\ 1 \in DOMAIN buffer /\ batch = <<>>
        /\ Item # Health => Item \in reread \/ \A i \in DOMAIN buffer' : buffer'[i] # Item
    BY <2>1, ItemFacts, ItemOnce DEF InStep
  <2>3. /\ \A j \in DOMAIN buffer' : /\ j > 0 /\ j \in DOMAIN buffer /\ j + 1 \in DOMAIN buffer
                                     /\ buffer'[j] = buffer[j + 1]
        /\ ToSet(buffer') \subseteq ToSet(buffer)
    BY <2>1, <2>2, TailDomain
  <2>4. HeldOnce'
    BY <2>1, <2>2, <2>3, HeldRemoval
  <2>5. \A n \in received : n \in ToSet(buffer') \union ToSet(batch') => n # Item \/ n \in reread
    <3>1. ToSet(batch') = {}
      BY <2>1, <2>2 DEF ToSet
    <3>2. \A n \in received : n # Health
      BY Types, Numbers
    <3> QED
      BY <2>2, <3>1, <3>2 DEF ToSet
  <2>6. Recorded'
    BY <2>1, <2>3, <2>5 DEF Recorded
  <2> QED
    BY <2>4, <2>6
<1>2. CASE FlushRemoveFails \/ SuppressFails \/ FlushFails
  <2>1. /\ Holding
        /\ UNCHANGED <<offset, batch, buffer, reread>>
        /\ received' \subseteq received \union ({Item} \ {Health})
        /\ unrecorded \subseteq unrecorded'
        /\ Item \in received' \ received => Item \in unrecorded'
        /\ Uploaded /\ Item # Health => Item \in unrecorded'
    BY <1>2 DEF FlushRemoveFails, SuppressFails, FlushFails, Unconfirmed, Unrecorded, Arrives,
                HoldingEvent, Uploaded, history
  <2>2. HeldOnce'
    BY <2>1, ItemOnce DEF HeldOnce
  <2>3. \A n \in received : n # Health
    BY Types, Numbers
  <2>4. Recorded'
    BY <2>1, <2>3 DEF Recorded
  <2> QED
    BY <2>2, <2>4
<1>3. CASE FlushDone
  <2>1. /\ phase = "flush" /\ buffer = <<>>
        /\ UNCHANGED <<offset, batch, buffer, step, received, unrecorded, reread>>
    BY <1>3 DEF FlushDone, history
  <2>2. ~Uploaded
    BY <2>1 DEF Uploaded, Holding
  <2> QED
    BY <2>1, <2>2 DEF HeldOnce, Recorded
<1> QED
  BY <1>1, <1>2, <1>3

LEMMA OnceRead ==
  ASSUME SafeInv, HeldOnce, Recorded, ReadLog
  PROVE  HeldOnce' /\ Recorded'
<1> USE DEF SafeInv
<1>1. /\ phase = "tail" /\ offset' = Len(log)
      /\ batch' = [i \in 1 .. Len(log) - offset |-> offset + i]
      /\ UNCHANGED <<buffer, step, received, unrecorded, reread>>
  BY DEF ReadLog, history
<1>2. ~Uploaded
  BY <1>1 DEF Uploaded, Holding
<1>3. DOMAIN batch' = 1 .. Len(log) - offset /\ \A i \in DOMAIN batch' : batch'[i] = offset + i
  BY <1>1
<1>4. \A i \in DOMAIN batch' : batch'[i] > offset /\ batch'[i] <= offset'
  BY <1>1, <1>3, Types
<1>5. \A i, j \in DOMAIN batch' : i < j => batch'[i] < batch'[j]
  BY <1>3, Types
<1>6. \A m \in Int : m <= offset => m <= offset' /\ \A j \in DOMAIN batch' : m # batch'[j]
  BY <1>1, <1>3, Types
<1>7. HeldOnce'
  <2>1. \A i \in DOMAIN buffer :
          /\ buffer[i] <= offset' \/ buffer[i] \in reread
          /\ \A j \in DOMAIN batch' : buffer[i] # batch'[j] \/ batch'[j] \in reread
    BY <1>6, Numbers DEF HeldOnce
  <2>2. \A n \in received : n <= offset' \/ n \in reread
    BY <1>6, Types, Numbers DEF HeldOnce
  <2> QED
    BY <1>1, <1>4, <1>5, <2>1, <2>2 DEF HeldOnce
<1>8. Recorded'
  <2>1. \A n \in received : n \notin ToSet(batch') \/ n \in reread
    BY <1>6, Types, Numbers DEF ToSet, HeldOnce
  <2> QED
    BY <1>1, <1>2, <2>1 DEF Recorded
<1> QED
  BY <1>7, <1>8

LEMMA OnceUpload ==
  ASSUME SafeInv, HeldOnce, Recorded,
         UploadRemove \/ UploadRemoveFails \/ UploadNext \/ UploadFails \/ UploadDone
  PROVE  HeldOnce' /\ Recorded'
<1> USE DEF SafeInv
<1>1. CASE UploadRemove
  <2>1. /\ phase = "upload" /\ Uploaded /\ Holding
        /\ UNCHANGED <<offset, batch, phase, step, received, unrecorded, reread>>
    BY <1>1 DEF UploadRemove, Uploaded, history
  <2>2. PICK k \in DOMAIN buffer : buffer' = RemoveAt(buffer, k)
    BY <1>1 DEF UploadRemove
  <2>3. /\ \A j \in DOMAIN buffer' : j \in DOMAIN buffer /\ j + 1 \in DOMAIN buffer
                                     /\ buffer'[j] = IF j < k THEN buffer[j] ELSE buffer[j + 1]
        /\ ToSet(buffer') \subseteq ToSet(buffer)
    <3> DEFINE r == RemoveAt(buffer, k)
    <3>1. buffer \in Seq(Rows)
      BY Types
    <3>2. \A j \in DOMAIN r : j \in DOMAIN buffer /\ j + 1 \in DOMAIN buffer
                              /\ r[j] = IF j < k THEN buffer[j] ELSE buffer[j + 1]
      BY <3>1, RemoveAtFacts
    <3>3. ToSet(buffer) = {buffer[k]} \union ToSet(r)
      BY <3>1, RemoveAtFacts
    <3> HIDE DEF r
    <3>4. buffer' = r
      BY <2>2 DEF r
    <3> QED
      BY <3>2, <3>3, <3>4
  <2>4. HeldOnce'
    BY <2>1, <2>3, HeldRemoval
  <2>5. Recorded'
    <3>1. Item' = Item /\ Uploaded'
      BY <2>1 DEF Item, Uploaded, Holding
    <3> QED
      BY <2>1, <2>3, <3>1 DEF Recorded
  <2> QED
    BY <2>4, <2>5
<1>2. CASE UploadNext
  <2>1. /\ phase = "upload" /\ Holding /\ batch' = Tail(batch)
        /\ UNCHANGED <<offset, buffer, phase, received, unrecorded, reread>>
    BY <1>2 DEF UploadNext, Uploaded, history
  <2>2. batch # <<>> /\ ToSet(batch') \subseteq ToSet(batch) /\ Item \in Events
    BY <2>1, ItemFacts, Types, TailFacts
  <2>3. HeldOnce'
    BY <2>1, <2>2, HeldTail
  <2>4. Item \notin ToSet(buffer') \union ToSet(batch') \/ Item \in reread
    BY <2>1, <2>2, ItemOnce, Numbers DEF ToSet
  <2>5. Recorded'
    BY <2>1, <2>2, <2>4 DEF Recorded
  <2> QED
    BY <2>3, <2>5
<1>3. CASE UploadFails \/ UploadRemoveFails
  <2>1. /\ phase = "upload" /\ Holding /\ batch' = Tail(batch) /\ Enqueue(Item)
        /\ UNCHANGED <<offset, phase, reread>>
        /\ received' \subseteq received \union {Item}
        /\ unrecorded \subseteq unrecorded'
    BY <1>3 DEF UploadFails, UploadRemoveFails, Unconfirmed, Unrecorded, Arrives
  <2>2. /\ batch # <<>> /\ Item \in Events /\ Item \in Rows /\ Item <= Len(log)
        /\ Item \in Int /\ Item # Health /\ Item = Head(batch)
    BY <2>1, ItemFacts, Numbers
  <2>3. Item <= offset \/ Item \in reread
    BY <2>1, <2>2, ItemOnce
  <2>4. /\ \A i, j \in DOMAIN buffer' :
             i < j /\ buffer'[j] # Health => buffer'[i] # buffer'[j] \/ buffer'[j] \in reread
        /\ \A i \in DOMAIN buffer' : buffer'[i] = Item \/ \E j \in DOMAIN buffer : buffer'[i] = buffer[j]
    BY <2>1, <2>2, ItemOnce, HeldEnqueue
  <2>5. \A j \in DOMAIN batch' : j + 1 \in DOMAIN batch /\ batch'[j] = batch[j + 1]
    BY <2>1, <2>2, Types, TailFacts
  <2>6. \A i, j \in DOMAIN batch' : i < j => i + 1 < j + 1
    BY <2>1, <2>2, Types, TailFacts, LenProperties
  <2>7. \A j \in DOMAIN batch' : batch'[j] # Item \/ batch'[j] \in reread
    BY <2>1, <2>2, ItemOnce
  <2>8. HeldOnce'
    <3>1. \A i \in DOMAIN buffer', j \in DOMAIN batch' : buffer'[i] # batch'[j] \/ batch'[j] \in reread
      BY <2>4, <2>5, <2>7 DEF HeldOnce
    <3>2. \A i \in DOMAIN buffer' : buffer'[i] <= offset \/ buffer'[i] \in reread
      BY <2>3, <2>4 DEF HeldOnce
    <3>3. \A j \in DOMAIN batch' : batch'[j] <= offset
      BY <2>5 DEF HeldOnce
    <3>4. \A i, j \in DOMAIN batch' : i < j => batch'[i] < batch'[j]
      BY <2>5, <2>6 DEF HeldOnce
    <3>5. \A n \in received' : n <= offset \/ n \in reread
      BY <2>1, <2>3 DEF HeldOnce
    <3> QED
      BY <2>1, <2>4, <3>1, <3>2, <3>3, <3>4, <3>5 DEF HeldOnce
  <2>9. Item \in received' => Item \in unrecorded' \union reread
    <3>1. Item \in ToSet(batch)
      BY <2>1, <2>2, Types, TailFacts
    <3>2. CASE UploadFails
      <4>1. ~Uploaded /\ (received' = received \/ Item \in unrecorded')
        BY <3>2 DEF UploadFails, Uploaded, Unconfirmed
      <4> QED
        BY <2>1, <3>1, <4>1 DEF Recorded
    <3>3. CASE UploadRemoveFails
      BY <2>2, <3>3 DEF UploadRemoveFails, Unrecorded
    <3> QED
      BY <1>3, <3>2, <3>3
  <2>10. Recorded'
    <3>1. ToSet(buffer') \union ToSet(batch') \subseteq ToSet(buffer) \union ToSet(batch)
      <4>1. ToSet(buffer') \subseteq ToSet(buffer) \union {Item}
        BY <2>1, <2>2, EnqueueStep
      <4>2. ToSet(batch') \subseteq ToSet(batch) /\ Item \in ToSet(batch)
        BY <2>1, <2>2, Types, TailFacts
      <4> QED
        BY <4>1, <4>2
    <3> QED
      BY <2>1, <2>9, <3>1 DEF Recorded
  <2> QED
    BY <2>8, <2>10
<1>4. CASE UploadDone
  <2>1. /\ phase = "upload" /\ batch = <<>>
        /\ UNCHANGED <<offset, batch, buffer, step, received, unrecorded, reread>>
    BY <1>4 DEF UploadDone, history
  <2>2. ~Uploaded
    BY <2>1 DEF Uploaded, Holding
  <2> QED
    BY <2>1, <2>2 DEF HeldOnce, Recorded
<1> QED
  BY <1>1, <1>2, <1>3, <1>4

LEMMA OnceHealth ==
  ASSUME SafeInv, HeldOnce, Recorded, UploadHealth
  PROVE  HeldOnce' /\ Recorded'
<1> USE DEF SafeInv
<1>1. /\ phase = "health"
      /\ UNCHANGED <<offset, batch, step, received, unrecorded, reread>>
  BY DEF UploadHealth
<1>2. batch = <<>> /\ ~Uploaded
  BY <1>1 DEF InStep, Uploaded, Holding
<1>3. CASE Enqueue(Health)
  <2>1. Health \in Rows /\ Health <= Len(log) /\ Health <= offset
    BY Types, Numbers DEF Rows
  <2>2. /\ \A i, j \in DOMAIN buffer' :
             i < j /\ buffer'[j] # Health => buffer'[i] # buffer'[j] \/ buffer'[j] \in reread
        /\ \A i \in DOMAIN buffer' : buffer'[i] = Health \/ \E j \in DOMAIN buffer : buffer'[i] = buffer[j]
    BY <1>3, <2>1, HeldEnqueue
  <2>3. HeldOnce'
    BY <1>1, <1>2, <2>1, <2>2 DEF HeldOnce
  <2>4. ToSet(buffer') \subseteq ToSet(buffer) \union {Health}
    BY <1>3, <2>1, EnqueueStep
  <2>5. \A n \in received : n # Health
    BY Types, Numbers
  <2>6. Recorded'
    BY <1>1, <1>2, <2>4, <2>5 DEF Recorded
  <2> QED
    BY <2>3, <2>6
<1>4. CASE UNCHANGED <<buffer, trimmed>>
  BY <1>1, <1>2, <1>4 DEF HeldOnce, Recorded
<1> QED
  BY <1>3, <1>4 DEF UploadHealth

\* A kill forgets the batch; what was sent from the buffer and is still there is now
\* without a record, and a torn offset puts everything before it aside.
LEMMA OnceKill ==
  ASSUME SafeInv, HeldOnce, Recorded, Kill
  PROVE  HeldOnce' /\ Recorded'
<1> USE DEF SafeInv
<1>1. /\ batch' = <<>> /\ step' = "send" /\ UNCHANGED <<buffer, received>>
      /\ \/ offset' = offset /\ reread' = reread
         \/ offset' = 0 /\ reread' = reread \union 1 .. offset
      /\ unrecorded \subseteq unrecorded'
      /\ phase = "flush" /\ Uploaded /\ Item # Health => Item \in unrecorded'
  BY DEF Kill, LosesOffset, Unrecorded
<1>2. ~Uploaded' /\ ToSet(batch') = {}
  BY <1>1 DEF Uploaded, ToSet
<1>3. reread \subseteq reread' /\ \A n \in Int : n >= 0 /\ n <= offset => n <= offset' \/ n \in reread'
  BY <1>1, Types
<1>4. HeldOnce'
  <2>1. \A i \in DOMAIN buffer : buffer[i] <= offset' \/ buffer[i] \in reread'
    BY <1>3, Numbers DEF HeldOnce
  <2>2. \A n \in received : n <= offset' \/ n \in reread'
    BY <1>3, Numbers, Types DEF HeldOnce
  <2> QED
    BY <1>1, <1>3, <2>1, <2>2 DEF HeldOnce
<1>5. Recorded'
  <2> SUFFICES ASSUME NEW n \in received, n \in ToSet(buffer), n \notin unrecorded' \union reread'
               PROVE  FALSE
    BY <1>1, <1>2 DEF Recorded
  <2>1. Uploaded /\ n = Item /\ n # Health
    BY <1>1, <1>3, Types, Numbers DEF Recorded
  <2>2. phase # "flush" /\ Holding
    BY <1>1, <2>1 DEF Uploaded
  <2>3. phase = "upload" /\ \A i \in DOMAIN buffer : buffer[i] # Item
    BY <1>3, <2>1, <2>2, ItemOnce DEF Holding
  <2> QED
    BY <2>1, <2>3 DEF ToSet
<1> QED
  BY <1>4, <1>5

\* Nothing is sent a second time unless one of its arrivals is without a record, or
\* the log is read again.
LEMMA OnceStep == OnceInv /\ [Next]_vars => OnceInv'
<1> SUFFICES ASSUME OnceInv, [Next]_vars PROVE OnceInv'
  OBVIOUS
<1>1. SafeInv /\ TypeOK /\ Bounded /\ HeldOnce /\ Recorded /\ DuplicatesExplained
  BY DEF OnceInv, SafeInv
<1>2. SafeInv'
  BY <1>1, SafeStep
<1>3. HeldOnce' /\ Recorded'
  <2>1. CASE Detect \/ RestartSensor
    BY <1>1, <2>1, OnceSensor
  <2>2. CASE Suppress
    BY <1>1, <2>2, OnceSuppress
  <2>3. CASE Publish \/ PublishFails \/ Post
    BY <1>1, <2>3, OnceSend
  <2>4. CASE FlushRemove \/ FlushRemoveFails \/ SuppressFails \/ FlushFails \/ FlushDone
    BY <1>1, <2>4, OnceFlush
  <2>5. CASE ReadLog
    BY <1>1, <2>5, OnceRead
  <2>6. CASE UploadRemove \/ UploadRemoveFails \/ UploadNext \/ UploadFails \/ UploadDone
    BY <1>1, <2>6, OnceUpload
  <2>7. CASE UploadHealth
    BY <1>1, <2>7, OnceHealth
  <2>8. CASE Kill
    BY <1>1, <2>8, OnceKill
  <2>9. CASE UNCHANGED vars
    BY <1>1, <2>9 DEF vars, history, HeldOnce, Recorded, Item, Uploaded, Holding
  <2> QED
    BY <2>1, <2>2, <2>3, <2>4, <2>5, <2>6, <2>7, <2>8, <2>9 DEF Next, Turn
<1>4. DuplicatesExplained'
  <2>1. \/ UNCHANGED repeated
        \/ Arrives /\ Holding /\ ~Uploaded /\ Item # Health
        \/ repeated' = repeated \union {Item} /\ unrecorded' = unrecorded \union {Item}
    BY DEF Next, Turn, Detect, RestartSensor, Suppress, SuppressFails, Publish, PublishFails, Post,
           FlushRemove, FlushRemoveFails, FlushFails, FlushDone, ReadLog, UploadRemove,
           UploadRemoveFails, UploadNext, UploadFails, UploadDone, UploadHealth, Kill, vars, history,
           Unconfirmed, Arrives, ArrivesTwice, HoldingEvent, Uploaded
  <2>2. unrecorded \subseteq unrecorded' /\ reread \subseteq reread'
    BY DEF Next, Turn, Detect, RestartSensor, Suppress, SuppressFails, Publish, PublishFails, Post,
           FlushRemove, FlushRemoveFails, FlushFails, FlushDone, ReadLog, UploadRemove,
           UploadRemoveFails, UploadNext, UploadFails, UploadDone, UploadHealth, Kill, LosesOffset,
           vars, history, Unconfirmed, Unrecorded, ArrivesTwice
  <2>3. \A n \in repeated : n \in unrecorded' \union reread'
    BY <1>1, <2>2 DEF DuplicatesExplained
  <2>4. CASE UNCHANGED repeated
    BY <2>3, <2>4 DEF DuplicatesExplained
  <2>5. CASE Arrives /\ Holding /\ ~Uploaded /\ Item # Health
    <3>1. repeated' = repeated \union (received \intersect {Item})
      BY <2>5 DEF Arrives
    <3>2. Item \in ToSet(buffer) \union ToSet(batch)
      BY <1>1, <2>5, ItemFacts DEF ToSet
    <3>3. Item \in received => Item \in unrecorded' \union reread'
      BY <1>1, <2>2, <2>5, <3>2 DEF Recorded
    <3> QED
      BY <2>3, <3>1, <3>3 DEF DuplicatesExplained
  <2>6. CASE repeated' = repeated \union {Item} /\ unrecorded' = unrecorded \union {Item}
    BY <2>3, <2>6 DEF DuplicatesExplained
  <2> QED
    BY <2>1, <2>4, <2>5, <2>6
<1> QED
  BY <1>2, <1>3, <1>4 DEF OnceInv

LEMMA OnceInit == Init => OnceInv
<1> SUFFICES ASSUME Init PROVE OnceInv
  OBVIOUS
<1>1. HeldOnce /\ Recorded /\ DuplicatesExplained
  BY DEF Init, HeldOnce, Recorded, DuplicatesExplained
<1> QED
  BY <1>1, SafeInit DEF OnceInv

\* The control plane gets an event twice only if one of its arrivals was not on the
\* agent's records, or a kill tore the offset that was past the event.
THEOREM DuplicatesCorrect == Spec => []DuplicatesExplained
<1>1. OnceInv => DuplicatesExplained
  BY DEF OnceInv
<1> QED
  BY OnceInit, OnceStep, <1>1, PTL DEF Spec
=============================================================================
