------------------------- MODULE RealtimeBrokerProofs -------------------------
(***************************************************************************)
(* Proofs about RealtimeBroker, for any streams, publishers and queue size.*)
(* The first part is about one subscriber and what the broker does to it;  *)
(* the second about the steps of the threads; the third about the depth.   *)
(***************************************************************************)
EXTENDS RealtimeBroker, FiniteSetTheorems, TLAPS

USE RealtimeBrokerAssumption

(* What holds of one subscriber x that is owed the events `due` after n    *)
(* publications: its queue and its marker agree with what it is owed, and  *)
(* it is awake when there is something to hand over.                       *)
Sound(x, due, n) ==
  LET q == x.queue
      dropped == Dropped(x, due)
  IN
  /\ due \subseteq 1..n
  /\ \A i \in 1..Len(q) : q[i] \in 1..n
  /\ \A i, j \in 1..Len(q) : i < j => q[i] < q[j]
  /\ x.resync <=> dropped # {}
  /\ x.resync =>
       /\ x.remaining <= Len(q)
       /\ \A i \in 1..x.remaining : \A e \in dropped : q[i] < e
       /\ \A i \in x.remaining + 1..Len(q) : \E e \in dropped : e < q[i]
  /\ q # <<>> \/ x.resync => x.wake

-----------------------------------------------------------------------------
LEMMA Fields ==
  ASSUME NEW x \in Subscriber
  PROVE  /\ x.queue \in Seq(Event \cup {Disconnect})
         /\ Len(x.queue) \in Nat
         /\ x.queue # <<>> <=> Len(x.queue) > 0
         /\ x.resync \in BOOLEAN /\ x.remaining \in Nat /\ x.wake \in BOOLEAN
BY DEF Subscriber

(* An event put into the queue, or dropped, leaves the subscriber sound.   *)
LEMMA PutSound ==
  ASSUME NEW x \in Subscriber, NEW due, NEW n \in 0..MaxEvents - 1,
         Len(x.queue) <= QueueSize, Sound(x, due, n)
  PROVE  /\ Put(x, n + 1) \in Subscriber
         /\ Len(Put(x, n + 1).queue) <= QueueSize
         /\ Sound(Put(x, n + 1), due \cup {n + 1}, n + 1)
<1> DEFINE y == Put(x, n + 1)
           more == due \cup {n + 1}
<1>0. n + 1 \in Event /\ n \in Nat
  BY DEF Event
<1>a. /\ due \subseteq 1..n
      /\ \A i \in 1..Len(x.queue) : x.queue[i] \in 1..n
  BY DEF Sound
<1>1. CASE Len(x.queue) < QueueSize
  <2>1. y = [queue |-> Append(x.queue, n + 1), resync |-> x.resync,
             remaining |-> x.remaining, wake |-> TRUE]
    BY <1>1 DEF Put, Subscriber
  <2>a. Append(x.queue, n + 1) \in Seq(Event \cup {Disconnect})
    BY <1>0, Fields
  <2> HIDE DEF y
  <2>2. /\ y \in Subscriber
        /\ y.queue = Append(x.queue, n + 1) /\ y.wake
        /\ y.resync = x.resync /\ y.remaining = x.remaining
    <3>1. y.queue = Append(x.queue, n + 1) /\ y.remaining = x.remaining
      BY <2>1
    <3>2. y.wake
      BY <2>1
    <3>3. y.resync = x.resync
      BY <2>1
    <3>4. y \in Subscriber
      BY <2>1, <2>a, Fields DEF Subscriber
    <3> QED
      BY <3>1, <3>2, <3>3, <3>4
  <2>3. /\ Len(y.queue) = Len(x.queue) + 1
        /\ y.queue[Len(x.queue) + 1] = n + 1
        /\ \A i \in 1..Len(x.queue) : y.queue[i] = x.queue[i]
        /\ Len(x.queue) \in Nat
    BY <2>2, <1>0, Fields
  <2>4. Dropped(y, more) = Dropped(x, due)
    <3>1. ASSUME NEW e \in due
          PROVE  (\A i \in 1..Len(y.queue) : y.queue[i] # e)
                   <=> \A i \in 1..Len(x.queue) : x.queue[i] # e
      <4>1. e # n + 1
        BY <1>a, <1>0
      <4>2. \A i \in 1..Len(y.queue) : i = Len(x.queue) + 1 \/ i \in 1..Len(x.queue)
        BY <2>3
      <4>3. \A i \in 1..Len(x.queue) : i \in 1..Len(y.queue)
        BY <2>3
      <4> QED
        BY <2>3, <4>1, <4>2, <4>3
    <3>2. \E i \in 1..Len(y.queue) : y.queue[i] = n + 1
      BY <2>3
    <3> QED
      BY <3>1, <3>2 DEF Dropped
  <2> DEFINE D == Dropped(x, due)
  <2> HIDE DEF more
  <2>b. more \subseteq 1..n + 1 /\ D \subseteq due
    BY <1>a, <1>0 DEF more, Dropped
  <2>5. ASSUME NEW i \in 1..Len(y.queue)
        PROVE  y.queue[i] \in 1..n + 1
    <3>1. CASE i = Len(x.queue) + 1
      BY <3>1, <2>3, <1>0
    <3>2. CASE i # Len(x.queue) + 1
      <4>1. i \in 1..Len(x.queue) /\ y.queue[i] = x.queue[i]
        BY <3>2, <2>3
      <4> QED
        BY <4>1, <1>a, <1>0
    <3> QED
      BY <3>1, <3>2
  <2>6. \A i, j \in 1..Len(y.queue) : i < j => y.queue[i] < y.queue[j]
    <3> SUFFICES ASSUME NEW i \in 1..Len(y.queue), NEW j \in 1..Len(y.queue), i < j
                 PROVE  y.queue[i] < y.queue[j]
      OBVIOUS
    <3>1. i \in 1..Len(x.queue) /\ y.queue[i] = x.queue[i] /\ x.queue[i] \in 1..n
      BY <2>3, <1>a
    <3>2. CASE j = Len(x.queue) + 1
      BY <3>1, <3>2, <2>3, <1>0
    <3>3. CASE j # Len(x.queue) + 1
      <4>1. j \in 1..Len(x.queue) /\ y.queue[j] = x.queue[j]
        BY <3>3, <2>3
      <4> QED
        BY <3>1, <4>1 DEF Sound
    <3> QED
      BY <3>2, <3>3
  <2>7. ASSUME x.resync
        PROVE  /\ x.remaining <= Len(y.queue)
               /\ \A i \in 1..x.remaining : \A e \in D : y.queue[i] < e
               /\ \A i \in x.remaining + 1..Len(y.queue) : \E e \in D : e < y.queue[i]
    <3>1. /\ D # {}
          /\ x.remaining <= Len(x.queue)
          /\ \A i \in 1..x.remaining : \A e \in D : x.queue[i] < e
          /\ \A i \in x.remaining + 1..Len(x.queue) : \E e \in D : e < x.queue[i]
      BY <2>7 DEF Sound
    <3>2. \E e \in D : e < n + 1
      <4>1. PICK e \in D : e \in 1..n
        BY <3>1, <2>b, <1>a
      <4> QED
        BY <4>1, <1>0
    <3>a. \A i \in x.remaining + 1..Len(y.queue) :
            i = Len(x.queue) + 1 \/ i \in x.remaining + 1..Len(x.queue)
      BY <2>3, Fields
    <3>b. \A i \in x.remaining + 1..Len(x.queue) : i \in 1..Len(x.queue)
      BY Fields
    <3>3. \A i \in x.remaining + 1..Len(y.queue) : \E e \in D : e < y.queue[i]
      BY <3>1, <3>2, <3>a, <3>b, <2>3
    <3>4. \A i \in 1..x.remaining : i \in 1..Len(x.queue)
      BY <3>1, Fields
    <3> HIDE DEF D
    <3>5. ASSUME NEW i \in 1..x.remaining, NEW e \in D
          PROVE  y.queue[i] < e
      <4>1. y.queue[i] = x.queue[i]
        BY <3>4, <2>3
      <4>2. x.queue[i] < e
        BY <3>1
      <4> QED
        BY <4>1, <4>2
    <3>6. x.remaining <= Len(y.queue)
      BY <3>1, <2>3, Fields
    <3> QED
      BY <3>3, <3>5, <3>6
  <2>8. x.resync <=> D # {}
    BY DEF Sound
  <2>9. Sound(y, more, n + 1)
    <3> HIDE DEF D
    <3>1. Dropped(y, more) = D
      BY <2>4 DEF D, more
    <3> QED
      BY <2>2, <2>b, <2>5, <2>6, <2>7, <2>8, <3>1 DEF Sound
  <2> QED
    BY <1>1, <2>2, <2>3, <2>9, Fields DEF y, more
<1>2. CASE ~(Len(x.queue) < QueueSize)
  <2>1. y = [queue |-> x.queue, resync |-> TRUE,
             remaining |-> IF x.resync THEN x.remaining ELSE Len(x.queue),
             wake |-> x.wake]
    BY <1>2, Fields DEF Put, Subscriber
  <2>2. y \in Subscriber
    BY <2>1, Fields DEF Subscriber
  <2>3. Len(x.queue) > 0 /\ x.queue # <<>>
    BY <1>2, Fields
  <2> HIDE DEF y
  <2>a. y.queue = x.queue /\ y.resync /\ y.wake = x.wake
    <3>1. y.queue = x.queue
      BY <2>1
    <3>2. y.resync
      BY <2>1
    <3>3. y.wake = x.wake
      BY <2>1
    <3> QED
      BY <3>1, <3>2, <3>3
  <2>b. y.remaining = IF x.resync THEN x.remaining ELSE Len(x.queue)
    BY <2>1
  <2>c. x.wake /\ \A i, j \in 1..Len(x.queue) : i < j => x.queue[i] < x.queue[j]
    BY <2>3 DEF Sound
  <2> DEFINE D == Dropped(x, due)
  <2>d. y.wake /\ \A i, j \in 1..Len(y.queue) : i < j => y.queue[i] < y.queue[j]
    BY <2>a, <2>c
  <2>e. y.resync
    BY <2>1
  <2>4. Dropped(y, more) = D \cup {n + 1}
    <3>1. \A i \in 1..Len(x.queue) : x.queue[i] # n + 1
      BY <1>a, <1>0
    <3> QED
      BY <2>1, <3>1 DEF Dropped
  <2>5. \A i \in 1..Len(x.queue) : x.queue[i] < n + 1
    BY <1>a, <1>0
  <2>6. ASSUME x.resync PROVE Sound(y, more, n + 1)
    <3>1. /\ D # {}
          /\ x.remaining <= Len(x.queue)
          /\ \A i \in 1..x.remaining : \A e \in D : x.queue[i] < e
          /\ \A i \in x.remaining + 1..Len(x.queue) : \E e \in D : e < x.queue[i]
      BY <2>6 DEF Sound
    <3>2. \A i \in 1..x.remaining : i \in 1..Len(x.queue)
      BY <3>1, Fields
    <3> HIDE DEF D
    <3>3. \A i \in 1..x.remaining : \A e \in D \cup {n + 1} : x.queue[i] < e
      BY <3>1, <3>2, <2>5
    <3>4. \A i \in x.remaining + 1..Len(x.queue) : \E e \in D \cup {n + 1} : e < x.queue[i]
      BY <3>1
    <3>5. more \subseteq 1..n + 1
      BY <1>a, <1>0
    <3>6. \A i \in 1..Len(y.queue) : y.queue[i] \in 1..n + 1
      BY <1>a, <1>0, <2>a
    <3>7. y.remaining = x.remaining
      BY <2>b, <2>6
    <3>8. Dropped(y, more) # {}
      BY <2>4
    <3> HIDE DEF more
    <3>9. /\ y.remaining <= Len(y.queue)
          /\ \A i \in 1..y.remaining : \A e \in Dropped(y, more) : y.queue[i] < e
          /\ \A i \in y.remaining + 1..Len(y.queue) :
               \E e \in Dropped(y, more) : e < y.queue[i]
      BY <2>a, <2>4, <3>1, <3>3, <3>4, <3>7
    <3> QED
      BY <2>d, <2>e, <3>5, <3>6, <3>8, <3>9 DEF Sound
  <2>7. ASSUME ~x.resync PROVE Sound(y, more, n + 1)
    <3>1. D = {}
      BY <2>7 DEF Sound
    <3>5. more \subseteq 1..n + 1
      BY <1>a, <1>0
    <3>6. \A i \in 1..Len(y.queue) : y.queue[i] \in 1..n + 1
      BY <1>a, <1>0, <2>a
    <3>7. Dropped(y, more) = {n + 1}
      BY <2>4, <3>1
    <3>9. Len(x.queue) + 1..Len(x.queue) = {}
      BY Fields
    <3> HIDE DEF more
    <3>8. y.remaining = Len(x.queue)
      BY <2>b, <2>7
    <3>a. /\ y.remaining <= Len(y.queue)
          /\ \A i \in 1..y.remaining : \A e \in Dropped(y, more) : y.queue[i] < e
          /\ \A i \in y.remaining + 1..Len(y.queue) :
               \E e \in Dropped(y, more) : e < y.queue[i]
      BY <2>a, <2>5, <3>7, <3>8, <3>9, Fields
    <3>b. Dropped(y, more) # {}
      BY <3>7
    <3> QED
      BY <2>d, <2>e, <3>5, <3>6, <3>b, <3>a DEF Sound
  <2> QED
    BY <2>1, <2>2, <2>6, <2>7 DEF y
<1> QED
  BY <1>1, <1>2

(* Handing over the head of the queue leaves the subscriber sound.         *)
LEMMA TakeEventSound ==
  ASSUME NEW x \in Subscriber, NEW due, NEW n \in 0..MaxEvents,
         Len(x.queue) <= QueueSize, Sound(x, due, n),
         x.queue # <<>>, ~(x.resync /\ x.remaining = 0)
  PROVE  /\ TakeEvent(x) \in Subscriber
         /\ Len(TakeEvent(x).queue) <= QueueSize
         /\ Sound(TakeEvent(x), due \ {Head(x.queue)}, n)
<1> DEFINE y == TakeEvent(x)
           less == due \ {Head(x.queue)}
           D == Dropped(x, due)
<1>0. /\ Len(x.queue) > 0
      /\ Tail(x.queue) \in Seq(Event \cup {Disconnect})
      /\ Len(Tail(x.queue)) = Len(x.queue) - 1
      /\ \A i \in 1..Len(x.queue) - 1 : Tail(x.queue)[i] = x.queue[i + 1]
      /\ Head(x.queue) = x.queue[1]
  BY Fields
<1>2. /\ y.queue = Tail(x.queue) /\ y.resync = x.resync
      /\ y.remaining = IF x.resync THEN x.remaining - 1 ELSE x.remaining
  <2>1. y.queue = Tail(x.queue)
    BY DEF TakeEvent, Subscriber
  <2>2. y.resync = x.resync
    BY DEF TakeEvent, Subscriber
  <2>3. y.remaining = IF x.resync THEN x.remaining - 1 ELSE x.remaining
    BY DEF TakeEvent, Subscriber
  <2> QED
    BY <2>1, <2>2, <2>3
<1>3. y.wake <=> x.wake /\ (Tail(x.queue) # <<>> \/ x.resync)
  BY DEF TakeEvent, Subscriber
<1>r. (IF x.resync THEN x.remaining - 1 ELSE x.remaining) \in Nat
  BY Fields
<1>4. y \in Subscriber
  BY <1>0, <1>r, Fields DEF TakeEvent, Subscriber
<1> HIDE DEF y
<1>5. /\ Len(y.queue) = Len(x.queue) - 1
      /\ \A i \in 1..Len(y.queue) : y.queue[i] = x.queue[i + 1] /\ i + 1 \in 1..Len(x.queue)
  BY <1>0, <1>2, Fields
<1>6. Dropped(y, less) = D
  <2>1. ASSUME NEW e \in due
        PROVE  (\A i \in 1..Len(x.queue) : x.queue[i] # e)
                 <=> e # x.queue[1] /\ \A i \in 1..Len(y.queue) : y.queue[i] # e
    <3>1. ASSUME e # x.queue[1], \A i \in 1..Len(y.queue) : y.queue[i] # e,
                 NEW i \in 1..Len(x.queue)
          PROVE  x.queue[i] # e
      <4>1. i = 1 \/ (i - 1 \in 1..Len(y.queue) /\ x.queue[i] = y.queue[i - 1])
        BY <1>5, Fields
      <4> QED
        BY <4>1, <3>1
    <3>2. ASSUME \A i \in 1..Len(x.queue) : x.queue[i] # e
          PROVE  e # x.queue[1] /\ \A i \in 1..Len(y.queue) : y.queue[i] # e
      <4>1. 1 \in 1..Len(x.queue)
        BY <1>0, Fields
      <4> QED
        BY <4>1, <3>2, <1>5
    <3> QED
      BY <3>1, <3>2
  <2> QED
    BY <2>1, <1>0 DEF Dropped
<1> HIDE DEF D, less
<1>7. less \subseteq 1..n
  BY DEF Sound, less
<1>8. /\ \A i \in 1..Len(y.queue) : y.queue[i] \in 1..n
      /\ \A i, j \in 1..Len(y.queue) : i < j => y.queue[i] < y.queue[j]
  <2>1. /\ \A i \in 1..Len(x.queue) : x.queue[i] \in 1..n
        /\ \A i, j \in 1..Len(x.queue) : i < j => x.queue[i] < x.queue[j]
    BY DEF Sound
  <2>2. ASSUME NEW i \in 1..Len(y.queue), NEW j \in 1..Len(y.queue), i < j
        PROVE  y.queue[i] < y.queue[j]
    <3>1. i + 1 < j + 1 /\ i + 1 \in 1..Len(x.queue) /\ j + 1 \in 1..Len(x.queue)
      BY <2>2, <1>5
    <3> QED
      BY <3>1, <2>1, <1>5
  <2>3. \A i \in 1..Len(y.queue) : y.queue[i] \in 1..n
    BY <2>1, <1>5
  <2> QED
    BY <2>2, <2>3
<1>9. y.resync <=> D # {}
  BY <1>2 DEF Sound, D
<1>10. ASSUME y.resync
       PROVE  /\ y.remaining <= Len(y.queue)
              /\ \A i \in 1..y.remaining : \A e \in D : y.queue[i] < e
              /\ \A i \in y.remaining + 1..Len(y.queue) : \E e \in D : e < y.queue[i]
  <2>1. /\ x.resync /\ x.remaining # 0 /\ y.remaining = x.remaining - 1
        /\ x.remaining <= Len(x.queue)
        /\ \A i \in 1..x.remaining : \A e \in D : x.queue[i] < e
        /\ \A i \in x.remaining + 1..Len(x.queue) : \E e \in D : e < x.queue[i]
    BY <1>10, <1>2 DEF Sound, D
  <2>2. \A i \in 1..y.remaining : i \in 1..Len(y.queue) /\ i + 1 \in 1..x.remaining
    BY <2>1, <1>5, Fields
  <2>3. \A i \in y.remaining + 1..Len(y.queue) :
          i \in 1..Len(y.queue) /\ i + 1 \in x.remaining + 1..Len(x.queue)
    BY <2>1, <1>5, Fields
  <2>4. y.remaining <= Len(y.queue)
    BY <2>1, <1>5, Fields
  <2>5. \A i \in 1..y.remaining : \A e \in D : y.queue[i] < e
    BY <2>1, <2>2, <1>5
  <2>6. \A i \in y.remaining + 1..Len(y.queue) : \E e \in D : e < y.queue[i]
    BY <2>1, <2>3, <1>5
  <2> QED
    BY <2>4, <2>5, <2>6
<1>11. Sound(y, less, n)
  <2>1. y.queue # <<>> \/ y.resync => y.wake
    <3>1. x.wake
      BY <1>0, Fields DEF Sound
    <3> QED
      BY <3>1, <1>2, <1>3
  <2> QED
    BY <1>6, <1>7, <1>8, <1>9, <1>10, <2>1 DEF Sound
<1> QED
  BY <1>4, <1>5, <1>11, Fields DEF y, less

(* After a marker everything dropped so far is fetched anew.               *)
LEMMA TakeMarkerSound ==
  ASSUME NEW x \in Subscriber, NEW due, NEW n \in 0..MaxEvents,
         Len(x.queue) <= QueueSize, Sound(x, due, n)
  PROVE  /\ TakeMarker(x) \in Subscriber
         /\ Len(TakeMarker(x).queue) <= QueueSize
         /\ Sound(TakeMarker(x), {}, n)
<1> DEFINE y == TakeMarker(x)
<1>2. y.queue = x.queue /\ ~y.resync /\ (y.wake <=> x.queue # <<>>)
  <2>1. y.queue = x.queue
    BY DEF TakeMarker, Subscriber
  <2>2. ~y.resync
    BY DEF TakeMarker, Subscriber
  <2>3. y.wake <=> x.queue # <<>>
    BY DEF TakeMarker, Subscriber
  <2> QED
    BY <2>1, <2>2, <2>3
<1>3. y \in Subscriber
  BY DEF TakeMarker, Subscriber
<1> HIDE DEF y
<1>4. Dropped(y, {}) = {}
  BY DEF Dropped
<1>5. Sound(y, {}, n)
  <2>1. /\ \A i \in 1..Len(y.queue) : y.queue[i] \in 1..n
        /\ \A i, j \in 1..Len(y.queue) : i < j => y.queue[i] < y.queue[j]
    BY <1>2 DEF Sound
  <2> QED
    BY <1>2, <1>4, <2>1 DEF Sound
<1> QED
  BY <1>2, <1>3, <1>5 DEF y

(* Putting to sleep is sound when there is nothing to hand over.           *)
LEMMA SleepSound ==
  ASSUME NEW x \in Subscriber, NEW due, NEW n \in 0..MaxEvents,
         Sound(x, due, n), x.queue = <<>>, ~(x.resync /\ x.remaining = 0)
  PROVE  /\ [x EXCEPT !.wake = FALSE] \in Subscriber
         /\ ~x.resync
         /\ Sound([x EXCEPT !.wake = FALSE], due, n)
<1> DEFINE y == [x EXCEPT !.wake = FALSE]
<1>0. ~x.resync
  <2> SUFFICES ASSUME x.resync PROVE FALSE
    OBVIOUS
  <2>1. x.remaining <= Len(x.queue) /\ Len(x.queue) = 0
    BY Fields DEF Sound
  <2> QED
    BY <2>1, Fields
<1>2. y.queue = x.queue /\ y.resync = x.resync
  <2>1. y.queue = x.queue
    BY DEF Subscriber
  <2>2. y.resync = x.resync
    BY DEF Subscriber
  <2> QED
    BY <2>1, <2>2
<1>3. y \in Subscriber
  BY DEF Subscriber
<1> HIDE DEF y
<1>4. Dropped(y, due) = Dropped(x, due)
  BY <1>2 DEF Dropped
<1>5. Sound(y, due, n)
  <2>1. ~y.resync /\ y.queue = <<>>
    BY <1>0, <1>2
  <2>2. due \subseteq 1..n /\ Dropped(y, due) = {}
    BY <1>0, <1>4 DEF Sound
  <2>3. 1..Len(y.queue) = {}
    BY <2>1
  <2> QED
    BY <2>1, <2>2, <2>3 DEF Sound
<1> QED
  BY <1>0, <1>3, <1>5 DEF y

LEMMA CutOffSubscriber ==
  ASSUME NEW x \in Subscriber, Len(x.queue) <= QueueSize
  PROVE  /\ CutOff(x) \in Subscriber
         /\ Len(CutOff(x).queue) <= QueueSize
         /\ CutOff(x).wake
<1> DEFINE q == IF Len(x.queue) < QueueSize THEN Append(x.queue, Disconnect) ELSE x.queue
<1>1. q \in Seq(Event \cup {Disconnect}) /\ Len(q) <= QueueSize
  BY Fields
<1> HIDE DEF q
<1>2. CutOff(x) = [x EXCEPT !.queue = q, !.wake = TRUE]
  BY Zenon DEF CutOff, q
<1>3. CutOff(x) \in Subscriber
  BY <1>1, <1>2 DEF Subscriber
<1>4. CutOff(x).queue = q
  BY <1>2 DEF Subscriber
<1>5. CutOff(x).wake
  BY <1>2 DEF Subscriber
<1> QED
  BY <1>1, <1>3, <1>4, <1>5

-----------------------------------------------------------------------------
(* The inductive invariant: beside the types, every subscriber is sound, a *)
(* stream that has not begun has a new subscriber, one that was cut off    *)
(* while it waited is awake, and the depth records are in order: one       *)
(* thread at a time has read the depth, and unless another record is due   *)
(* the gauge has, or is about to get, its present value.                   *)
EverySound == \A s \in subscribers : Sound(sub[s], owed[s], published)

Places ==
  /\ \A s \in Stream : at[s] = "unborn" =>
       s \notin subscribers /\ sub[s] = NewSubscriber /\ owed[s] = {}
  /\ \A s \in Stream \ subscribers : at[s] = "wait" => sub[s].wake

RecordsInOrder ==
  /\ \A t, u \in Thread : record[t].step = "read" /\ record[u].step = "read" => t = u
  /\ (\A t \in Thread : record[t].step # "due") =>
       IF \A t \in Thread : record[t].step = "none" THEN gauge = depth
       ELSE \A t \in Thread : record[t].step = "read" => record[t].depth = depth

IInv == TypeOK /\ EverySound /\ Places /\ RecordsInOrder

LEMMA NewSubscriberSound ==
  /\ NewSubscriber \in Subscriber /\ Len(NewSubscriber.queue) = 0
  /\ \A n \in Nat : Sound(NewSubscriber, {}, n)
<1>1. /\ NewSubscriber.queue = <<>> /\ ~NewSubscriber.resync
      /\ NewSubscriber \in Subscriber
  BY DEF NewSubscriber, Subscriber
<1>2. Dropped(NewSubscriber, {}) = {}
  BY DEF Dropped
<1>3. Len(NewSubscriber.queue) = 0 /\ 1..Len(NewSubscriber.queue) = {}
  BY <1>1
<1> QED
  BY <1>1, <1>2, <1>3 DEF Sound

LEMMA InitIInv == Init => IInv
<1> SUFFICES ASSUME Init PROVE IInv
  OBVIOUS
<1>1. TypeOK
  <2>1. /\ sub \in [Stream -> Subscriber]
        /\ \A s \in Stream : Len(sub[s].queue) <= QueueSize
    BY NewSubscriberSound DEF Init
  <2>2. DOMAIN record = Thread /\ \A t \in Thread : record[t].step = "none"
    BY DEF Init, Recorded
  <2>3. published \in 0..MaxEvents
    BY DEF Init
  <2>4. at \in [Stream -> Place] /\ owed \in [Stream -> SUBSET Event]
    BY DEF Init, Place
  <2> QED
    BY <2>1, <2>2, <2>3, <2>4 DEF Init, TypeOK
<1>2. EverySound /\ Places
  BY DEF Init, EverySound, Places
<1>3. RecordsInOrder
  BY DEF Init, RecordsInOrder, Recorded
<1> QED
  BY <1>1, <1>2, <1>3 DEF IInv

(* A step that changes the subscriber of one stream at most, and of the    *)
(* other parts only what these lemmas let it change.                       *)
LEMMA OwesType ==
  ASSUME TypeOK, NEW t \in Thread, Owes(t)
  PROVE  /\ DOMAIN record' = Thread
         /\ \A u \in Thread : record'[u].step \in {"none", "due", "read"}
BY DEF TypeOK, Owes, Due

LEMMA OwesInOrder ==
  ASSUME TypeOK, RecordsInOrder, NEW t \in Thread, Owes(t)
  PROVE  RecordsInOrder'
<1>1. record'[t].step = "due" /\ \A u \in Thread \ {t} : record'[u] = record[u]
  BY DEF TypeOK, Owes, Due
<1> QED
  BY <1>1 DEF RecordsInOrder

LEMMA SameInOrder ==
  ASSUME RecordsInOrder, UNCHANGED <<record, gauge, depth>>
  PROVE  RecordsInOrder'
BY DEF RecordsInOrder

(* Steps of a stream that leave the broker alone.                          *)
LEMMA MoveStep ==
  ASSUME IInv, NEW s \in Stream, NEW place \in Place, Go(s, place),
         UNCHANGED <<broker, shutdown, record, gauge, published>>,
         place # "unborn",
         place = "wait" => s \in subscribers
  PROVE  IInv'
<1>1. TypeOK'
  BY DEF IInv, TypeOK, Go, broker
<1>2. EverySound'
  BY DEF IInv, EverySound, broker
<1>3. Places'
  BY DEF IInv, Places, Go, broker, TypeOK
<1>4. RecordsInOrder'
  BY SameInOrder DEF IInv, broker
<1> QED
  BY <1>1, <1>2, <1>3, <1>4 DEF IInv

(* Steps of a stream that change its own subscriber and keep it sound.     *)
LEMMA HandStep ==
  ASSUME IInv, NEW s \in subscribers, NEW place \in Place \ {"unborn"}, Go(s, place),
         NEW x \in Subscriber, sub' = [sub EXCEPT ![s] = x],
         Len(x.queue) <= QueueSize,
         NEW due, owed' = [owed EXCEPT ![s] = due], due \subseteq owed[s],
         Sound(x, due, published),
         UNCHANGED <<subscribers, closed, shutdown, gauge, published>>,
         UNCHANGED <<depth, record>> \/ Owes(s)
  PROVE  IInv'
<1>0. s \in Stream /\ s \in Thread
  BY DEF IInv, TypeOK, Thread
<1>1. TypeOK'
  <2>1. /\ DOMAIN record' = Thread
        /\ \A u \in Thread : record'[u].step \in {"none", "due", "read"}
    BY <1>0, OwesType DEF IInv, TypeOK
  <2>2. /\ sub' \in [Stream -> Subscriber]
        /\ \A r \in Stream : Len(sub'[r].queue) <= QueueSize
    BY <1>0 DEF IInv, TypeOK
  <2>3. owed' \in [Stream -> SUBSET Event] /\ at' \in [Stream -> Place]
    BY <1>0 DEF IInv, TypeOK, Go
  <2> QED
    BY <2>1, <2>2, <2>3 DEF IInv, TypeOK
<1>2. EverySound'
  BY <1>0 DEF IInv, EverySound, TypeOK
<1>3. Places'
  BY <1>0 DEF IInv, Places, Go, TypeOK
<1>4. RecordsInOrder'
  BY <1>0, OwesInOrder, SameInOrder DEF IInv
<1> QED
  BY <1>1, <1>2, <1>3, <1>4 DEF IInv

(* The invariant is kept by every step.                                    *)
LEMMA NextIInv == IInv /\ [Next]_vars => IInv'
<1> SUFFICES ASSUME IInv, [Next]_vars PROVE IInv'
  OBVIOUS
<1>t. TypeOK /\ EverySound /\ Places /\ RecordsInOrder
  BY DEF IInv
<1>p. published \in 0..MaxEvents
  BY <1>t DEF TypeOK
<1>1. ASSUME NEW s \in Stream, Subscribe(s) PROVE IInv'
  <2>1. at[s] = "unborn" /\ sub[s] = NewSubscriber /\ owed[s] = {}
    BY <1>1, <1>t DEF Subscribe, Places
  <2>2. TypeOK'
    BY <1>1, <1>t, OwesType DEF Subscribe, TypeOK, Thread, Go, Place
  <2>3. EverySound'
    <3>1. Sound(sub[s], owed[s], published)
      BY <1>p, <2>1, NewSubscriberSound
    <3>2. subscribers' = subscribers \cup {s} /\ UNCHANGED <<sub, owed, published>>
      BY <1>1 DEF Subscribe
    <3> QED
      BY <3>1, <3>2, <1>t DEF EverySound
  <2>4. Places'
    BY <1>1, <1>t DEF Subscribe, Places, Go, TypeOK
  <2>5. RecordsInOrder'
    BY <1>1, <1>t, OwesInOrder DEF Subscribe, Thread
  <2> QED
    BY <2>2, <2>3, <2>4, <2>5 DEF IInv
<1>2. ASSUME NEW s \in Stream, TurnAway(s) \/ Greet(s) \/ Check(s) \/ Disconnected(s)
                               \/ Wake(s) \/ TimeOut(s) \/ Write(s)
      PROVE  IInv'
  <2>1. \E place \in Place \ {"unborn", "wait"} :
          Go(s, place) /\ UNCHANGED <<broker, shutdown, record, gauge, published>>
    BY <1>2 DEF TurnAway, Greet, Check, Disconnected, Wake, TimeOut, Write, Place
  <2> QED
    BY <2>1, MoveStep
<1>3. ASSUME NEW s \in Stream, NextMarker(s) PROVE IInv'
  <2>1. /\ s \in subscribers /\ sub[s] \in Subscriber /\ Len(sub[s].queue) <= QueueSize
        /\ Sound(sub[s], owed[s], published)
    BY <1>3, <1>t DEF NextMarker, TypeOK, EverySound
  <2>2. /\ TakeMarker(sub[s]) \in Subscriber
        /\ Len(TakeMarker(sub[s]).queue) <= QueueSize
        /\ Sound(TakeMarker(sub[s]), {}, published)
    BY <2>1, <1>p, TakeMarkerSound
  <2>3. "write" \in Place \ {"unborn"}
    BY DEF Place
  <2> QED
    BY <1>3, <2>1, <2>2, <2>3, HandStep DEF NextMarker
<1>4. ASSUME NEW s \in Stream, NextQueued(s) PROVE IInv'
  <2>1. /\ s \in subscribers /\ sub[s] \in Subscriber /\ Len(sub[s].queue) <= QueueSize
        /\ Sound(sub[s], owed[s], published)
        /\ sub[s].queue # <<>> /\ ~(sub[s].resync /\ sub[s].remaining = 0)
    BY <1>4, <1>t DEF NextQueued, TypeOK, EverySound, MarkerDue
  <2> DEFINE x == TakeEvent(sub[s])
             due == owed[s] \ {Head(sub[s].queue)}
  <2>2. x \in Subscriber /\ Len(x.queue) <= QueueSize /\ Sound(x, due, published)
    BY <2>1, <1>p, TakeEventSound
  <2>3. "write" \in Place \ {"unborn"} /\ due \subseteq owed[s]
    BY DEF Place
  <2>4. /\ sub' = [sub EXCEPT ![s] = x] /\ owed' = [owed EXCEPT ![s] = due]
        /\ Go(s, "write") /\ Owes(s)
        /\ UNCHANGED <<subscribers, closed, shutdown, gauge, published>>
    BY <1>4 DEF NextQueued
  <2> HIDE DEF x, due
  <2> QED
    BY <2>1, <2>2, <2>3, <2>4, HandStep
<1>5. ASSUME NEW s \in Stream, NextEmpty(s) PROVE IInv'
  <2>1. /\ s \in subscribers /\ sub[s] \in Subscriber /\ Len(sub[s].queue) <= QueueSize
        /\ Sound(sub[s], owed[s], published)
        /\ sub[s].queue = <<>> /\ ~(sub[s].resync /\ sub[s].remaining = 0)
    BY <1>5, <1>t DEF NextEmpty, TypeOK, EverySound, MarkerDue
  <2> DEFINE x == [sub[s] EXCEPT !.wake = FALSE]
  <2>2. x \in Subscriber /\ Sound(x, owed[s], published)
    BY <2>1, <1>p, SleepSound
  <2>3. x.queue = sub[s].queue
    BY <2>1 DEF Subscriber
  <2>4. "wait" \in Place \ {"unborn"} /\ owed' = [owed EXCEPT ![s] = owed[s]]
    BY <1>5, <1>t DEF Place, NextEmpty, TypeOK
  <2>5. /\ sub' = [sub EXCEPT ![s] = x] /\ Go(s, "wait")
        /\ UNCHANGED <<subscribers, closed, shutdown, gauge, published, depth, record>>
    BY <1>5, <1>t DEF NextEmpty, TypeOK
  <2> HIDE DEF x
  <2> QED
    BY <2>1, <2>2, <2>3, <2>4, <2>5, HandStep
<1>6. ASSUME NEW s \in Stream, Unsubscribe(s) PROVE IInv'
  <2>1. CASE s \notin subscribers
    <3>1. "ended" \in Place
      BY DEF Place
    <3> QED
      BY <1>6, <2>1, <3>1, MoveStep DEF Unsubscribe, broker
  <2>2. CASE s \in subscribers
    <3> DEFINE x == CutOff(sub[s])
    <3>1. x \in Subscriber /\ Len(x.queue) <= QueueSize
      BY <1>t, CutOffSubscriber DEF TypeOK
    <3>2. /\ sub' = [sub EXCEPT ![s] = x] /\ owed' = [owed EXCEPT ![s] = {}]
          /\ Go(s, "ended") /\ Owes(s) /\ subscribers' = subscribers \ {s}
          /\ UNCHANGED <<closed, shutdown, gauge, published>>
      BY <1>6, <2>2 DEF Unsubscribe
    <3> HIDE DEF x
    <3>3. TypeOK'
      <4>1. /\ DOMAIN record' = Thread
            /\ \A u \in Thread : record'[u].step \in {"none", "due", "read"}
        BY <3>2, <1>t, OwesType DEF Thread
      <4> QED
        BY <3>1, <3>2, <4>1, <1>t DEF TypeOK, Go, Place
    <3>4. EverySound'
      BY <3>2, <1>t DEF EverySound, TypeOK
    <3>5. Places'
      BY <3>2, <1>t DEF Places, Go, TypeOK
    <3>6. RecordsInOrder'
      BY <3>2, <1>t, OwesInOrder DEF Thread
    <3> QED
      BY <3>3, <3>4, <3>5, <3>6 DEF IInv
  <2> QED
    BY <2>1, <2>2
<1>7. ASSUME NEW p \in Publisher, Publish(p) PROVE IInv'
  <2>1. /\ published \in 0..MaxEvents - 1 /\ published + 1 \in Event
        /\ published' = published + 1 /\ Owes(p) /\ p \in Thread
        /\ UNCHANGED <<subscribers, closed, shutdown, at, gauge>>
    BY <1>7, <1>p DEF Publish, Event, Thread
  <2>2. /\ sub' = [s \in Stream |->
             IF s \in subscribers THEN Put(sub[s], published + 1) ELSE sub[s]]
        /\ owed' = [s \in Stream |->
             IF s \in subscribers THEN owed[s] \cup {published + 1} ELSE owed[s]]
    BY <1>7 DEF Publish
  <2>3. \A s \in subscribers :
          /\ Put(sub[s], published + 1) \in Subscriber
          /\ Len(Put(sub[s], published + 1).queue) <= QueueSize
          /\ Sound(Put(sub[s], published + 1), owed[s] \cup {published + 1}, published + 1)
    <3>1. ASSUME NEW s \in subscribers
          PROVE  /\ sub[s] \in Subscriber /\ Len(sub[s].queue) <= QueueSize
                 /\ Sound(sub[s], owed[s], published)
      BY <1>t DEF TypeOK, EverySound
    <3> QED
      BY <3>1, <2>1, PutSound
  <2>4. TypeOK'
    <3>1. /\ DOMAIN record' = Thread
          /\ \A u \in Thread : record'[u].step \in {"none", "due", "read"}
      BY <2>1, <1>t, OwesType
    <3>2. /\ sub' \in [Stream -> Subscriber]
          /\ \A s \in Stream : Len(sub'[s].queue) <= QueueSize
      BY <2>2, <2>3, <1>t DEF TypeOK
    <3>3. owed' \in [Stream -> SUBSET Event] /\ published' \in 0..MaxEvents
      BY <2>1, <2>2, <1>t DEF TypeOK
    <3> QED
      BY <2>1, <3>1, <3>2, <3>3, <1>t DEF TypeOK
  <2>5. EverySound'
    BY <2>1, <2>2, <2>3, <1>t DEF EverySound, TypeOK
  <2>6. Places'
    BY <2>1, <2>2, <1>t DEF Places, TypeOK
  <2>7. RecordsInOrder'
    BY <2>1, <1>t, OwesInOrder
  <2> QED
    BY <2>4, <2>5, <2>6, <2>7 DEF IInv
<1>8. CASE Shutdown
  BY <1>8, <1>t DEF Shutdown, IInv, TypeOK, EverySound, Places, RecordsInOrder, broker
<1>9. CASE Close
  <2>1. /\ closed' = TRUE /\ subscribers' = {} /\ Owes(Closer) /\ Closer \in Thread
        /\ UNCHANGED <<shutdown, at, gauge, published>>
    BY <1>9 DEF Close, Thread
  <2>2. /\ sub' = [s \in Stream |-> IF s \in subscribers THEN CutOff(sub[s]) ELSE sub[s]]
        /\ owed' = [s \in Stream |-> {}]
    BY <1>9 DEF Close
  <2>3. \A s \in subscribers :
          /\ s \in Stream /\ CutOff(sub[s]) \in Subscriber
          /\ Len(CutOff(sub[s]).queue) <= QueueSize /\ CutOff(sub[s]).wake
    <3>1. ASSUME NEW s \in subscribers
          PROVE  s \in Stream /\ sub[s] \in Subscriber /\ Len(sub[s].queue) <= QueueSize
      BY <1>t DEF TypeOK
    <3> QED
      BY <3>1, CutOffSubscriber
  <2>4. TypeOK'
    <3>1. /\ DOMAIN record' = Thread
          /\ \A u \in Thread : record'[u].step \in {"none", "due", "read"}
      BY <2>1, <1>t, OwesType
    <3>2. /\ sub' \in [Stream -> Subscriber]
          /\ \A s \in Stream : Len(sub'[s].queue) <= QueueSize
      BY <2>2, <2>3, <1>t DEF TypeOK
    <3> QED
      BY <2>1, <2>2, <3>1, <3>2, <1>t DEF TypeOK
  <2>5. EverySound'
    BY <2>1 DEF EverySound
  <2>6. Places'
    BY <2>1, <2>2, <2>3, <1>t DEF Places
  <2>7. RecordsInOrder'
    BY <2>1, <1>t, OwesInOrder
  <2> QED
    BY <2>4, <2>5, <2>6, <2>7 DEF IInv
<1>10. ASSUME NEW t \in Thread, ReadDepth(t) PROVE IInv'
  <2>1. /\ record[t].step = "due" /\ \A u \in Thread : record[u].step # "read"
        /\ record' = [record EXCEPT ![t] = [step |-> "read", depth |-> depth]]
        /\ UNCHANGED <<broker, shutdown, at, gauge, published>>
    BY <1>10 DEF ReadDepth
  <2>2. /\ record'[t].step = "read" /\ record'[t].depth = depth
        /\ \A u \in Thread \ {t} : record'[u] = record[u]
    BY <2>1, <1>t DEF TypeOK
  <2>3. TypeOK' /\ EverySound' /\ Places'
    BY <2>1, <2>2, <1>t DEF TypeOK, EverySound, Places, broker
  <2>4. RecordsInOrder'
    BY <2>1, <2>2, <1>t DEF RecordsInOrder, broker
  <2> QED
    BY <2>3, <2>4 DEF IInv
<1>11. ASSUME NEW t \in Thread, SetGauge(t) PROVE IInv'
  <2>1. /\ record[t].step = "read" /\ gauge' = record[t].depth
        /\ record' = [record EXCEPT ![t] = Recorded]
        /\ UNCHANGED <<broker, shutdown, at, published>>
    BY <1>11 DEF SetGauge
  <2>2. /\ record'[t].step = "none"
        /\ \A u \in Thread \ {t} : record'[u] = record[u] /\ record[u].step # "read"
    BY <2>1, <1>t DEF TypeOK, Recorded, RecordsInOrder
  <2>3. TypeOK' /\ EverySound' /\ Places'
    BY <2>1, <2>2, <1>t DEF TypeOK, EverySound, Places, broker
  <2>4. RecordsInOrder'
    BY <2>1, <2>2, <1>t DEF RecordsInOrder, broker
  <2> QED
    BY <2>3, <2>4 DEF IInv
<1>12. CASE UNCHANGED vars
  BY <1>12, <1>t DEF vars, IInv, TypeOK, EverySound, Places, RecordsInOrder, broker
<1> QED
  BY <1>1, <1>2, <1>3, <1>4, <1>5, <1>6, <1>7, <1>8, <1>9, <1>10, <1>11, <1>12
  DEF Next, Serve, NextEvent

(* The invariant, and with it every safety property of the broker but what *)
(* the depth counts.                                                       *)
THEOREM Invariance == Spec => []IInv
<1> QED
  BY InitIInv, NextIInv, PTL DEF Spec

(* Every variable keeps its type and no queue outgrows queue_size.         *)
THEOREM TypeCorrect == Spec => []TypeOK
<1>1. IInv => TypeOK
  BY DEF IInv
<1> QED
  BY <1>1, Invariance, PTL

(* No event is dropped without a resync marker to follow (publish,         *)
(* next_event).                                                            *)
THEOREM NoSilentGapHolds == Spec => []NoSilentGap
<1>1. IInv => NoSilentGap
  BY DEF IInv, EverySound, Sound, NoSilentGap
<1> QED
  BY <1>1, Invariance, PTL

(* Events come in order and the marker in the place of the first dropped   *)
(* (resync_remaining).                                                     *)
THEOREM MarkerInPlaceHolds == Spec => []MarkerInPlace
<1>1. IInv => MarkerInPlace
  BY DEF IInv, EverySound, Sound, MarkerInPlace
<1> QED
  BY <1>1, Invariance, PTL

(* No wake-up is lost between the check under the lock and the wait        *)
(* outside it (next_event, publish, unsubscribe, close).                   *)
THEOREM NoLostWakeUpHolds == Spec => []NoLostWakeUp
<1>1. IInv => NoLostWakeUp
  BY DEF IInv, EverySound, Places, Sound, NoLostWakeUp
<1> QED
  BY <1>1, Invariance, PTL

(* The gauge shows the depth when no thread has a record to make           *)
(* (_record_depth_metric).                                                 *)
THEOREM GaugeSettlesHolds == Spec => []GaugeSettles
<1>1. IInv => GaugeSettles
  BY DEF IInv, RecordsInOrder, GaugeSettles, Free
<1> QED
  BY <1>1, Invariance, PTL

-----------------------------------------------------------------------------
(* The depth counts the places that are taken in the subscribers' queues.  *)
Length(s) == Len(sub[s].queue)
Slots == UNION {{s} \X (1..Length(s)) : s \in subscribers}

LEMMA Lengths ==
  ASSUME TypeOK, NEW s \in Stream
  PROVE  Length(s) \in Nat /\ Length(s) <= QueueSize
BY Fields DEF TypeOK, Length

LEMMA SlotsFinite ==
  ASSUME TypeOK
  PROVE  IsFiniteSet(Slots) /\ Cardinality(Slots) \in Nat /\ Queued = Cardinality(Slots)
<1>1. IsFiniteSet(subscribers) /\ IsFiniteSet(1..QueueSize)
  BY FS_Subset, FS_Interval DEF TypeOK
<1>2. IsFiniteSet(subscribers \X (1..QueueSize))
  BY <1>1, FS_Product
<1>3. Slots \subseteq subscribers \X (1..QueueSize)
  <2>1. ASSUME NEW s \in subscribers PROVE 1..Length(s) \subseteq 1..QueueSize
    BY Lengths DEF TypeOK
  <2> QED BY <2>1 DEF Slots
<1>4. IsFiniteSet(Slots)
  BY <1>2, <1>3, FS_Subset
<1> QED BY <1>4, FS_CardinalityType DEF Queued, Slots, Length

\* A slot is a subscriber's, and below the length of its queue.
LEMMA SlotIn ==
  /\ \A x : x \in Slots <=> \E s \in subscribers : \E i \in 1..Length(s) : x = <<s, i>>
  /\ \A s, i : <<s, i>> \in Slots <=> s \in subscribers /\ i \in 1..Length(s)
BY DEF Slots

LEMMA SlotsOfOne ==
  ASSUME NEW s, NEW n \in Nat
  PROVE  IsFiniteSet({s} \X (1..n)) /\ Cardinality({s} \X (1..n)) = n
<1>1. IsFiniteSet({s}) /\ Cardinality({s}) = 1
  BY FS_Singleton
<1>2. IsFiniteSet(1..n) /\ Cardinality(1..n) = n
  BY FS_Interval
<1>3. IsFiniteSet({s} \X (1..n)) /\ Cardinality({s} \X (1..n)) = Cardinality({s}) * Cardinality(1..n)
  BY <1>1, <1>2, FS_Product
<1> QED BY <1>1, <1>2, <1>3

\* Most steps leave the lengths alone.
LEMMA LengthsStay ==
  ASSUME TypeOK, TypeOK', DepthCounts, UNCHANGED <<subscribers, depth>>,
         \A s \in subscribers : Length(s)' = Length(s)
  PROVE  DepthCounts'
<1>1. Slots' = Slots
  BY DEF Slots
<1>2. Queued' = Cardinality(Slots')
  BY DEF Queued, Slots, Length
<1> QED BY <1>1, <1>2, SlotsFinite DEF DepthCounts

\* An event is taken from a queue.
LEMMA OneTaken ==
  ASSUME TypeOK, TypeOK', DepthCounts, NEW s \in subscribers, Length(s) > 0,
         UNCHANGED subscribers, depth' = depth - 1, Length(s)' = Length(s) - 1,
         \A r \in subscribers \ {s} : Length(r)' = Length(r)
  PROVE  DepthCounts'
<1>1. \A r \in subscribers : Length(r) \in Nat
  BY Lengths DEF TypeOK
<1>2. <<s, Length(s)>> \in Slots
  BY <1>1, SlotIn
<1>3. Slots' = Slots \ {<<s, Length(s)>>}
  <2>1. ASSUME NEW r \in subscribers, NEW i
        PROVE  i \in 1..Length(r)' <=> i \in 1..Length(r) /\ <<r, i>> # <<s, Length(s)>>
    <3>1. CASE r = s
      BY <1>1, <3>1
    <3>2. CASE r # s
      BY <3>2
    <3> QED BY <3>1, <3>2
  <2>2. Slots' = UNION {{r} \X (1..Length(r)') : r \in subscribers}
    BY DEF Slots
  <2> QED BY <2>1, <2>2 DEF Slots
<1>4. Cardinality(Slots') = Cardinality(Slots) - 1
  BY <1>2, <1>3, SlotsFinite, FS_RemoveElement
<1>5. Queued' = Cardinality(Slots')
  BY DEF Queued, Slots, Length
<1> QED BY <1>4, <1>5, SlotsFinite DEF DepthCounts

\* A subscriber leaves, and its queue with it.
LEMMA OneLeaves ==
  ASSUME TypeOK, TypeOK', DepthCounts, NEW s \in subscribers,
         subscribers' = subscribers \ {s}, depth' = depth - Length(s),
         \A r \in subscribers \ {s} : Length(r)' = Length(r)
  PROVE  DepthCounts'
<1> DEFINE gone == {s} \X (1..Length(s))
<1>1. Length(s) \in Nat
  BY Lengths DEF TypeOK
<1>2. IsFiniteSet(gone) /\ Cardinality(gone) = Length(s)
  BY <1>1, SlotsOfOne
<1>3. Slots \cap gone = gone
  BY DEF Slots
<1>4. Slots' = Slots \ gone
  BY DEF Slots
<1>5. Cardinality(Slots') = Cardinality(Slots) - Length(s)
  <2> HIDE DEF gone
  <2>1. Cardinality(Slots \ gone) = Cardinality(Slots) - Cardinality(Slots \cap gone)
    BY SlotsFinite, FS_Difference
  <2> QED BY <1>2, <1>3, <1>4, <2>1
<1>6. Queued' = Cardinality(Slots')
  BY DEF Queued, Slots, Length
<1> QED BY <1>1, <1>5, <1>6, SlotsFinite DEF DepthCounts

\* An event is put into every queue that has room.
LEMMA OneEach ==
  ASSUME TypeOK, TypeOK', DepthCounts, NEW room \in SUBSET subscribers,
         UNCHANGED subscribers, depth' = depth + Cardinality(room),
         \A r \in subscribers : Length(r)' = Length(r) + (IF r \in room THEN 1 ELSE 0)
  PROVE  DepthCounts'
<1> DEFINE new == {<<r, Length(r) + 1>> : r \in room}
<1>1. \A r \in subscribers : Length(r) \in Nat
  BY Lengths DEF TypeOK
<1>2. IsFiniteSet(room) /\ Cardinality(room) \in Nat
  BY FS_Subset, FS_CardinalityType DEF TypeOK
<1>3. IsFiniteSet(new) /\ Cardinality(new) = Cardinality(room)
  <2> DEFINE f == [r \in room |-> <<r, Length(r) + 1>>]
  <2>1. f \in Bijection(room, new)
    BY DEF Bijection, Injection, Surjection, IsInjective
  <2>2. ExistsBijection(room, new)
    BY <2>1 DEF ExistsBijection
  <2> QED BY <1>2, <2>2, FS_Bijection
<1>4. Slots' = Slots \cup new
  <2>1. ASSUME NEW r \in subscribers, NEW i
        PROVE  i \in 1..Length(r)' <=> i \in 1..Length(r) \/ (r \in room /\ i = Length(r) + 1)
    BY <1>1
  <2>2. Slots' = UNION {{r} \X (1..Length(r)') : r \in subscribers}
    BY DEF Slots
  <2> QED BY <2>1, <2>2 DEF Slots
<1>5. Slots \cap new = {}
  BY <1>1, SlotIn
<1>6. Cardinality(Slots') = Cardinality(Slots) + Cardinality(room)
  <2> HIDE DEF new
  <2>1. Cardinality(Slots \cup new)
          = Cardinality(Slots) + Cardinality(new) - Cardinality(Slots \cap new)
    BY <1>2, <1>3, SlotsFinite, FS_Union
  <2>2. Cardinality(Slots \cap new) = 0
    BY <1>5, FS_EmptySet
  <2> QED BY <1>2, <1>3, <1>4, <2>1, <2>2, SlotsFinite
<1>7. Queued' = Cardinality(Slots')
  BY DEF Queued, Slots, Length
<1> QED BY <1>2, <1>6, <1>7, SlotsFinite DEF DepthCounts

LEMMA InitDepth == Init => DepthCounts
<1> SUFFICES ASSUME Init PROVE DepthCounts
  OBVIOUS
<1>1. Slots = {} /\ Queued = Cardinality(Slots)
  BY DEF Init, Slots, Queued, Length
<1> QED BY <1>1, FS_EmptySet DEF Init, DepthCounts

LEMMA NextDepth ==
  ASSUME IInv, IInv', DepthCounts, [Next]_vars
  PROVE  DepthCounts'
<1>t. TypeOK /\ TypeOK' /\ Places
  BY DEF IInv
<1>1. ASSUME NEW s \in Stream, Subscribe(s) PROVE DepthCounts'
  <2>1. /\ subscribers' = subscribers \cup {s} /\ UNCHANGED <<sub, depth>>
        /\ Length(s) = 0
    BY <1>1, <1>t, NewSubscriberSound DEF Subscribe, Places, Length
  <2>2. Slots' = Slots
    BY <2>1 DEF Slots, Length
  <2>3. Queued' = Cardinality(Slots')
    BY DEF Queued, Slots, Length
  <2> QED BY <1>t, <2>1, <2>2, <2>3, SlotsFinite DEF DepthCounts
<1>2. ASSUME NEW s \in Stream, NextMarker(s) \/ NextEmpty(s) PROVE DepthCounts'
  <2>1. PICK x : /\ sub' = [sub EXCEPT ![s] = x] /\ x.queue = sub[s].queue
                 /\ UNCHANGED <<subscribers, depth>>
    <3>1. sub[s] \in Subscriber
      BY <1>t DEF TypeOK
    <3>2. TakeMarker(sub[s]).queue = sub[s].queue /\ [sub[s] EXCEPT !.wake = FALSE].queue = sub[s].queue
      BY <3>1 DEF TakeMarker, Subscriber
    <3>3. CASE NextMarker(s)
      BY <3>2, <3>3 DEF NextMarker
    <3>4. CASE NextEmpty(s)
      <4>1. sub' = [sub EXCEPT ![s] = [sub[s] EXCEPT !.wake = FALSE]]
        BY <3>4, Zenon DEF NextEmpty
      <4> QED BY <3>2, <3>4, <4>1 DEF NextEmpty
    <3> QED BY <1>2, <3>3, <3>4
  <2>2. \A r \in subscribers : Length(r)' = Length(r)
    BY <1>t, <2>1 DEF TypeOK, Length
  <2> QED BY <1>t, <2>1, <2>2, LengthsStay
<1>3. ASSUME NEW s \in Stream, NextQueued(s) PROVE DepthCounts'
  <2>1. PICK x : x = TakeEvent(sub[s])
    OBVIOUS
  <2>2. /\ s \in subscribers /\ sub[s] \in Subscriber /\ sub[s].queue # <<>>
        /\ sub' = [sub EXCEPT ![s] = x] /\ UNCHANGED subscribers /\ depth' = depth - 1
    BY <1>3, <1>t, <2>1 DEF NextQueued, TypeOK
  <2>3. x.queue = Tail(sub[s].queue)
    BY <2>1, <2>2 DEF TakeEvent, Subscriber
  <2>4. Length(s) > 0 /\ Len(Tail(sub[s].queue)) = Length(s) - 1
    BY <2>2, Fields DEF Length
  <2>5. Length(s)' = Length(s) - 1 /\ \A r \in subscribers \ {s} : Length(r)' = Length(r)
    BY <1>t, <2>2, <2>3, <2>4 DEF TypeOK, Length
  <2> QED BY <1>t, <2>2, <2>4, <2>5, OneTaken
<1>4. ASSUME NEW s \in Stream, Unsubscribe(s) PROVE DepthCounts'
  <2>1. CASE s \in subscribers
    <3>1. PICK x : x = CutOff(sub[s])
      OBVIOUS
    <3>2. /\ sub' = [sub EXCEPT ![s] = x] /\ subscribers' = subscribers \ {s}
          /\ depth' = depth - Length(s)
      BY <1>4, <2>1, <3>1 DEF Unsubscribe, Length
    <3>3. \A r \in subscribers \ {s} : Length(r)' = Length(r)
      BY <1>t, <3>2 DEF TypeOK, Length
    <3> QED BY <1>t, <2>1, <3>2, <3>3, OneLeaves
  <2>2. CASE s \notin subscribers
    BY <1>4, <1>t, <2>2, LengthsStay DEF Unsubscribe, Length
  <2> QED BY <2>1, <2>2
<1>5. ASSUME NEW p \in Publisher, Publish(p) PROVE DepthCounts'
  <2>1. PICK room \in SUBSET subscribers : room = {s \in subscribers : Length(s) < QueueSize}
    OBVIOUS
  <2>2. /\ UNCHANGED subscribers /\ depth' = depth + Cardinality(room)
        /\ \A s \in subscribers : sub'[s] = Put(sub[s], published + 1)
    BY <1>5, <1>t, <2>1 DEF Publish, TypeOK, Length
  <2>3. ASSUME NEW s \in subscribers
        PROVE  Length(s)' = Length(s) + (IF s \in room THEN 1 ELSE 0)
    <3>1. sub[s] \in Subscriber /\ published + 1 \in Event
      <4>1. published \in 0..MaxEvents /\ published < MaxEvents
        BY <1>5, <1>t DEF Publish, TypeOK
      <4> QED BY <4>1, <1>t DEF TypeOK, Event
    <3>2. CASE s \in room
      <4>1. Put(sub[s], published + 1).queue = Append(sub[s].queue, published + 1)
        BY <2>1, <3>1, <3>2 DEF Put, Subscriber, Length
      <4>2. Len(Append(sub[s].queue, published + 1)) = Len(sub[s].queue) + 1
        BY <3>1, Fields
      <4> QED BY <2>2, <3>2, <4>1, <4>2 DEF Length
    <3>3. CASE s \notin room
      <4>1. Put(sub[s], published + 1).queue = sub[s].queue
        BY <2>1, <3>1, <3>3 DEF Put, Subscriber, Length
      <4>2. Len(sub[s].queue) \in Nat
        BY <3>1, Fields
      <4> QED BY <2>2, <3>3, <4>1, <4>2 DEF Length
    <3> QED BY <3>2, <3>3
  <2> QED BY <1>t, <2>2, <2>3, OneEach
<1>6. CASE Close
  <2>1. subscribers' = {} /\ depth' = depth - Queued
    BY <1>6 DEF Close
  <2>2. Slots' = {} /\ Queued' = Cardinality(Slots')
    BY <2>1 DEF Slots, Queued, Length
  <2> QED BY <1>t, <2>1, <2>2, SlotsFinite, FS_EmptySet DEF DepthCounts
<1>7. CASE UNCHANGED <<subscribers, sub, depth>>
  BY <1>t, <1>7, LengthsStay DEF Length
<1>8. ASSUME NEW s \in Stream,
             \/ TurnAway(s) \/ Greet(s) \/ Check(s) \/ Disconnected(s) \/ Wake(s) \/ TimeOut(s)
             \/ Write(s)
      PROVE  UNCHANGED <<subscribers, sub, depth>>
  BY <1>8 DEF TurnAway, Greet, Check, Disconnected, Wake, TimeOut, Write, broker
<1>9. Shutdown => UNCHANGED <<subscribers, sub, depth>>
  BY DEF Shutdown, broker
<1>10. ASSUME NEW t \in Thread, ReadDepth(t) \/ SetGauge(t)
       PROVE  UNCHANGED <<subscribers, sub, depth>>
  BY <1>10 DEF ReadDepth, SetGauge, broker
<1>11. UNCHANGED vars => UNCHANGED <<subscribers, sub, depth>>
  BY DEF vars, broker
<1> QED
  BY <1>1, <1>2, <1>3, <1>4, <1>5, <1>6, <1>7, <1>8, <1>9, <1>10, <1>11
  DEF Next, Serve, NextEvent

(* What publish, next_event, unsubscribe and close add to and take from    *)
(* _queue_depth is what they put into and take out of the subscribers'     *)
(* queues: an unsubscribe after close() takes nothing twice.               *)
THEOREM DepthCountsHolds == Spec => []DepthCounts
<1>1. IInv /\ DepthCounts /\ [Next]_vars => (IInv /\ DepthCounts)'
  BY NextIInv, NextDepth
<1> QED
  BY InitIInv, InitDepth, <1>1, PTL DEF Spec
=============================================================================
