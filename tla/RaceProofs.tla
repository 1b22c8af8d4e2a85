------------------------------ MODULE RaceProofs ------------------------------
(***************************************************************************)
(* Proofs that race loses, repeats and reorders nothing, and that its      *)
(* result is a merge of the lists as Merge promises it, for any number of  *)
(* lists of any lengths and any capacity of the channel.                   *)
(***************************************************************************)
EXTENDS Race, SequenceTheorems, TLAPS

(* What is received leaves the channel and nothing else changes: all that  *)
(* has been sent stays as it is.                                           *)
LEMMA ReceivingKeepsFlow ==
    ASSUME NEW S, NEW r \in Seq(S), NEW c \in Seq(S), c # << >>
    PROVE  /\ Append(r, Head(c)) \in Seq(S)
           /\ Tail(c) \in Seq(S)
           /\ Append(r, Head(c)) \o Tail(c) = r \o c
<1> DEFINE a == Append(r, Head(c))
<1>1. /\ Head(c) \in S /\ Tail(c) \in Seq(S) /\ Len(Tail(c)) = Len(c) - 1
      /\ \A k \in 1 .. Len(Tail(c)) : Tail(c)[k] = c[k + 1]
      /\ Head(c) = c[1]
  BY HeadTailProperties
<1>2. Len(r) \in Nat /\ Len(c) \in Nat \ {0}
  BY LenProperties, EmptySeq
<1>3. /\ a \in Seq(S) /\ Len(a) = Len(r) + 1
      /\ \A k \in 1 .. Len(r) : a[k] = r[k]
      /\ a[Len(r) + 1] = c[1]
  BY <1>1, AppendProperties
<1>4. /\ a \o Tail(c) \in Seq(S)
      /\ Len(a \o Tail(c)) = Len(r) + Len(c)
      /\ \A k \in 1 .. Len(r) + Len(c) :
            (a \o Tail(c))[k] = IF k <= Len(r) + 1 THEN a[k] ELSE Tail(c)[k - (Len(r) + 1)]
  BY <1>1, <1>2, <1>3, ConcatProperties
<1>5. /\ r \o c \in Seq(S)
      /\ Len(r \o c) = Len(r) + Len(c)
      /\ \A k \in 1 .. Len(r) + Len(c) :
            (r \o c)[k] = IF k <= Len(r) THEN r[k] ELSE c[k - Len(r)]
  BY ConcatProperties
<1>6. ASSUME NEW k \in 1 .. Len(r) + Len(c)
      PROVE  (a \o Tail(c))[k] = (r \o c)[k]
  <2>1. CASE k <= Len(r)
    BY <1>2, <1>3, <1>4, <1>5, <2>1
  <2>2. CASE k = Len(r) + 1
    BY <1>2, <1>3, <1>4, <1>5, <2>2
  <2>3. CASE k > Len(r) + 1
    <3>1. k - (Len(r) + 1) \in 1 .. Len(Tail(c))
      BY <1>1, <1>2, <2>3
    <3>2. Tail(c)[k - (Len(r) + 1)] = c[k - Len(r)]
      BY <1>1, <1>2, <3>1
    <3> QED
      BY <1>2, <1>4, <1>5, <2>3, <3>2
  <2> QED
    BY <1>2, <2>1, <2>2, <2>3
<1> QED
  BY <1>1, <1>3, <1>4, <1>5, <1>6, SeqEqual

(* What is sent comes after all that has been.                             *)
LEMMA SendingExtendsFlow ==
    ASSUME NEW S, NEW r \in Seq(S), NEW c \in Seq(S), NEW e \in S
    PROVE  /\ Append(c, e) \in Seq(S)
           /\ r \o Append(c, e) \in Seq(S)
           /\ Len(r \o Append(c, e)) = Len(r \o c) + 1
           /\ Len(r \o c) \in Nat
           /\ \A k \in 1 .. Len(r \o c) : (r \o Append(c, e))[k] = (r \o c)[k]
           /\ (r \o Append(c, e))[Len(r \o c) + 1] = e
<1>1. r \o c \in Seq(S)
  BY ConcatProperties
<1>2. Append(c, e) = c \o <<e>> /\ <<e>> \in Seq(S)
  BY AppendIsConcat
<1>3. Append(c, e) \in Seq(S)
  BY AppendProperties
<1>4. r \o Append(c, e) = (r \o c) \o <<e>>
  BY <1>2, ConcatAssociative
<1>5. (r \o c) \o <<e>> = Append(r \o c, e)
  BY <1>1, AppendIsConcat
<1>6. /\ Append(r \o c, e) \in Seq(S)
      /\ Len(Append(r \o c, e)) = Len(r \o c) + 1
      /\ \A k \in 1 .. Len(r \o c) : Append(r \o c, e)[k] = (r \o c)[k]
      /\ Append(r \o c, e)[Len(r \o c) + 1] = e
  BY <1>1, AppendProperties
<1>7. Len(r \o c) \in Nat
  BY <1>1, LenProperties
<1> QED
  BY <1>3, <1>4, <1>5, <1>6, <1>7

(* The positions of all that has been sent.                                *)
LEMMA FlowIsSequence ==
    ASSUME TypeOK
    PROVE  /\ Flow \in Seq(Elements)
           /\ Len(Flow) \in Nat
           /\ DOMAIN Flow = 1 .. Len(Flow)
<1>1. Flow \in Seq(Elements)
  BY ConcatProperties DEF Flow, TypeOK
<1> QED
  BY <1>1, LenProperties

----------------------------------------------------------------------------

(* No producer has been spawned and nothing been evaluated.                *)
LEMMA InitInductive ==
    ASSUME Init
    PROVE  Inductive
<1>1. TypeOK
  <2>1. << >> \in Seq(Elements)
    BY EmptySeq
  <2>2. NumLists \in Nat /\ \A i \in Lists : Length[i] \in Nat
    BY RaceAssumption
  <2>3. \A i \in Lists : next[i] = 0 /\ pc[i] = "unborn"
    BY DEF Init
  <2>4. \A i \in Lists : next[i] <= Length[i] /\ (pc[i] = "send" => next[i] > 0)
    BY <2>2, <2>3
  <2>5. spawned \in 0 .. NumLists /\ next \in [Lists -> Nat]
    BY <2>2 DEF Init
  <2> QED
    BY <2>1, <2>4, <2>5, Zenon DEF Init, TypeOK
<1>2. Flow = << >> /\ Len(Flow) = 0
  <2>1. << >> \in Seq(Elements)
    BY EmptySeq
  <2> QED
    BY <2>1, ConcatEmptySeq, EmptySeq DEF Init, Flow
<1>3. NothingIsLost
  <2>1. DOMAIN Flow = {}
    BY <1>1, <1>2, FlowIsSequence
  <2>2. \A i \in Lists : 1 .. Sent(i) = {}
    BY DEF Init, Sent
  <2> QED
    BY <2>1, <2>2 DEF NothingIsLost
<1> QED
  BY <1>1, <1>3, RaceAssumption DEF Init, Inductive, ProducersTellProgress, ResultIsComplete, Lists

(* Whatever keeps what has been sent, and from whom, keeps NothingIsLost.  *)
LEMMA QuietKeepsFlow ==
    ASSUME NothingIsLost, Flow' = Flow, \A i \in Lists : Sent(i)' = Sent(i),
           ReceiverIsOpen' => ReceiverIsOpen
    PROVE  NothingIsLost'
BY DEF NothingIsLost, Element

LEMMA SpawnProducerPreserves ==
    ASSUME Inductive, SpawnProducer
    PROVE  Inductive'
<1> USE DEF Inductive
<1>1. spawned \in Nat /\ NumLists \in Nat /\ spawned + 1 \in Lists /\ pc[spawned + 1] = "unborn"
  BY RaceAssumption DEF SpawnProducer, TypeOK, ProducersTellProgress, Lists
<1>2. TypeOK'
  BY <1>1 DEF SpawnProducer, Goto, TypeOK
<1>3. ProducersTellProgress'
  BY <1>1, RaceAssumption DEF SpawnProducer, Goto, TypeOK, ProducersTellProgress, Lists
<1>4. NothingIsLost'
  <2>1. \A i \in Lists : Sent(i)' = Sent(i)
    BY <1>1 DEF SpawnProducer, Goto, TypeOK, Sent
  <2> QED
    BY <2>1, QuietKeepsFlow DEF SpawnProducer, Flow, ReceiverIsOpen
<1>5. ResultIsComplete'
  BY DEF SpawnProducer, ResultIsComplete, SendersAreGone
<1> QED
  BY <1>2, <1>3, <1>4, <1>5

LEMMA EndOuterPreserves ==
    ASSUME Inductive, EndOuter
    PROVE  Inductive'
<1> USE DEF Inductive
<1>1. TypeOK' /\ ProducersTellProgress' /\ ResultIsComplete'
  BY DEF EndOuter, TypeOK, ProducersTellProgress, ResultIsComplete, SendersAreGone
<1>2. NothingIsLost'
  BY QuietKeepsFlow DEF EndOuter, Flow, Sent, ReceiverIsOpen
<1> QED
  BY <1>1, <1>2

LEMMA EvaluatePreserves ==
    ASSUME Inductive, NEW i \in Lists, Evaluate(i)
    PROVE  Inductive'
<1> USE DEF Inductive
<1>1. next[i] \in Nat /\ Length[i] \in Nat
  BY RaceAssumption DEF TypeOK
<1>2. TypeOK'
  BY <1>1 DEF Evaluate, Goto, TypeOK
<1>3. ProducersTellProgress'
  BY DEF Evaluate, Goto, TypeOK, ProducersTellProgress
<1>4. NothingIsLost'
  <2>1. \A j \in Lists : Sent(j)' = Sent(j)
    BY <1>1 DEF Evaluate, Goto, TypeOK, Sent
  <2> QED
    BY <2>1, QuietKeepsFlow DEF Evaluate, Flow, ReceiverIsOpen
<1>5. ResultIsComplete'
  BY DEF Evaluate, ResultIsComplete, SendersAreGone
<1> QED
  BY <1>2, <1>3, <1>4, <1>5

LEMMA EndProducerPreserves ==
    ASSUME Inductive, NEW i \in Lists, EndProducer(i)
    PROVE  Inductive'
<1> USE DEF Inductive
<1>1. TypeOK' /\ ProducersTellProgress'
  BY DEF EndProducer, Goto, TypeOK, ProducersTellProgress
<1>2. NothingIsLost'
  <2>1. \A j \in Lists : Sent(j)' = Sent(j)
    BY DEF EndProducer, Goto, TypeOK, Sent
  <2> QED
    BY <2>1, QuietKeepsFlow DEF EndProducer, Flow, ReceiverIsOpen
<1>3. ResultIsComplete'
  BY DEF EndProducer, ResultIsComplete, SendersAreGone
<1> QED
  BY <1>1, <1>2, <1>3

(* The element goes behind all others of its list, which are all there.    *)
LEMMA SendPreserves ==
    ASSUME Inductive, NEW i \in Lists, Send(i)
    PROVE  Inductive'
<1> USE DEF Inductive
<1> DEFINE e == Element(i, next[i])
           m == Len(Flow)
<1>1. /\ pc[i] = "send" /\ next[i] \in Nat \ {0} /\ Length[i] \in Nat
      /\ e \in Elements /\ e.list = i /\ e.index = next[i]
      /\ channel' = Append(channel, e)
      /\ pc' = [pc EXCEPT ![i] = "evaluate"]
      /\ UNCHANGED <<spawned, outerEnded, next, received, consumer>>
  <2>1. /\ pc[i] = "send" /\ e = [list |-> i, index |-> next[i]]
        /\ channel' = Append(channel, e)
        /\ pc' = [pc EXCEPT ![i] = "evaluate"]
        /\ UNCHANGED <<spawned, outerEnded, next, received, consumer>>
    BY DEF Send, Goto, Element
  <2>2. next[i] > 0 /\ next[i] \in Nat /\ Length[i] \in Nat
    BY <2>1, RaceAssumption, Zenon DEF TypeOK
  <2> QED
    BY <2>1, <2>2 DEF Elements
<1>2. /\ channel' \in Seq(Elements)
      /\ Flow' \in Seq(Elements)
      /\ Len(Flow') = m + 1
      /\ m \in Nat
      /\ \A k \in 1 .. m : Flow'[k] = Flow[k]
      /\ Flow'[m + 1] = e
  BY <1>1, SendingExtendsFlow DEF Flow, TypeOK
<1>3. /\ DOMAIN Flow = 1 .. m
      /\ DOMAIN Flow' = 1 .. m + 1
  BY <1>2, FlowIsSequence, LenProperties
<1>4. /\ Sent(i) = next[i] - 1 /\ Sent(i)' = next[i]
      /\ \A j \in Lists : j # i => Sent(j)' = Sent(j)
      /\ \A j \in Lists : Sent(j) \in Nat
  BY <1>1 DEF TypeOK, Sent
<1>5. TypeOK' /\ ProducersTellProgress' /\ ResultIsComplete'
  BY <1>1, <1>2 DEF TypeOK, ProducersTellProgress, ResultIsComplete, SendersAreGone
<1>6. NothingIsLost'
  <2> SUFFICES ASSUME ReceiverIsOpen PROVE NothingIsLost'
    BY <1>1 DEF NothingIsLost, ReceiverIsOpen
  <2> HIDE DEF e, m
  <2>1. ASSUME NEW j \in Lists, NEW n \in 1 .. Sent(j)'
        PROVE  \E k \in DOMAIN Flow' : Flow'[k] = Element(j, n)
    <3>1. CASE j = i /\ n = next[i]
      BY <1>2, <1>3, <3>1 DEF e
    <3>2. CASE ~(j = i /\ n = next[i])
      <4>1. n \in 1 .. Sent(j)
        BY <1>1, <1>4, <3>2
      <4>2. PICK k \in DOMAIN Flow : Flow[k] = Element(j, n)
        BY <4>1 DEF NothingIsLost
      <4> QED
        BY <1>2, <1>3, <4>2
    <3> QED
      BY <3>1, <3>2
  <2>2. ASSUME NEW k \in DOMAIN Flow'
        PROVE  \E j \in Lists : \E n \in 1 .. Sent(j)' : Flow'[k] = Element(j, n)
    <3>1. CASE k = m + 1
      BY <1>1, <1>2, <1>4, <3>1 DEF e
    <3>2. CASE k \in 1 .. m
      <4>1. PICK j \in Lists : \E n \in 1 .. Sent(j) : Flow[k] = Element(j, n)
        BY <1>3, <3>2 DEF NothingIsLost
      <4>2. PICK n \in 1 .. Sent(j) : Flow[k] = Element(j, n)
        BY <4>1
      <4>3. n \in 1 .. Sent(j)'
        BY <1>1, <1>4
      <4> QED
        BY <1>2, <3>2, <4>2, <4>3
    <3> QED
      BY <1>2, <1>3, <3>1, <3>2
  <2>3. ASSUME NEW k \in DOMAIN Flow', NEW l \in DOMAIN Flow', k < l,
               Flow'[k].list = Flow'[l].list
        PROVE  Flow'[k].index < Flow'[l].index
    <3>1. k \in 1 .. m
      BY <1>2, <1>3, <2>3
    <3>2. CASE l \in 1 .. m
      BY <1>2, <1>3, <2>3, <3>1, <3>2 DEF NothingIsLost
    <3>3. CASE l = m + 1
      <4>1. PICK j \in Lists : \E n \in 1 .. Sent(j) : Flow[k] = Element(j, n)
        BY <1>3, <3>1 DEF NothingIsLost
      <4>2. PICK n \in 1 .. Sent(j) : Flow[k] = Element(j, n)
        BY <4>1
      <4>3. j = i
        BY <1>1, <1>2, <2>3, <3>1, <3>3, <4>2 DEF Element
      <4> QED
        BY <1>1, <1>2, <1>4, <3>1, <3>3, <4>2, <4>3 DEF Element
    <3> QED
      BY <1>2, <1>3, <3>2, <3>3
  <2> QED
    BY <2>1, <2>2, <2>3 DEF NothingIsLost
<1> QED
  BY <1>5, <1>6

LEMMA SendFailsPreserves ==
    ASSUME Inductive, NEW i \in Lists, SendFails(i)
    PROVE  Inductive'
<1> USE DEF Inductive
<1>1. TypeOK' /\ ProducersTellProgress' /\ ResultIsComplete'
  BY DEF SendFails, Goto, TypeOK, ProducersTellProgress, ResultIsComplete, SendersAreGone,
     ReceiverIsOpen
<1>2. NothingIsLost'
  BY DEF SendFails, NothingIsLost, ReceiverIsOpen
<1> QED
  BY <1>1, <1>2

LEMMA ReceivePreserves ==
    ASSUME Inductive, Receive
    PROVE  Inductive'
<1> USE DEF Inductive
<1>1. /\ channel' \in Seq(Elements)
      /\ received' \in Seq(Elements)
      /\ Flow' = Flow
  BY ReceivingKeepsFlow DEF Receive, TypeOK, Flow
<1>2. TypeOK' /\ ProducersTellProgress' /\ ResultIsComplete'
  BY <1>1 DEF Receive, TypeOK, ProducersTellProgress, ResultIsComplete
<1>3. NothingIsLost'
  BY <1>1, QuietKeepsFlow DEF Receive, Sent, ReceiverIsOpen
<1> QED
  BY <1>2, <1>3

(* Asking, the end of the result and its drop send nothing.                *)
LEMMA ConsumerPreserves ==
    ASSUME Inductive, Ask \/ ReceiveNone \/ DropResult
    PROVE  Inductive'
<1> USE DEF Inductive
<1>1. TypeOK'
  BY EmptySeq DEF Ask, ReceiveNone, DropResult, TypeOK
<1>2. ProducersTellProgress' /\ ResultIsComplete'
  BY DEF Ask, ReceiveNone, DropResult, ProducersTellProgress, ResultIsComplete, SendersAreGone
<1>3. NothingIsLost'
  <2>1. CASE Ask \/ ReceiveNone
    BY <2>1, QuietKeepsFlow DEF Ask, ReceiveNone, Flow, Sent, ReceiverIsOpen
  <2>2. CASE DropResult
    BY <2>2 DEF DropResult, NothingIsLost, ReceiverIsOpen
  <2> QED
    BY <2>1, <2>2
<1> QED
  BY <1>1, <1>2, <1>3

LEMMA NextInductive ==
    ASSUME Inductive, [Next]_vars
    PROVE  Inductive'
<1>1. CASE UNCHANGED vars
  <2>1. TypeOK' /\ ProducersTellProgress' /\ ResultIsComplete'
    BY <1>1 DEF vars, Inductive, TypeOK, ProducersTellProgress, ResultIsComplete, SendersAreGone
  <2>2. NothingIsLost'
    BY <1>1, QuietKeepsFlow DEF vars, Inductive, Flow, Sent, ReceiverIsOpen
  <2> QED
    BY <2>1, <2>2 DEF Inductive
<1>2. CASE OuterStep
  BY <1>2, SpawnProducerPreserves, EndOuterPreserves DEF OuterStep
<1>3. CASE \E i \in Lists : ProducerStep(i)
  BY <1>3, EvaluatePreserves, EndProducerPreserves, SendPreserves, SendFailsPreserves
     DEF ProducerStep
<1>4. CASE Receive
  BY <1>4, ReceivePreserves
<1>5. CASE Ask \/ ReceiveNone \/ DropResult
  BY <1>5, ConsumerPreserves
<1> QED
  BY <1>1, <1>2, <1>3, <1>4, <1>5 DEF Next

(* Producers that are there are those that were spawned, those that ended  *)
(* have sent their lists, and nothing is lost.                             *)
THEOREM InductiveInvariant == Spec => []Inductive
<1>1. Init => Inductive
  BY InitInductive
<1>2. Inductive /\ [Next]_vars => Inductive'
  BY NextInductive
<1> QED
  BY <1>1, <1>2, PTL DEF Spec

(* Between the producers and the result nothing is lost, made up, repeated *)
(* or reordered within a list (_pen_race in concurrency.rs).               *)
THEOREM RaceLosesNothing == Spec => []NothingIsLost
<1>1. Inductive => NothingIsLost
  BY DEF Inductive
<1> QED
  BY <1>1, InductiveInvariant, PTL

----------------------------------------------------------------------------

(* What the result has of a list is what has been sent of it, but for what *)
(* is still in the channel.                                                *)
LEMMA ReceivedComesFirst ==
    ASSUME Inductive, ReceiverIsOpen
    PROVE  /\ DOMAIN received = 1 .. Len(received)
           /\ Len(received) \in Nat /\ Len(channel) \in Nat
           /\ Len(Flow) = Len(received) + Len(channel)
           /\ \A k \in 1 .. Len(received) : Flow[k] = received[k]
           /\ \A k \in 1 .. Len(channel) : Flow[Len(received) + k] = channel[k]
<1>1. received \in Seq(Elements) /\ channel \in Seq(Elements)
  BY DEF Inductive, TypeOK
<1>2. Len(received) \in Nat /\ Len(channel) \in Nat /\ DOMAIN received = 1 .. Len(received)
  BY <1>1, LenProperties
<1>3. /\ Len(Flow) = Len(received) + Len(channel)
      /\ \A k \in 1 .. Len(received) + Len(channel) :
            Flow[k] = IF k <= Len(received) THEN received[k] ELSE channel[k - Len(received)]
  BY <1>1, ConcatProperties DEF Flow
<1> QED
  BY <1>2, <1>3

(* What is received next is the first element of its list that the result  *)
(* does not have.                                                          *)
LEMMA ReceiveDelivers ==
    ASSUME Inductive, Receive
    PROVE  M!Deliver
<1> DEFINE r == Len(received)
           e == Head(channel)
<1>1. ReceiverIsOpen /\ channel # << >> /\ received' = Append(received, e)
  BY DEF Receive, ReceiverIsOpen
<1>2. TypeOK /\ NothingIsLost
  BY DEF Inductive
<1>3. /\ DOMAIN received = 1 .. r /\ r \in Nat /\ Len(channel) \in Nat \ {0}
      /\ Len(Flow) = r + Len(channel) /\ DOMAIN Flow = 1 .. Len(Flow)
      /\ \A k \in 1 .. r : Flow[k] = received[k]
      /\ Flow[r + 1] = e
  <2>1. Len(channel) # 0 /\ e = channel[1]
    BY <1>1, <1>2, EmptySeq, HeadTailProperties DEF TypeOK
  <2> QED
    BY <1>1, <1>2, <2>1, ReceivedComesFirst, FlowIsSequence
<1>4. PICK i \in Lists : \E n \in 1 .. Sent(i) : e = Element(i, n)
  BY <1>1, <1>2, <1>3 DEF NothingIsLost
<1>5. PICK n \in 1 .. Sent(i) : e = Element(i, n)
  BY <1>4
<1>6. Sent(i) \in Nat /\ Length[i] \in Nat /\ Sent(i) <= Length[i]
  BY <1>2, RaceAssumption DEF TypeOK, Sent
<1>7. n \in 1 .. Length[i]
  BY <1>6
<1>8. ASSUME NEW m \in 1 .. Length[i]
      PROVE  M!Has(i, m) <=> m < n
  <2>1. ASSUME M!Has(i, m) PROVE m < n
    <3>1. PICK k \in 1 .. r : received[k] = Element(i, m)
      BY <1>3, <2>1 DEF M!Has, M!Element, Element
    <3> QED
      BY <1>1, <1>2, <1>3, <1>5, <3>1 DEF NothingIsLost, Element
  <2>2. ASSUME m < n PROVE M!Has(i, m)
    <3>1. m \in 1 .. Sent(i)
      BY <1>6, <2>2
    <3>2. PICK k \in DOMAIN Flow : Flow[k] = Element(i, m)
      BY <1>1, <1>2, <3>1, Zenon DEF NothingIsLost
    <3>3. k < r + 1
      <4>1. Flow[r + 1].list = Flow[k].list /\ Flow[k].index < Flow[r + 1].index
        BY <1>3, <1>5, <2>2, <3>2 DEF Element
      <4>2. k # r + 1
        BY <1>5, <1>6, <4>1, <1>3 DEF Element
      <4>3. ~(r + 1 < k)
        <5> SUFFICES ASSUME r + 1 < k PROVE FALSE
          OBVIOUS
        <5>1. r + 1 \in DOMAIN Flow
          BY <1>3
        <5>2. Flow[r + 1].index < Flow[k].index
          BY <1>1, <1>2, <3>2, <4>1, <5>1, Zenon DEF NothingIsLost
        <5>3. Flow[r + 1].index = n /\ Flow[k].index = m
          BY <1>3, <1>5, <3>2 DEF Element
        <5> QED
          BY <1>6, <2>2, <5>2, <5>3
      <4> QED
        BY <1>3, <4>2, <4>3
    <3> QED
      BY <1>3, <3>2, <3>3 DEF M!Has, M!Element, Element
  <2> QED
    BY <2>1, <2>2
<1> QED
  BY <1>1, <1>5, <1>7, <1>8 DEF Receive, M!Deliver, M!Element, Element

(* When nobody can send any more and the channel is empty, the result has  *)
(* all that there is.                                                      *)
LEMMA NoneIsTheEnd ==
    ASSUME Inductive, ReceiveNone
    PROVE  M!End
<1>1. /\ ReceiverIsOpen /\ channel = << >> /\ outerEnded /\ consumer = "asked"
      /\ \A i \in Lists : pc[i] \in {"unborn", "ended"}
      /\ consumer' = "ended" /\ received' = received
  BY DEF ReceiveNone, ReceiverIsOpen, SendersAreGone
<1>2. ASSUME NEW i \in Lists, NEW n \in 1 .. Length[i]
      PROVE  M!Has(i, n)
  <2>1. pc[i] = "ended" /\ next[i] = Length[i]
    BY <1>1, RaceAssumption DEF Inductive, TypeOK, ProducersTellProgress, Lists
  <2>2. PICK k \in DOMAIN Flow : Flow[k] = Element(i, n)
    BY <1>1, <2>1 DEF Inductive, NothingIsLost, Sent
  <2>3. Flow = received
    BY <1>1, ConcatEmptySeq DEF Inductive, TypeOK, Flow
  <2> QED
    BY <2>2, <2>3 DEF M!Has, M!Element, Element
<1> QED
  BY <1>1, <1>2 DEF M!End

(* The safety half of ImplementsMerge: the result of race starts empty and *)
(* grows as Merge allows it, by the next element of some list, and it ends *)
(* when it has them all, however many lists there are and however small    *)
(* the channel is.                                                         *)
THEOREM RaceIsMerge == Spec => M!MergeInit /\ [][M!MergeNext]_M!mergeVars
<1>1. Init => M!MergeInit
  BY DEF Init, M!MergeInit
<1>2. Inductive /\ [Next]_vars => [M!MergeNext]_M!mergeVars
  <2> SUFFICES ASSUME Inductive, [Next]_vars
               PROVE  M!MergeNext \/ UNCHANGED M!mergeVars
    OBVIOUS
  <2>1. CASE UNCHANGED vars \/ OuterStep \/ \E i \in Lists : ProducerStep(i)
    BY <2>1 DEF vars, OuterStep, SpawnProducer, EndOuter, ProducerStep, Evaluate, EndProducer,
       Send, SendFails, M!mergeVars
  <2>2. CASE Ask
    BY <2>2 DEF Ask, M!Ask, M!MergeNext
  <2>3. CASE Receive
    BY <2>3, ReceiveDelivers DEF M!MergeNext
  <2>4. CASE ReceiveNone
    BY <2>4, NoneIsTheEnd DEF M!MergeNext
  <2>5. CASE DropResult
    BY <2>5 DEF DropResult, M!Drop, M!MergeNext
  <2> QED
    BY <2>1, <2>2, <2>3, <2>4, <2>5 DEF Next
<1> QED
  BY <1>1, <1>2, InductiveInvariant, PTL DEF Spec

===============================================================================
