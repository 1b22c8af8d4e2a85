-------------------------------- MODULE Race --------------------------------
(***************************************************************************)
(* The race function of the os package: _pen_race in                       *)
(* packages/os/ffi/application/src/concurrency.rs.                         *)
(*                                                                         *)
(* A task goes through the outer list and spawns a producer for each list  *)
(* in it.  A producer evaluates the elements of its list one by one and    *)
(* sends them to a bounded channel.  The result is a lazy list, whose next *)
(* element is received from the channel when somebody asks for it.         *)
(***************************************************************************)
EXTENDS Naturals, Sequences

CONSTANTS NumLists,   \* the lists are 1..NumLists, as they are in the outer list
          Length,     \* the length of each list
          Capacity    \* of the channel: PARALLELISM_MULTIPLIER times the CPUs

Lists == 1..NumLists

ASSUME RaceAssumption ==
    /\ NumLists \in Nat
    /\ Length \in [Lists -> Nat]
    /\ Capacity \in Nat \ {0}

VARIABLES
    spawned,      \* how many producers have been spawned
    outerEnded,   \* whether the task that spawns them has ended
    pc,           \* pc[i]: what the producer of list i does
    next,         \* next[i]: how many elements of list i it has evaluated
    channel,      \* elements sent and not received
    received,     \* the elements of the result so far
    consumer      \* what the one who has the result does

vars == <<spawned, outerEnded, pc, next, channel, received, consumer>>

Element(i, n) == [list |-> i, index |-> n]

Init ==
    /\ spawned = 0
    /\ outerEnded = FALSE
    /\ pc = [i \in Lists |-> "unborn"]
    /\ next = [i \in Lists |-> 0]
    /\ channel = << >>
    /\ received = << >>
    /\ consumer = "idle"

----------------------------------------------------------------------------

ReceiverIsOpen == consumer # "dropped"

(* The channel is closed for the receiver once every sender is dropped:    *)
(* that of the outer task, and the clone of each producer.                 *)
MutantSendersAreGone == \A i \in Lists : pc[i] \in {"unborn", "ended"}
SendersAreGone == outerEnded /\ \A i \in Lists : pc[i] \in {"unborn", "ended"}

Goto(i, step) == pc' = [pc EXCEPT ![i] = step]

SpawnProducer ==
    /\ ~outerEnded
    /\ spawned < NumLists
    /\ spawned' = spawned + 1
    /\ Goto(spawned + 1, "evaluate")
    /\ UNCHANGED <<outerEnded, next, channel, received, consumer>>

EndOuter ==
    /\ ~outerEnded
    /\ spawned = NumLists
    /\ outerEnded' = TRUE
    /\ UNCHANGED <<spawned, pc, next, channel, received, consumer>>

(* list.next().await: the first and the rest of the list, and the element. *)
Evaluate(i) ==
    /\ pc[i] = "evaluate"
    /\ next[i] < Length[i]
    /\ next' = [next EXCEPT ![i] = @ + 1]
    /\ Goto(i, "send")
    /\ UNCHANGED <<spawned, outerEnded, channel, received, consumer>>

EndProducer(i) ==
    /\ pc[i] = "evaluate"
    /\ next[i] = Length[i]
    /\ Goto(i, "ended")
    /\ UNCHANGED <<spawned, outerEnded, next, channel, received, consumer>>

(* send waits for room in the channel.                                     *)
Send(i) ==
    /\ pc[i] = "send"
    /\ ReceiverIsOpen
    /\ Len(channel) < Capacity
    /\ channel' = Append(channel, Element(i, next[i]))
    /\ Goto(i, "evaluate")
    /\ UNCHANGED <<spawned, outerEnded, next, received, consumer>>

(* Once the result is dropped, send fails, and the error is ignored: the   *)
(* producer goes on to the end of its list.                                *)
MutantSendFails(i) ==
    /\ pc[i] = "send"
    /\ ~ReceiverIsOpen
    /\ UNCHANGED vars

SendFails(i) ==
    /\ pc[i] = "send"
    /\ ~ReceiverIsOpen
    /\ Goto(i, "evaluate")
    /\ UNCHANGED <<spawned, outerEnded, next, channel, received, consumer>>

(* Somebody evaluates the rest of the result.                              *)
Ask ==
    /\ consumer = "idle"
    /\ consumer' = "asked"
    /\ UNCHANGED <<spawned, outerEnded, pc, next, channel, received>>

MutantReceive ==
    /\ consumer = "asked"
    /\ channel # << >>
    /\ channel' = SubSeq(channel, 1, Len(channel) - 1)
    /\ received' = Append(received, channel[Len(channel)])
    /\ consumer' = "idle"
    /\ UNCHANGED <<spawned, outerEnded, pc, next>>

Receive ==
    /\ consumer = "asked"
    /\ channel # << >>
    /\ channel' = Tail(channel)
    /\ received' = Append(received, Head(channel))
    /\ consumer' = "idle"
    /\ UNCHANGED <<spawned, outerEnded, pc, next>>

ReceiveNone ==
    /\ consumer = "asked"
    /\ channel = << >>
    /\ SendersAreGone
    /\ consumer' = "ended"
    /\ UNCHANGED <<spawned, outerEnded, pc, next, channel, received>>

(* The rest of the result is dropped unevaluated, and the receiver with it. *)
DropResult ==
    /\ consumer = "idle"
    /\ consumer' = "dropped"
    /\ channel' = << >>
    /\ UNCHANGED <<spawned, outerEnded, pc, next, received>>

ProducerStep(i) == Evaluate(i) \/ EndProducer(i) \/ Send(i) \/ SendFails(i)

OuterStep == SpawnProducer \/ EndOuter

Next ==
    \/ OuterStep
    \/ \E i \in Lists : ProducerStep(i)
    \/ Ask \/ Receive \/ ReceiveNone \/ DropResult

(* Tasks that can go on do, and so does the receiver.  Nobody has to ask   *)
(* for the rest of the result, or to drop it.                              *)
Spec ==
    /\ Init /\ [][Next]_vars
    /\ WF_vars(OuterStep)
    /\ \A i \in Lists : WF_vars(ProducerStep(i))
    /\ WF_vars(Receive \/ ReceiveNone)

----------------------------------------------------------------------------

(* All that has been sent, in the order sent, while nothing is dropped.    *)
Flow == received \o channel

(* How many elements of list i have been sent.                             *)
Sent(i) == IF pc[i] = "send" THEN next[i] - 1 ELSE next[i]

(* Between a producer and the result nothing is lost, made up, repeated or *)
(* reordered within a list, however the tasks interleave and however full  *)
(* the channel is.                                                         *)
NothingIsLost ==
    ReceiverIsOpen =>
        /\ \A i \in Lists : \A n \in 1..Sent(i) :
              \E k \in DOMAIN Flow : Flow[k] = Element(i, n)
        /\ \A k \in DOMAIN Flow :
              \E i \in Lists : \E n \in 1..Sent(i) : Flow[k] = Element(i, n)
        /\ \A k, l \in DOMAIN Flow :
              k < l /\ Flow[k].list = Flow[l].list => Flow[k].index < Flow[l].index

(* Why that, and the safety of ImplementsMerge below, holds: who is born   *)
(* and who has ended.                                                      *)
Elements == [list : Lists, index : Nat]

TypeOK ==
    /\ spawned \in 0..NumLists
    /\ outerEnded \in BOOLEAN
    /\ pc \in [Lists -> {"unborn", "evaluate", "send", "ended"}]
    /\ next \in [Lists -> Nat]
    /\ \A i \in Lists : next[i] <= Length[i] /\ (pc[i] = "send" => next[i] > 0)
    /\ channel \in Seq(Elements)
    /\ received \in Seq(Elements)
    /\ consumer \in {"idle", "asked", "ended", "dropped"}

ProducersTellProgress ==
    /\ outerEnded => spawned = NumLists
    /\ \A i \in Lists : pc[i] = "unborn" <=> i > spawned
    /\ \A i \in Lists : pc[i] = "unborn" => next[i] = 0
    /\ \A i \in Lists : pc[i] = "ended" => next[i] = Length[i]

ResultIsComplete == consumer = "ended" => SendersAreGone /\ channel = << >>

Inductive == TypeOK /\ ProducersTellProgress /\ NothingIsLost /\ ResultIsComplete

(* A dropped result ends the producers, though send fails for them.        *)
DroppedRaceEnds == consumer = "dropped" ~> outerEnded /\ \A i \in Lists : pc[i] = "ended"

(* What all this is for: see Merge.                                        *)
M == INSTANCE Merge WITH merged <- received, status <- consumer

ImplementsMerge == M!Spec

=============================================================================
