---------------------------- MODULE CdromProofs ----------------------------
(***************************************************************************)
(* Proofs about the CD-ROM controller (module Cdrom), for every set of     *)
(* discs, commands, modes and latencies and every bound on the queue.      *)
(***************************************************************************)
EXTENDS Cdrom, TLAPS

USE CdromAssumption DEF CdromAssumption

Ordered(q) == \A i, j \in DOMAIN q : i < j => q[i].wait <= q[j].wait
Tells == {"open", "shut", "nothing"}

(* The queue r is q with responses added behind it, which tell of the lid  *)
(* what is so now or nothing.                                              *)
Continues(q, r) ==
  /\ r \in Seq(Response) /\ Ordered(r)
  /\ Len(r) >= Len(q)
  /\ \A i \in 1 .. Len(q) : r[i] = q[i]
  /\ \A i \in Len(q) + 1 .. Len(r) : r[i].tells \in {ShellBit, "nothing"}
-----------------------------------------------------------------------------
(* Lemmas about the queue. *)

(* The shell bit is something a response can tell.                         *)
LEMMA ShellBitTells == ShellBit \in Tells
  BY DEF ShellBit, Tells

(* A response is queued behind all others, and due after them.             *)
LEMMA OneAnswer ==
  ASSUME NEW q \in Seq(Response), Ordered(q), NEW delay \in Nat, NEW int \in 1 .. 5,
         NEW tells \in {ShellBit, "nothing"}, NEW asked \in BOOLEAN,
         NEW r, r = PushTelling(q, delay, int, tells, asked)
  PROVE  /\ Continues(q, r) /\ Len(r) = Len(q) + 1
         /\ r[Len(r)] = [wait |-> r[Len(r)].wait, int |-> int, tells |-> tells, asked |-> asked]
<1> DEFINE base == IF q = <<>> THEN 0 ELSE q[Len(q)].wait
           new == [wait |-> base + delay, int |-> int, tells |-> tells, asked |-> asked]
<1>1. r = Append(q, new)
  BY DEF PushTelling, Last
<1>2. base \in Nat
  <2>1. CASE q = <<>>
    BY <2>1
  <2>2. CASE q # <<>>
    <3>1. Len(q) \in 1 .. Len(q)
      BY <2>2
    <3>2. q[Len(q)] \in Response
      BY <3>1
    <3> QED
      BY <2>2, <3>2 DEF Response
  <2> QED
    BY <2>1, <2>2
<1>3. new \in Response
  BY <1>2, ShellBitTells DEF Response, Tells
<1>4. r \in Seq(Response) /\ Len(r) = Len(q) + 1 /\ r[Len(q) + 1] = new
      /\ \A i \in 1 .. Len(q) : r[i] = q[i]
  BY <1>1, <1>3
<1>5. \A i \in 1 .. Len(q) : q[i].wait <= base
  <2> SUFFICES ASSUME NEW i \in 1 .. Len(q) PROVE q[i].wait <= base
    OBVIOUS
  <2>1. q # <<>> /\ Len(q) \in DOMAIN q /\ i \in DOMAIN q
    OBVIOUS
  <2>2. q[i] \in Response /\ q[Len(q)] \in Response
    BY <2>1
  <2>3. CASE i = Len(q)
    BY <2>1, <2>2, <2>3 DEF Response
  <2>4. CASE i < Len(q)
    BY <2>1, <2>4 DEF Ordered
  <2> QED
    BY <2>3, <2>4
<1>6. Ordered(r)
  <2> SUFFICES ASSUME NEW i \in DOMAIN r, NEW j \in DOMAIN r, i < j
               PROVE  r[i].wait <= r[j].wait
    BY DEF Ordered
  <2>1. i \in 1 .. Len(q) /\ j \in 1 .. Len(q) + 1
    BY <1>4
  <2>2. CASE j \in 1 .. Len(q)
    BY <1>4, <2>1, <2>2 DEF Ordered
  <2>3. CASE j = Len(q) + 1
    <3>1. q[i].wait <= base /\ q[i] \in Response
      BY <1>5, <2>1
    <3> QED
      BY <1>2, <1>4, <2>1, <2>3, <3>1 DEF Response
  <2> QED
    BY <2>1, <2>2, <2>3
<1>7. \A i \in Len(q) + 1 .. Len(r) : r[i].tells = tells
  <2>1. \A i \in Len(q) + 1 .. Len(r) : i = Len(q) + 1
    BY <1>4
  <2> QED
    BY <1>4, <2>1
<1> QED
  BY <1>3, <1>4, <1>6, <1>7 DEF Continues

(* The second answer of a command.                                         *)
LEMMA TwoAnswers ==
  ASSUME NEW q \in Seq(Response), Ordered(q), NEW delay \in Nat, NEW int \in 1 .. 5,
         NEW tells \in {ShellBit, "nothing"}, NEW asked \in BOOLEAN,
         NEW r, Continues(q, r),
         NEW s, s = PushTelling(r, delay, int, tells, asked)
  PROVE  Continues(q, s)
<1>1. r \in Seq(Response) /\ Ordered(r)
  BY DEF Continues
<1>2. Continues(r, s)
  BY <1>1, OneAnswer
<1>3. Len(q) \in Nat /\ Len(r) \in Nat /\ Len(s) \in Nat
  BY <1>1, <1>2 DEF Continues
<1>4. \A i \in 1 .. Len(q) : s[i] = q[i]
  BY <1>2, <1>3 DEF Continues
<1>5. ASSUME NEW i \in Len(q) + 1 .. Len(s) PROVE s[i].tells \in {ShellBit, "nothing"}
  <2>1. CASE i <= Len(r)
    BY <1>2, <1>3, <2>1 DEF Continues
  <2>2. CASE i > Len(r)
    BY <1>2, <1>3, <2>2 DEF Continues
  <2> QED
    BY <1>3, <2>1, <2>2
<1>6. Len(s) >= Len(q) /\ s \in Seq(Response) /\ Ordered(s)
  BY <1>2, <1>3 DEF Continues
<1> QED
  BY <1>4, <1>5, <1>6 DEF Continues

(* Time passes over a queue.                                               *)
LEMMA AgeKeeps ==
  ASSUME NEW q \in Seq(Response), Ordered(q), NEW d \in Nat
  PROVE  /\ Age(q, d) \in Seq(Response) /\ Ordered(Age(q, d))
         /\ Len(Age(q, d)) = Len(q)
         /\ \A i \in 1 .. Len(q) : /\ Age(q, d)[i].tells = q[i].tells
                                   /\ Age(q, d)[i].asked = q[i].asked
<1> DEFINE a == Age(q, d)
<1>1. DOMAIN a = 1 .. Len(q)
  BY DEF Age
<1>2. ASSUME NEW i \in 1 .. Len(q)
      PROVE  /\ a[i] \in Response /\ a[i].wait = Monus(q[i].wait, d)
             /\ a[i].tells = q[i].tells /\ a[i].asked = q[i].asked
  <2>1. q[i] \in Response /\ i \in DOMAIN q
    OBVIOUS
  <2>2. a[i] = [q[i] EXCEPT !.wait = Monus(@, d)]
    BY <2>1 DEF Age
  <2>3. Monus(q[i].wait, d) \in Nat
    BY <2>1 DEF Monus, Response
  <2> QED
    BY <2>1, <2>2, <2>3 DEF Response
<1>3. a \in Seq(Response) /\ Len(a) = Len(q)
  <2>1. a = [i \in 1 .. Len(q) |-> a[i]]
    BY DEF Age
  <2> HIDE DEF a
  <2> QED
    BY <1>2, <2>1
<1>4. Ordered(a)
  <2> SUFFICES ASSUME NEW i \in 1 .. Len(q), NEW j \in 1 .. Len(q), i < j
               PROVE  a[i].wait <= a[j].wait
    BY <1>1 DEF Ordered
  <2>1. q[i].wait <= q[j].wait /\ q[i] \in Response /\ q[j] \in Response
    BY DEF Ordered
  <2> QED
    BY <1>2, <2>1 DEF Monus, Response
<1> QED
  BY <1>2, <1>3, <1>4
-----------------------------------------------------------------------------
(* The steps of the drive. *)

QueueOK == pending \in Seq(Response) /\ Ordered(pending)

(* Every wait is a number.                                                 *)
LEMMA Delays ==
  /\ \A motor : AckDelay(motor) \in Nat
  /\ \A l \in Latencies : Delay[l] \in Nat
  /\ {"complete", "spindown", "spundown", "pause", "paused", "init", "toc", "getid"}
       \subseteq Latencies
  BY DEF AckDelay, Latencies

(* A command that answers once: with the status byte, to a Getstat, or     *)
(* without the byte.                                                       *)
LEMMA Answered ==
  ASSUME QueueOK, NEW delay \in Nat, NEW int \in 1 .. 5, pending' = Push(pending, delay, int)
  PROVE  Continues(pending, pending')
  BY OneAnswer, Zenon DEF QueueOK, Push

(* What is appended comes last.                                            *)
LEMMA AppendEnds ==
  ASSUME NEW S, NEW q \in Seq(S), NEW e, NEW r, r = Append(q, e)
  PROVE  Len(r) = Len(q) + 1 /\ r[Len(r)] = e
<1>1. q \in Seq(S \cup {e}) /\ e \in S \cup {e}
  OBVIOUS
<1> QED
  BY <1>1

(* An answer that tells of the lid is queued behind the others,            *)
LEMMA AnsweredAsked ==
  ASSUME QueueOK, NEW delay \in Nat, NEW int \in 1 .. 5,
         pending' = PushTelling(pending, delay, int, ShellBit, TRUE)
  PROVE  /\ Continues(pending, pending')
         /\ Len(pending') = Len(pending) + 1
         /\ pending'[Len(pending')].asked /\ pending'[Len(pending')].tells = ShellBit
<1>1. Continues(pending, pending')
  BY OneAnswer, Zenon DEF QueueOK
<1>2. PICK new : pending' = Append(pending, new) /\ new.asked /\ new.tells = ShellBit
  <2> DEFINE base == IF pending = <<>> THEN 0 ELSE Last(pending).wait
             answer == [wait |-> base + delay, int |-> int, tells |-> ShellBit, asked |-> TRUE]
  <2>1. pending' = Append(pending, answer)
    BY DEF PushTelling
  <2>2. answer.asked /\ answer.tells = ShellBit
    OBVIOUS
  <2> HIDE DEF answer
  <2> QED
    BY <2>1, <2>2, Zenon
<1>3. Len(pending') = Len(pending) + 1 /\ pending'[Len(pending')] = new
  BY <1>2, AppendEnds DEF QueueOK
<1> QED
  BY <1>1, <1>2, <1>3

(* one that does not,                                                      *)
LEMMA AnsweredBare ==
  ASSUME QueueOK, NEW delay \in Nat, NEW int \in 1 .. 5,
         pending' = PushTelling(pending, delay, int, "nothing", FALSE)
  PROVE  Continues(pending, pending')
  BY OneAnswer, Zenon DEF QueueOK

(* One that answers twice.                                                 *)
LEMMA AnsweredTwice ==
  ASSUME QueueOK, NEW delay \in Nat, NEW int \in 1 .. 5, NEW later \in Nat, NEW second \in 1 .. 5,
         pending' = Push(Push(pending, delay, int), later, second)
  PROVE  Continues(pending, pending')
<1>1. Continues(pending, Push(pending, delay, int))
  BY OneAnswer, Zenon DEF QueueOK, Push
<1> QED
  BY <1>1, TwoAnswers, Zenon DEF QueueOK, Push

(* and two of them.                                                        *)
LEMMA AnsweredTwiceBare ==
  ASSUME QueueOK, NEW delay \in Nat, NEW int \in 1 .. 5, NEW later \in Nat, NEW second \in 1 .. 5,
         pending' = PushTelling(Push(pending, delay, int), later, second, "nothing", FALSE)
  PROVE  Continues(pending, pending')
<1>1. Continues(pending, Push(pending, delay, int))
  BY OneAnswer, Zenon DEF QueueOK, Push
<1> QED
  BY <1>1, TwoAnswers, Zenon DEF QueueOK

(* Whatever the command, its answers go behind what is queued and tell of  *)
(* the lid as it is.                                                       *)
LEMMA CommandContinues ==
  ASSUME QueueOK, NEW c \in Commands, Command(c)
  PROVE  Continues(pending, pending')
<1> USE Delays
<1>1. CASE Unready(c)
  BY <1>1, Answered DEF Command, NotReady, Queue
<1>2. CASE Getstat
  <2>1. AckDelay(motor_on) \in Nat /\ 3 \in 1 .. 5
    OBVIOUS
  <2> QED
    BY <1>2, <2>1, AnsweredAsked, Zenon DEF Getstat, Queue
<1>3. CASE Setloc \/ Mute \/ Demute \/ Setfilter \/ Setmode
  BY <1>3, Answered DEF Setloc, Mute, Demute, Setfilter, Setmode, Ack, Queue
<1>4. CASE Play \/ Read
  <2>1. PICK delay \in Nat : pending' = Push(pending, delay, 3)
    BY <1>4 DEF Play, Read, Queue, AckDelay, Latencies
  <2> QED
    BY <2>1, Answered
<1>5. CASE MotorOn
  <2>1. PICK delay \in Nat : pending' = Push(Push(pending, delay, 3), Delay.complete, 2)
    BY <1>5 DEF MotorOn, Queue, AckDelay, Latencies
  <2> QED
    BY <2>1, AnsweredTwice
<1>6. CASE Stop
  BY <1>6, AnsweredTwice DEF Stop, Queue
<1>7. CASE Pause
  BY <1>7, AnsweredTwice DEF Pause, Queue
<1>8. CASE Initialise
  BY <1>8, AnsweredTwice DEF Initialise, Queue
<1>9. CASE Seek
  BY <1>9, AnsweredTwice DEF Seek, Queue
<1>10. CASE c \in {"GetTN", "Test", "GetlocP", "GetID", "ReadTOC", "Unknown"} /\ Query(c)
  <2>0. AckDelay(motor_on) \in Nat /\ 3 \in 1 .. 5 /\ 5 \in 1 .. 5 /\ Delay.getid \in Nat
    OBVIOUS
  <2>1. CASE c \in {"GetTN", "Test"}
    <3>1. pending' = Push(pending, AckDelay(motor_on), 3)
      BY <1>10, <2>1 DEF Query, Ack, Queue
    <3> QED
      BY <2>0, <3>1, Answered
  <2>2. CASE c = "GetlocP"
    <3>1. pending' = PushTelling(pending, AckDelay(motor_on), 3, "nothing", FALSE)
      BY <1>10, <2>2 DEF Query, Queue
    <3> QED
      BY <2>0, <3>1, AnsweredBare, Zenon
  <2>3. CASE c = "GetID"
    <3> DEFINE second == IF disc = NoDisc THEN 5 ELSE 2
    <3>1. pending' = PushTelling(Push(pending, AckDelay(motor_on), 3), Delay.getid,
                                 second, "nothing", FALSE)
      BY <1>10, <2>3 DEF Query, Queue
    <3>2. second \in 1 .. 5
      OBVIOUS
    <3> HIDE DEF second
    <3> QED
      BY <2>0, <3>1, <3>2, AnsweredTwiceBare, Zenon
  <2>4. CASE c = "ReadTOC"
    BY <1>10, <2>4, AnsweredTwice DEF Query, Queue
  <2>5. CASE c = "Unknown"
    <3>1. pending' = PushTelling(pending, AckDelay(motor_on), 5, "nothing", FALSE)
      BY <1>10, <2>5 DEF Query, Queue
    <3> QED
      BY <2>0, <3>1, AnsweredBare, Zenon
  <2> QED
    BY <1>10, <2>1, <2>2, <2>3, <2>4, <2>5
<1> QED
  BY <1>1, <1>2, <1>3, <1>4, <1>5, <1>6, <1>7, <1>8, <1>9, <1>10 DEF Command

-----------------------------------------------------------------------------
(* What holds of the queue, the lid and the stream together.               *)

Answers(p) == p.asked /\ p.tells = "open"

IInv ==
  /\ QueueOK
  /\ OneStream
  /\ shell_open \in BOOLEAN /\ shell_latched \in BOOLEAN
  /\ shell_open => shell_latched
  /\ shell_open => \A i \in DOMAIN pending : pending[i].tells # "shut"
  /\ untold => shell_latched \/ \E i \in DOMAIN pending : Answers(pending[i])

(* A step that lets the queue be and does not shut or open the lid.        *)
LEMMA QueueUntouched ==
  ASSUME IInv, pending' = pending, UNCHANGED <<shell_open, shell_latched, untold>>, OneStream'
  PROVE  IInv'
  BY DEF IInv, QueueOK, Ordered, Answers

(* The time that has passed leaves an invariant queue.                     *)
LEMMA QueueAges ==
  ASSUME IInv, NEW d \in Nat, pending' = Age(pending, d),
         UNCHANGED <<shell_open, shell_latched, untold>>, OneStream'
  PROVE  IInv'
<1>1. /\ pending' \in Seq(Response) /\ Ordered(pending') /\ Len(pending') = Len(pending)
      /\ \A i \in 1 .. Len(pending) : /\ pending'[i].tells = pending[i].tells
                                      /\ pending'[i].asked = pending[i].asked
  BY AgeKeeps DEF IInv, QueueOK
<1>2. QueueOK'
  BY <1>1 DEF QueueOK, Ordered
<1>3. DOMAIN pending = 1 .. Len(pending) /\ DOMAIN pending' = 1 .. Len(pending)
  BY <1>1 DEF IInv, QueueOK
<1> QED
  BY <1>1, <1>2, <1>3 DEF IInv, Answers

(* So does the delivery of the response at its head, which is the one that *)
(* may tell the program of an open lid.                                    *)
LEMMA Delivery ==
  ASSUME IInv, NEW d \in Nat, DeliverResponse(Age(pending, d), next_sector')
  PROVE  IInv'
<1> DEFINE q == Age(pending, d)
<1>1. /\ q \in Seq(Response) /\ Ordered(q) /\ Len(q) = Len(pending)
      /\ \A i \in 1 .. Len(pending) : /\ q[i].tells = pending[i].tells
                                      /\ q[i].asked = pending[i].asked
  BY AgeKeeps DEF IInv, QueueOK
<1>2. /\ q # <<>> /\ pending' = Tail(q) /\ UNCHANGED lid /\ UNCHANGED <<reading, playing>>
      /\ untold' = (untold /\ ~(Head(q).asked /\ Head(q).tells = "open"))
  BY DEF DeliverResponse, ResponseDue
<1> HIDE DEF q
<1>3. Len(q) \in Nat \ {0} /\ Head(q) = q[1]
  BY <1>1, <1>2
<1>4. /\ pending' \in Seq(Response) /\ Len(pending') = Len(q) - 1
      /\ \A i \in 1 .. Len(q) - 1 : pending'[i] = q[i + 1]
  BY <1>1, <1>2
<1>5. DOMAIN pending = 1 .. Len(q) /\ DOMAIN q = 1 .. Len(q) /\ DOMAIN pending' = 1 .. Len(q) - 1
  BY <1>1, <1>3, <1>4 DEF IInv, QueueOK
<1>6. QueueOK'
  <2> SUFFICES ASSUME NEW i \in 1 .. Len(q) - 1, NEW j \in 1 .. Len(q) - 1, i < j
               PROVE  pending'[i].wait <= pending'[j].wait
    BY <1>4, <1>5 DEF QueueOK, Ordered
  <2>1. i + 1 \in DOMAIN q /\ j + 1 \in DOMAIN q /\ i + 1 < j + 1
    BY <1>3, <1>5
  <2> QED
    BY <1>1, <1>4, <2>1 DEF Ordered
<1>7. shell_open' => \A i \in DOMAIN pending' : pending'[i].tells # "shut"
  <2> SUFFICES ASSUME shell_open', NEW i \in 1 .. Len(q) - 1 PROVE pending'[i].tells # "shut"
    BY <1>5
  <2>1. i + 1 \in 1 .. Len(q)
    BY <1>3
  <2> QED
    BY <1>1, <1>2, <1>4, <1>5, <2>1 DEF IInv, lid
<1>8. untold' => shell_latched' \/ \E i \in DOMAIN pending' : Answers(pending'[i])
  <2> SUFFICES ASSUME untold', ~shell_latched'
               PROVE  \E i \in DOMAIN pending' : Answers(pending'[i])
    OBVIOUS
  <2>1. PICK k \in 1 .. Len(q) : Answers(pending[k])
    BY <1>2, <1>5 DEF IInv, lid
  <2>2. Answers(q[k])
    BY <1>1, <2>1 DEF Answers
  <2>3. k # 1
    BY <1>2, <1>3, <2>2 DEF Answers
  <2>4. k - 1 \in 1 .. Len(q) - 1 /\ (k - 1) + 1 = k
    BY <1>3, <2>3
  <2>5. pending'[k - 1] = q[k]
    BY <1>4, <2>4
  <2> QED
    BY <1>5, <2>2, <2>4, <2>5
<1> QED
  BY <1>2, <1>6, <1>7, <1>8 DEF IInv, OneStream, lid

(* Answers queued leave the invariant of the queue, for a lid that stays.  *)
LEMMA Continued ==
  ASSUME IInv, Continues(pending, pending'), shell_open' = shell_open, untold' = untold,
         shell_latched' \in BOOLEAN, shell_open' => shell_latched',
         \/ shell_latched' = shell_latched
         \/ \E i \in DOMAIN pending' : Answers(pending'[i])
         \/ ~shell_latched,
         OneStream'
  PROVE  IInv'
<1>1. /\ pending' \in Seq(Response) /\ Ordered(pending')
      /\ Len(pending') >= Len(pending)
      /\ \A i \in 1 .. Len(pending) : pending'[i] = pending[i]
      /\ \A i \in Len(pending) + 1 .. Len(pending') : pending'[i].tells \in {ShellBit, "nothing"}
  BY DEF Continues
<1>2. /\ DOMAIN pending = 1 .. Len(pending) /\ DOMAIN pending' = 1 .. Len(pending')
      /\ Len(pending) \in Nat /\ Len(pending') \in Nat
  BY <1>1 DEF IInv, QueueOK
<1>3. QueueOK'
  BY <1>1 DEF QueueOK, Ordered
<1>4. ASSUME shell_open', NEW i \in DOMAIN pending' PROVE pending'[i].tells # "shut"
  <2>1. CASE i <= Len(pending)
    BY <1>1, <1>2, <1>4, <2>1 DEF IInv
  <2>2. CASE i > Len(pending)
    <3>1. i \in Len(pending) + 1 .. Len(pending')
      BY <1>2, <1>4, <2>2
    <3> QED
      BY <1>1, <1>4, <3>1 DEF ShellBit
  <2> QED
    BY <1>2, <1>4, <2>1, <2>2
<1>5. ASSUME untold' PROVE shell_latched' \/ \E i \in DOMAIN pending' : Answers(pending'[i])
  <2>1. CASE \E i \in DOMAIN pending : Answers(pending[i])
    BY <1>1, <1>2, <2>1
  <2>2. CASE ~\E i \in DOMAIN pending : Answers(pending[i])
    BY <1>5, <2>2 DEF IInv
  <2> QED
    BY <2>1, <2>2
<1> QED
  BY <1>3, <1>4, <1>5 DEF IInv

(* Every command keeps the invariant,                                      *)
LEMMA CommandKeeps ==
  ASSUME IInv, NEW c \in Commands, Command(c)
  PROVE  IInv'
<1>1. Continues(pending, pending')
  BY CommandContinues DEF IInv
<1>2. CASE ~Unready(c) /\ c = "Getstat" /\ Getstat
  <2>1. OneStream'
    BY <1>2 DEF IInv, OneStream, Getstat, stream
  <2>2. CASE ~shell_latched
    BY <1>1, <1>2, <2>1, <2>2, Continued DEF Getstat, IInv
  <2>3. CASE shell_latched
    <3>1. AckDelay(motor_on) \in Nat /\ 3 \in 1 .. 5
      BY Delays
    <3>2. pending' = PushTelling(pending, AckDelay(motor_on), 3, ShellBit, TRUE)
      BY <1>2 DEF Getstat, Queue
    <3>3. Len(pending') = Len(pending) + 1 /\ pending'[Len(pending')].asked
          /\ pending'[Len(pending')].tells = ShellBit
      BY <3>1, <3>2, AnsweredAsked, Zenon DEF IInv
    <3>4. Len(pending') \in DOMAIN pending' /\ Answers(pending'[Len(pending')])
      BY <1>1, <2>3, <3>3 DEF Answers, ShellBit, Continues, IInv, QueueOK
    <3> QED
      BY <1>1, <1>2, <2>1, <3>4, Continued DEF Getstat, IInv
  <2> QED
    BY <2>2, <2>3 DEF IInv
<1>3. CASE Unready(c) \/ c # "Getstat"
  <2>1. UNCHANGED <<shell_open, shell_latched, untold>>
    BY <1>3 DEF Command, NotReady, Setloc, Play, MotorOn, Read, Stop, Pause, Initialise,
                Mute, Demute, Setfilter, Setmode, Seek, Query, lid
  <2>2. OneStream'
    <3>1. CASE ~Unready(c) /\ (c = "Play" \/ c = "Read")
      <4>1. ~shell_open
        BY <3>1 DEF Unready, NeedsDisc
      <4> QED
        BY <2>1, <3>1, <4>1 DEF Command, Play, Read, OneStream
    <3>2. CASE Unready(c) \/ (c # "Play" /\ c # "Read")
      BY <1>3, <2>1, <3>2 DEF Command, NotReady, Setloc, MotorOn, Stop, Pause, Initialise,
            Mute, Demute, Setfilter, Setmode, Seek, Query, Halt, lid, stream, IInv, OneStream
    <3> QED
      BY <3>1, <3>2
  <2> QED
    BY <1>1, <2>1, <2>2, Continued DEF IInv
<1> QED
  BY <1>2, <1>3 DEF Command

(* A sector under the head ends the stream or lets it go on.               *)
LEMMA SectorKeeps ==
  ASSUME IInv, ProcessSector \/ ProcessCddaSector, shell_open' = shell_open
  PROVE  OneStream'
  BY DEF ProcessSector, ProcessCddaSector, EndStream, AnnounceData, PlayXa, PlayAudio,
         IInv, OneStream

(* the passing of time,                                                    *)
LEMMA ElapseKeeps ==
  ASSUME IInv, NEW d \in {0, 1}, Elapse(d)
  PROVE  IInv'
<1> DEFINE q == Age(pending, d)
           n == Monus(next_sector, d)
<1>1. CASE DeliverResponse(q, n)
  <2>1. next_sector' = n
    BY <1>1 DEF DeliverResponse
  <2> QED
    BY <1>1, <2>1, Delivery
<1>2. CASE pending' = q /\ UNCHANGED <<lid, untold>> /\ OneStream'
  BY <1>2, QueueAges DEF lid
<1>3. CASE (ProcessSector \/ ProcessCddaSector) /\ pending' = q /\ UNCHANGED <<lid, untold>>
  BY <1>2, <1>3, SectorKeeps DEF lid
<1>4. CASE pending' = q /\ UNCHANGED <<lid, untold, reading, playing>>
  BY <1>2, <1>4 DEF lid, IInv, OneStream
<1> QED
  BY <1>1, <1>3, <1>4 DEF Elapse

(* every step,                                                             *)
LEMMA InvariantStep ==
  ASSUME IInv, [Next]_vars PROVE IInv'
<1>1. ASSUME NEW d \in {0, 1}, Elapse(d) PROVE IInv'
  BY <1>1, ElapseKeeps
<1>2. ASSUME NEW c \in Commands, Command(c) PROVE IInv'
  BY <1>2, CommandKeeps
<1>3. CASE DrainAudio \/ Acknowledge \/ Reload \/ UNCHANGED vars
  <2>1. pending' = pending /\ UNCHANGED <<shell_open, shell_latched, untold, reading, playing>>
    BY <1>3 DEF DrainAudio, Acknowledge, Reload, vars, lid, stream, history
  <2> QED
    BY <2>1, QueueUntouched DEF IInv, OneStream
<1>4. CASE OpenShell
  <2>1. pending' = PushTelling(<<>>, Delay.stopped, 5, "open", FALSE)
    BY <1>4 DEF OpenShell
  <2>2. pending' = <<[wait |-> 0 + Delay.stopped, int |-> 5, tells |-> "open", asked |-> FALSE]>>
    BY <2>1 DEF PushTelling
  <2>3. Delay.stopped \in Nat
    BY DEF Latencies
  <2>4. [wait |-> 0 + Delay.stopped, int |-> 5, tells |-> "open", asked |-> FALSE] \in Response
    BY <2>3 DEF Response
  <2>5. QueueOK' /\ \A i \in DOMAIN pending' : pending'[i].tells # "shut"
    BY <2>2, <2>4 DEF QueueOK, Ordered
  <2> QED
    BY <1>4, <2>5 DEF OpenShell, IInv, OneStream
<1>5. CASE CloseShell
  BY <1>5 DEF CloseShell, stream, IInv, QueueOK, Ordered, OneStream, Answers
<1> QED
  BY <1>1, <1>2, <1>3, <1>4, <1>5 DEF Next

(* every behaviour.                                                        *)
LEMMA InvariantHolds == Spec => []IInv
<1>1. Init => IInv
  <2> SUFFICES ASSUME Init PROVE IInv
    OBVIOUS
  <2>1. pending \in Seq(Response) /\ DOMAIN pending = {}
    BY DEF Init
  <2> QED
    BY <2>1 DEF Init, IInv, QueueOK, Ordered, OneStream
<1> QED
  BY <1>1, InvariantStep, PTL DEF Spec
-----------------------------------------------------------------------------
(* The drive never reads and plays at once, and does neither under an open *)
(* lid (cdrom.rs:303-306).                                                 *)
THEOREM OneStreamAlways == Spec => []OneStream
<1>1. IInv => OneStream
  BY DEF IInv
<1> QED
  BY <1>1, InvariantHolds, PTL

(* No response still to come tells an open lid is shut (cdrom.rs:305-306). *)
THEOREM StatusIsFresh == Spec => []NoStaleStatus
<1>1. IInv => NoStaleStatus
  BY DEF IInv, NoStaleStatus, Range
<1> QED
  BY <1>1, InvariantHolds, PTL

(* However short the lid was open, a program that polls Getstat is told    *)
(* (cdrom.rs:187-189).                                                     *)
THEOREM SwapIsTold == Spec => []SwapNotMissed
<1>1. IInv => SwapNotMissed
  BY DEF IInv, SwapNotMissed, Answers, Range
<1> QED
  BY <1>1, InvariantHolds, PTL
-----------------------------------------------------------------------------
(* The back-pressure of XA and of CD-DA keeps the decoded backlog under    *)
(* the cap that would drop audio (cdrom.rs:677-687).                       *)
THEOREM BacklogIsBounded == Spec => []BacklogBounded
<1> DEFINE Counted == xa_out \in Nat /\ BacklogBounded
<1>1. Init => Counted
  BY DEF Init, BacklogBounded
<1>2. Counted /\ [Next]_vars => Counted'
  <2> SUFFICES ASSUME Counted, [Next]_vars PROVE Counted'
    OBVIOUS
  <2> USE DEF BacklogBounded
  <2>1. ASSUME NEW d \in {0, 1}, Elapse(d) PROVE Counted'
    <3>1. CASE ProcessSector
      BY <3>1 DEF ProcessSector, EndStream, AnnounceData, PlayXa, Backlogged
    <3>2. CASE ProcessCddaSector
      BY <3>2 DEF ProcessCddaSector, EndStream, PlayAudio, Backlogged
    <3>3. CASE xa_out' = xa_out
      BY <3>3
    <3> QED
      BY <2>1, <3>1, <3>2, <3>3 DEF Elapse, DeliverResponse
  <2>2. ASSUME NEW c \in Commands, Command(c) PROVE Counted'
    <3>1. xa_out' \in {0, xa_out}
      BY <2>2 DEF Command, NotReady, Getstat, Setloc, Play, MotorOn, Read, Stop, Pause,
                  Initialise, Mute, Demute, Setfilter, Setmode, Seek, Query, Halt, stream
    <3> QED
      BY <3>1
  <2>3. CASE DrainAudio
    BY <2>3 DEF DrainAudio
  <2>4. CASE Acknowledge \/ OpenShell \/ CloseShell \/ Reload \/ UNCHANGED vars
    <3>1. xa_out' \in {0, xa_out}
      BY <2>4 DEF Acknowledge, OpenShell, CloseShell, Reload, vars, stream
    <3> QED
      BY <3>1
  <2> QED
    BY <2>1, <2>2, <2>3, <2>4 DEF Next
<1> QED
  BY <1>1, <1>2, PTL DEF Spec
-----------------------------------------------------------------------------
(* The interrupt line. *)

Numbered == int_flag \in 0 .. 7

(* An acknowledgement may leave all bits, and sets none.                   *)
LEMMA KeptIsAcknowledged ==
  ASSUME Numbered PROVE int_flag \in AfterAck /\ AfterAck \subseteq 0 .. 7
  BY DEF Numbered, AfterAck

(* One step: an asserted number changes by an acknowledgement or not at    *)
(* all, because response, sector, report and end wait for a free line.     *)
LEMMA InterruptStep ==
  ASSUME IInv, Numbered, [Next]_vars
  PROVE  /\ int_flag # 0 => int_flag' \in AfterAck
         /\ Numbered'
<1>1. CASE int_flag' = int_flag
  BY <1>1, KeptIsAcknowledged DEF Numbered
<1>2. CASE Acknowledge
  BY <1>2, KeptIsAcknowledged DEF Acknowledge, Numbered
<1>3. CASE int_flag = 0 /\ int_flag' \in 0 .. 7
  BY <1>3 DEF Numbered
<1>4. ASSUME NEW d \in {0, 1}, Elapse(d)
      PROVE  int_flag' = int_flag \/ (int_flag = 0 /\ int_flag' \in 0 .. 7)
  <2> DEFINE q == Age(pending, d)
             n == Monus(next_sector, d)
  <2>1. CASE DeliverResponse(q, n)
    <3>1. q \in Seq(Response) /\ q # <<>> /\ int_flag = 0 /\ int_flag' = Head(q).int
      BY <2>1, AgeKeeps DEF IInv, QueueOK, DeliverResponse, ResponseDue
    <3>2. Head(q) \in Response
      BY <3>1
    <3> QED
      BY <3>1, <3>2 DEF Response
  <2>2. CASE ProcessSector
    BY <2>2 DEF ProcessSector, EndStream, AnnounceData, PlayXa, Clear, HoldSector
  <2>3. CASE ProcessCddaSector
    BY <2>3 DEF ProcessCddaSector, EndStream, PlayAudio, Clear
  <2> QED
    BY <1>4, <2>1, <2>2, <2>3 DEF Elapse
<1>5. ASSUME NEW c \in Commands, Command(c) PROVE int_flag' = int_flag
  BY <1>5 DEF Command
<1>6. CASE DrainAudio \/ OpenShell \/ CloseShell \/ Reload \/ UNCHANGED vars
  BY <1>1, <1>6 DEF DrainAudio, OpenShell, CloseShell, Reload, vars
<1> QED
  BY <1>1, <1>2, <1>3, <1>4, <1>5, <1>6 DEF Next

(* Nothing replaces an interrupt number the program has not acknowledged   *)
(* (cdrom.rs, service).                                                    *)
THEOREM InterruptsAreKept == Spec => IntNotOverwritten
<1>1. Init => Numbered
  BY DEF Init, Numbered
<1>2. IInv /\ Numbered /\ [Next]_vars => [int_flag # 0 => int_flag' \in AfterAck]_vars /\ Numbered'
  BY InterruptStep
<1> QED
  BY <1>1, <1>2, InvariantHolds, PTL DEF Spec, IntNotOverwritten

(* A sector or the end of a stream is announced only when every response   *)
(* queued before it has been delivered.                                    *)
THEOREM SectorsDoWait == Spec => SectorsWait
<1>1. [Next]_vars => [did' \in {"data", "report", "end"} => pending = <<>>]_vars
  <2> SUFFICES ASSUME Next, did' \in {"data", "report", "end"} PROVE pending = <<>>
    OBVIOUS
  <2>1. PICK d \in {0, 1} : Elapse(d)
    BY DEF Next, DrainAudio, Acknowledge, Command, OpenShell, CloseShell, Reload
  <2>2. ProcessSector \/ ProcessCddaSector
    BY <2>1 DEF Elapse, DeliverResponse
  <2> QED
    BY <2>2 DEF ProcessSector, ProcessCddaSector, EndStream, AnnounceData, PlayXa, PlayAudio,
                Clear, HoldSector
<1> QED
  BY <1>1, PTL DEF Spec, SectorsWait
-----------------------------------------------------------------------------
(* The types. *)

(* Every sector up to the end of the disc is in a track.                   *)
LEMMA Tracks ==
  ASSUME disc \in Discs, NEW lba \in Nat
  PROVE  TrackAt(lba) \in Nat /\ (~Beyond(lba) => SectorAt(lba) \in Sectors)
<1>1. disc \in Seq(Sectors) /\ disc # <<>>
  BY DEF NoDisc
<1>2. \A s \in Sectors : s.track \in Nat
  BY DEF Sectors
<1>3. Last(disc) \in Sectors
  BY <1>1 DEF Last
<1>4. ~Beyond(lba) => SectorAt(lba) \in Sectors
  BY <1>1 DEF Beyond, SectorAt
<1> QED
  BY <1>2, <1>3, <1>4 DEF TrackAt

(* An acknowledgement only takes bits away.                                *)
LEMMA Fewer ==
  ASSUME int_flag \in 0 .. 5 PROVE AfterAck \subseteq 0 .. 5
<1> SUFFICES ASSUME NEW j \in AfterAck PROVE j \in 0 .. 5
  OBVIOUS
<1>1. j \in 0 .. 7 /\ \A b \in {1, 2, 4} : Bit(j, b) => Bit(int_flag, b)
  BY DEF AfterAck
<1>2. CASE j = 6
  BY <1>1, <1>2 DEF Bit
<1>3. CASE j = 7
  BY <1>1, <1>3 DEF Bit
<1> QED
  BY <1>1, <1>2, <1>3

(* The lesser of two numbers.                                              *)
LEMMA Lesser ==
  ASSUME NEW a \in Nat, NEW b \in Nat PROVE Min({a, b}) \in 0 .. a
<1>1. \E x \in {a, b} : \A y \in {a, b} : x <= y
  <2>1. CASE a <= b
    BY <2>1
  <2>2. CASE b <= a
    BY <2>2
  <2> QED
    BY <2>1, <2>2
<1>2. /\ Min({a, b}) \in {a, b}
      /\ \A y \in {a, b} : Min({a, b}) <= y
  BY <1>1 DEF Min
<1> QED
  BY <1>2

(* The constants of timing are numbers.                                    *)
LEMMA Waits ==
  /\ ReportEvery \in Nat /\ SectorAudio \in Nat /\ \A t \in SeekTimes : t \in Nat
  /\ Delay.running \in Nat
  /\ SectorPeriod \in Nat
  /\ \A a, b \in Nat : Monus(a, b) \in 0 .. a
<1>1. \A l \in Latencies : Delay[l] \in Nat
  OBVIOUS
<1> QED
  BY <1>1 DEF SectorPeriod, Monus, Latencies

HIDE CdromAssumption DEF CdromAssumption

(* What the variables are, by what becomes of them.                        *)
Kinds ==
  disc \in Discs \cup {NoDisc} /\ mode \in {{}} \cup Modes
  /\ filter \in Streams \cup {None} /\ xa_latch \in Streams \cup {None}
Flags ==
  /\ muted \in BOOLEAN /\ motor_on \in BOOLEAN /\ shell_open \in BOOLEAN
  /\ shell_latched \in BOOLEAN /\ reading \in BOOLEAN /\ playing \in BOOLEAN
  /\ untold \in BOOLEAN
Counts ==
  /\ play_track \in Nat /\ report_in \in 0 .. ReportEvery
  /\ seek_target \in Nat /\ read_lba \in Nat /\ next_sector \in Nat /\ xa_out \in Nat
  /\ since_report \in 0 .. ReportEvery
Did == {"nothing", "response", "data", "report", "audio", "end", "held"}
Typed == Kinds /\ Flags /\ Counts /\ did \in Did /\ int_flag \in 0 .. 5

(* A sector keeps the types,                                               *)
LEMMA SectorTypes ==
  ASSUME Typed, ProcessSector \/ ProcessCddaSector, UNCHANGED <<disc, lid, settings, untold>>
  PROVE  Typed'
<1>1. /\ play_track \in Nat /\ report_in \in 0 .. ReportEvery /\ since_report \in 0 .. ReportEvery
      /\ seek_target' \in Nat /\ read_lba \in Nat /\ xa_out \in Nat
  BY DEF Typed, Counts, settings
<1>2. ReportEvery \in Nat /\ SectorAudio \in Nat /\ SectorPeriod \in Nat
  BY Waits
<1>3. /\ disc' \in Discs \cup {NoDisc} /\ mode' \in {{}} \cup Modes /\ filter' \in Streams \cup {None}
      /\ xa_latch \in Streams \cup {None}
  BY DEF Typed, Kinds, settings
<1>4. /\ muted' \in BOOLEAN /\ motor_on' \in BOOLEAN /\ shell_open' \in BOOLEAN
      /\ shell_latched' \in BOOLEAN /\ untold' \in BOOLEAN /\ reading \in BOOLEAN /\ playing \in BOOLEAN
  BY DEF Typed, Flags, settings, lid
<1>5. int_flag \in 0 .. 5
  BY DEF Typed
<1>6. disc \in Discs \/ Beyond(read_lba)
  BY <1>1 DEF Typed, Kinds, NoDisc, Beyond
<1>7. CASE EndStream
  <2>1. /\ next_sector' = 0 
        /\ UNCHANGED <<read_lba, play_track, report_in, xa_out, xa_latch, since_report>>
    BY <1>7 DEF EndStream
  <2>2. \/ reading' = FALSE /\ playing' = FALSE /\ int_flag' = 4 /\ did' = "end"
        \/ UNCHANGED <<reading, playing, int_flag>> /\ did' = "held"
    BY <1>7 DEF EndStream
  <2>3. Flags'
    BY <1>4, <2>2 DEF Flags
  <2>4. did' \in Did /\ int_flag' \in 0 .. 5
    BY <1>5, <2>2 DEF Did
  <2> QED
    BY <1>1, <1>3, <2>1, <2>3, <2>4 DEF Typed, Kinds, Counts
<1>8. CASE AnnounceData
  <2>1. UNCHANGED <<reading, playing, play_track, report_in, xa_out, xa_latch, since_report>>
    BY <1>8 DEF AnnounceData
  <2>2. \/ /\ int_flag' = 1 /\ did' = "data" 
           /\ read_lba' = read_lba + 1 /\ next_sector' = SectorPeriod
        \/ UNCHANGED int_flag /\ did' = "held" /\ next_sector' = 0 /\ UNCHANGED read_lba
    BY <1>8 DEF AnnounceData, AdvanceSector, HoldSector
  <2>3. Flags'
    BY <1>4, <2>1 DEF Flags
  <2>4. did' \in Did /\ int_flag' \in 0 .. 5
    BY <1>5, <2>2 DEF Did
  <2>5. read_lba' \in Nat /\ next_sector' \in Nat
    BY <1>1, <1>2, <2>2
  <2> QED
    BY <1>1, <1>3, <2>1, <2>3, <2>4, <2>5 DEF Typed, Kinds, Counts
<1>9. CASE ~Beyond(read_lba) /\ PlayXa(SectorAt(read_lba)) /\ SectorAt(read_lba).kind = "xa"
  <2>1. SectorAt(read_lba).stream \in Streams
    <3>1. SectorAt(read_lba) \in Sectors
      BY <1>1, <1>6, <1>9, Tracks
    <3> QED
      BY <1>9, <3>1 DEF Sectors
  <2>2. xa_latch' \in Streams \cup {None}
    BY <1>3, <1>9, <2>1 DEF PlayXa
  <2>3. UNCHANGED <<reading, playing, play_track, report_in, int_flag, since_report>>
    BY <1>9 DEF PlayXa
  <2>4. \/ did' = "held" /\ next_sector' = 0 /\ UNCHANGED <<read_lba, xa_out>>
        \/ /\ did' = "audio" /\ read_lba' = read_lba + 1 /\ next_sector' = SectorPeriod
           /\ xa_out' \in {xa_out, xa_out + SectorAudio}
    BY <1>9 DEF PlayXa, AdvanceSector, HoldSector
  <2>5. did' \in Did
    BY <2>4 DEF Did
  <2>6. Flags'
    BY <1>4, <2>3 DEF Flags
  <2>7. read_lba' \in Nat /\ next_sector' \in Nat /\ xa_out' \in Nat
    BY <1>1, <1>2, <2>4
  <2> QED
    BY <1>1, <1>3, <1>5, <2>2, <2>3, <2>5, <2>6, <2>7 DEF Typed, Kinds, Counts
<1>10. CASE ~Beyond(read_lba) /\ PlayAudio
  <2>1. TrackAt(read_lba) \in Nat
    BY <1>1, <1>6, <1>10, Tracks
  <2>2. UNCHANGED <<reading, playing, xa_latch>> /\ play_track' = TrackAt(read_lba)
    BY <1>10 DEF PlayAudio
  <2>3. did' \in Did
    BY <1>10 DEF PlayAudio, Did
  <2>4. int_flag' \in {1, int_flag}
    BY <1>10 DEF PlayAudio
  <2>5. report_in' \in {ReportEvery, 0, Monus(report_in, 1)}
    BY <1>10 DEF PlayAudio
  <2>6. report_in' \in 0 .. ReportEvery
    BY <1>1, <1>2, <2>5 DEF Monus
  <2>7. since_report' \in 0 .. ReportEvery
    <3>1. \E a \in {0, since_report}, b \in {0, 1} : since_report' = Min({ReportEvery, a + b})
      BY <1>10 DEF PlayAudio
    <3>2. PICK a \in {0, since_report} : \E b \in {0, 1} : since_report' = Min({ReportEvery, a + b})
      BY <3>1
    <3>3. PICK b \in {0, 1} : since_report' = Min({ReportEvery, a + b})
      BY <3>2
    <3>4. a + b \in Nat
      BY <1>1
    <3> QED
      BY ONLY <1>2, <3>3, <3>4, Lesser
  <2>8. \/ next_sector' = 0 /\ UNCHANGED read_lba
        \/ read_lba' = read_lba + 1 /\ next_sector' = SectorPeriod
    BY <1>10 DEF PlayAudio, AdvanceSector
  <2>9. xa_out' \in {xa_out, xa_out + SectorAudio}
    BY <1>10 DEF PlayAudio
  <2>10. read_lba' \in Nat /\ next_sector' \in Nat /\ xa_out' \in Nat
    BY <1>1, <1>2, <2>8, <2>9
  <2>11. Flags'
    BY <1>4, <2>2 DEF Flags
  <2>12. int_flag' \in 0 .. 5
    BY <1>5, <2>4
  <2> QED
    BY <1>1, <1>3, <2>1, <2>2, <2>3, <2>6, <2>7, <2>10, <2>11, <2>12 DEF Typed, Kinds, Counts
<1> QED
  BY <1>7, <1>8, <1>9, <1>10 DEF ProcessSector, ProcessCddaSector

(* the passing of time,                                                    *)
LEMMA ElapseTypes ==
  ASSUME Typed, IInv, NEW d \in {0, 1}, Elapse(d)
  PROVE  Typed'
<1> DEFINE q == Age(pending, d)
           n == Monus(next_sector, d)
<1>1. n \in Nat
  BY Waits DEF Typed, Counts
<1> HIDE DEF n
<1>2. CASE DeliverResponse(q, n)
  <2>1. int_flag' \in 0 .. 5
    <3>1. q \in Seq(Response) /\ q # <<>> /\ int_flag' = Head(q).int
      BY <1>2, AgeKeeps DEF IInv, QueueOK, DeliverResponse, ResponseDue
    <3>2. Head(q) \in Response
      BY <3>1
    <3> QED
      BY <3>1, <3>2 DEF Response
  <2>2. Flags' /\ Kinds' /\ did' \in Did
    BY <1>2 DEF DeliverResponse, Typed, Flags, Kinds, Did, lid, settings
  <2>3. Counts'
    BY <1>1, <1>2 DEF DeliverResponse, Typed, Counts, settings
  <2> QED
    BY <2>1, <2>2, <2>3 DEF Typed
<1>3. CASE /\ ProcessSector \/ ProcessCddaSector
           /\ UNCHANGED <<disc, lid, settings, untold>>
  BY <1>3, SectorTypes
<1>4. CASE /\ next_sector' = n /\ did' = "nothing"
           /\ UNCHANGED <<disc, int_flag, lid, settings, untold, since_report,
                          reading, playing, play_track, report_in, read_lba, xa_out, xa_latch>>
  BY <1>1, <1>4 DEF Typed, Flags, Kinds, Counts, Did, lid, settings
<1> QED
  BY <1>2, <1>3, <1>4 DEF Elapse, n

(* and every command.                                                      *)
LEMMA CommandTypes ==
  ASSUME Typed, NEW c \in Commands, Command(c)
  PROVE  Typed'
<1>1. did' \in Did /\ int_flag' = int_flag /\ disc' = disc
  BY DEF Command, Did
<1>2. CASE NotReady \/ Getstat \/ MotorOn \/ Demute \/ Query(c)
  BY <1>1, <1>2 DEF NotReady, Getstat, MotorOn, Demute, Query,
     Typed, Flags, Kinds, Counts, lid, stream, settings
<1>3. CASE Setloc
  <2>1. seek_target' \in Nat
    <3>1. seek_target' \in {seek_target} \cup 0 .. Len(disc)
      BY <1>3 DEF Setloc
    <3>2. seek_target \in Nat
      BY DEF Typed, Counts
    <3> QED
      BY <3>1, <3>2
  <2> QED
    BY <1>1, <1>3, <2>1 DEF Setloc, Typed, Flags, Kinds, Counts, lid, stream
<1>4. CASE Play /\ ~Unready("Play")
  <2>1. disc \in Discs /\ \A t \in {seek_target} \cup TrackStarts : t \in Nat
    BY <1>4 DEF Unready, NeedsDisc, TrackStarts, Typed, Kinds, Counts, NoDisc
  <2>2. PICK target \in {seek_target} \cup TrackStarts : 
          /\ read_lba' = target /\ play_track' = TrackAt(target)
          /\ \E seek \in SeekTimes : next_sector' = AckDelay(TRUE) + seek + SectorPeriod
          /\ reading' = FALSE /\ playing' = TRUE /\ motor_on' = TRUE /\ report_in' = 0
          /\ xa_out' = 0 /\ since_report' = ReportEvery
          /\ UNCHANGED <<shell_open, shell_latched, xa_latch, settings, untold>>
    BY <1>4 DEF Play
  <2>3. read_lba' \in Nat /\ play_track' \in Nat /\ next_sector' \in Nat
    <3>1. read_lba' \in Nat /\ play_track' \in Nat
      BY <2>1, <2>2, Tracks
    <3>2. PICK seek \in SeekTimes : next_sector' = Delay.running + seek + SectorPeriod
      BY <2>2 DEF AckDelay
    <3>3. Delay.running \in Nat /\ seek \in Nat /\ SectorPeriod \in Nat
      BY <3>2, Waits
    <3> QED
      BY <3>1, <3>2, <3>3
  <2>4. Flags' /\ Kinds'
    BY <1>1, <2>2 DEF Typed, Flags, Kinds, settings
  <2>5. Counts'
    <3>1. /\ seek_target' \in Nat /\ ReportEvery \in Nat 
          /\ xa_out' = 0 /\ report_in' = 0 /\ since_report' = ReportEvery
      BY <2>2, Waits DEF Typed, Counts, settings
    <3> QED
      BY <2>3, <3>1 DEF Counts
  <2> QED
    BY <1>1, <2>4, <2>5 DEF Typed
<1>5. CASE Read
  <2>1. next_sector' \in Nat
    <3>1. PICK seek \in SeekTimes : next_sector' = Delay.running + seek + SectorPeriod
      BY <1>5 DEF Read, AckDelay
    <3>2. Delay.running \in Nat /\ seek \in Nat /\ SectorPeriod \in Nat
      BY <3>1, Waits
    <3> QED
      BY <3>1, <3>2
  <2>2. Flags' /\ Kinds'
    BY <1>1, <1>5 DEF Read, Typed, Flags, Kinds, settings
  <2>3. Counts'
    <3>1. /\ read_lba' = seek_target /\ xa_out' = 0
          /\ UNCHANGED <<play_track, report_in, settings, since_report>>
      BY <1>5 DEF Read
    <3> QED
      BY <2>1, <3>1 DEF Typed, Counts, settings
  <2> QED
    BY <1>1, <2>2, <2>3 DEF Typed
<1>6. CASE Stop \/ Pause \/ Initialise
  <2>1. Flags' /\ Kinds'
    BY <1>1, <1>6 DEF Stop, Pause, Initialise, Halt, Typed, Flags, Kinds, lid, settings
  <2>2. Counts'
    BY <1>6 DEF Stop, Pause, Initialise, Halt, Typed, Counts, settings
  <2> QED
    BY <1>1, <2>1, <2>2 DEF Typed
<1>7. CASE Mute \/ Setfilter \/ Setmode
  <2>1. Flags' /\ Kinds'
    BY <1>1, <1>7 DEF Mute, Setfilter, Setmode, Typed, Flags, Kinds, lid, stream
  <2>2. Counts'
    <3>1. /\ UNCHANGED <<play_track, report_in, read_lba, next_sector, seek_target, since_report>>
          /\ xa_out' \in {0, xa_out}
      BY <1>7 DEF Mute, Setfilter, Setmode, stream
    <3> QED
      BY <3>1 DEF Typed, Counts
  <2> QED
    BY <1>1, <2>1, <2>2 DEF Typed
<1>8. CASE Seek
  BY <1>1, <1>8 DEF Seek, Typed, Flags, Kinds, Counts, lid, settings
<1> QED
  BY <1>2, <1>3, <1>4, <1>5, <1>6, <1>7, <1>8 DEF Command

(* The drive's variables keep their types (CdRom, cdrom.rs:90-160).        *)
LEMMA TypesAreKept == Spec => []TypeOK
<1>1. Init => Typed
  <2>1. ReportEvery \in Nat
    BY Waits
  <2>2. Init => Kinds /\ Flags /\ did \in Did
    BY DEF Init, Kinds, Flags, Did
  <2>3. Init => Counts /\ int_flag \in 0 .. 5
    BY <2>1 DEF Init, Counts
  <2> QED
    BY <2>2, <2>3 DEF Typed
<1>2. IInv /\ Typed /\ [Next]_vars => Typed'
  <2> SUFFICES ASSUME IInv, Typed, [Next]_vars PROVE Typed'
    OBVIOUS
  <2>1. ASSUME NEW d \in {0, 1}, Elapse(d) PROVE Typed'
    BY <2>1, ElapseTypes
  <2>2. ASSUME NEW c \in Commands, Command(c) PROVE Typed'
    BY <2>2, CommandTypes
  <2>3. CASE Acknowledge
    <3>1. int_flag' \in 0 .. 5
      BY <2>3, Fewer DEF Acknowledge, Typed
    <3> QED
      BY <2>3, <3>1 DEF Acknowledge, Typed, Flags, Kinds, Counts, Did, lid, stream, settings
  <2>4. CASE DrainAudio
    BY <2>4 DEF DrainAudio, Typed, Flags, Kinds, Counts, Did, lid, settings
  <2>5. CASE OpenShell
    BY <2>5 DEF OpenShell, Typed, Flags, Kinds, Counts, Did, settings
  <2>6. CASE CloseShell
    BY <2>6 DEF CloseShell, Typed, Flags, Kinds, Counts, Did, stream, settings
  <2>7. CASE Reload
    BY <2>7 DEF Reload, Typed, Flags, Kinds, Counts, Did, lid, settings
  <2>8. CASE UNCHANGED vars
    BY <2>8 DEF vars, Typed, Flags, Kinds, Counts, Did, lid, stream, settings, history
  <2> QED
    BY <2>1, <2>2, <2>3, <2>4, <2>5, <2>6, <2>7, <2>8 DEF Next
<1>3. IInv /\ Typed => TypeOK
  <2> SUFFICES ASSUME IInv, Typed PROVE TypeOK
    OBVIOUS
  <2>1. {muted, motor_on, shell_open, shell_latched, reading, playing, untold} \subseteq BOOLEAN
    BY Zenon DEF Typed, Flags
  <2>2. {filter, xa_latch} \subseteq Streams \cup {None} /\ pending \in Seq(Response)
    BY DEF Typed, Kinds, IInv, QueueOK
  <2> QED
    BY <2>1, <2>2 DEF Typed, Kinds, Counts, Did, TypeOK
<1> QED
  BY <1>1, <1>2, <1>3, InvariantHolds, PTL DEF Spec

(* Only the response at the head of the queue is looked at, and none       *)
(* behind it becomes due before it (cdrom.rs, push_int and service); and   *)
(* the drive's variables keep their types.                                 *)
THEOREM QueueInOrder == Spec => []InOrder
<1>1. IInv => PendingInOrder
  BY DEF IInv, QueueOK, Ordered, PendingInOrder
<1> QED
  BY <1>1, InvariantHolds, TypesAreKept, PTL DEF InOrder
=============================================================================
