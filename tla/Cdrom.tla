------------------------------- MODULE Cdrom -------------------------------
(***************************************************************************)
(* The CD-ROM controller (src/crates/psx-core/src/cdrom.rs): the command   *)
(* registers, the queue of delayed responses, data and audio sectors       *)
(* passing under the head, the lid.                                        *)
(*                                                                         *)
(* Time is relative.  The code keeps absolute deadlines and only ever asks *)
(* whether one has been reached, or chains a new one after max(last, now); *)
(* so the cycles still to go, counted down to 0, carry the same behaviour. *)
(* What remains of an absolute deadline is called its wait.                *)
(*                                                                         *)
(* A sector is what the drive does with it: data, a realtime XA sector of  *)
(* some stream, or audio of some track.  The payload, the data FIFO behind *)
(* register 2 and the interrupt enable mask are left out; of a response,   *)
(* the status byte's shell-open bit is kept, the rest is left out.         *)
(***************************************************************************)
EXTENDS Integers, Sequences, SequencesExt, FiniteSetsExt

CONSTANTS
  Discs,        (* the images at hand: sequences of sectors                *)
  Commands,     (* the commands the program issues                         *)
  Modes,        (* the mode bytes it sets: sets of mode bits               *)
  Streams,      (* XA (file, channel) pairs                                *)
  Delay,        (* the latency constants, see Latencies                    *)
  SeekTimes,    (* what seek_cycles may return                             *)
  ReportEvery,  (* sectors between two Report interrupts: 75               *)
  Hold,         (* backlog above which an audio sector is held: 9408       *)
  SectorAudio,  (* what one sector adds to the backlog                     *)
  QueueBound    (* bound: no command while so many responses are queued    *)

None == "none"
NoDisc == <<>>
ModeBits == {"double", "xa", "filter", "report", "autopause"}
Sectors == [kind : {"data", "audio"}, track : Nat] \cup [kind : {"xa"}, track : Nat, stream : Streams]
Latencies == {"running", "stopped", "init", "getid", "complete", "toc", "pause", "paused",
              "spindown", "spundown", "single", "double"}

ASSUME CdromAssumption ==
  /\ \A d \in Discs : d \in Seq(Sectors) /\ d # NoDisc
  /\ Modes \subseteq SUBSET ModeBits
  /\ Delay \in [Latencies -> Nat \ {0}]
  /\ SeekTimes \subseteq Nat
  /\ ReportEvery \in Nat /\ Hold \in Nat /\ SectorAudio \in Nat /\ QueueBound \in Nat

VARIABLES
  disc,          (* the image in the drive, or NoDisc                      *)
  pending,       (* queued responses, oldest first                         *)
  int_flag,      (* the asserted INT number, 0 = none                      *)
  mode, filter, xa_latch, muted,
  motor_on, shell_open, shell_latched,
  reading, playing, play_track, report_in,
  seek_target, read_lba, next_sector,   (* next_sector is a wait           *)
  xa_out,        (* decoded audio the SPU has not taken                    *)
  did,           (* history: what the last call of service did             *)
  untold,        (* history: opened since Getstat last told it was open    *)
  since_report   (* history: sectors played since the last Report          *)

lid == <<motor_on, shell_open, shell_latched>>
stream == <<reading, playing, play_track, report_in, read_lba, next_sector, xa_out, xa_latch>>
settings == <<mode, filter, muted, seek_target>>
history == <<did, untold, since_report>>
vars == <<disc, pending, int_flag, lid, stream, settings, history>>

Init ==
  /\ disc \in Discs \cup {NoDisc}
  /\ pending = <<>> /\ int_flag = 0
  /\ mode = {} /\ filter = None /\ xa_latch = None /\ muted = FALSE
  /\ motor_on = TRUE /\ shell_open = FALSE /\ shell_latched = FALSE
  /\ reading = FALSE /\ playing = FALSE /\ play_track = 0 /\ report_in = 0
  /\ seek_target = 0 /\ read_lba = 0 /\ next_sector = 0 /\ xa_out = 0
  /\ did = "nothing" /\ untold = FALSE /\ since_report = ReportEvery
-----------------------------------------------------------------------------
(* Queued responses.  tells: what the status byte in it says of the lid    *)
(* (Nothing when it holds no status byte); asked: it answers a Getstat.    *)
Response == [wait : Nat, int : 1 .. 5, tells : {"open", "shut", "nothing"}, asked : BOOLEAN]

(* Mutated form of ShellBit: the latch is forgotten.                       *)
ShellBitNow == IF shell_open THEN "open" ELSE "shut"

(* stat_byte, bit 4.                                                       *)
ShellBit == IF shell_open \/ shell_latched THEN "open" ELSE "shut"

(* Mutated form of PushTelling: no chaining.                               *)
PushUnchained(q, delay, int, tells, asked) ==
  Append(q, [wait |-> delay, int |-> int, tells |-> tells, asked |-> asked])

(* push_int: chain after the response queued last.                         *)
PushTelling(q, delay, int, tells, asked) ==
  LET base == IF q = <<>> THEN 0 ELSE Last(q).wait
  IN Append(q, [wait |-> base + delay, int |-> int, tells |-> tells, asked |-> asked])

Push(q, delay, int) == PushTelling(q, delay, int, ShellBit, FALSE)

AckDelay(motor) == IF motor THEN Delay.running ELSE Delay.stopped
SectorPeriod == IF "double" \in mode THEN Delay.double ELSE Delay.single

Beyond(lba) == lba >= Len(disc)
SectorAt(lba) == disc[lba + 1]
(* track_at: past the end of the image, the last track.                    *)
TrackAt(lba) == IF Beyond(lba) THEN Last(disc).track ELSE SectorAt(lba).track
TrackStarts == {lba \in 0 .. Len(disc) - 1 :
                  lba = 0 \/ TrackAt(lba) # TrackAt(lba - 1)}
-----------------------------------------------------------------------------
(* Mutated form of Monus: underflow.                                       *)
Minus(a, b) == a - b

(* saturating_sub *)
Monus(a, b) == IF a > b THEN a - b ELSE 0
Age(q, d) == [i \in DOMAIN q |-> [q[i] EXCEPT !.wait = Monus(@, d)]]

(* Mutated forms of ResponseDue: over an asserted interrupt; only after    *)
(* the sector that is due.                                                 *)
ResponseDueAnyway(q) == q # <<>> /\ Head(q).wait = 0
ResponseDueSecond(q) == int_flag = 0 /\ q # <<>> /\ Head(q).wait = 0 /\ next_sector # 0

ResponseDue(q) == int_flag = 0 /\ q # <<>> /\ Head(q).wait = 0

(* Mutated form of Clear: the queue of responses is forgotten.             *)
ClearLine == int_flag = 0

(* The previous interrupt is acknowledged and no response is queued.       *)
Clear == int_flag = 0 /\ pending = <<>>

(* service(), given the queue q and the wait n of the next sector as they  *)
(* are after the time that has passed.                                     *)
DeliverResponse(q, n) ==
  /\ ResponseDue(q)
  /\ int_flag' = Head(q).int
  /\ pending' = Tail(q)
  /\ next_sector' = n
  /\ did' = "response"
  /\ untold' = (untold /\ ~(Head(q).asked /\ Head(q).tells = "open"))
  /\ UNCHANGED <<disc, lid, settings, since_report,
                 reading, playing, play_track, report_in, read_lba, xa_out, xa_latch>>

(* A sector is due and no response is.                                     *)
SectorDue(q, n) == ~ResponseDue(q) /\ n = 0

(* advance_sector.                                                         *)
AdvanceSector == read_lba' = read_lba + 1 /\ next_sector' = SectorPeriod
(* The sector stays under the head; the next service tries it again.       *)
HoldSector == did' = "held" /\ next_sector' = 0 /\ UNCHANGED read_lba

(* Mutated form of EndStream: nothing announces the end.                   *)
EndStreamSilently ==
  /\ HoldSector
  /\ UNCHANGED <<reading, playing, int_flag, play_track, report_in, xa_out, xa_latch, since_report>>

(* The stream runs into the end, or CD-DA into an auto-pause: INT4.        *)
EndStream ==
  /\ IF Clear
     THEN reading' = FALSE /\ playing' = FALSE /\ int_flag' = 4 /\ did' = "end"
     ELSE UNCHANGED <<reading, playing, int_flag>> /\ did' = "held"
  /\ next_sector' = 0
  /\ UNCHANGED <<read_lba, play_track, report_in, xa_out, xa_latch, since_report>>

(* A sector announced with INT1, once the interrupt line is free.          *)
AnnounceData ==
  /\ IF Clear THEN int_flag' = 1 /\ did' = "data" /\ AdvanceSector
              ELSE UNCHANGED int_flag /\ HoldSector
  /\ UNCHANGED <<reading, playing, play_track, report_in, xa_out, xa_latch, since_report>>

(* Mutated form of Backlogged: a sector too late.                          *)
BackloggedLate == xa_out > Hold + SectorAudio

(* Back-pressure: about two sectors of decoded audio are waiting.          *)
Backlogged == xa_out > Hold

(* A realtime XA sector.  With the filter bit off the first stream since   *)
(* the read started is latched, even by a sector that is then held.        *)
PlayXa(sector) ==
  LET chosen == IF "filter" \in mode THEN filter
                ELSE IF xa_latch = None THEN sector.stream ELSE xa_latch
      pass == sector.stream = chosen
  IN /\ xa_latch' = IF "filter" \in mode THEN xa_latch ELSE chosen
     /\ IF pass /\ ~muted /\ Backlogged
        THEN HoldSector /\ UNCHANGED xa_out
        ELSE /\ did' = "audio" /\ AdvanceSector
             /\ xa_out' = IF pass /\ ~muted THEN xa_out + SectorAudio ELSE xa_out
     /\ UNCHANGED <<reading, playing, play_track, report_in, int_flag, since_report>>

ProcessSector ==
  LET xa == SectorAt(read_lba).kind = "xa" /\ "xa" \in mode
  IN \/ Beyond(read_lba) /\ EndStream
     \/ ~Beyond(read_lba) /\ xa /\ PlayXa(SectorAt(read_lba))
     \/ ~Beyond(read_lba) /\ ~xa /\ AnnounceData

(* One CD-DA sector: a Report when one is due and the line is free, then   *)
(* the audio, held while the backlog is too long.                          *)
PlayAudio ==
  LET due == "report" \in mode /\ report_in = 0
      report == due /\ Clear
      held == ~muted /\ Backlogged
      played == Min({ReportEvery, (IF report THEN 0 ELSE since_report) + (IF held THEN 0 ELSE 1)})
  IN /\ play_track' = TrackAt(read_lba)
     /\ report_in' = IF report THEN ReportEvery ELSE IF due THEN 0 ELSE Monus(report_in, 1)
     /\ int_flag' = IF report THEN 1 ELSE int_flag
     /\ since_report' = played
     /\ did' = IF report THEN "report" ELSE IF held THEN "held" ELSE "audio"
     /\ IF held THEN next_sector' = 0 /\ UNCHANGED read_lba ELSE AdvanceSector
     /\ xa_out' = IF held \/ muted THEN xa_out ELSE xa_out + SectorAudio
     /\ UNCHANGED <<reading, playing, xa_latch>>

ProcessCddaSector ==
  LET ended == Beyond(read_lba)
      crossed == ~ended /\ TrackAt(read_lba) # play_track
      stops == ended \/ (crossed /\ "autopause" \in mode)
  IN \/ stops /\ EndStream
     \/ ~stops /\ PlayAudio

(* d units of time pass with no drive register access, and the drive is    *)
(* serviced if its deadline has been reached: module Machine shows that it *)
(* is.  The loop then services it at most once per instruction.            *)
Elapse(d) ==
  LET q == Age(pending, d)
      n == Monus(next_sector, d)
  IN \/ DeliverResponse(q, n)
     \/ /\ SectorDue(q, n)
        /\ \/ reading /\ ProcessSector
           \/ ~reading /\ playing /\ ProcessCddaSector
        /\ pending' = q
        /\ UNCHANGED <<disc, lid, settings, untold>>
     \/ /\ ~ResponseDue(q) /\ ~(SectorDue(q, n) /\ (reading \/ playing))
        /\ pending' = q /\ next_sector' = n /\ did' = "nothing"
        /\ UNCHANGED <<disc, int_flag, lid, settings, untold, since_report,
                       reading, playing, play_track, report_in, read_lba, xa_out, xa_latch>>

(* PsxSystem::step moves decoded audio on to the SPU, which plays it.      *)
DrainAudio ==
  /\ xa_out > 0
  /\ xa_out' = xa_out - 1 /\ did' = "nothing"
  /\ UNCHANGED <<disc, pending, int_flag, lid, settings, untold, since_report,
                 reading, playing, play_track, report_in, read_lba, next_sector, xa_latch>>
-----------------------------------------------------------------------------
(* Interrupt flag write: each 1 bit clears that bit of the INT number, so  *)
(* a mask that does not cover it leaves another number asserted.           *)
Bit(i, b) == (i \div b) % 2 = 1
AfterAck == {j \in 0 .. 7 : \A b \in {1, 2, 4} : Bit(j, b) => Bit(int_flag, b)}

Acknowledge ==
  /\ int_flag # 0
  /\ int_flag' \in AfterAck \ {int_flag}
  /\ did' = "nothing"
  /\ UNCHANGED <<disc, pending, lid, stream, settings, untold, since_report>>

(* The acknowledge every driver makes, of all the bits.                    *)
AcknowledgeAll == Acknowledge /\ int_flag' = 0

(***************************************************************************)
(* Commands.  Ack is the command that only answers INT3.                   *)
(***************************************************************************)
NeedsDisc == {"Setloc", "Play", "MotorOn", "Read", "Stop", "Pause", "Mute", "Demute",
              "Setfilter", "GetTN", "GetlocP", "Seek"}
(* Mutated form of Unready: a disc under an open lid will do.              *)
UnreadyEmpty(c) == c \in NeedsDisc /\ disc = NoDisc

Unready(c) ==
  \/ c \in NeedsDisc /\ (shell_open \/ disc = NoDisc)
  \/ c = "GetID" /\ shell_open

Queue(q) == pending' = q
Ack == Queue(Push(pending, AckDelay(motor_on), 3))

NotReady ==
  /\ Queue(Push(pending, AckDelay(motor_on), 5))
  /\ UNCHANGED <<lid, stream, settings, untold, since_report>>

(* Alone in clearing the latch, and only once the lid is shut; the answer  *)
(* still carries the bit as it was.                                        *)
Getstat ==
  /\ Queue(PushTelling(pending, AckDelay(motor_on), 3, ShellBit, TRUE))
  /\ shell_latched' = (shell_latched /\ shell_open)
  /\ UNCHANGED <<motor_on, shell_open, stream, settings, untold, since_report>>

Setloc ==
  /\ Ack
  /\ seek_target' \in {seek_target} \cup 0 .. Len(disc)
  /\ UNCHANGED <<lid, stream, mode, filter, muted, untold, since_report>>

Play ==
  \E target \in {seek_target} \cup TrackStarts, seek \in SeekTimes :
    /\ read_lba' = target
    /\ reading' = FALSE /\ playing' = TRUE /\ motor_on' = TRUE
    /\ play_track' = TrackAt(target) /\ report_in' = 0
    /\ xa_out' = 0
    /\ next_sector' = AckDelay(TRUE) + seek + SectorPeriod
    /\ Queue(Push(pending, AckDelay(TRUE), 3))
    /\ since_report' = ReportEvery
    /\ UNCHANGED <<shell_open, shell_latched, xa_latch, settings, untold>>

MotorOn ==
  /\ motor_on' = TRUE
  /\ Queue(Push(Push(pending, AckDelay(TRUE), 3), Delay.complete, 2))
  /\ UNCHANGED <<shell_open, shell_latched, stream, settings, untold, since_report>>

(* ReadN, ReadS                                                            *)
Read ==
  \E seek \in SeekTimes :
    /\ read_lba' = seek_target
    /\ reading' = TRUE /\ playing' = FALSE /\ motor_on' = TRUE
    /\ xa_out' = 0 /\ xa_latch' = None
    /\ next_sector' = AckDelay(TRUE) + seek + SectorPeriod
    /\ Queue(Push(pending, AckDelay(TRUE), 3))
    /\ UNCHANGED <<shell_open, shell_latched, play_track, report_in, settings, untold, since_report>>

Halt == reading' = FALSE /\ playing' = FALSE
        /\ UNCHANGED <<play_track, report_in, read_lba, next_sector, xa_out, xa_latch>>

Stop ==
  LET spin_down == IF motor_on THEN Delay.spindown ELSE Delay.spundown
  IN /\ Halt
     /\ motor_on' = FALSE
     /\ Queue(Push(Push(pending, AckDelay(motor_on), 3), spin_down, 2))
     /\ UNCHANGED <<shell_open, shell_latched, settings, untold, since_report>>

Pause ==
  LET pause == IF reading \/ playing THEN Delay.pause ELSE Delay.paused
  IN /\ Halt
     /\ Queue(Push(Push(pending, AckDelay(motor_on), 3), pause, 2))
     /\ UNCHANGED <<lid, settings, untold, since_report>>

(* Init: also the one command that starts the motor under an open lid.     *)
Initialise ==
  /\ Halt
  /\ mode' = {} /\ motor_on' = TRUE
  /\ Queue(Push(Push(pending, Delay.init, 3), Delay.complete, 2))
  /\ UNCHANGED <<shell_open, shell_latched, filter, muted, seek_target, untold, since_report>>

Mute ==
  /\ Ack /\ muted' = TRUE /\ xa_out' = 0
  /\ UNCHANGED <<lid, mode, filter, seek_target, untold, since_report, reading, playing,
                 play_track, report_in, read_lba, next_sector, xa_latch>>

Demute ==
  /\ Ack /\ muted' = FALSE
  /\ UNCHANGED <<lid, stream, mode, filter, seek_target, untold, since_report>>

Setfilter ==
  /\ Ack /\ filter' \in Streams \cup {filter} /\ xa_latch' = None
  /\ UNCHANGED <<lid, mode, muted, seek_target, untold, since_report, reading, playing,
                 play_track, report_in, read_lba, next_sector, xa_out>>

Setmode ==
  /\ Ack /\ mode' \in Modes \cup {mode}
  /\ UNCHANGED <<lid, stream, filter, muted, seek_target, untold, since_report>>

(* The head moves at once, the second response comes after the seek.  A    *)
(* CD-DA stream is not stopped: it goes on from the new position.          *)
Seek ==
  \E seek \in SeekTimes :
    /\ read_lba' = seek_target /\ reading' = FALSE
    /\ Queue(Push(Push(pending, AckDelay(motor_on), 3), seek, 2))
    /\ UNCHANGED <<lid, playing, play_track, report_in, next_sector, xa_out, xa_latch,
                   settings, untold, since_report>>

(* Commands that change nothing but the queue.  GetTN and GetTD, Test:     *)
(* an INT3 with the status byte; GetlocL and GetlocP: one without.         *)
Query(c) ==
  /\ CASE c \in {"GetTN", "Test"} -> Ack
       [] c = "GetlocP" -> Queue(PushTelling(pending, AckDelay(motor_on), 3, "nothing", FALSE))
       [] c = "GetID" ->
            Queue(PushTelling(Push(pending, AckDelay(motor_on), 3), Delay.getid,
                              IF disc = NoDisc THEN 5 ELSE 2, "nothing", FALSE))
       [] c = "ReadTOC" -> Queue(Push(Push(pending, Delay.init, 3), Delay.toc, 2))
       [] c = "Unknown" -> Queue(PushTelling(pending, AckDelay(motor_on), 5, "nothing", FALSE))
  /\ UNCHANGED <<lid, stream, settings, untold, since_report>>

Command(c) ==
  /\ Len(pending) < QueueBound
  /\ IF Unready(c) THEN NotReady ELSE
       \/ c = "Getstat" /\ Getstat
       \/ c = "Setloc" /\ Setloc
       \/ c = "Play" /\ Play
       \/ c = "MotorOn" /\ MotorOn
       \/ c = "Read" /\ Read
       \/ c = "Stop" /\ Stop
       \/ c = "Pause" /\ Pause
       \/ c = "Init" /\ Initialise
       \/ c = "Mute" /\ Mute
       \/ c = "Demute" /\ Demute
       \/ c = "Setfilter" /\ Setfilter
       \/ c = "Setmode" /\ Setmode
       \/ c = "Seek" /\ Seek
       \/ c \in {"GetTN", "Test", "GetlocP", "GetID", "ReadTOC", "Unknown"} /\ Query(c)
  /\ did' = "nothing"
  /\ UNCHANGED <<disc, int_flag>>
-----------------------------------------------------------------------------
(* Mutated form of OpenShell: what was queued is still delivered.          *)
OpenShellQueueing ==
  /\ ~shell_open
  /\ shell_open' = TRUE /\ shell_latched' = TRUE /\ motor_on' = FALSE
  /\ reading' = FALSE /\ playing' = FALSE /\ xa_out' = 0
  /\ pending' = PushTelling(pending, Delay.stopped, 5, "open", FALSE)
  /\ did' = "nothing" /\ untold' = TRUE
  /\ UNCHANGED <<disc, int_flag, play_track, report_in, read_lba, next_sector, xa_latch,
                 settings, since_report>>

(* The lid.  What was queued is dropped for the error that pre-empts it;   *)
(* an interrupt already asserted stays.                                    *)
OpenShell ==
  /\ ~shell_open
  /\ shell_open' = TRUE /\ shell_latched' = TRUE /\ motor_on' = FALSE
  /\ reading' = FALSE /\ playing' = FALSE /\ xa_out' = 0
  /\ pending' = PushTelling(<<>>, Delay.stopped, 5, "open", FALSE)
  /\ did' = "nothing" /\ untold' = TRUE
  /\ UNCHANGED <<disc, int_flag, play_track, report_in, read_lba, next_sector, xa_latch,
                 settings, since_report>>

(* Over the disc that was in, or another.                                  *)
CloseShell ==
  /\ disc' \in Discs \cup {disc}
  /\ shell_open' = FALSE /\ motor_on' = TRUE
  /\ did' = "nothing"
  /\ UNCHANGED <<pending, int_flag, shell_latched, stream, settings, untold, since_report>>

(* A state saved here is loaded, at any later time, under whatever disc is *)
(* in the drive then: the audio queue is not saved and the disc is carried *)
(* over from the machine it replaces.                                      *)
Reload ==
  /\ disc' \in Discs \cup {NoDisc}
  /\ xa_out' = 0 /\ did' = "nothing"
  /\ UNCHANGED <<pending, int_flag, lid, settings, untold, since_report, reading, playing,
                 play_track, report_in, read_lba, next_sector, xa_latch>>

Next ==
  \/ \E d \in {0, 1} : Elapse(d)
  \/ DrainAudio
  \/ Acknowledge
  \/ \E c \in Commands : Command(c)
  \/ OpenShell
  \/ CloseShell
  \/ Reload

Spec == Init /\ [][Next]_vars

(* Liveness assumes that instructions keep executing, that the program     *)
(* acknowledges what it is sent, and that the SPU keeps playing.           *)
Fairness ==
  /\ WF_vars(Elapse(1))
  /\ WF_vars(AcknowledgeAll)
  /\ WF_vars(DrainAudio)

FairSpec == Spec /\ Fairness
-----------------------------------------------------------------------------
TypeOK ==
  /\ disc \in Discs \cup {NoDisc}
  /\ pending \in Seq(Response)
  /\ int_flag \in 0 .. 5
  /\ mode \in {{}} \cup Modes
  /\ {filter, xa_latch} \subseteq Streams \cup {None}
  /\ {muted, motor_on, shell_open, shell_latched, reading, playing, untold} \subseteq BOOLEAN
  /\ play_track \in Nat /\ report_in \in 0 .. ReportEvery
  /\ seek_target \in Nat /\ read_lba \in Nat /\ next_sector \in Nat /\ xa_out \in Nat
  /\ did \in {"nothing", "response", "data", "report", "audio", "end", "held"}
  /\ since_report \in 0 .. ReportEvery

(* Only the response at the front is ever looked at (service,              *)
(* next_deadline), so the queue must be in the order of the deadlines.     *)
PendingInOrder ==
  \A i, j \in DOMAIN pending : i < j => pending[i].wait <= pending[j].wait

(* The state has its type, and responses become due in the order they were *)
(* queued.                                                                 *)
InOrder == TypeOK /\ PendingInOrder

(* The head does one thing: whatever the order of Read, Play, Seek, Pause, *)
(* Stop and the lid, the drive never reads and plays, and never does       *)
(* either under an open lid ("the spindle stops", cdrom.rs:303-306).       *)
OneStream ==
  /\ ~(reading /\ playing)
  /\ shell_open => ~reading /\ ~playing

(* No response still to come tells a lid that is open is shut: those       *)
(* queued before it opened were dropped (cdrom.rs:305-306).                *)
NoStaleStatus == shell_open => \A p \in Range(pending) : p.tells # "shut"

(* Every opening of the lid reaches a program that polls Getstat, however  *)
(* short it was and whatever it was doing: until an answer has told it,    *)
(* one that will is queued or the next Getstat will (cdrom.rs:187-189).    *)
SwapNotMissed ==
  untold => \/ shell_open \/ shell_latched
            \/ \E p \in Range(pending) : p.asked /\ p.tells = "open"

(* The back-pressure of both streams bounds the decoded backlog, so the    *)
(* cap behind it (cdrom.rs:677-687) never drops audio.                     *)
BacklogBounded == xa_out <= Hold + SectorAudio

(* An asserted interrupt number changes only by acknowledgement: no        *)
(* response, sector, report or end of stream replaces it.                  *)
IntNotOverwritten == [][int_flag # 0 => int_flag' \in AfterAck]_vars

(* A sector or end of stream is announced only when every response queued  *)
(* before has been delivered and acknowledged: a program never sees the    *)
(* INT1 of a sector between a command and its answer.                      *)
SectorsWait == [][did' \in {"data", "report", "end"} => pending = <<>>]_vars

(* "Sectors until the next Report interrupt" (cdrom.rs:196): Reports are   *)
(* that many sectors apart.                                                *)
ReportSpacing == [][did' = "report" => since_report = ReportEvery]_vars

(* A queued response is delivered.                                         *)
AnswersArrive == pending # <<>> ~> did = "response"

(* A read with no command outstanding does not stall: a sector is          *)
(* announced or played, or the end reached, unless a command intervenes.   *)
ReadMoves ==
  reading ~> \/ ~reading \/ pending # <<>>
             \/ did \in {"data", "audio", "end"}
=============================================================================
