# PS1e in TLA+

This directory models PS1e, a PlayStation emulator in Rust: the event heap that
drives the machine, the devices behind it that answer later than they are asked,
the streams of words and bytes they must not lose their place in, the debugger
and the control port that drive the machine from outside, save states, and the
memory card and its file. TLC checks every module on small instances (the
`.cfg` files); TLAPS proves the main properties of seventeen modules for every value
of the constants.

Paths below are relative to `src/crates/`.

## 1. Inventory

One worker thread owns the emulated machine. The user interface, the debug
server and the control port talk to it through queues, sockets and shared
cells; everything below the machine is single-threaded, but asynchronous in
emulated time: a register write starts something that ends cycles later, with
an arbitrary program in between.

```
 ui.rs ──commands──▶ emu.rs (worker) ──step──▶ psx-core: lib.rs (main loop)
   ▲                    │    ▲                    │ cpu ─▶ bus ─▶ devices
   └──── Shared ◀───────┘    └─pump─ psx-debug    └ scheduler ◀─arm_*─ bus
        main.rs (headless) ──pump── control.rs      memcard ─▶ card file
```

| Component | Source | State | Operations | What makes it correct | Modules |
|---|---|---|---|---|---|
| Main loop, event heap | `psx-core/src/lib.rs`, `scheduler.rs` | cycle count, next sample, heap of (cycle, kind) | `step`, `serve_events`, `vblank`, `reset`, save and load, lid; `schedule`, `wake_by`, `pop_due` | nobody who waits is left without an entry; every event in the instruction that reaches it; samples and vertical blanks at their rate; a state comes back whole | `Scheduler` `Machine` `Polling` |
| Bus | `psx-core/src/bus.rs` | I_STAT, I_MASK, DMA, memory control | reads, writes, `arm_*`, DMA transfers | whatever moves a deadline is followed by `arm_*` | `Machine` `Dma` |
| CPU, COP0 | `psx-core/src/cpu/mod.rs`, `cop0.rs` | registers, delay slots, mode stack, debug registers | one instruction | exceptions between a branch or load and its slot are invisible to the program | `Cpu` |
| GTE | `psx-core/src/cpu/gte.rs` | registers | commands | saturation, flags | – |
| IRQ, DMA | `psx-core/src/bus.rs`, `dma.rs` | I_STAT, DICR, channels | acknowledge, transfer | no completion lost; a list arrives as it was linked | `Dma` |
| CD-ROM drive | `psx-core/src/cdrom.rs` | response queue, INT number, mode, motor, lid, stream, audio backlog | 20 commands, acknowledge, `service`, lid | answers in order; no interrupt overwritten; no sector between a command and its answer; swap never missed; back-pressure bounds the backlog | `Cdrom` |
| Controller port, card | `psx-core/src/sio.rs`, `memcard.rs` | JOY_CTRL, byte count, device, /ACK; command, step, sectors, dirty | JOY_DATA, JOY_CTRL, `service`; `exchange`, `deselect`, `take_dirty` | only a whole, checked write changes a sector; no save is lost | `SioCard` |
| Card file | `psx-app/src/main.rs`, `emu.rs` | file | load at start, `flush_memcard` | a committed save reaches the file, or the user is told | `SioCard` |
| Root counters | `psx-core/src/timers.rs` | three counters, modes, frame origin | register access, `catch_up`, `next_deadline` | the lazy catch-up counts, and interrupts, like a counter that ticks | `Timers` `Ticking` |
| GPU | `psx-core/src/gpu/mod.rs` | FIFO, transfer and polyline state, display registers, frame | GP0, GP1, GPUREAD, `vblank` | a command takes exactly its words; the picture is woven from the fields displayed | `Gp0` `Scanout` |
| Rasterizer | `psx-core/src/gpu/rasterizer.rs` | VRAM | draw, fill, copy | an edge shared by two triangles is drawn once; nothing written outside the area | `Raster` |
| MDEC | `psx-core/src/mdec.rs` | command, block and macroblock state | command, parameter, reset | the stream is cut where the encoder cut it | `Mdec` |
| SPU | `psx-core/src/spu.rs` | voices, envelopes, sound RAM, IRQ | registers, sample | a released voice ends; the flag is never up under a cleared enable | `Spu` |
| Cheats | `psx-core/src/cheats.rs` | code lists, file | parse, print, apply, toggle | a condition gates the next code; the file brings back what was saved | `Cheats` |
| TTY | `psx-core/src/tty.rs` | retained text | feed, trim, read since | a cursor loses no retained text | `Tty` |
| Debug server | `psx-debug/src/lib.rs`, `packet.rs` | client, receive buffer, halted, breakpoints, skip | `pump`, packets | a target believed stopped is not moved; breakpoints hold | `DebugServer` `Packets` |
| Worker, headless loops | `psx-app/src/emu.rs`, `main.rs` | queue, running, debugger seen, slice budget | commands, slice, publish, flush | while a debugger owns the machine nobody else moves it | `Session` |
| Control port | `psx-app/src/control.rs` | client, line buffer, held buttons, snapshots | text commands | a command gets its own reply; buttons come back; a refused command changes nothing | `Control` |
| Scanner | `psx-app/src/scan.rs` | candidates, snapshot | narrow | the list is what a search for the whole history would find | `Scan` |
| Disc images | `psx-app/src/disc.rs` | parsed cue sheet | parse, lay out | every track starts on its file's sector | `CueSheet` |
| Interface | `psx-app/src/ui.rs`, `keymap.rs`, `config.rs`, ... | widgets | input, output | its commands respect who owns the machine | `Session` (commands only) |

Behaviours that are hard to test, with their lines, are the `hazards` of
`PROJECT.json`. The main ones: an access that moves a deadline without an entry
in the heap; several events due in one long instruction; a state loaded into a
machine that keeps part of its own; a sector falling due while an answer is
queued; the lid opened at any of these moments; back-pressure that makes a
handler run twice; two byte counts of one transaction; the window between a
card commit and the write of the file; an interrupt between a branch and its
slot; a completion while the handler serves another; a reset in the middle of a
command; a debugger attaching, interrupting or leaving between any two steps of
a loop.

## 2. Plan

| # | Module | About | State |
|---|---|---|---|
| 1 | `Scheduler`, `Machine`, `Polling` | the main loop and why it may sleep | checked, proved (`MachineProofs`) |
| 2 | `Cdrom` | the drive, in full control detail | checked, proved (`CdromProofs`) |
| 3 | `SioCard` | port, card, file, reset and load | checked, proved (`SioCardProofs`) |
| 4 | `Timers`, `Ticking` | a lazy counter and its wake-ups against one that counts every cycle | checked, the wake-ups proved (`TimersProofs`) |
| 5 | `Dma` | I_STAT edges, DICR's master flag, ordering tables and linked lists | checked, proved (`HardwareProofs`) |
| 6 | `DebugServer`, `Session` | one owner of run control in three main loops | checked, proved (`SessionProofs`) |
| 7 | `Gp0`, `Mdec` | word-counted command streams | checked, proved (`HardwareProofs`, `MachineProofs`) |
| 8 | `Scanout`, `Raster` | the picture | checked, proved (`HardwareProofs`) |
| 9 | `Cpu` | the pipeline against sequential execution | checked, proved (`MachineProofs`) |
| 10 | `Spu` | voices and their envelope | checked, proved (`HardwareProofs`) |
| 11 | `Control`, `Cheats`, `Scan`, `Tty`, `Packets`, `CueSheet` | the port, and algorithms against reference definitions | checked, all but `Cheats` proved (`FrontProofs`) |

Abstract specifications: `Polling` (refined by `Machine`), `Ticking` (the
counter that `Timers` must equal), the sequential machine in `Cpu`, the
references in `Gp0` (`Meant`), `Mdec` (the blocks of a whole stream), `Scan` and
`Cheats`.

## 3. The modules

### Scheduler and Machine

`Scheduler` is the event heap as operators on a set of entries; the insertion
number of an entry is left out, since `serve_events` drains everything that is
due before it services anything. `Machine` is `PsxSystem::step`. Its variables
are the cycle count, the heap, the field length, the origin of the current
field, the next sample, and for each component the value its `next_deadline()`
would return. What a component *does* is left open (a deadline may move
anywhere); *whether the move is followed by an* `arm_*` is translated from every
call site. Each action is one instruction with the access it makes, followed by
`EndStep`, the rest of `step()`:

| Action | Code |
|---|---|
| `Compute`, `WriteRegister`, `WriteGp1` | `lib.rs` `step`, `bus.rs` `write_io` and its arms |
| `ResetPort`, `ReadTimer` | `sio.rs` `write_reg16`, `timers.rs` `read`: move a deadline, arm nothing |
| `OpenShell`, `Reset`, `SaveState`, `LoadState` | `lib.rs`, between instructions |

`Polling` is the abstract machine: no heap; after every instruction it looks at
every component. A history variable, `served`, counts how often the last instruction
serviced each. A component whose deadline was reached must have been serviced, once; one
that was not serviced has an unreached deadline that only the instruction's own accesses
or a timer's catch-up moved; a load brings back exactly what was saved. Services beyond
that (an entry that comes too early) are allowed, each once. A drain that services a
component as often as it has entries is the mutant.

### Cdrom

`Cdrom` models the drive's control in full: the queue of delayed responses and
its chaining, the one asserted interrupt number, sectors under the head (data,
XA, CD-DA) with their hold-and-retry, every command, the lid, and a reload under
another disc. Time is relative (a wait counts down to 0), which is all the code
observes of its absolute deadlines. A response keeps the shell-open bit of its
status byte. `Elapse` is time passing to the next access, with one `service`;
`DrainAudio` is the SPU taking decoded audio; `Command(c)` is `command()` with the
not-ready prologue. Left out: the data FIFO behind register 2, the interrupt
enable mask (the number in the flag register is what the handlers look at),
ADPCM decoding, and what answers say beyond the lid.

### SioCard

`SioCard` models one transaction at byte granularity through the port's
dispatch (`write_data`) and the card's state machine (`exchange`), JOY_CTRL with
the code's order of acknowledge, reset and deselect, the `/ACK` interrupt, the
card's sectors and dirty flag, `flush_memcard` with a write that may fail, and
reset and state load, which carry the card over. A payload has `Payload` bytes
instead of 128; nothing depends on the number but the positions that follow it.

### Timers and Ticking

`Timers` follows one root counter through the main loop; the three share nothing
but the origin of the field. `CatchUp`, `Advance` and `RequestIrq` are the methods
of those names, `Estimates` and `ToDeadline` are `next_deadline`, `Arm` is
`arm_timer`. A mode is a record: `gate` says what the synchronization mode and the
counter's number come to, `source` the clock. Time is relative, as in `Cdrom`:
`phase` is the time since the field's origin, `age` the time since `last_sync`,
`wakes` holds the counter's own entries of the heap in cycles to go, stale ones
included. Each action is one instruction with its access, then `EndStep`: the
vertical blank's `sync_all` under the old origin, and the service of a wake-up
that is due. The reached-target and overflow flags are left out.

`Ticking` is the reference, written from what a counter promises and not from
the code: one cycle at a time, an interrupt in the cycle that meets its condition.
The variable `ideal` is that counter, given the same accesses in the same cycles.

### Cpu

`Cpu` is one call of `Cpu::step` per action: an interrupt taken
(`TakeInterrupt`), a COP0 code breakpoint (`CodeBreak`), or an instruction with
its delayed branch, delayed load, data breakpoint or exception
(`RunInstruction`). The mode stack of SR, CAUSE's branch-delay bit, EPC, the
debug registers and cache isolation are kept; arithmetic is modulo 4 and the
instruction set is one instruction of each kind the pipeline tells apart
(aligned, left and right loads, stores, branches with and without link, a trap,
a GTE command, a write of SR). The reference is a machine without pipeline or
interrupts. `Precise` and `Transparent` say that the program's accesses, and at
its end its registers, are those of the reference, whichever interrupts and
breakpoints came in between. A program keeps to the architecture's rules
(`Conforming`: no branch in a slot, no read of a loading register), branches forward only, and
ends; the kernel's two handlers are what the hardware manuals ask of them and run
without a breakpoint of their own. Neither is part of the repository.

### Dma

`Dma` has I_STAT bit 3 with the kernel's handler around it, DICR's enables,
flags and master flag with its writes by halves, the ordering-table clear of
channel 6, and the linked-list transfer of channel 2 with its node guard. The
program is a game and its library: it clears a table, links packets into it,
sends the list, and serves completions. A transfer is complete within the write
that starts it, as in the code.

### Gp0, Scanout, Raster

`Gp0` is the GPU's command port: how many words an opcode needs, polylines and
their terminator, CPU-to-VRAM and VRAM-to-CPU transfers, GPUREAD, and the resets
of GP1(00) and GP1(01). The program sends a word at a time and may reset in the
middle of a command; `Meant` is what the words sent so far amount to, computed
from the command and not from the port. `Scanout` has the display registers, the
frame captured at every vertical blank, fields and all, and the video timing.
`Raster` is the rasterizer on a frame buffer of a few pixels, with the code's
edge functions: triangles, quads as two triangles, rectangles, lines, fills and
copies, drawing area and offset, both mask settings, size limits, and the
interpolation of one value.

### Mdec, Spu

`Mdec` is the macroblock decoder's command state and the cutting of its halfword
stream into coefficients, blocks and macroblocks as words arrive; `WholeMacroblocks`
compares it with the blocks of the whole stream. `Spu` has key on and off, the block each
voice fetches, the loop flags, the envelope with its five phases, rates and
exponential steps, ENDX, and the interrupt of voice fetches and manual transfers.

### DebugServer and Session

`DebugServer` is the gdb stub with its connections. A pump is taken apart into
`Pump` (accept and read), `Service` (one item) and `RunSlice` (one instruction of
a resumed target), since clients go on in between. An acknowledgement or a reply whose
write fails drops the client (`HandleCutOff`, `StopCutOff`); the packet is handled all
the same, as in the code, so a breakpoint it inserts is there for the next client. A client is a debugger that
keeps to the protocol: it resumes a target it has been told is stopped and
interrupts one it has resumed; it may hang up and come back at any time.
`Session` puts the three main loops of psx-app over it: the worker's with its
command queue (`window`), `run_headless` with `--cycles` (`budget`) and with
`--control-port` (`control`). The user interface sees only what the worker last
published, so a command may be handled under another owner than the one it was
given under. An instruction takes one to `Longest` cycles (the bus penalty of
`step`), so that a pump and a slice may run past what was left of their budget; what `cycles -
done` then does is in `BudgetRuns`. A reset builds a new drive, with the lid shut; a
loaded state brings its own lid.

### Packets, Control

`Packets` is the framing: escapes, checksums, acknowledgements, interrupts
between packets, segments cut anywhere. `Control` is the control port: clients
in a queue, the line buffer, one command a pump, and the commands that run the
machine, hold buttons, keep snapshots or write memory, with their refusals.
(Commands that only read are left out; those on cheats and scans are in the
modules of these.)

### Cheats, Scan, Tty, CueSheet

`Cheats` parses a `.cht` file, applies it at every vertical blank, and writes it
back on a toggle. The name of a cheat is a sequence of asterisks, blanks and words, of
which reading strips one mark and the blanks around the rest; `StoredAsShown` says what the
code keeps of it, and what it does to a name that begins with an asterisk (section 7). `Scan` is the memory search and its narrowing passes. `Tty` is
the retained window of the program's output. `CueSheet` reads a sheet line by
line and lays its files and pregaps out.

### The MC modules

`MCMachine`, `MCCdrom`, `MCSioCard`, `MCTimers`, `MCSession` and `MCCheats` give
constants to the module of their name. Four others put independent instances in one run: `MCHardware` (Machine,
Cpu, Dma, Gp0, Scanout, Raster, Mdec, Spu), `MCFront` (Control, Cheats, Scan, Tty, Packets,
CueSheet), `MCDiscs` (a data disc and an audio disc, each with commands and modes of its own) and `MCCard` (whole
transactions, and a write with resets and loads). A behaviour picks one
instance in its initial state and runs it while the others stand still; the
models share no state, so this is the same as a run each.

## 4. Runs

| Run | Config | Checks | Bounds |
|---|---|---|---|
| `hardware` | `MCHardware.cfg` | Machine: `TypeOK NoLostWakeup OnTime OneVBlank SamplePacing ImplementsPolling`; Cpu: `ProgramUndisturbed`; Dma: `CompletionsKept DrawnInOrder`; Gp0: `CommandsInSync`; Scanout: `FramesWoven`; Raster: `DrawnAsGiven`; Mdec: `DecodedInStep`; Spu: `VoicesEnd` | see below |
| `front` | `MCFront.cfg` | Control: `CommandsKept`; Cheats: `CheatsAsWritten`; Scan: `ListsSurvivors`; Tty: `OutputReadOnce`; Packets: `ItemsSurvive`; CueSheet: `TracksInPlace` | see below |
| `cdrom` | `MCDiscs.cfg` | `InOrder OneStream NoStaleStatus SwapNotMissed IntNotOverwritten SectorsWait` | data disc with `QueueBound` 2; two audio tracks with `QueueBound` 1 and a report every 2 sectors |
| `cdrom_xa` | `MCCdromXa.cfg` | `BacklogBounded AnswersArrive ReadMoves` | two streams, `QueueBound` 1 |
| `cdrom_fast` | `MCCdromFast.cfg` | `ReportSpacing` is violated | double speed |
| `card` | `MCCard.cfg` | `KeptInStep NoLostSave KeptCommitWhole` | payload 2 and 13 bytes; payload 1 and 11 bytes with resets and loads |
| `card_load` | `MCSioCardLoad.cfg` | `InStep` is violated | write transactions |
| `timers` | `MCTimers.cfg` | `MovesOn CountsLikeTicking` | counter of 7, lines of 5 cycles, fields of 2 lines |
| `timers_overrun` | `MCTimersOverrun.cfg` | `InterruptsOnTime` is violated | a target of 1, instructions of 3 cycles |
| `session` | `MCSession.cfg` | `MovesTogether WaitHolds BudgetSpent Undisturbed BreakpointsHold Stoppable` | one debugger, two words, instructions of one or two cycles, slices of two |
| `session_lid` | `MCSessionLid.cfg` | `LidFollowsPicker` is violated | one debugger, the window |
| `cheats_chain` | `MCCheatsChain.cfg` | `ChainsNest` is violated | one cheat |

What the less obvious names mean. `NoLostWakeup`: a component that waits has an
entry at or before its deadline. `ProgramUndisturbed`: no interrupt or breakpoint
is visible to a program. `CommandsInSync`: the port has done exactly what the
words so far amount to, and GPUREAD returns what was asked for. `CompletionsKept`:
a completion still to be served is flagged, and while the master flag is up an
interrupt is pending or its handler runs. `SwapNotMissed`: every opening of the lid is told
to the program. `MovesTogether`: a debugger's belief about its target, and the packets under
way, agree with the stub. `Undisturbed`: a target believed stopped is moved by
nobody. `BudgetSpent`: nothing is
counted against `--cycles` that was not run, each slice of the loop's own (which runs
"for roughly" what it was asked for) is undercounted by less than an instruction, and the
program does not leave early. `ImplementsPolling`: a component whose deadline an
instruction reaches is serviced in it, exactly once. `Stoppable`: an interrupt, or a step,
is answered by a stop. `CommandsKept`: a reply answers its own line, buttons come
back, under a debugger nothing moves the machine, a refused command changes nothing.

Why the bounds are enough.

* *Machine* (one timer, one slot, `Horizon` 2): `Times`, `Cost` and `Field` are
  scaled so that one instruction can pass a deadline, a vertical blank and
  several samples at once; every property is also proved without bounds.
* *Cpu*: all conforming programs of three instructions over ten kinds, which is
  a branch, its slot and its target in every combination; two interrupts, so that one can
  follow another at once; a breakpoint in the slot, in the target, on a word of data
  (`MCPrograms`, `Interrupts`, `MCBreaks`): the proof has no such bounds.
* *Dma*: channels 2, 3 and 6, two entries, two packets of up to two words, guard 6: two channels
  besides the one being served, an entry with no, one and two packets.
* *Gp0*: every opcode but 0 (a no-op taking one word), images of 1, 2 and 5 pixels (odd and
  even, shorter and longer than a word), polylines of up to three segments with parameter
  words that look like the terminator, and that do not.
* *Scanout*: 8 rows of VRAM, fields of 2 and 3 lines; ranges empty, in range and
  taller than the field. *Raster*: 3×3 pixels, vertices partly outside, both
  windings; two short commands or one long. *Mdec*: three coefficients, two
  blocks to a macroblock, up to three words: a block may end by its code, by
  running full and by padding, in either half of a word. *Spu*: one voice (voices
  interact through ENDX and the interrupt flag only), two blocks, full scale 15,
  at which the exponential steps round the way they do at 0x7fff.
* *Control*: two clients, three lines, one vertical blank: a client waiting at the
  door, a command cut at any piece, two in the buffer. *Cheats*: files of up to
  three lines of every type, the first of three a condition or half a slide; names with
  blanks and asterisks around them. *Scan*: two bytes, three passes. *Tty*: nine
  bytes, cap 4: two trims. *Packets*: two items of up to two bytes. *CueSheet*: six lines, three
  files of different lengths, one of them unusable.
* *Cdrom*: `QueueBound` stops the program from issuing commands while that many
  responses are queued; commands queue one or two, so up to three are pending,
  the first length at which a chained response can have two others ahead.
  Latencies are 1 or 2, in the order of the code's. The end of the disc, a track
  boundary and a sector of each kind are within two or three sectors. `Hold` and
  `SectorAudio` keep the code's proportion of half-full to full.
* *SioCard*: `TransferBound` lets a transaction run past its last byte; of the
  payload only one byte varies, with its checksum right or wrong. The instance
  with resets and loads is viewed without history (`NoHistory`), on which no
  guard depends, and saves states only before the checksum byte (`FewSaves`): a load then
  returns the port to the middle of a write at every step of the card's own. All
  the remaining bytes are fixed by `Program`, which also says which controls exist.
* *Timers*: an instruction may be shorter or longer than the blanking window and
  overshoot an edge or the field by two cycles; a field has two edges, one
  inside it and one that the vertical blank cuts; the counter wraps within two lines; the
  external clock makes two ticks in three cycles, so that remainders differ.
  `Margin` is the largest overshoot, as the code's is meant to be. `LongTargets`
  is the domain in which the code can be exact: a target shorter than an
  instruction is lost at a wrap (`timers_overrun`), and with reset-on-target a counter
  written past its target has the same hole. There is one video timing (section 8).
* *Session*: `SendBound` 2 lets a packet overtake a stop reply; `Cycles` 3 is used up
  in two iterations of the loop, the last of which may run past it by a cycle (`Longest` 2);
  `Asked` names the commands the user and the port give; one debugger, as the stub serves one at a time:
  the proofs have any number of them, of words, packets and cycles.

Every property has a mutant: a changed definition, next to the original in its
module, that stands for a plausible mistake and makes TLC refute the property.

## 5. Fairness

Two runs check liveness.

`cdrom_xa`, under `FairSpec`: weak fairness of `Elapse(1)` (instructions keep
executing, so emulated time passes; the worker's run loop has no other way out
than a pause), of `AcknowledgeAll` (an assumption on the program, which the
hardware makes too: without it the drive waits for ever by design) and of
`DrainAudio` (`step` hands audio to the SPU at every sample). `AnswersArrive` and
`ReadMoves` are then about the drive: a held sector and a queued response never
wait for each other.

`session`, under `Spec`: weak fairness of `LoopNext`, since each main loop is a
thread that goes on; of each client's `Receive`, since a debugger reads its
socket; and strong fairness of `CommandsHandled`, the worker finding its command
queue empty: `try_recv` is repeated until it fails, and a user does not post a
command between every two of its calls. Nothing is assumed of what users and
debuggers do.

## 6. Proofs

| Module | Theorem | Property |
|---|---|---|
| `MachineProofs` | `SpecIInv`, `TypeCorrect`, `WakeupsNeverLost`, `AlwaysOnTime`, `AlwaysOneVBlank`, `SamplesKeepPace` | `IInv`, `TypeOK`, `NoLostWakeup`, `OnTime`, `OneVBlank`, `SamplePacing` |
| | `MachinePolls` | `ImplementsPolling` (`Polled!Spec`) |
| | `ProgramsAreUndisturbed` | `ProgramUndisturbed` (`Precise` and `Transparent` of `Cpu`) |
| | `MacroblocksAreWhole` | `DecodedInStep` (`InStep` and `WholeMacroblocks` of `Mdec`) |
| `HardwareProofs` | `CompletionsAreKept` | `CompletionsKept` (`Dma`) |
| | `ListsAreDrawnInOrder` | `DrawnInOrder` (`Dma`, an action property) |
| | `CommandsStayInSync` | `CommandsInSync` (`Gp0`) |
| | `FramesAreWoven` | `FramesWoven` (`Scanout`) |
| | `PrimitivesAreDrawn` | `DrawnAsGiven` (`Raster`: `QuadsMeet`, `ShadesWithinVertices`, `LineUnbroken` and the action property `WritesWhereAllowed`) |
| | `VoicesDoEnd` | `VoicesEnd` (`Spu`, an action property) |
| `CdromProofs` | `QueueInOrder` | `InOrder` (`TypeOK` and `PendingInOrder`) |
| | `OneStreamAlways`, `StatusIsFresh`, `SwapIsTold`, `BacklogIsBounded` | `OneStream`, `NoStaleStatus`, `SwapNotMissed`, `BacklogBounded` |
| | `InterruptsAreKept`, `SectorsDoWait` | `IntNotOverwritten`, `SectorsWait` (action properties) |
| `SioCardProofs` | `SavesAreKept` | `NoLostSave` |
| | `CountsAgree`, `StoredWhole` | `KeptInStep`, `KeptCommitWhole` (an action property) |
| | `TypesAreKept` | `TypeOK`, with resets and loads |
| `SessionProofs` | `AgreesWithClients` | `MovesTogether` |
| | `CyclesSpent`, `WaitIsKept`, `TargetUndisturbed`, `BreakpointsDoHold` | `BudgetSpent`, `WaitHolds`, `Undisturbed`, `BreakpointsHold` |
| `FrontProofs` | `OutputIsReadOnce` | `OutputReadOnce` (`Tty`, an action property and its type) |
| | `CommandsAreKept` | `CommandsKept` (`Control`, four action properties and two invariants) |
| | `SurvivorsAreListed` | `ListsSurvivors` (`Scan`) |
| | `TracksAreInPlace` | `TracksInPlace` (`CueSheet`) |
| | `ItemsDoSurvive` | `ItemsSurvive` (`Packets`) |
| `TimersProofs` | `WakesMoveOn` | `MovesOn` (`TypeOK` and `WakeMovesOn` of `Timers`) |

Each theorem holds for every value of its module's constants under the
assumption the module names (`MachineAssumption` and `NeverAssumption`,
`CdromAssumption`, `SioCardAssumption`, `HardwareAssumption`, which is that of every unit,
`StubAssumption` and `SessionAssumption`, `TimersAssumption`; of `MCFront` `ControlAssumption`,
`ScanAssumption`, `TtyAssumption`, `PacketsAssumption` and `CueAssumption`): that counts are
numbers, sets of kinds disjoint, divisors positive, a line of the screen not empty, an
opcode a byte other than 0, a memory word to have a value, a file a length, and that the widest
primitive drawn has no more pixels than a pixel has fractions (1023 and 65536 in the code). TLC evaluates
them in the runs. `CountsAgree` and `StoredWhole` assume `Undisturbed` besides: no state load,
and no reset of the port that keeps it selected; without that `card_load` refutes
the first. `ListsAreDrawnInOrder` assumes `ListsAreShort`: a table and its packets are
no more nodes than the controller walks before it gives a list up (0x40000), as
in the run; a longer list is cut short by the code (bus.rs:792).

*Machine*. The properties of the running machine alone are not inductive: a load
brings back an old machine, so they must hold of every save file too. `IInv` is
`LiveOK` (the running machine is well typed, covered, on time, with one vertical
blank ahead and paced) and `FilesOK` (the same of every snapshot). `EndStep`
preserves `LiveOK` because draining removes only entries that are due, whose
components are serviced and armed anew, and because the components a step moves
without arming them (a timer on a read or a vertical blank, the port on a reset)
only move to a later deadline: an entry that comes too early wakes a component
for nothing, which the code allows. For `MachinePolls` the one pending vertical
blank gives the abstract `vblankAt`; the abstract machine's set of due components
equals the drained kinds by `NoLostWakeup` for one inclusion, and the spurious
wake-ups of the other are services the abstract machine allows.

*Cdrom*. The queue is in order because a response is queued with a wait no
shorter than the last one's, and time takes the same from all. No queued answer
tells a shut lid while it is open because opening clears the queue; an untold
opening is in the latch or in a queued answer that will tell it. Those facts are `IInv`;
the action properties follow from it step by step. The types of `InOrder` (`Typed`) are kept along
with it.

*SioCard*. `Together` relates the port's byte count, the card's step and the
bytes since the 0x81; from it a commit can be traced back to every byte of the
write. `NoLostSave` needs only that the dirty flag survives whatever replaces the
machine.

*The units of the console* are proved about as `MCHardware` composes them: the unit
that runs never changes and the others stand still, so that an invariant proved from
a unit's own initial states and steps holds of the composition.

*Cpu*. The theorem is for any set of programs up to the length that fits below the
vectors, any number of interrupts and any setting of the breakpoint registers that leaves
the handlers alone. The plain machine's course is a function (`Run(p)[n]`, the plain machine
after n steps): that it exists, and that a step leads from one place to the next,
is proved by taking the least counterexample (`NatLeast`, `UptoInduction` of module
`Induction`), an induction over a set of numbers that needs no operator parameter. `CpuInv` relates the
processor to a place of that course. Either it is about to execute the instruction there
(`AtStep`), or that instruction is a branch and it is in the slot (`InSlot`), or it
is in a handler that will return to it (`InHandler`), at one of the steps that fetch
EPC, wait for the load delay, hold the address, and leave. A branch whose slot was
interrupted is executed again. Registers, with a pending load landed (`Settled`), are those of
the plain machine, except for the kernel's own, and for the link register of a
branch still to be executed: it may have been written once already, and will be again
(`Relinked`). One lemma per kind of instruction says what it does on both machines
(`AluAgrees`, `LoadAgrees`, `StoreAgrees`, `StatusAgrees`), one per place what a step from
there leads to, and `CpuStepKeeps` puts them together.

*Dma*. `CompletionsKept` is inductive as it stands; the hard case is the write of
one half of DICR, which merges the stale half of the register back in. For
`DrawnInOrder` the invariant (`DmaInv`) says that the headers in memory string the program's
lists together (`Strung`): each node points to the next of its entry, the last to
the entry before it, entry 0 to the end, and a packet's header has its length. A packet
linked in takes an address no list has yet, so that only its entry changes
(`LinkedEntry`, `OtherEntry`). The walk is then followed node by node: what has arrived
and what the walk is still to bring make up the whole (`Arrived`), from packet
to packet (`NextPacketArrives`) and from entry to entry (`NextEntryArrives`), while what has
arrived is a beginning of the program's lists joined (`Joins`, `Laid`); an induction of
`Induction` inside another gives the end (`ListArrives`).

*Gp0*. `InSync` compares the port with `Meant`, which looks at the words sent so
far. The invariant `Gp0Inv` says where in a command the port is: at rest, with some of
a command's words collected, inside a polyline with its words counted in vertices, or
inside an image with its pixels counted in words, and that the program is at the same
place. A pixel count of an odd image and a polyline's terminator are its two delicate
steps.

*Scanout*. `Woven` alone is not inductive: a field leaves every other row of the frame
alone. `FieldInPlace` adds that the rows of the last field are new and in place, and
in any picture but an interlaced one of double height all of them.

*Raster*. VRAM of any size, any drawing area and offset, any vertices and any values; what is
claimed of a command follows from `TypeOK` before it, so the hard part is geometry
(`RasterStep` puts the commands together). `QuadsMeet`: a turn changes its sign with
the order of its edge and the three turns of a point about a triangle add up to the triangle's
(`TurnsAdd`), so that triangles on either side of an edge share no point inside. On the edge
itself the top-left rule decides: exactly one of the two ways along an edge owns it
(`OneWayOwns`), and a point between its ends is within the two other edges of both triangles
(`BetweenTheEnds`); so the halves neither overlap nor leave a seam (`HalvesMeet`).
`ShadesWithinVertices`: the weights are not negative and their sum divides the weighted sum
(`Weighed`), and truncation leaves a quotient between integers (`TruncBetween`).
`LineUnbroken`: the slope is truncated to a fraction of a pixel, and what that loses in all the steps of
a line is less than a pixel because a line drawn has no more steps than a pixel has fractions
(`DriftIs`, `AlongIs`); the longer axis then moves by a pixel at each step, and the other by one at most
(`PointIs`). A copy is a recursion over its pixels, each of which keeps VRAM's shape and spares
the pixels whose mask is checked (`WritingIs`, `CopyIs`).

*Spu*. `VoicesEnd` needs the type of a voice, that a voice that ran off a one-shot
sample is off, and that the flag is up only under its enable; the core lemma is
that an exponential step of a positive level rounds away from zero.

*Mdec*. The sender's count is the decoder's (`Sending`), and the macroblock being filled
has room for a block (`Room`). `WholeMacroblocks` is about a stream that is through; the
invariant is about every beginning of one (`Traced`). There is a sequence of ranges of
halfwords, chained from the start of the stream: each begins at the first halfword behind the
last range that is no padding, and ends at the first place behind that stops a block
(`Link`). The blocks emitted and those being collected hold these ranges' contents, in
order, numbered by macroblock and place in it (`Slot`). Behind the last range is either
padding, or the halfwords of the block under way, which is not at its end (`Goings`). A
halfword more (`FeedTraces`) leaves the finished ranges what they are, since where a block
ends depends on nothing behind it (`BuiltGrows`), and goes on, ends, begins or skips a block.
That such a sequence of ranges is *the* cut of the stream (`CutIs`), and that the
sums of run lengths in `Place` exist (`SumsExist`), takes the induction of `Induction`. The
end of the stream flushes the last block (`FinishThrough`).

*Session*. Per client, at most one of these is under way: a resume, a running
target, a stop reply; and none of them while it believes the target stopped; while it
believes the target runs, exactly one (`Lock`, in which requests are counted as sets of
places, not as sequences). A target just resumed still has its skip. Until the first
attach nobody is served. What a pump has read is handled before the next read
(`Served`). Between a pump and the end of the
iteration, what the loop has noted of the cycle count is what it was before the pump, and
an iteration under `--cycles` spends at most a slice and what its last instruction runs
over (`Within`, `Spending`). With the place in the loop these make `IInv`.

*Control*. Pieces of lines travel from a client's inbox to the buffer of the one
that is served. `PortInv` says, per client, that what it has on its way, read and unread, carries
exactly the commands it is owed an answer for, in order, each followed by its newline but
perhaps the last (`Carries`); so the line a pump takes out is the first command owed
(`CarriesLine`), whoever was served before. What a command may change (`Granted`) is
shown for each of them from `Outcome`: buttons it holds for a while come back, a
refusal leaves the machine, the buttons and the snapshots alone, and under a debugger the
time does not move.

*Tty*. `TtyInv`: the retained bytes are the last ones printed, whole characters, the line under
way begins behind the last newline, and a reader's place is between two characters
or before the window. A trim cuts between two characters and at or before the
beginning of the line (`TtyPushTrims`), so that the three stay true; what a reader then gets is
what was printed since it read last and is still retained.

*Scan*. What survives one pass after another is what survives all of them at
once: a filter of a filter is the filter of both (`ThoseTwice`, an induction over the
sequence). `ScanInv` says that of the candidates, whose comparison is against the memory
the pass before saw, that this is the snapshot.

*CueSheet*. The layout is a recursion over the files; by induction over them (`LaidIs`)
each track starts at the sector its INDEX 01 names behind the files and pregaps before it
(`StartsOf`), as long as its file is long enough. `CueInv` adds that an opened disc is the
layout of the sheet as it was read, and sound: starts ascend and lie in the image, so that the
greatest start not behind a track's own is its own (`AscendingIs`).

*Packets*. `WireInv` does not look at how the bytes are cut: what was sent is what was taken,
followed by the items that the bytes kept back and the bytes under way hold together, with
nothing left over. A segment arriving keeps that true since octets that come in
two parts hold the items of the first part, then those of what it leaves over with the
second part behind it (`ItemsInTwo`): no octet of a whole item depends on what follows it,
and what is no whole item yet is kept. That sending adds one item (`SendStep`) takes that
escaped data has no `#` and unescapes to the data (`EscapedIs`), and that a frame says its
packet, or that it is damaged, whatever follows it (`FramedSays`).

*Timers*. A wake-up that is due is served and the counter armed again; were the new one due
as well, the main loop would serve it for ever. `CatchUpKeeps`, by induction over the
phases at which the loop of `catch_up` stops, says that a counter that has caught up has
less than a tick of remainder: then an estimate of at least one tick is at least one cycle
away (`DeadlineIsAhead`). That a gate never counts a negative number of cycles
(`CountingIs`) is by induction over the phases between two (`BlankingWithinIs`). A register write
under a new video timing may well arm a wake-up that is due; it is served with
the instruction, after a catch-up at the new ratio.

Recursive functions over numbers (`Run`, `Place`, `Those`, `Laid`, `Items`, `Unescaped`,
`CatchUp`, the canvases of `VramCopy`)
have values because an induction over a set of numbers shows that a function with those
equations exists (`UptoRecursion`, `UpRecursion` and, for those defined from the end,
`DownRecursion` of `Induction`); the library's own theorems on recursive definitions take an operator
as a parameter, which the prover cannot instantiate.

Only model-checked: `CountsLikeTicking` of `Timers` and `CheatsAsWritten` of `Cheats`; and liveness
(`AnswersArrive`, `ReadMoves`, `Stoppable`), which is beyond the prover. `CountsLikeTicking` compares one
division of a whole catch-up by a ratio of clocks with the ticks of every cycle in it, through
wraps and gates whose places depend on both. `CheatsAsWritten` is about
a parser and a printer of files, with folds over lines of a dozen forms.

## 7. What the checks found

* `cdrom_fast`: `psx-core/src/cdrom.rs:482` counts a held CD-DA sector again at
  every retry, so reports come after fewer sectors than line 196 says.
* `card_load`: `psx-core/src/lib.rs:200` carries the card over a state load with
  its position in a transaction, while the port's is restored: the two counts
  of one transaction disagree until the next deselect (`memcard.rs:13`). The
  same happens with a JOY_CTRL write that resets the port and keeps it selected
  (`sio.rs:133`): adding `{"tx", "select", "reset"}` to `Controls` shows it.
* `timers_overrun`: `psx-core/src/timers.rs:292` tests only the ends of one advance
  for a crossing. The wake-up at the wrap comes at the end of the instruction
  that wraps the counter; a target the counter has passed by then raises its
  interrupt one wrap later, against `timers.rs:10`.
* `session_lid`: the worker drops a lid command that arrives once a debugger is
  attached (`psx-app/src/emu.rs:358`); if the picker was opened before and closed
  after, the lid stays open with no picker, against `ui.rs:274`.
* `cheats_chain`: of two conditions in a row a failing first one skips only the
  second, so the code behind them runs (`psx-core/src/cheats.rs:232`); nested, as
  `docs/CHEATS.md:47` has it, both would have to hold.

Met while reading, without a run of their own:

* Front end: a card file of the wrong size is replaced by the first save although
  `main.rs:203` says it is not saved over; `--wait-debugger` has no effect with a
  control port (`main.rs:365`); after `--wait-debugger` a detach does not resume;
  an attach and a detach within one pump leave `debugger_seen` false; headless
  runs never write the memory card; `disc open`, `disc close` and `poke` of the
  control port ask no debugger; `poke` writes the bytes before the first it
  refuses; end of file drops commands still in the buffer (`control.rs:1047`); a
  loaded state shows the snapshot's pads until the next run.
* Cheats and discs: the head of a two-line code swallows a `[Name]` line behind it
  (`cheats.rs:415`). A cheat whose name begins with an asterisk of its own (`[**A]`, or
  `[ *A]`) is written off as `[*A]` and read again as on, and named `A`: the file, "the
  only record" of what is on (`cheats.rs:381`), has lost the toggle. `StoredAsShown` says
  so and exempts nothing else. An
  INDEX beyond its file lands in the next (`disc.rs:217`).
* Debugger: a packet whose acknowledgement cannot be written is handled all the same, and a
  breakpoint it inserts stays for the next client (`psx-debug/src/lib.rs:176`). A step that
  costs more than was left of `--cycles`, with its client lost in the same pump, makes
  `cycles - done` wrap (`psx-app/src/main.rs:415`): a panic in a debug build, a slice
  more in a release build.
* TTY: text without a newline is trimmed in the middle of a line, text of
  newlines only never (`tty.rs:5`).
* Console: a channel started while disabled in DPCR never starts (`dma.rs:77`);
  DICR's force bit raises no interrupt by itself; a second VRAM read queues
  behind words not yet read, and GP1(01) leaves them; GP0(1F) never raises
  I_STAT; an MDEC Decode of 0 words takes the next word as data (`mdec.rs:155`);
  lines may end a pixel short; a loop end without repeat goes on fetching for the
  rest of the envelope's wait; the sweep's countdown outlives a rewrite of its
  register (`spu.rs:205`); a card that did not recognise its command acknowledges
  two more bytes (`memcard.rs:125` against the comment at `:20`); the drive's
  response queue has no limit (`cdrom.rs:616`); Setloc before 00:02:00
  underflows (`cdrom.rs:829`); the byte count of a transaction wraps at 256
  (`sio.rs:180`).

## 8. Not modelled, and why

The GTE, ADPCM, MDEC's transforms, colour arithmetic, textures, blending and
dithering are arithmetic with no control state. Widgets, host audio, gamepads,
configuration files, EXE loading and command-line parsing are I/O. Commands of
the debugger and of the control port that only read are left out.

Within the modelled parts: `Machine` takes a timer's deadline as an arbitrary
value that a catch-up never makes earlier; `Timers` computes it. In a
reset-on-edge mode a catch-up can turn an estimate of `None` into a number, for a
crossing beyond the edge that resets the counter; `Machine` leaves that case out
and `Timers` has it. A GP1 write that changes the video timing re-arms the
counters without a catch-up, so that the cycles since the last one are counted
at the new ratio: with a second record in `MCTiming` TLC refutes
`CountsLikeTicking`. In `MCFront` a cheat file has at most three lines
behind its first name. A crash in the middle of `fs::write` is listed as a hazard without a
property, and so is a write of the card that fails, which `NoLostSave` counts as told.
