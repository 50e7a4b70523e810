-------------------------------- MODULE Spu --------------------------------
(***************************************************************************)
(* The sound processor's voices and its interrupt (spu.rs): key on and key *)
(* off, the blocks a voice fetches and the loop flags that steer it, the   *)
(* ADSR envelope that decides whether it is heard, and the interrupt when  *)
(* a fetch or a manual transfer touches the watched address.               *)
(*                                                                         *)
(* SPU RAM is counted in ADPCM blocks, and a block is its three flags.     *)
(* What the samples sound like (decoding, interpolation, mixing, reverb,   *)
(* noise, sweeps) is left out: a voice is heard in proportion to its       *)
(* envelope.  The envelope is the code's, with its full scale 0x7fff and   *)
(* the shift 11 at which its steps become waits as constants.              *)
(***************************************************************************)
EXTENDS Integers

CONSTANTS Voices,       \* voice numbers
          Blocks,       \* ADPCM blocks in SPU RAM
          Span,         \* pitch steps a block lasts, 28 << 12
          Pitches,      \* the pitches a game uses, below Span
          Full,         \* the loudest envelope level, 0x7fff
          Pivot,        \* the shift at which a step of 1 needs no wait, 11
          Envelopes,    \* the ADSR settings a game uses
          Flags         \* what blocks the game uploads: sets of start, end, repeat

Settings == [attack : 0..127, attackExp : BOOLEAN, decay : 0..60, level : 0..Full,
             sustain : 0..127, sustainDec : BOOLEAN, sustainExp : BOOLEAN,
             release : 0..124, releaseExp : BOOLEAN]

SpuAssumption ==
    /\ {Blocks, Span, Full} \subseteq Nat \ {0} /\ Pivot \in 1..30
    /\ Pitches # {} /\ Pitches \subseteq 0..(Span - 1)
    /\ Envelopes # {} /\ Envelopes \subseteq Settings
    /\ Flags \subseteq SUBSET {"start", "end", "repeat"}
    /\ \A n \in 0..30 : 2 ^ n \in Nat \ {0}  \* the shifts that occur fit a word

VARIABLES regs,         \* regs[v]: what the game wrote: [start, pitch, adsr]
          voice,        \* voice[v]: [phase, vol, wait, at, loop, pos]
          endx,         \* voices that have fetched an end block since key on
          ram,          \* ram[b]: the flags of block b
          xfer,         \* the block the data port writes next
          cnt,          \* SPUCNT: [on, irq]
          watched,      \* the interrupt address
          irqFlag,      \* SPUSTAT's interrupt flag; setting it raises line 9
          over          \* voices that ran off a one-shot end since key on

vars == <<regs, voice, endx, ram, xfer, cnt, watched, irqFlag, over>>

Phases == {"attack", "decay", "sustain", "release", "off"}
Silent == [phase |-> "off", vol |-> 0, wait |-> 0, at |-> 0, loop |-> 0, pos |-> 0]

Init ==
    /\ \E e \in Envelopes : regs = [v \in Voices |-> [start |-> 0, pitch |-> CHOOSE p \in Pitches : TRUE, adsr |-> e]]
    /\ voice = [v \in Voices |-> Silent]
    /\ endx = {} /\ over = {}
    /\ ram = [b \in 0..(Blocks - 1) |-> {}]
    /\ xfer = 0
    /\ cnt = [on |-> FALSE, irq |-> FALSE]
    /\ watched = 0
    /\ irqFlag = FALSE

----------------------------------------------------------------------------
(* The envelope.                                                           *)

Above0(n) == IF n > 0 THEN n ELSE 0
Clamp(n) == IF n < 0 THEN 0 ELSE IF n > Full THEN Full ELSE n

(* Mutated form of Falling: the cut may be nothing. *)
FallingToNothing(step, level) == -((-step * level) \div (Full + 1))

\* A falling exponential step is in proportion to the level, cut towards
\* zero, and never nothing.
Falling(step, level) ==
    LET cut == (-step * level) \div (Full + 1)
    IN  IF cut = 0 THEN -1 ELSE -cut

\* envelope_step: [samples to wait after the step, the step].
EnvelopeStep(rate, dec, exp, level) ==
    LET shift == rate \div 4
        base  == IF dec THEN (rate % 4) - 8 ELSE 7 - (rate % 4)
        raw   == base * 2 ^ Above0(Pivot - shift)
        wait  == 2 ^ Above0(shift - Pivot)
        slow  == exp /\ ~ dec /\ 4 * level > 3 * (Full + 1)
    IN  [wait |-> (IF slow THEN 4 * wait ELSE wait) - 1,
         step |-> IF exp /\ dec THEN Falling(raw, level) ELSE raw]

\* (rate, decreasing, exponential) of a phase.
Course(phase, adsr) ==
    CASE phase = "attack"  -> <<adsr.attack, FALSE, adsr.attackExp>>
      [] phase = "decay"   -> <<adsr.decay, TRUE, TRUE>>
      [] phase = "sustain" -> <<adsr.sustain, adsr.sustainDec, adsr.sustainExp>>
      [] phase = "release" -> <<adsr.release, TRUE, adsr.releaseExp>>

NextPhase(phase, vol, adsr) ==
    CASE phase = "attack" /\ vol >= Full        -> "decay"
      [] phase = "decay" /\ vol <= adsr.level   -> "sustain"
      [] phase = "release" /\ vol = 0           -> "off"
      [] OTHER                                  -> phase

TickEnvelope(s, adsr) ==
    IF s.wait > 0 THEN [s EXCEPT !.wait = @ - 1]
    ELSE LET c == Course(s.phase, adsr)
             e == EnvelopeStep(c[1], c[2], c[3], s.vol)
             vol == Clamp(s.vol + e.step)
         IN  [s EXCEPT !.wait = e.wait, !.vol = vol,
                       !.phase = NextPhase(s.phase, vol, adsr)]

----------------------------------------------------------------------------
(* Fetching blocks.                                                        *)

\* Where the loop flags of the block at s.at send the voice.
Captured(s) == IF "start" \in ram[s.at] THEN [s EXCEPT !.loop = s.at] ELSE s

(* Mutated form of Steered: a one-shot end empties the envelope but leaves *)
(* its phase to run.                                                       *)
SteeredOn(s) ==
    CASE "end" \notin ram[s.at] -> [s EXCEPT !.at = (@ + 1) % Blocks]
      [] {"end", "repeat"} \subseteq ram[s.at] -> [s EXCEPT !.at = s.loop]
      [] OTHER -> [s EXCEPT !.at = s.loop, !.vol = 0]

Steered(s) ==
    CASE "end" \notin ram[s.at] -> [s EXCEPT !.at = (@ + 1) % Blocks]
      [] {"end", "repeat"} \subseteq ram[s.at] -> [s EXCEPT !.at = s.loop]
      [] OTHER -> [s EXCEPT !.at = s.loop, !.phase = "release", !.vol = 0]

Playing(v) == voice[v].phase # "off"
Fetches(v) == Playing(v) /\ voice[v].pos + regs[v].pitch >= Span

\* One sample of voice v: the pitch step, the fetch it may lead to, the
\* envelope.
Stepped(v) ==
    LET s == voice[v]
        moved == IF Fetches(v)
                 THEN Steered(Captured([s EXCEPT !.pos = @ + regs[v].pitch - Span]))
                 ELSE [s EXCEPT !.pos = @ + regs[v].pitch]
    IN  IF Playing(v) THEN TickEnvelope(moved, regs[v].adsr) ELSE s

Watching == cnt.on /\ cnt.irq

GenerateSample ==
    LET hit == Watching /\ \E v \in Voices : Fetches(v) /\ voice[v].at = watched
        ended == {v \in Voices : Fetches(v) /\ "end" \in ram[voice[v].at]}
    IN  /\ voice' = [v \in Voices |-> Stepped(v)]
        /\ endx' = endx \cup ended
        /\ over' = over \cup {v \in ended : "repeat" \notin ram[voice[v].at]}
        /\ irqFlag' = (irqFlag \/ hit)
        /\ UNCHANGED <<regs, ram, xfer, cnt, watched>>

----------------------------------------------------------------------------
(* Registers.                                                              *)

KeyOn(mask) ==
    /\ voice' = [v \in Voices |->
                    IF v \in mask
                    THEN [phase |-> "attack", vol |-> 0, wait |-> 0,
                          at |-> regs[v].start, loop |-> regs[v].start, pos |-> Span]
                    ELSE voice[v]]
    /\ endx' = endx \ mask
    /\ over' = over \ mask
    /\ UNCHANGED <<regs, ram, xfer, cnt, watched, irqFlag>>

KeyOff(mask) ==
    /\ voice' = [v \in Voices |->
                    IF v \in mask /\ Playing(v)
                    THEN [voice[v] EXCEPT !.phase = "release", !.wait = 0]
                    ELSE voice[v]]
    /\ UNCHANGED <<regs, endx, ram, xfer, cnt, watched, irqFlag, over>>

WriteVoice(v) ==
    /\ \/ \E b \in 0..(Blocks - 1) : regs' = [regs EXCEPT ![v].start = b]
       \/ \E p \in Pitches : regs' = [regs EXCEPT ![v].pitch = p]
    /\ UNCHANGED <<voice, endx, ram, xfer, cnt, watched, irqFlag, over>>

\* A write of the repeat address replaces the loop point a block captured.
WriteRepeat(v) ==
    /\ \E b \in 0..(Blocks - 1) : voice' = [voice EXCEPT ![v].loop = b]
    /\ UNCHANGED <<regs, endx, ram, xfer, cnt, watched, irqFlag, over>>

(* Mutated form of WriteControl: acknowledged by switching the SPU off. *)
WriteControlOff ==
    /\ cnt' \in [on : BOOLEAN, irq : BOOLEAN]
    /\ irqFlag' = (irqFlag /\ cnt'.on)
    /\ UNCHANGED <<regs, voice, endx, ram, xfer, watched, over>>

\* SPUCNT: clearing the interrupt enable acknowledges the interrupt.
WriteControl ==
    /\ cnt' \in [on : BOOLEAN, irq : BOOLEAN]
    /\ irqFlag' = (irqFlag /\ cnt'.irq)
    /\ UNCHANGED <<regs, voice, endx, ram, xfer, watched, over>>

WriteAddress ==
    /\ \/ watched' \in 0..(Blocks - 1) /\ UNCHANGED xfer
       \/ xfer' \in 0..(Blocks - 1) /\ UNCHANGED watched
    /\ UNCHANGED <<regs, voice, endx, ram, cnt, irqFlag, over>>

\* The data port, by hand or by DMA.
WriteData ==
    /\ \E f \in Flags : ram' = [ram EXCEPT ![xfer] = f]
    /\ xfer' = (xfer + 1) % Blocks
    /\ irqFlag' = (irqFlag \/ (Watching /\ xfer = watched))
    /\ UNCHANGED <<regs, voice, endx, cnt, watched, over>>

Next ==
    \/ GenerateSample
    \/ \E mask \in SUBSET Voices \ {{}} : KeyOn(mask) \/ KeyOff(mask)
    \/ \E v \in Voices : WriteVoice(v) \/ WriteRepeat(v)
    \/ WriteControl \/ WriteAddress \/ WriteData

Spec == Init /\ [][Next]_vars

----------------------------------------------------------------------------
TypeOK ==
    /\ \A v \in Voices :
           /\ voice[v].phase \in Phases
           /\ voice[v].vol \in 0..Full
           /\ voice[v].wait \in Nat
           /\ {voice[v].at, voice[v].loop} \subseteq 0..(Blocks - 1)
           /\ voice[v].pos \in 0..Span
    /\ endx \subseteq Voices /\ over \subseteq Voices
    /\ xfer \in 0..(Blocks - 1) /\ watched \in 0..(Blocks - 1)
    /\ irqFlag \in BOOLEAN

(* A voice that has run off the end of a one-shot sample is not heard again*)
(* until it is keyed on, whatever the game writes and however long its     *)
(* envelope still counts; and a voice that is off is at level zero, so     *)
(* that ENVX reads as silence (fetch_block, key_off, tick_envelope).       *)
OneShotStaysSilent ==
    \A v \in Voices :
        v \in over \/ ~ Playing(v) => voice[v].vol = 0 /\ voice[v].phase \in {"release", "off"}

(* The interrupt flag the game polls in SPUSTAT is never seen set with the *)
(* enable bit that acknowledges it clear (write16, raise_irq).             *)
FlagUnderEnable == irqFlag => cnt.irq

(* A released voice dies away: every envelope step of a release lowers the *)
(* level or ends the voice, at every level and for every rate, so that a   *)
(* voice keyed off is off after finitely many samples (envelope_step).     *)
DiesAwayStep ==
    GenerateSample =>
        \A v \in Voices :
            voice[v].phase = "release" /\ voice[v].wait = 0
                => voice'[v].vol < voice[v].vol \/ voice'[v].phase = "off"

(* All of this, at every step.                                             *)
VoicesEndStep ==
    /\ DiesAwayStep
    /\ (TypeOK /\ OneShotStaysSilent /\ FlagUnderEnable)'
VoicesEnd == [][VoicesEndStep]_vars
============================================================================
