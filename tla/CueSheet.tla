------------------------------ MODULE CueSheet ------------------------------
(***************************************************************************)
(* Opening a disc image (psx-app disc.rs, Disc::with_tracks in cdrom.rs):  *)
(* a cue sheet is read line by line into the tracks of its files, the      *)
(* files are laid end to end with the pregaps made up as silence, and the  *)
(* table of contents gives each track its first sector in the whole image. *)
(*                                                                         *)
(* A sector of the image is the file and the position it came from, or     *)
(* silence; lines the parser does not know are left out.                   *)
(***************************************************************************)
EXTENDS Integers, SequencesExt

CONSTANTS Files,        \* the files beside the sheet
          Length,       \* Length[f]: whole sectors in f, 0 if it has no whole number
          Numbers,      \* track numbers written in sheets
          Positions,    \* positions written in sheets, in sectors
          MaxLines      \* bound: lines of a sheet

VARIABLES sheet,        \* the files named so far: [name, tracks], in order
          lines,        \* lines read
          image,        \* the sectors of the opened disc
          toc,          \* its tracks: [number, audio, start]
          result        \* "reading", "open" or "refused"

vars == <<sheet, lines, image, toc, result>>

Track == [number : Numbers, audio : BOOLEAN, pregap : Positions, index1 : Positions]
Silence == <<"silence", 0>>

Init ==
    /\ sheet = <<>> /\ lines = 0
    /\ image = <<>> /\ toc = <<>>
    /\ result = "reading"

----------------------------------------------------------------------------
(* The sheet, a line at a time.                                            *)

Line == result = "reading" /\ lines < MaxLines /\ lines' = lines + 1

FileLine(f) ==
    /\ Line
    /\ sheet' = Append(sheet, [name |-> f, tracks |-> <<>>])
    /\ UNCHANGED <<image, toc, result>>

\* Only modes of whole 2352-byte sectors are supported.
TrackLine(number, mode) ==
    /\ Line
    /\ IF sheet = <<>> \/ mode = "2048"
       THEN result' = "refused" /\ UNCHANGED sheet
       ELSE /\ sheet' = [sheet EXCEPT ![Len(sheet)].tracks =
                            Append(@, [number |-> number, audio |-> mode = "audio",
                                       pregap |-> 0, index1 |-> 0])]
            /\ UNCHANGED result
    /\ UNCHANGED <<image, toc>>

\* PREGAP and INDEX 01 belong to the last track of the last file.
OnTrack(field, position) ==
    /\ Line
    /\ IF sheet = <<>> \/ Last(sheet).tracks = <<>>
       THEN result' = "refused" /\ UNCHANGED sheet
       ELSE LET f == Len(sheet)
                t == Len(sheet[f].tracks)
            IN  /\ sheet' = IF field = "PREGAP"
                            THEN [sheet EXCEPT ![f].tracks[t].pregap = position]
                            ELSE [sheet EXCEPT ![f].tracks[t].index1 = position]
                /\ UNCHANGED result
    /\ UNCHANGED <<image, toc>>

----------------------------------------------------------------------------
(* Laying the files out.                                                   *)

Sectors(f) == [i \in 1..Length[f] |-> <<f, i - 1>>]
Whole(f) == Length[f] > 0

\* Only the first track of a file may ask for a pregap.
Pregap(file) == IF file.tracks = <<>> THEN 0 ELSE file.tracks[1].pregap
Spliced(file) == \E i \in DOMAIN file.tracks : i > 1 /\ file.tracks[i].pregap > 0

(* Mutated form of AddFile: the tracks start where the pregap does. *)
AddFileEarly(disc, file) ==
    [image |-> disc.image \o [i \in 1..Pregap(file) |-> Silence] \o Sectors(file.name),
     toc   |-> disc.toc \o
               [i \in DOMAIN file.tracks |->
                   [number |-> file.tracks[i].number, audio |-> file.tracks[i].audio,
                    start |-> Len(disc.image) + file.tracks[i].index1]]]

AddFile(disc, file) ==
    LET before == disc.image \o [i \in 1..Pregap(file) |-> Silence]
    IN  [image |-> before \o Sectors(file.name),
         toc   |-> disc.toc \o
                   [i \in DOMAIN file.tracks |->
                       [number |-> file.tracks[i].number, audio |-> file.tracks[i].audio,
                        start |-> Len(before) + file.tracks[i].index1]]]

Laid ==
    LET upto[n \in 0..Len(sheet)] ==
            IF n = 0 THEN [image |-> <<>>, toc |-> <<>>] ELSE AddFile(upto[n - 1], sheet[n])
    IN  upto[Len(sheet)]

(* Mutated form of Sound: starts are not compared with the image. *)
SoundAscending(disc) ==
    /\ disc.image # <<>> /\ disc.toc # <<>>
    /\ \A i \in 2..Len(disc.toc) : disc.toc[i - 1].start <= disc.toc[i].start

\* Disc::with_tracks
Sound(disc) ==
    /\ disc.image # <<>> /\ disc.toc # <<>>
    /\ \A i \in 2..Len(disc.toc) : disc.toc[i - 1].start <= disc.toc[i].start
    /\ \A i \in DOMAIN disc.toc : disc.toc[i].start < Len(disc.image)

Assemble ==
    /\ result = "reading"
    /\ IF /\ \A i \in DOMAIN sheet : Whole(sheet[i].name) /\ ~ Spliced(sheet[i])
          /\ Sound(Laid)
       THEN result' = "open" /\ image' = Laid.image /\ toc' = Laid.toc
       ELSE result' = "refused" /\ UNCHANGED <<image, toc>>
    /\ UNCHANGED <<sheet, lines>>

Next ==
    \/ \E f \in Files : FileLine(f)
    \/ \E n \in Numbers, mode \in {"audio", "2352", "2048"} : TrackLine(n, mode)
    \/ \E p \in Positions : OnTrack("PREGAP", p) \/ OnTrack("INDEX 01", p)
    \/ Assemble

Spec == Init /\ [][Next]_vars

----------------------------------------------------------------------------
(* What the drive asks of an open disc (Disc::track_at, track_start).      *)

TrackAt(lba) ==
    LET started == {i \in DOMAIN toc : toc[i].start <= lba}
    IN  IF started = {} THEN toc[1]
        ELSE toc[CHOOSE i \in started : \A j \in started : j <= i]

TypeOK ==
    /\ result \in {"reading", "open", "refused"}
    /\ \A i \in DOMAIN sheet : \A t \in DOMAIN sheet[i].tracks : sheet[i].tracks[t] \in Track
    /\ result # "open" => image = <<>> /\ toc = <<>>

(* Every track the table of contents names can be played from its start:   *)
(* there is a sector there, and the drive that seeks to it finds itself on  *)
(* a track that starts there (parse_cue, with_tracks).                     *)
StartsAreSectors ==
    result = "open" =>
        \A i \in DOMAIN toc :
            /\ toc[i].start + 1 \in DOMAIN image
            /\ TrackAt(toc[i].start).start = toc[i].start

\* The sectors the tracks' own INDEX 01 lines name, over all files.
Indexed(file) == [i \in DOMAIN file.tracks |-> <<file.name, file.tracks[i].index1>>]
Entries ==
    LET upto[n \in 0..Len(sheet)] ==
            IF n = 0 THEN <<>> ELSE upto[n - 1] \o Indexed(sheet[n])
    IN  upto[Len(sheet)]

(* A track starts at the sector its own INDEX 01 names in its own file,    *)
(* when that file is long enough, whatever files and pregaps come before.  *)
TracksStartInTheirFiles ==
    result = "open" =>
        /\ Len(toc) = Len(Entries)
        /\ \A i \in DOMAIN toc :
               Entries[i][2] < Length[Entries[i][1]] => image[toc[i].start + 1] = Entries[i]
=============================================================================
