------------------------------ MODULE MCCdrom ------------------------------
(* Model-checking instances of Cdrom: see the .cfg files.                  *)
EXTENDS Cdrom

(* The order of the latencies is kept where the code's differ by much.     *)
MCDelay == [l \in Latencies |-> CASE l \in {"running", "single", "spindown"} -> 2
                                  [] OTHER -> 1]

Data(t) == [kind |-> "data", track |-> t]
Audio(t) == [kind |-> "audio", track |-> t]
Xa(s) == [kind |-> "xa", track |-> 1, stream |-> s]

DataDiscs == {<<Data(1), Data(1)>>}
XaDiscs == {<<Xa("voice"), Xa("music"), Data(1)>>}
AudioDiscs == {<<Audio(1), Audio(2)>>}

DataModes == {{}}
XaModes == {{"xa"}, {"xa", "filter"}}
AudioModes == {{"autopause"}, {"report"}}
FastModes == {{"report", "double"}}

LidCommands == {"Getstat", "Read", "Play", "Pause", "MotorOn", "Stop", "Init", "GetID",
                "GetlocP", "Unknown"}
XaCommands == {"Read", "Pause", "Mute", "Demute", "Setmode", "Setfilter"}
AudioCommands == {"Play", "Setmode", "Seek", "Setloc", "GetTN", "ReadTOC", "Test"}
FastCommands == {"Play", "Setmode"}

AllDiscs == DataDiscs \cup AudioDiscs
AllModes == DataModes \cup AudioModes
AllCommands == LidCommands \cup AudioCommands
=============================================================================
