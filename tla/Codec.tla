-------------------------------- MODULE Codec --------------------------------
(***************************************************************************)
(* What bring-up says to a codec and what it makes of the answers          *)
(* (hda/src/codec.rs), the SD_FORMAT encoding (hda/src/stream.rs) and the  *)
(* choice of a rate (server/src/backend.rs).  A verb is a record; a reply  *)
(* is told apart as far as the code looks at it.                           *)
(***************************************************************************)
EXTENDS Integers, Sequences, FiniteSets

(* NID_*; the four kinds of widget behind the six nodes of a path.         *)
AFG == 1
Dacs == {2, 3}
Muxes == {12, 13}
Pins == {20, 21}
Path == Dacs \cup Muxes \cup Pins

(* A codec is what it says of its vendor, its subsystem and its revision,  *)
(* and of the type of its widgets.                                         *)
Expected(nid) == CASE nid \in Dacs -> {"OUT"} [] nid \in Muxes -> {"MIX", "SEL"} [] nid \in Pins -> {"PIN"}
ExpectedLayout(layout) == \A nid \in Path : layout[nid] \in Expected(nid)

Ids == {"subsystem", "revision", "subsystem_afg"}
Reading == Ids \cup {"vendor", "caps"}
Setting == {"power", "stream", "format", "out_amp", "select", "pin", "eapd"}
Verb(nid, op, value) == [nid |-> nid, op |-> op, value |-> value]

(* A set verb answers 0.                                                   *)
Answer(codec, verb) ==
  CASE verb.op = "vendor" -> codec.vendor
    [] verb.op = "caps" -> codec.layout[verb.nid]
    [] verb.op \in Ids -> codec.id[verb.op]
    [] OTHER -> "zero"

(* An id is any number: zero, one that reads as a widget type, or another. *)
Replies == {"zero", "id", "realtek", "intel", "OUT", "MIX", "SEL", "PIN"}

(* How probe and check_widget read a reply, their own or another's: zero   *)
(* is no vendor, and widget type 0 is an output converter.                 *)
IsVendor(reply) == reply # "zero"
WidgetType(reply) == IF reply = "zero" THEN "OUT" ELSE reply

-----------------------------------------------------------------------------
(* init_playback: the AFG, six checks, then the two halves of the path.    *)
D0 == 0
DefaultGain == 68
AmpMute == 128
PinOut == 64
PinHp == 128
Eapd == 2

Checks == <<Verb(2, "caps", 0), Verb(3, "caps", 0), Verb(12, "caps", 0),
            Verb(13, "caps", 0), Verb(20, "caps", 0), Verb(21, "caps", 0)>>

(* Mutant of ProgramDac: the converter keeps the format it had.            *)
ProgramDacUnformatted(nid, fmt, tag) ==
  <<Verb(nid, "power", D0), Verb(nid, "stream", tag), Verb(nid, "out_amp", DefaultGain)>>

ProgramDac(nid, fmt, tag) ==
  <<Verb(nid, "power", D0), Verb(nid, "stream", tag),
    Verb(nid, "format", fmt), Verb(nid, "out_amp", DefaultGain)>>

(* set_input_amp names neither the output amplifier nor the input one: the *)
(* codec answers and sets nothing.                                         *)
ProgramMux(nid, input) ==
  <<Verb(nid, "power", D0), Verb(nid, "select", input), Verb(nid, "no_amp", input)>>

ProgramPin(nid, control) ==
  <<Verb(nid, "power", D0), Verb(nid, "pin", control),
    Verb(nid, "eapd", Eapd), Verb(nid, "out_amp", 0)>>

Programming(fmt, tag) ==
  ProgramDac(2, fmt, tag) \o ProgramMux(12, 0) \o ProgramPin(20, PinOut) \o
  ProgramDac(3, fmt, tag) \o ProgramMux(13, 1) \o ProgramPin(21, PinOut + PinHp)

InitPlayback(fmt, tag) == <<Verb(AFG, "power", D0)>> \o Checks \o Programming(fmt, tag)

(* Codec::set_mute                                                         *)
SetMute(mute) ==
  LET amp == DefaultGain + (IF mute THEN AmpMute ELSE 0) IN
  <<Verb(2, "out_amp", amp), Verb(3, "out_amp", amp)>>

-----------------------------------------------------------------------------
(* encode_rate: the first of base, mult and div that give the rate.        *)
Factors == 1 .. 8
Bases == <<48000, 44100>>
Encodings(rate) ==
  {e \in [base : 1 .. 2, mult : Factors, div : Factors] : Bases[e.base] * e.mult = rate * e.div}
Earlier(a, b) ==
  \/ a.base < b.base
  \/ a.base = b.base /\ (a.mult < b.mult \/ (a.mult = b.mult /\ a.div <= b.div))
RateSupported(rate) == Encodings(rate) # {}
EncodeRate(rate) == CHOOSE e \in Encodings(rate) : \A f \in Encodings(rate) : Earlier(e, f)

(* format_val: each factor less one in three bits, the base above them.    *)
FormatVal(rate) ==
  LET e == IF RateSupported(rate) THEN EncodeRate(rate) ELSE EncodeRate(48000) IN
  17 + (e.div - 1) * 256 + (e.mult - 1) * 2048 + (e.base - 1) * 16384

(* What a format says, read as the code reads it, with three bits of       *)
(* multiplier; of these the hardware knows those of HdaRates, 1 to 4.      *)
RateOf(fmt) ==
  (Bases[((fmt \div 16384) % 2) + 1] * (((fmt \div 2048) % 8) + 1)) \div (((fmt \div 256) % 8) + 1)

HdaRates == {192000, 176400, 96000, 88200, 48000, 44100, 32000, 24000, 22050, 16000, 12000, 11025, 8000}

(* nearest_hda_rate: the lower of two that are as near.                    *)
Off(rate, r) == IF r > rate THEN r - rate ELSE rate - r
NearestHdaRate(rate) ==
  CHOOSE r \in HdaRates : \A s \in HdaRates :
    Off(rate, r) < Off(rate, s) \/ (Off(rate, r) = Off(rate, s) /\ r <= s)
HardwareRate(rate) == IF RateSupported(rate) THEN rate ELSE NearestHdaRate(rate)
=============================================================================
