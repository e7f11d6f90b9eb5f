----------------------------- MODULE RmkTypemap -----------------------------
(* What RainMaker is told about a device: components/rainmaker_gw/          *)
(* rmk_typemap.c, and the conversions of values between the two sides       *)
(* (rmk_bridge.c, zhac_to_rm_val and rm_to_zhac_val).                       *)
(*                                                                         *)
(* An expose is a record [name, writable]; a device is a sequence of them.  *)
EXTENDS Integers, Sequences

Clamp(v, lo, hi) == IF v < lo THEN lo ELSE IF v > hi THEN hi ELSE v

(* Zigbee brightness 0..254 to per cent and back. *)
BriToRm(zb) == (Clamp(zb, 0, 254) * 100 + 127) \div 254
BriFromRm(rm) == (Clamp(rm, 0, 100) * 254 + 50) \div 100

(* Mired to Kelvin and back; 0 mired is an unknown temperature. *)
MiredToKelvin(m) == IF m <= 0 THEN 6500 ELSE Clamp(1000000 \div m, 2700, 6500)
KelvinToMired(k) == 1000000 \div Clamp(k, 2700, 6500)

(* kMap: the exposes that become parameters, with their conversions. *)
Row(type, data, conv) == [type |-> type, data |-> data, conv |-> conv]
Map == [
    state       |-> Row("power", "b", "none"),
    brightness  |-> Row("brightness", "i", "bri"),
    color_temp  |-> Row("cct", "i", "cct"),
    temperature |-> Row("temperature", "f", "div100"),
    humidity    |-> Row("humidity", "f", "div100"),
    occupancy   |-> Row("motion-detection-state", "b", "none"),
    contact     |-> Row("contact-detection-state", "b", "contact")]

(* What the cloud is shown for a raw value: hundredths stand for the float. *)
ZhacToRm(row, v) ==
    CASE row.conv = "bri" -> BriToRm(v)
      [] row.conv = "cct" -> MiredToKelvin(v)
      [] row.conv = "div100" -> v
      [] OTHER -> IF row.data = "b" THEN (IF v # 0 THEN 1 ELSE 0) ELSE v

(* What the device is told for a value of the cloud (writable ones only). *)
RmToZhac(row, v) ==
    CASE row.conv = "bri" -> BriFromRm(v)
      [] row.conv = "cct" -> KelvinToMired(v)
      [] OTHER -> v

Names(ex) == {ex[i].name : i \in DOMAIN ex}
Writable(ex) == {i \in DOMAIN ex : ex[i].writable}

(* rmk_classify: the first rule that fits. *)
Classify(ex) ==
    CASE Names(ex) \cap {"brightness", "color_temp", "color_x", "color_y"} # {} -> "lightbulb"
      [] "occupancy" \in Names(ex) -> "motion-sensor"
      [] "contact" \in Names(ex) -> "contact-sensor"
      [] "state" \in Names(ex) ->
            IF \E i \in Writable(ex) : ex[i].name = "state" THEN "switch" ELSE "other"
      [] "temperature" \in Names(ex) /\ Writable(ex) = {} -> "temperature-sensor"
      [] OTHER -> "other"

Primary(type) ==
    CASE type \in {"lightbulb", "switch"} -> "power"
      [] type = "motion-sensor" -> "motion-detection-state"
      [] type = "contact-sensor" -> "contact-detection-state"
      [] type = "temperature-sensor" -> "temperature"
      [] OTHER -> ""

RMK_MAX_PARAMS == 8

(* rmk_build_params: the exposes the map knows, in order, up to the capacity. *)
BuildParams(type, ex) ==
    LET known == SelectSeq(ex, LAMBDA e : e.name \in DOMAIN Map)
        n == IF Len(known) < RMK_MAX_PARAMS THEN Len(known) ELSE RMK_MAX_PARAMS
    IN  [i \in 1..n |->
            [key |-> known[i].name, writable |-> known[i].writable,
             primary |-> Map[known[i].name].type = Primary(type)]]

-----------------------------------------------------------------------------
(* A slider position that the cloud has set survives the way to the device   *)
(* and back, so that the report of the device does not move the slider        *)
(* (rmk_bri_from_rm, rmk_bri_to_rm).                                          *)
BrightnessStays == \A rm \in 0..100 : BriToRm(BriFromRm(rm)) = rm

(* A report never leaves the bounds the parameter was declared with.          *)
InBounds ==
    /\ \A zb \in -1..256 : BriToRm(zb) \in 0..100
    /\ \A m \in -1..600 : MiredToKelvin(m) \in 2700..6500

(* Writing back what a device in the range of the slider reported is          *)
(* harmless: it changes the device by one step of its own at most.            *)
WriteBackIsClose ==
    /\ \A zb \in 0..254 : BriFromRm(BriToRm(zb)) - zb \in -1..1
    /\ \A m \in 154..370 : KelvinToMired(MiredToKelvin(m)) - m \in 0..1

(* Settings a plug has beside its switch change neither what it is nor what   *)
(* it shows (the plug that lost its power switch, rmk_classify).              *)
KnobsDoNotMatter(Devices, Knobs) ==
    \A ex \in Devices, k \in Knobs :
        Classify(ex) \in {"switch", "lightbulb"} =>
            /\ Classify(Append(ex, k)) = Classify(ex)
            /\ BuildParams(Classify(ex), Append(ex, k)) = BuildParams(Classify(ex), ex)

(* A type has its primary parameter, unless it is a light without a switch;   *)
(* and it has one only.                                                       *)
PrimaryPresent(Devices) ==
    \A ex \in Devices :
        LET type == Classify(ex)
            params == BuildParams(type, ex)
            primaries == {i \in DOMAIN params : params[i].primary}
        IN  /\ Primary(type) # "" /\ (type = "lightbulb" => "state" \in Names(ex)) => primaries # {}
            /\ \A i, j \in primaries : i = j
=============================================================================
