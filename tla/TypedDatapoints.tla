--------------------------- MODULE TypedDatapoints ---------------------------
(***************************************************************************)
(* The datapoint types with named fields (knx-rs-core/src/dpt/typed).  A   *)
(* field is one octet's bits; counts and energies keep their four octets   *)
(* and flags are 0 or 1.                                                   *)
(***************************************************************************)
EXTENDS Datapoints, FiniteSetsExt

\* A field of the octet at a position: the worth of its lowest bit, its size.
At(octet, unit, size) == [octet |-> octet, unit |-> unit, size |-> size]
Flag(octet, n) == At(octet, 2 ^ n, 2)

Typed(len, fields) == [len |-> len, fields |-> fields]

Date == Typed(3, [day |-> At(1, 1, 32), month |-> At(2, 1, 16), year |-> At(3, 1, 128)])
DateTime == Typed(8, [
    year |-> At(1, 1, 256), month |-> At(2, 1, 16), day |-> At(3, 1, 32),
    day_of_week |-> At(4, 32, 8), hour |-> At(4, 1, 32), minute |-> At(5, 1, 64),
    second |-> At(6, 1, 64), fault |-> Flag(7, 7), working_day |-> Flag(7, 6),
    working_day_invalid |-> Flag(7, 5), year_invalid |-> Flag(7, 4),
    date_invalid |-> Flag(7, 3), day_of_week_invalid |-> Flag(7, 2),
    time_invalid |-> Flag(7, 1), summer_time |-> Flag(7, 0),
    clock_synchronised |-> Flag(8, 7), source_reliable |-> Flag(8, 6)])
StatusBuc == Typed(2, [
    relative_power |-> At(1, 1, 256), relative_power_valid |-> Flag(2, 0),
    fault |-> Flag(2, 1), stage1_active |-> Flag(2, 2), stage2_active |-> Flag(2, 3)])
StatusAct == Typed(2, [
    position |-> At(1, 1, 256), failure |-> Flag(2, 0), manual_override |-> Flag(2, 1),
    calibration_mode |-> Flag(2, 2), valve_kick |-> Flag(2, 3),
    synchronization_mode |-> Flag(2, 4)])
StatusLightingActuator == Typed(2, [
    actual_value |-> At(1, 1, 256), valid_actual_value |-> Flag(2, 0), locked |-> Flag(2, 1),
    forced |-> Flag(2, 2), night_mode_active |-> Flag(2, 3), staircase_lighting |-> Flag(2, 4),
    dimming |-> Flag(2, 5), local_override |-> Flag(2, 6), failure |-> Flag(2, 7)])
MeteringValue == Typed(6, [
    value_info_field |-> At(5, 1, 256), out_of_service |-> Flag(6, 0), fault |-> Flag(6, 1),
    overridden |-> Flag(6, 2), in_alarm |-> Flag(6, 3), alarm_unacknowledged |-> Flag(6, 4)])
TariffActiveEnergy == Typed(6, [
    tariff |-> At(5, 1, 256), energy_valid |-> Flag(6, 1), tariff_valid |-> Flag(6, 0)])
Rgbw == Typed(6, [
    red |-> At(1, 1, 256), green |-> At(2, 1, 256), blue |-> At(3, 1, 256),
    white |-> At(4, 1, 256), red_valid |-> Flag(6, 3), green_valid |-> Flag(6, 2),
    blue_valid |-> Flag(6, 1), white_valid |-> Flag(6, 0)])

TypedDpt == [
    Date |-> Date, DateTime |-> DateTime, StatusBuc |-> StatusBuc, StatusAct |-> StatusAct,
    StatusLightingActuator |-> StatusLightingActuator, MeteringValue |-> MeteringValue,
    TariffActiveEnergy |-> TariffActiveEnergy, Rgbw |-> Rgbw]

\* The types that begin with a number of 32 bits, and its name.
Counts == [MeteringValue |-> "count", TariffActiveEnergy |-> "energy"]

\* Fields whose value is not the one on the wire.
from_wire(type, name, raw) ==
    CASE type = "Date" /\ name = "year" -> IF raw >= 90 THEN 1900 + raw ELSE 2000 + raw
      [] type = "DateTime" /\ name = "year" -> 1900 + raw
      [] name \in {"energy_valid", "tariff_valid"} -> 1 - raw
      [] OTHER -> raw
to_wire(type, name, value) ==
    CASE type = "Date" /\ name = "year" -> value % 100
      [] type = "DateTime" /\ name = "year" -> value - 1900
      [] name \in {"energy_valid", "tariff_valid"} -> 1 - value
      [] OTHER -> value

date_valid(v) == v.day \in 1 .. 31 /\ v.month \in 1 .. 12 /\ v.year \in 1990 .. 2089

\* A field marked invalid must only fit its bits.
datetime_valid(v) ==
    /\ v.year \in 1900 .. 2155 /\ v.day_of_week <= 7
    /\ IF v.date_invalid = 1 THEN v.month <= 15 /\ v.day <= 31
       ELSE v.month \in 1 .. 12 /\ v.day \in 1 .. 31
    /\ IF v.time_invalid = 1 THEN v.hour <= 31 /\ v.minute <= 63 /\ v.second <= 63
       ELSE /\ v.hour <= 24 /\ v.minute <= 59 /\ v.second <= 59
            /\ v.hour = 24 => v.minute = 0 /\ v.second = 0

\* What a decoder refuses; an encoder checks also what is marked invalid.
decoded_valid(type, v) ==
    CASE type = "Date" -> date_valid(v)
      [] type = "DateTime" -> datetime_valid(v)
      [] type = "StatusBuc" -> v.relative_power_valid = 1 => v.relative_power <= 100
      [] type = "StatusAct" -> v.position <= 100
      [] type = "TariffActiveEnergy" -> v.tariff_valid = 1 => v.tariff <= 254
      [] OTHER -> TRUE
encoded_valid(type, v) ==
    CASE type = "StatusBuc" -> v.relative_power <= 100
      [] type = "TariffActiveEnergy" -> v.tariff <= 254
      [] OTHER -> decoded_valid(type, v)

decode_typed(type, octets) ==
    IF Len(octets) < TypedDpt[type].len THEN Err("PayloadTooShort")
    ELSE LET fields == TypedDpt[type].fields
             read == [f \in DOMAIN fields |->
                         from_wire(type, f, bits(octets[fields[f].octet], fields[f].unit,
                                                 fields[f].size))]
             v == read @@ (IF type \in DOMAIN Counts
                           THEN Counts[type] :> signed(SubSeq(octets, 1, 4)) ELSE <<>>)
         IN  IF decoded_valid(type, v) THEN Ok(v) ELSE OutOfRange

encode_typed(type, v) ==
    LET fields == TypedDpt[type].fields
        worth(f) == to_wire(type, f, v[f]) * fields[f].unit
        octet(i) == MapThenSumSet(worth, {f \in DOMAIN fields : fields[f].octet = i})
    IN  IF ~ encoded_valid(type, v) THEN OutOfRange
        ELSE Ok([i \in 1 .. TypedDpt[type].len |->
                    IF i <= 4 /\ type \in DOMAIN Counts THEN be(v[Counts[type]], 4)[i] ELSE octet(i)])

\* The value of the codec must have exactly the octets of the type.
from_value(type, value) ==
    IF value.type # "Bytes" THEN Mismatch
    ELSE IF Len(value.value) # TypedDpt[type].len THEN OutOfRange
    ELSE decode_typed(type, value.value)
to_value(type, v) == Then(encode_typed(type, v), LAMBDA octets : Ok(Raw(octets)))

\* Percentages of an octet.
percent_to_raw(percent) ==
    IF percent = NaN \/ percent.num < 0 \/ percent.num > 100 * percent.den THEN OutOfRange
    ELSE Ok(round(percent.num * 255, percent.den * 100))
raw_to_percent(raw) == Float(raw * 100, 255)

=============================================================================
