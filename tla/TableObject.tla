----------------------------- MODULE TableObject -----------------------------
(***************************************************************************)
(* A table that ETS loads into a device: the load state machine of         *)
(* knx-rs-device/src/table_object.rs as a record and one operator per      *)
(* method.  The bytes of a table are a segment of the device's memory, a   *)
(* sequence that belongs to the device; offset o is position o + 1.        *)
(*                                                                         *)
(* States Unloading and LoadCompleting occur only in damaged storage and   *)
(* are left out, as is the checksum of mcb_table, a function of data.      *)
(***************************************************************************)
EXTENDS Naturals, Sequences

CONSTANTS
    MAX_MEMORY_SIZE,    \* (256 KiB in the code)
    Octet               \* the values of a memory cell; 0 is one of them

ASSUME MemoryAssumption == MAX_MEMORY_SIZE \in Nat \ {0} /\ 0 \in Octet

LoadState == {"Unloaded", "Loaded", "Loading", "Error"}

LoadError == {"NoFault", "UndefinedLoadCommand", "InvalidOpcode",
              "MaxTableLengthExceeded"}

TableObject == [state : LoadState, error : LoadError,
                data_offset : Nat, data_size : Nat]

\* A written PID_LOAD_STATE_CONTROL.  An AdditionalLoadControls that is long
\* enough and carries the opcode for an allocation "allocates".
Plain(event) == [event |-> event]
Allocation(size, fill, byte) ==
    [event |-> "AdditionalLoadControls", allocates |-> TRUE,
     size |-> size, fill |-> fill, byte |-> byte]
Misshapen == [event |-> "AdditionalLoadControls", allocates |-> FALSE]

new == [state |-> "Unloaded", error |-> "NoFault", data_offset |-> 0, data_size |-> 0]

new_loaded == [new EXCEPT !.state = "Loaded"]

reset_data(t) == [t EXCEPT !.data_offset = 0, !.data_size = 0]

segment_end(t) == t.data_offset + t.data_size

\* The bytes of a Loaded table, none if its segment leaves the memory.
data(t, memory) ==
    IF t.state = "Loaded" /\ segment_end(t) <= Len(memory)
    THEN SubSeq(memory, t.data_offset + 1, segment_end(t)) ELSE <<>>

failed(t, error) == [t EXCEPT !.state = "Error", !.error = error]

\* What handle_load_event leaves: the table, whether its data can be parsed
\* now, and the fill it asks for (none or one).
Handled(t) == [table |-> t, loaded |-> FALSE, fill |-> <<>>]

\* A plausible bug: the offset of the segment is not set.
allocated_at_zero(t, size, memory_area_len) ==
    [t EXCEPT !.data_offset = 0, !.data_size = size]

allocated(t, size, memory_area_len) ==
    [t EXCEPT !.data_offset = memory_area_len, !.data_size = size]

handle_additional_load_controls(t, e, memory_area_len) ==
    IF ~ e.allocates THEN Handled(failed(t, "InvalidOpcode"))
    ELSE IF e.size > MAX_MEMORY_SIZE THEN Handled(failed(t, "MaxTableLengthExceeded"))
    ELSE [table |-> allocated(t, e.size, memory_area_len),
          loaded |-> FALSE,
          fill |-> IF e.fill
                   THEN <<[offset |-> memory_area_len, size |-> e.size, byte |-> e.byte]>>
                   ELSE <<>>]

unloaded(t) == reset_data([t EXCEPT !.state = "Unloaded"])
loading(t) == reset_data([t EXCEPT !.state = "Loading"])

on_unloaded(t, e) == Handled(IF e.event = "StartLoading" THEN loading(t) ELSE t)

on_loading(t, e, memory_area_len) ==
    CASE e.event = "LoadCompleted" ->
            [table |-> [t EXCEPT !.state = "Loaded"], loaded |-> TRUE, fill |-> <<>>]
      [] e.event = "Unload" -> Handled(unloaded(t))
      [] e.event = "AdditionalLoadControls" ->
            handle_additional_load_controls(t, e, memory_area_len)
      [] OTHER -> Handled(t)

on_loaded(t, e) ==
    Handled(CASE e.event = "StartLoading" -> loading(t)
              [] e.event = "Unload" -> unloaded(t)
              [] e.event = "AdditionalLoadControls" -> failed(t, "InvalidOpcode")
              [] OTHER -> t)

\* The error code stays until the next restore.
on_error(t, e) == Handled(IF e.event = "Unload" THEN unloaded(t) ELSE t)

handle_load_event(t, e, memory_area_len) ==
    CASE e.event = "Undefined" -> Handled(failed(t, "UndefinedLoadCommand"))
      [] e.event # "Undefined" /\ t.state = "Unloaded" -> on_unloaded(t, e)
      [] e.event # "Undefined" /\ t.state = "Loading" -> on_loading(t, e, memory_area_len)
      [] e.event # "Undefined" /\ t.state = "Loaded" -> on_loaded(t, e)
      [] e.event # "Undefined" /\ t.state = "Error" -> on_error(t, e)

table_reference(t) == IF t.state = "Unloaded" THEN 0 ELSE t.data_offset

mcb_table(t, memory) ==
    IF t.state # "Loaded" \/ t.data_size = 0 THEN <<>>
    ELSE <<t.data_size, data(t, memory)>>

\* What save writes: the error is not part of it.
save_table(t) == [state |-> t.state, data_offset |-> t.data_offset,
                  data_size |-> t.data_size]

\* Geometry that does not fit restores as Unloaded.
restore_table(saved) ==
    IF saved.state = "Loaded"
       /\ saved.data_offset + saved.data_size > MAX_MEMORY_SIZE
    THEN new
    ELSE [state |-> saved.state, error |-> "NoFault",
          data_offset |-> saved.data_offset, data_size |-> saved.data_size]

=============================================================================
