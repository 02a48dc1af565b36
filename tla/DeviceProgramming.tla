-------------------------- MODULE DeviceProgramming --------------------------
(***************************************************************************)
(* A device while a tool programs it: the management services of           *)
(* knx-rs-device/src/bau.rs on the device's memory, table objects,         *)
(* interface objects and runtime tables, its storage (bau_persistence.rs,  *)
(* memory.rs), and restarts, which may come at any moment.                 *)
(*                                                                         *)
(* A restart makes a new Bau and restores what is in the storage.  The     *)
(* host saves when the device asks for a restart                           *)
(* (Bau::take_restart_pending); what the device was told since then is     *)
(* lost by a crash.  If the storage was damaged, restore fails, and the    *)
(* host goes on with a new Bau instead of the half restored one.           *)
(*                                                                         *)
(* Orderly is the tool's procedure: it allocates a segment only when the   *)
(* memory has room and the previous segment is in memory (by a fill or     *)
(* because all of it was written), writes only to the segment of the table *)
(* it is loading, and completes a load when its segment is in memory.      *)
(* Otherwise the tool may do anything.                                     *)
(***************************************************************************)
EXTENDS TableObject, InterfaceObjects, FiniteSets

CONSTANTS
    Loadable,       \* the tables the tool loads: a subset of Table
    Sizes,          \* bound: sizes asked for, some beyond MAX_MEMORY_SIZE
    Elements,       \* bound: values of properties the tool writes
    Written, Read,  \* bound: object index and id of the properties used
    Addresses,      \* bound: individual addresses, as two octets
    EraseCodes,     \* bound: the master resets asked for
    Fixed,          \* bound: the services with a fixed answer asked for
    Header,         \* identifications of a device and its firmware
    Orderly         \* whether the tool follows the procedure

Table == {"addr", "assoc", "group", "app"}
\* Object indices of the tables, from 0 (OBJ_ADDR_TABLE ... OBJ_APP_PROGRAM)
table_index == [addr |-> 1, assoc |-> 2, group |-> 3, app |-> 4]
Linking == {"addr", "assoc"}        \* those with a runtime table
Persisted == {"addr", "assoc", "app"}

ASSUME ProgrammingAssumption ==
    /\ Loadable \subseteq Persisted
    /\ Sizes \subseteq Nat
    /\ Orderly \in BOOLEAN

VARIABLES
    tables,             \* the four table objects
    memory,             \* memory_area
    runtime,            \* the data of address_table and association_table
    objects,            \* the interface objects; object 0 is the device
    restart_pending,
    header,             \* DeviceMemory: manufacturer, hardware, versions
    storage,            \* <<what save wrote there>>, or <<>>
    answer              \* what the last step put into the outbox

device_state == <<tables, memory, runtime, objects, restart_pending>>
host == <<header, storage>>
vars == <<device_state, host, answer>>

-----------------------------------------------------------------------------
serial == "serial"
ids(t) == table_index[t] + 1        \* position of its interface object

\* Bau::new; the demo device and the tests set an address afterwards.
fresh == [tables |-> [t \in Table |-> IF t = "group" THEN new_loaded ELSE new],
          memory |-> <<>>,
          runtime |-> [t \in Linking |-> <<>>],
          objects |-> new_objects(new_device_object(serial, 0))]

Becomes(bau) ==
    /\ tables' = bau.tables /\ memory' = bau.memory
    /\ runtime' = bau.runtime /\ objects' = bau.objects

Init == /\ tables = fresh.tables /\ memory = fresh.memory
        /\ runtime = fresh.runtime /\ objects = fresh.objects
        /\ restart_pending = FALSE
        /\ header \in Header /\ storage = <<>>
        /\ answer = <<>>

zeros(n) == [i \in 1 .. n |-> 0]

\* memory with length at least n
resized(m, n) == IF n > Len(m) THEN m \o zeros(n - Len(m)) ELSE m

\* The octets os at address a.
overlaid(m, a, os) ==
    [i \in 1 .. Len(resized(m, a + Len(os))) |->
        IF i \in a + 1 .. a + Len(os) THEN os[i - a] ELSE resized(m, a + Len(os))[i]]

\* A fill beyond the limit is left out without an error.
apply_fill(m, fill) ==
    IF fill = <<>> \/ fill[1].offset + fill[1].size > MAX_MEMORY_SIZE THEN m
    ELSE overlaid(m, fill[1].offset, [i \in 1 .. fill[1].size |-> fill[1].byte])

\* None if the write would end beyond the limit.
write_to_memory(m, address, os) ==
    IF address + Len(os) > MAX_MEMORY_SIZE THEN m ELSE overlaid(m, address, os)

mem_slice(address, count) ==
    IF address + count <= Len(memory)
    THEN <<SubSeq(memory, address + 1, address + count)>> ELSE <<>>

-----------------------------------------------------------------------------
(* The procedure of the tool.                                              *)

Holding(t) == tables[t].state \in {"Loading", "Loaded"} /\ tables[t].data_size > 0

\* Its segment is not in memory yet.
Hanging(t) == Holding(t) /\ segment_end(tables[t]) > Len(memory)

MayAllocate(t, e) ==
    Orderly /\ e.event = "AdditionalLoadControls" /\ e.allocates =>
        /\ Len(memory) + e.size <= MAX_MEMORY_SIZE \/ e.size > MAX_MEMORY_SIZE
        /\ \A u \in Table : ~ Hanging(u)

MayComplete(t, e) ==
    Orderly /\ e.event = "LoadCompleted" => Holding(t) /\ ~ Hanging(t)

MayWrite(address, os) ==
    Orderly => \E t \in Loadable :
        /\ tables[t].state = "Loading" /\ tables[t].data_offset <= address
        /\ address + Len(os) <= segment_end(tables[t])

-----------------------------------------------------------------------------
(* A_PropertyValue_Write and _Read.                                        *)

PropertyResponse(index, id, start, values) ==
    [service |-> "PropertyResponse", object_index |-> index, property_id |-> id,
     start |-> start, values |-> values]

Is_table(index) == \E t \in Table : table_index[t] = index
table_at(index) == CHOOSE t \in Table : table_index[t] = index

\* try_intercept_table_property, with the table objects ts and memory m.
intercepted(ts, m, index, id, start) ==
    IF ~ Is_table(index) \/ start # 1 THEN <<>>
    ELSE CASE id = 5 -> <<ts[table_at(index)].state>>
           [] id = 7 -> <<table_reference(ts[table_at(index)])>>
           [] id = 27 -> <<mcb_table(ts[table_at(index)], m)>>
           [] id = 28 -> <<ts[table_at(index)].error>>
           [] OTHER -> <<>>

\* handle_property_read: start 0 asks for the number of elements.
property_value(os, ts, m, index, id, start, count) ==
    IF id \notin PropertyId THEN <<>>
    ELSE IF intercepted(ts, m, index, id, start) # <<>>
         THEN intercepted(ts, m, index, id, start)
    ELSE IF index >= Len(os) THEN <<>>
    ELSE IF start = 0
         THEN <<IF has_property(os[index + 1], id)
                THEN property(os[index + 1], id).max_elements ELSE 0>>
    ELSE read_property(os[index + 1], id, start, count)

PropertyRead(index, id, start, count) ==
    /\ answer' = <<PropertyResponse(index, id, start,
                       property_value(objects, tables, memory, index, id, start, count))>>
    /\ UNCHANGED <<device_state, host>>

\* A plausible bug: the runtime table is not read again after a load.
reloaded_never(t, ts, m) == runtime

\* reload_runtime_table
reloaded(t, ts, m) ==
    IF t \in Linking THEN [runtime EXCEPT ![t] = data(ts[t], m)] ELSE runtime

\* PID_LOAD_STATE_CONTROL of a table object: the event, the fill it asks for
\* and, when the table became loaded, its runtime table.
WriteLoadControl(t, e) ==
    LET done == handle_load_event(tables[t], e, Len(memory))
        ts == [tables EXCEPT ![t] = done.table]
        m == apply_fill(memory, done.fill)
    IN  /\ MayAllocate(t, e) /\ MayComplete(t, e)
        /\ tables' = ts /\ memory' = m
        /\ runtime' = IF done.loaded THEN reloaded(t, ts, m) ELSE runtime
        /\ answer' = <<PropertyResponse(table_index[t], 5, 1, <<done.table.state>>)>>
        /\ UNCHANGED <<objects, restart_pending, host>>

\* Any other property of an object.
PropertyWrite(index, id, start, count, values) ==
    LET os == IF index < Len(objects)
              THEN [objects EXCEPT ![index + 1] =
                       write_property(objects[index + 1], id, start, count, values)]
              ELSE objects
    IN  /\ id \in PropertyId /\ ~ (id = 5 /\ Is_table(index))
        /\ objects' = os
        /\ answer' = <<PropertyResponse(index, id, start,
                           property_value(os, tables, memory, index, id, start, count))>>
        /\ UNCHANGED <<tables, memory, runtime, restart_pending, host>>

PropertyDescriptionRead(index, id, property_index) ==
    /\ answer' = <<[service |-> "PropertyDescriptionResponse", object_index |-> index,
                    description |->
                      IF index < Len(objects)
                      THEN read_property_description(objects[index + 1], id, property_index)
                      ELSE <<>>]>>
    /\ UNCHANGED <<device_state, host>>

-----------------------------------------------------------------------------
(* The extended property services name an object by type and instance and  *)
(* see the stored properties only: nothing is intercepted.                 *)

Where(object_type, instance) == find_object_by_type(objects, object_type, instance)

PropertyExtRead(object_type, instance, id, start, count) ==
    LET at == Where(object_type, instance)
    IN  /\ answer' = <<[service |-> "PropertyValueExtResponse", object_type |-> object_type,
                        property_id |-> id, start |-> start,
                        values |-> IF at # <<>> /\ id \in PropertyId
                                   THEN read_property(objects[at[1]], id, start, count)
                                   ELSE <<>>]>>
        /\ UNCHANGED <<device_state, host>>

\* apply_ext_property_write: the objects afterwards and the return code.
ext_write(at, id, start, count, values) ==
    IF at = <<>> \/ id \notin PropertyId THEN [objects |-> objects, code |-> "AddressVoid"]
    ELSE IF ~ has_property(objects[at[1]], id)
         THEN [objects |-> objects, code |-> "AddressVoid"]
    ELSE IF ~ property(objects[at[1]], id).write_enable
         THEN [objects |-> objects, code |-> "AccessReadOnly"]
    ELSE [objects |-> [objects EXCEPT ![at[1]] =
                         write_property(objects[at[1]], id, start, count, values)],
          code |-> IF written(property(objects[at[1]], id), start, count, values) > 0
                   THEN "Success" ELSE "GenericError"]

PropertyExtWrite(object_type, instance, id, start, count, values, confirmed) ==
    LET done == ext_write(Where(object_type, instance), id, start, count, values)
    IN  /\ objects' = done.objects
        /\ answer' = IF confirmed
                     THEN <<[service |-> "PropertyValueExtWriteConResponse", code |-> done.code]>>
                     ELSE <<>>
        /\ UNCHANGED <<tables, memory, runtime, restart_pending, host>>

\* handle_property_ext_description_read: type 0 only; what is not there is
\* described by default values.
PropertyExtDescriptionRead(object_type, instance, id, index, description_type) ==
    LET at == Where(object_type, instance)
    IN  /\ answer' = IF description_type # 0 THEN <<>>
                     ELSE <<[service |-> "PropertyExtDescriptionResponse",
                             description |->
                                IF at = <<>> THEN <<>>
                                ELSE read_property_description(objects[at[1]], id, index)]>>
        /\ UNCHANGED <<device_state, host>>

-----------------------------------------------------------------------------
(* Memory services.                                                        *)

MEMORY_RESPONSE_MAX_LEN == 15

MemoryRead(address, count) ==
    /\ answer' = <<[service |-> "MemoryResponse", address |-> address,
                    octets |-> IF count > MEMORY_RESPONSE_MAX_LEN
                                  \/ mem_slice(address, count) = <<>>
                               THEN <<>> ELSE mem_slice(address, count)[1]]>>
    /\ UNCHANGED <<device_state, host>>

MemoryExtRead(address, count) ==
    /\ answer' = <<[service |-> "MemoryExtReadResponse", address |-> address,
                    code |-> IF mem_slice(address, count) = <<>> THEN "AddressVoid" ELSE "Success",
                    octets |-> IF mem_slice(address, count) = <<>> THEN <<>>
                               ELSE mem_slice(address, count)[1]]>>
    /\ UNCHANGED <<device_state, host>>

\* A_Memory_Write has no answer, A_MemoryExtended_Write only a positive one.
MemoryWrite(address, os, extended) ==
    /\ MayWrite(address, os)
    /\ memory' = write_to_memory(memory, address, os)
    /\ answer' = IF extended /\ address + Len(os) <= MAX_MEMORY_SIZE
                 THEN <<[service |-> "MemoryExtWriteResponse", address |-> address]>>
                 ELSE <<>>
    /\ UNCHANGED <<tables, runtime, objects, restart_pending, host>>

-----------------------------------------------------------------------------
(* Device management: the individual address, programming mode, restarts.  *)

Answers(a) == answer' = a /\ UNCHANGED <<device_state, host>>

device == objects[1]

Readdressed(address) ==
    /\ objects' = [objects EXCEPT ![1] = set_individual_address(device, address)]
    /\ UNCHANGED <<tables, memory, runtime, restart_pending, host>>

\* The programming button of the host.
SetProgMode(enabled) ==
    /\ objects' = [objects EXCEPT ![1] = set_prog_mode(device, enabled)]
    /\ answer' = <<>>
    /\ UNCHANGED <<tables, memory, runtime, restart_pending, host>>

IndividualAddressWrite(address) ==
    prog_mode(device) /\ Readdressed(address) /\ answer' = <<>>

IndividualAddressRead ==
    Answers(IF prog_mode(device)
            THEN <<[service |-> "IndividualAddressResponse",
                    source |-> individual_address(device)]>> ELSE <<>>)

IndividualAddressSerialNumberWrite(s, address) ==
    s = serial_number(device) /\ Readdressed(address) /\ answer' = <<>>

IndividualAddressSerialNumberRead(s) ==
    Answers(IF s = serial_number(device)
            THEN <<[service |-> "IndividualAddressSerialNumberResponse", serial |-> s]>>
            ELSE <<>>)

\* Answered only for the serial number by programming mode (operand 1).
SystemNetworkParameterRead(object_type, id, operand) ==
    Answers(IF operand = 1 /\ object_type = 0 /\ id = 11 /\ prog_mode(device)
            THEN <<[service |-> "SystemNetworkParameterResponse",
                    serial |-> serial_number(device)]>> ELSE <<>>)

\* Services with a fixed answer: there are no keys, no ADC, no functions.
fixed_answer(service, argument) ==
    CASE service = "DeviceDescriptorRead" ->
            [service |-> "DeviceDescriptorResponse", descriptor |-> IF argument = 0 THEN 22448 ELSE 63]
      [] service = "AuthorizeRequest" -> [service |-> "AuthorizeResponse", level |-> 0]
      [] service = "KeyWrite" -> [service |-> "KeyResponse", level |-> argument]
      [] service = "AdcRead" -> [service |-> "AdcResponse", channel |-> argument, value |-> 0]
      [] service \in {"FunctionPropertyCommand", "FunctionPropertyState"} ->
            [service |-> "FunctionPropertyStateResponse", property_id |-> argument]

ReadFixed(service, argument) == Answers(<<fixed_answer(service, argument)>>)

\* A_Restart: no answer; the connection is dropped (module BauConnection).
BasicRestart ==
    /\ restart_pending' = TRUE /\ answer' = <<>>
    /\ UNCHANGED <<tables, memory, runtime, objects, host>>

ERASE_FACTORY_RESET == 2
ERASE_RESET_IA == 3
ERASE_RESET_AP == 4
ERASE_RESET_PARAM == 5
ERASE_RESET_LINKS == 6
ERASE_FACTORY_RESET_WITHOUT_IA == 7
DEFAULT_INDIVIDUAL_ADDRESS == <<255, 255>>

master_reset_error_code(erase_code) == IF erase_code \in 1 .. 7 THEN 0 ELSE 2

factory(erase_code) == erase_code \in {ERASE_FACTORY_RESET, ERASE_FACTORY_RESET_WITHOUT_IA}

\* A plausible bug: a factory reset keeps the application program.
erased_tables_keeping_app(erase_code) ==
    (IF factory(erase_code) \/ erase_code = ERASE_RESET_LINKS THEN Linking ELSE {})
    \cup (IF erase_code \in {ERASE_RESET_AP, ERASE_RESET_PARAM} THEN {"app"} ELSE {})

\* The tables a master reset sets back.
erased_tables(erase_code) ==
    (IF factory(erase_code) \/ erase_code = ERASE_RESET_LINKS THEN Linking ELSE {})
    \cup (IF factory(erase_code) \/ erase_code \in {ERASE_RESET_AP, ERASE_RESET_PARAM}
          THEN {"app"} ELSE {})

\* apply_master_reset
MasterReset(erase_code) ==
    LET erased == erased_tables(erase_code)
        accepted == master_reset_error_code(erase_code) = 0
    IN  /\ answer' = <<[service |-> "RestartMasterResetResponse",
                        error_code |-> master_reset_error_code(erase_code),
                        process_time |-> IF accepted THEN 3 ELSE 0]>>
        /\ tables' = [t \in Table |-> IF t \in erased THEN new ELSE tables[t]]
        /\ runtime' = [t \in Linking |-> IF t \in erased THEN <<>> ELSE runtime[t]]
        /\ memory' = IF factory(erase_code) THEN <<>> ELSE memory
        /\ objects' = IF erase_code \in {ERASE_FACTORY_RESET, ERASE_RESET_IA}
                      THEN [objects EXCEPT ![1] =
                              set_individual_address(device, DEFAULT_INDIVIDUAL_ADDRESS)]
                      ELSE objects
        /\ restart_pending' = (restart_pending \/ accepted)
        /\ UNCHANGED host

-----------------------------------------------------------------------------
(* Which connectionless telegrams are acted upon; a numbered telegram of   *)
(* the connection reaches its service whatever its destination.            *)

GroupService == {"GroupValueWrite", "GroupValueRead", "GroupValueResponse"}
BroadcastService ==
    {"IndividualAddressWrite", "IndividualAddressRead", "SystemNetworkParameterRead",
     "IndividualAddressSerialNumberRead", "IndividualAddressSerialNumberWrite"}

required_scope(service) ==
    CASE service \in GroupService -> "Group"
      [] service \in BroadcastService -> "Broadcast"
      [] OTHER -> "Individual"

indication_in_scope(service, scope, destination) ==
    /\ scope = required_scope(service)
    /\ scope = "Individual" => destination = individual_address(device)

Ignore(service, scope, destination) ==
    ~ indication_in_scope(service, scope, destination) /\ Answers(<<>>)

-----------------------------------------------------------------------------
(* The host and its storage.                                               *)

\* save_bau_state, and DeviceMemory::save in front of it.
Saved == [header |-> header,
          tables |-> [t \in Persisted |-> save_table(tables[t])],
          version |-> read_property(objects[5], 13, 1, 1),
          memory |-> memory]

\* The host does what take_restart_pending asks for: it saves and starts a
\* new Bau (Restart).  TakeRestartPending is the first half.
TakeRestartPending ==
    /\ restart_pending
    /\ restart_pending' = FALSE
    /\ storage' = <<Saved>>
    /\ answer' = <<>>
    /\ UNCHANGED <<tables, memory, runtime, objects, header>>

\* A table with data is parsed; the others stay as the new Bau has them.
restored_runtime(ts, m) == [t \in Linking |-> data(ts[t], m)]

\* restore_bau_state on a new Bau.
restored(saved) ==
    LET ts == [t \in Table |-> IF t \in Persisted THEN restore_table(saved.tables[t])
                               ELSE fresh.tables[t]]
    IN  [tables |-> ts, memory |-> saved.memory,
         runtime |-> restored_runtime(ts, saved.memory),
         objects |-> [fresh.objects EXCEPT ![5] =
                         write_property(fresh.objects[5], 13, 1, 1, saved.version)]]


\* Power fails, or the host restarts as it was asked to, or with another
\* firmware (h).  A storage that lost its end is refused by restore.
Restart(h, torn) ==
    /\ header' = h
    /\ Becomes(IF storage # <<>> /\ storage[1].header = h /\ ~ torn
               THEN restored(storage[1]) ELSE fresh)
    /\ restart_pending' = FALSE /\ answer' = <<>>
    /\ UNCHANGED storage

\* DeviceMemory::clear
ClearStorage ==
    storage' = <<>> /\ answer' = <<>> /\ UNCHANGED <<device_state, header>>

-----------------------------------------------------------------------------

LoadEvent ==
    {Plain(e) : e \in {"StartLoading", "LoadCompleted", "Unload", "Noop", "Undefined"}}
    \cup {Misshapen}
    \cup {Allocation(n, TRUE, b) : n \in Sizes, b \in Octet}
    \cup {Allocation(n, FALSE, 0) : n \in Sizes}

Address == 0 .. MAX_MEMORY_SIZE

Load == \E t \in Loadable, e \in LoadEvent : WriteLoadControl(t, e)

Properties ==
    \/ \E p \in Written, e \in Elements : PropertyWrite(p[1], p[2], 1, 1, <<e>>)
    \/ \E p \in Read, start \in 0 .. 1 : PropertyRead(p[1], p[2], start, 1)
    \/ \E p \in Read : PropertyDescriptionRead(p[1], p[2], 0)

ExtProperties ==
    \/ \E p \in Written, e \in Elements :
           PropertyExtWrite(objects[p[1] + 1].object_type, 1, p[2], 1, 1, <<e>>, TRUE)
    \/ \E p \in Read : PropertyExtRead(objects[p[1] + 1].object_type, 1, p[2], 1, 1)
    \/ \E p \in Read :
           PropertyExtDescriptionRead(objects[p[1] + 1].object_type, 1, p[2], 0, 0)

Memory ==
    \/ \E a \in Address, b \in Octet, extended \in BOOLEAN : MemoryWrite(a, <<b>>, extended)
    \/ MemoryRead(0, MEMORY_RESPONSE_MAX_LEN + 1)
    \/ MemoryExtRead(0, 1)

Management ==
    \/ \E enabled \in BOOLEAN : SetProgMode(enabled)
    \/ \E a \in Addresses : IndividualAddressWrite(a)
    \/ \E a \in Addresses : IndividualAddressSerialNumberWrite(serial, a)
    \/ IndividualAddressSerialNumberRead(serial)
    \/ IndividualAddressRead
    \/ SystemNetworkParameterRead(0, 11, 1)
    \/ \E service \in Fixed : ReadFixed(service, 0)
    \/ BasicRestart
    \/ \E erase_code \in EraseCodes : MasterReset(erase_code)
    \/ \E destination \in Addresses : Ignore("MemoryRead", "Individual", destination)

Host ==
    \/ TakeRestartPending
    \/ ClearStorage
    \/ \E h \in Header, torn \in BOOLEAN : Restart(h, torn)

Next == Load \/ Properties \/ ExtProperties \/ Memory \/ Management \/ Host

Spec == Init /\ [][Next]_vars

-----------------------------------------------------------------------------
(* Properties of a device that is programmed in order.                     *)

Phase(t) == CASE t.state = "Loading" -> "loading"
              [] t.state = "Loaded" -> "loaded"
              [] OTHER -> "none"

\* What is in the segment of a table, if all of it is in the memory.
Content(t, m) ==
    IF Phase(t) = "none" \/ segment_end(t) > Len(m) THEN <<>>
    ELSE SubSeq(m, t.data_offset + 1, segment_end(t))

\* The phases and the contents of the tables ts in a memory m, and those stored.
Phases(ts) == [t \in Persisted |-> Phase(ts[t])]
Contents(ts, m) == [t \in Persisted |-> Content(ts[t], m)]
Stored ==
    IF storage = <<>>
    THEN [phase |-> [t \in Persisted |-> "none"], bytes |-> [t \in Persisted |-> <<>>]]
    ELSE [phase |-> Phases(storage[1].tables),
          bytes |-> Contents(storage[1].tables, storage[1].memory)]

Promise == INSTANCE LoadableTables WITH
    Table <- Persisted, phase <- Phases(tables), bytes <- Contents(tables, memory),
    stored <- Stored

\* The memory, the four load state machines, master resets, saving and
\* restoring together keep the promise of LoadableTables: whatever is asked
\* of one table, at any address, and whenever the power fails.
Implements == Promise!Spec

\* No octet of the memory belongs to two tables, although an allocation
\* looks only at the length of the memory and a master reset, a restore or
\* an unload forgets segments without telling the others.
SegmentsApart ==
    \A t, u \in Persisted :
        t # u /\ Holding(t) /\ Holding(u) =>
            \/ segment_end(tables[t]) <= tables[u].data_offset
            \/ segment_end(tables[u]) <= tables[t].data_offset

\* The table that group communication uses is the one that was loaded, also
\* after a restart, a reset of the links and loads of other tables.
RuntimeFollowsLoaded ==
    \A t \in Linking :
        tables[t].state = "Loaded" => runtime[t] = data(tables[t], memory)

=============================================================================
