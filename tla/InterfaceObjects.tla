--------------------------- MODULE InterfaceObjects ---------------------------
(***************************************************************************)
(* Interface objects and their properties: knx-rs-device/src/              *)
(* interface_object.rs, property/{mod,data,types}.rs, and the objects that *)
(* device_object.rs, application_program.rs, group_object_table.rs and     *)
(* bau.rs build.                                                           *)
(*                                                                         *)
(* A property's data is a sequence of elements of its type; a write brings *)
(* the elements that are complete in its data.  For a type of variable     *)
(* length (size 0) the data is one element.                                *)
(***************************************************************************)
EXTENDS Naturals, Sequences

LOCAL Min2(a, b) == IF a <= b THEN a ELSE b

\* PropertyDataType::size
size(data_type) ==
    CASE data_type \in {"Control", "Char", "UnsignedChar", "Generic01"} -> 1
      [] data_type \in {"Int", "UnsignedInt", "KnxFloat", "Generic02"} -> 2
      [] data_type \in {"Date", "Time", "PollGroupSetting", "Generic03"} -> 3
      [] data_type \in {"Long", "UnsignedLong", "Float", "Generic04"} -> 4
      [] data_type \in {"ShortCharBlock", "Generic05"} -> 5
      [] data_type = "Generic06" -> 6
      [] data_type = "Generic07" -> 7
      [] data_type \in {"Double", "DateTime", "Generic08"} -> 8
      [] data_type = "Generic09" -> 9
      [] data_type \in {"CharBlock", "Generic10"} -> 10
      [] data_type \in {"VariableLength", "Function"} -> 0

\* PropertyId: the identifiers TryFrom accepts.
PropertyId ==
    {1} \cup 5 .. 9 \cup 11 .. 17 \cup {23, 25} \cup 27 .. 30 \cup {51, 54}
        \cup 56 .. 58 \cup {71, 78, 83}

ObjectType == 0 .. 6 \cup {8, 9, 11, 17, 19}

\* DataProperty
Data(id, write_enable, data_type, max_elements, access, elements) ==
    [id |-> id, write_enable |-> write_enable, data_type |-> data_type,
     max_elements |-> max_elements, access |-> access, data |-> elements]

read_only(id, data_type, value) == Data(id, FALSE, data_type, 1, "None", <<value>>)
read_write(id, data_type, value) == Data(id, TRUE, data_type, 1, "None", <<value>>)

start_idx(start) == IF start = 0 THEN 0 ELSE start - 1

\* The elements read, from start on and not beyond the last one.
read(p, start, count) ==
    IF size(p.data_type) = 0 THEN p.data
    ELSE SubSeq(p.data, start_idx(start) + 1, Min2(start_idx(start) + count, Len(p.data)))

\* How many of values a write stores: an array may be extended, but not
\* beyond max_elements, and a write stops at the first that does not fit.
written(p, start, count, values) ==
    IF ~ p.write_enable THEN 0
    ELSE IF size(p.data_type) = 0 THEN 1
    ELSE LET room == IF p.max_elements >= Len(p.data) THEN p.max_elements ELSE Len(p.data)
             fits == IF room > start_idx(start) THEN room - start_idx(start) ELSE 0
         IN  Min2(Min2(count, Len(values)), fits)

\* The property after a write; what lies between its end and the first
\* element written becomes zero.
write(p, start, count, values) ==
    LET n == written(p, start, count, values)
        first == start_idx(start) + 1
        length == IF first + n - 1 > Len(p.data) THEN first + n - 1 ELSE Len(p.data)
    IN  IF n = 0 THEN p
        ELSE IF size(p.data_type) = 0 THEN [p EXCEPT !.data = values]
        ELSE [p EXCEPT !.data =
                [i \in 1 .. length |->
                    IF i \in first .. first + n - 1 THEN values[i - first + 1]
                    ELSE IF i <= Len(p.data) THEN p.data[i] ELSE 0]]

-----------------------------------------------------------------------------
(* An object: its type and its properties in the order they were added.    *)

object(object_type, properties) ==
    [object_type |-> object_type,
     properties |-> <<read_only(1, "UnsignedInt", object_type)>> \o properties]

has_property(o, id) == \E i \in DOMAIN o.properties : o.properties[i].id = id

index_of(o, id) == CHOOSE i \in DOMAIN o.properties :
                      /\ o.properties[i].id = id
                      /\ \A j \in 1 .. i - 1 : o.properties[j].id # id

property(o, id) == o.properties[index_of(o, id)]

read_property(o, id, start, count) ==
    IF has_property(o, id) THEN read(property(o, id), start, count) ELSE <<>>

write_property(o, id, start, count, values) ==
    IF has_property(o, id)
    THEN [o EXCEPT !.properties[index_of(o, id)] =
                write(property(o, id), start, count, values)]
    ELSE o

description(index, p) ==
    [index |-> index, id |-> p.id, write_enable |-> p.write_enable,
     data_type |-> p.data_type, max_elements |-> p.max_elements, access |-> p.access]

\* By identifier if there is one, else by position; the positions of the
\* answer start at 0.  None or one description.
read_property_description(o, property_id, property_index) ==
    IF property_id # 0
    THEN IF property_id \in PropertyId /\ has_property(o, property_id)
         THEN <<description(index_of(o, property_id) - 1, property(o, property_id))>>
         ELSE <<>>
    ELSE IF property_index < Len(o.properties)
         THEN <<description(property_index, o.properties[property_index + 1])>> ELSE <<>>

-----------------------------------------------------------------------------
(* The objects of a device.                                                *)

identity_properties(serial) ==
    <<Data(11, FALSE, "Generic06", 1, "None", <<serial>>),
      read_only(12, "UnsignedInt", serial),     \* its first two octets
      read_write(14, "UnsignedChar", 0),
      Data(15, FALSE, "Generic10", 1, "None", <<0>>),
      read_only(25, "UnsignedInt", 3),
      read_only(9, "UnsignedChar", 1)>>

config_properties(hardware_type) ==
    <<read_write(51, "UnsignedChar", 96),
      read_write(54, "UnsignedChar", 0),
      read_only(56, "UnsignedInt", 254),
      read_write(57, "UnsignedChar", 255),
      read_write(58, "UnsignedChar", 255),
      Data(78, FALSE, "Generic06", 1, "None", <<hardware_type>>),
      read_only(83, "UnsignedInt", 22448)>>

new_device_object(serial, hardware_type) ==
    object(0, identity_properties(serial) \o config_properties(hardware_type))

\* The properties a table object serves itself (Bau intercepts them); what
\* is stored here is what the extended services see.
table_properties ==
    <<read_write(5, "UnsignedChar", 0), read_write(7, "UnsignedLong", 0),
      read_write(27, "Generic08", 0), read_only(28, "UnsignedChar", 0)>>

new_group_object_table_object == object(9, table_properties)

new_application_program_object ==
    object(3, <<Data(13, TRUE, "Generic05", 1, "WriteHigh", <<0>>),
                read_only(16, "UnsignedChar", 0)>> \o table_properties)

\* Bau::new: the System B layout, with the list of object types installed in
\* the device object.  Object indices start at 0, positions at 1.
new_objects(device) ==
    LET objects == <<device, object(1, <<>>), object(2, <<>>),
                     new_group_object_table_object, new_application_program_object>>
        types == [i \in DOMAIN objects |-> objects[i].object_type]
    IN  [objects EXCEPT ![1].properties =
            Append(device.properties,
                   Data(71, FALSE, "UnsignedInt", Len(objects), "None", types))]

\* The object of a type, instances counted from 1: none or its position.
find_object_by_type(objects, object_type, instance) ==
    LET those == SelectSeq([i \in DOMAIN objects |-> i],
                           LAMBDA i : objects[i].object_type = object_type)
    IN  IF object_type \in ObjectType /\ instance \in DOMAIN those
        THEN <<those[instance]>> ELSE <<>>

individual_address(device) ==
    <<property(device, 57).data[1], property(device, 58).data[1]>>

set_individual_address(device, address) ==
    write_property(write_property(device, 57, 1, 1, <<address[1]>>),
                   58, 1, 1, <<address[2]>>)

prog_mode(device) == property(device, 54).data[1] # 0

set_prog_mode(device, enabled) ==
    write_property(device, 54, 1, 1, <<IF enabled THEN 1 ELSE 0>>)

serial_number(device) == property(device, 11).data[1]

=============================================================================
