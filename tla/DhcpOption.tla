------------------------------ MODULE DhcpOption ------------------------------
(***************************************************************************)
(* DHCP options as values (dhcp/src/DhcpOption.cpp): the table of the      *)
(* options the server knows, the constructor that reads an option's        *)
(* payload, and the bytes an option is written as.                         *)
(*                                                                         *)
(* A value of the variant dhcp_option_field_real_value_t is a record of    *)
(* its payload type and its bytes.  For a number these are its digits in   *)
(* base 256, the most significant first, whatever way the host stores it:  *)
(* a flag is 0 or 1.                                                       *)
(*                                                                         *)
(* The payload of an option lies inside the datagram, and an option made   *)
(* of several elements has a whole number of them: what does not is        *)
(* Overrun in DhcpMessage.tla.                                             *)
(***************************************************************************)
EXTENDS Integers, SequencesExt

CONSTANT LittleEndian    \* std::endian::native == std::endian::little

ASSUME LittleEndianAssumption == LittleEndian \in BOOLEAN

Byte == 0 .. 255

-----------------------------------------------------------------------------
(* options_descriptions *)

(* The codes of the options with each type of payload. *)
options_descriptions ==
  [ NONE                        |-> {0, 255},
    SUBNET_MASK                 |-> {1},
    INT_32                      |-> {2},
    IP_ADDRESS                  |-> (3 .. 11) \cup {16, 28, 32, 41, 42, 44, 45, 48, 49,
                                                    50, 54, 65} \cup (68 .. 76),
    STRING                      |-> {12, 14, 15, 17, 18, 40, 47, 56, 60, 64, 66, 67},
    UINT_16                     |-> {13, 22, 25, 26, 57},
    FLAG                        |-> {19, 20, 27, 29, 30, 31, 34, 36, 39},
    IP_ADDRESS_WITH_SUBNET_MASK |-> {21},
    UINT_8                      |-> {23, 37},
    UINT_32                     |-> {24, 35, 38, 51, 58, 59},
    TWO_IP_ADDRESSES            |-> {33},
    VENDOR_SPECIFIC_FIELD       |-> {43},
    UINT_ENUM                   |-> {46, 52, 53},
    BYTE_ARRAY                  |-> {55, 61} ]

(* The options that hold a list, of which there is one of any length. *)
ListCodes == (3 .. 11) \cup {21, 25, 33, 41, 42, 44, 45, 48, 49, 65} \cup (68 .. 76)

(* min_len_in_elements of the options whose length is not fixed. *)
min_len_in_elements(code) == IF code = 61 \/ code = 25 THEN 2
                             ELSE IF code = 68 THEN 0 ELSE 1

(* The values the int_constraint of an option allows. *)
int_constraint ==
  [ code \in {22, 23, 26, 37, 46, 52, 53, 57} |->
      CASE code \in {22, 57} -> 576 .. 65535
        [] code = 26         -> 68 .. 65535
        [] code \in {23, 37} -> 1 .. 255
        [] code = 46         -> {1, 2, 4, 8}
        [] code = 52         -> 1 .. 3
        [] code = 53         -> 1 .. 8 ]

Known == UNION { options_descriptions[t] : t \in DOMAIN options_descriptions }

PayloadType(code) ==
  CHOOSE t \in DOMAIN options_descriptions : code \in options_descriptions[t]

(* The types whose payload is one value, however long it is. *)
Whole == {"STRING", "VENDOR_SPECIFIC_FIELD", "BYTE_ARRAY"}

VariableLength(code) == code \in ListCodes \/ PayloadType(code) \in Whole

get_one_element_payload_length_in_bytes(type) ==
  CASE type = "NONE"                                               -> 0
    [] type \in {"BYTE_ARRAY", "FLAG", "STRING", "UINT_8", "UINT_ENUM"} -> 1
    [] type = "UINT_16"                                            -> 2
    [] type \in {"INT_32", "UINT_32", "IP_ADDRESS", "SUBNET_MASK"}  -> 4
    [] type \in {"IP_ADDRESS_WITH_SUBNET_MASK", "TWO_IP_ADDRESSES"} -> 8
    [] type = "VENDOR_SPECIFIC_FIELD"          -> -1   \* VARIABLE_DHCP_OPTION_LENGTH

HasWholeElements(code, payload) ==
  code \in ListCodes =>
    Len(payload) % get_one_element_payload_length_in_bytes(PayloadType(code)) = 0

-----------------------------------------------------------------------------
(* The constructor.  from_big_endian_bytes copies the bytes of an address; *)
(* network_to_host_endian copies those of a number into the host's order,  *)
(* which leaves its digits what they were in the network's.                *)

Multibyte == {"UINT_16", "UINT_32", "INT_32"}

process_element(type, bytes) ==
  [type |-> type, bytes |-> IF type = "FLAG" /\ bytes # <<0>> THEN <<1>> ELSE bytes]

(* The i-th element of a payload whose elements have size bytes. *)
element(payload, size, i) == SubSeq(payload, (i - 1) * size + 1, i * size)

(* The elements of a payload.  An empty payload never enters the loop. *)
real_values(code, payload) ==
  LET type == PayloadType(code)
      size == get_one_element_payload_length_in_bytes(type)
  IN  IF payload = <<>> THEN <<>>
      ELSE IF type \in Whole THEN << process_element(type, payload) >>
      ELSE [ i \in 1 .. Len(payload) \div size |->
               process_element(type, element(payload, size, i)) ]

(* Only numbers of one or two bytes have a constraint. *)
Number(bytes) == IF Len(bytes) = 1 THEN bytes[1] ELSE bytes[1] * 256 + bytes[2]

is_correct_uint(code, value) ==
  code \in DOMAIN int_constraint => Number(value.bytes) \in int_constraint[code]

(* A faulty constructor: it trusts the length it was given. *)
AcceptsAnyLength(code, payload) ==
  /\ code \in Known
  /\ PayloadType(code) # "NONE"
  /\ \A i \in DOMAIN real_values(code, payload) :
       is_correct_uint(code, real_values(code, payload)[i])

(* Another one: a byte array has to be longer than its minimum. *)
AcceptsAboveMinimum(code, payload) ==
  /\ code \in Known
  /\ ~VariableLength(code)
       => Len(payload) = get_one_element_payload_length_in_bytes(PayloadType(code))
  /\ PayloadType(code) # "NONE"
  /\ PayloadType(code) = "BYTE_ARRAY"
       => Len(payload) \notin 1 .. min_len_in_elements(code)
  /\ \A i \in DOMAIN real_values(code, payload) :
       is_correct_uint(code, real_values(code, payload)[i])

(* The constructor does not throw.  The minimum is looked at in            *)
(* process_byte_array alone, which an empty payload does not reach.        *)
Accepts(code, payload) ==
  /\ code \in Known
  /\ ~VariableLength(code)
       => Len(payload) = get_one_element_payload_length_in_bytes(PayloadType(code))
  /\ PayloadType(code) # "NONE"
  /\ PayloadType(code) = "BYTE_ARRAY"
       => Len(payload) \notin 1 .. min_len_in_elements(code) - 1
  /\ \A i \in DOMAIN real_values(code, payload) :
       is_correct_uint(code, real_values(code, payload)[i])

(* The option, when the constructor returns. *)
Option(code, payload) ==
  [code |-> code, real_payload_length |-> Len(payload),
   real_values |-> real_values(code, payload)]

-----------------------------------------------------------------------------
(* dhcp_option_field_real_value_to_network_data *)

(* A faulty conversion, which drops the second address of a pair. *)
NetworkDataHalved(value) == SubSeq(value.bytes, 1, (Len(value.bytes) + 1) \div 2)

(* Numbers are copied from memory as the host stores them. *)
value_to_network_data(value) ==
  IF value.type \in Multibyte /\ LittleEndian THEN Reverse(value.bytes) ELSE value.bytes

(* No branch handles bool, and the function ends without a return: what it *)
(* returns for a flag is undefined.                                        *)
UndefinedData(option) == PayloadType(option.code) = "FLAG"

option_to_network_data(option) ==
  <<option.code, option.real_payload_length>>
    \o FlattenSeq([ i \in DOMAIN option.real_values |->
                      value_to_network_data(option.real_values[i]) ])

=============================================================================
