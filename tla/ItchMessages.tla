---------------------------- MODULE ItchMessages ----------------------------
(***************************************************************************)
(* The ITCH messages that read_next_message decodes: for each, its code,   *)
(* the bytes its decode takes field by field (the code first), and the     *)
(* message_size that decode compares with the bytes that are left.         *)
(***************************************************************************)
EXTENDS Integers, Sequences

\* Widths of the field types.
char      == 1
uint16    == 2
uint32    == 4
uint64    == 8
timestamp == 6  \* nasdaq_timestamp::stored_size
price     == 4  \* nasdaq_price<4>::stored_size
stock     == 8
mpid      == 4
sub_type  == 2

\* What every message starts with: code, stock_locate, tracking_number, nanoseconds.
Header     == <<char, uint16, uint16, timestamp>>
HeaderSize == char + uint16 + uint16 + timestamp

stock_directory ==
  [code |-> "R",
   fields |-> Header \o <<stock, char, char, uint32, char, char, sub_type, char, char,
                          char, char, char, uint32, char>>,
   message_size |-> HeaderSize + stock + char + char + uint32 + char + char + sub_type
                    + char + char + char + char + char + uint32 + char]

add_order_without_attribution ==
  [code |-> "A",
   fields |-> Header \o <<uint64, char, uint32, stock, price>>,
   message_size |-> HeaderSize + uint64 + char + uint32 + stock + price]

add_order_with_attribution ==
  [code |-> "F",
   fields |-> Header \o <<uint64, char, uint32, stock, price, mpid>>,
   message_size |-> HeaderSize + uint64 + char + uint32 + stock + price + mpid]

\* Mutant: decode forgets the match number.
order_executed_short ==
  [code |-> "E",
   fields |-> Header \o <<uint64, uint32>>,
   message_size |-> HeaderSize + uint64 + uint32 + uint64]

order_executed ==
  [code |-> "E",
   fields |-> Header \o <<uint64, uint32, uint64>>,
   message_size |-> HeaderSize + uint64 + uint32 + uint64]

order_executed_with_price ==
  [code |-> "C",
   fields |-> Header \o <<uint64, uint32, uint64, char, price>>,
   message_size |-> HeaderSize + uint64 + uint32 + uint64 + char + price]

order_cancel ==
  [code |-> "X",
   fields |-> Header \o <<uint64, uint32>>,
   message_size |-> HeaderSize + uint64 + uint32]

order_delete ==
  [code |-> "D",
   fields |-> Header \o <<uint64>>,
   message_size |-> HeaderSize + uint64]

order_replace ==
  [code |-> "U",
   fields |-> Header \o <<uint64, uint64, uint32, price>>,
   message_size |-> HeaderSize + uint64 + uint64 + uint32 + price]

trade_non_cross ==
  [code |-> "P",
   fields |-> Header \o <<uint64, char, uint32, stock, price, uint64>>,
   message_size |-> HeaderSize + uint64 + char + uint32 + stock + price + uint64]

trade_cross ==
  [code |-> "Q",
   fields |-> Header \o <<uint64, stock, price, uint64, char>>,
   message_size |-> HeaderSize + uint64 + stock + price + uint64 + char]

broken_trade_order ==
  [code |-> "B",
   fields |-> Header \o <<uint64>>,
   message_size |-> HeaderSize + uint64]

\* The MESSAGE_READ cases of read_next_message.
Messages ==
  {stock_directory, add_order_without_attribution, add_order_with_attribution,
   order_executed, order_executed_with_price, order_cancel, order_delete,
   order_replace, trade_cross, trade_non_cross, broken_trade_order}

Decoded(code)   == \E m \in Messages : m.code = code
MessageOf(code) == CHOOSE m \in Messages : m.code = code

\* The bytes of the first n fields of a decode.
Taken(fields) ==
  LET taken[n \in 0 .. Len(fields)] == IF n = 0 THEN 0 ELSE taken[n - 1] + fields[n]
  IN  taken

\* The bytes decode takes when l bytes are left: all of its fields, or none.
DecodeTakes(m, l) == IF l < m.message_size THEN 0 ELSE Taken(m.fields)[Len(m.fields)]

\* The sizes of TotalView-ITCH 5.0, not taken from the code: what the exchange sends.
ItchSize ==
  [R |-> 39, A |-> 36, F |-> 40, E |-> 31, C |-> 36, X |-> 23, D |-> 19, U |-> 35,
   P |-> 44, Q |-> 40, B |-> 19, S |-> 12]
=============================================================================
