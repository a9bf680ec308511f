------------------------------- MODULE Output -------------------------------
(***************************************************************************)
(* What main writes about a line: print_in_hex of the opcodes, and         *)
(* print_registers of the registers in a mask, which are read with the     *)
(* get_common_registers of RegisterFile.  Other clients call that and      *)
(* set_common_registers in between.                                        *)
(*                                                                         *)
(* Text is a sequence of character codes; the prefix "0x" counts as one    *)
(* character.                                                              *)
(***************************************************************************)
EXTENDS RegisterFile, Sequences, SequencesExt

CONSTANTS
  Bytes,  \* the eight bytes of a register's value, least significant first
  Opcodes \* encodings that main prints

ASSUME OutputAssumption ==
  /\ DOMAIN Bytes \subseteq Int
  /\ {0} \cup {EnvStart[i] : i \in 0 .. Words}
         \cup {CallerStart[i] : i \in 0 .. Words} \subseteq DOMAIN Bytes
  /\ \A v \in DOMAIN Bytes : Bytes[v] \in [1 .. 8 -> 0 .. 255]
  /\ Opcodes \subseteq Seq(0 .. 255)

VARIABLES
  pc,       \* which function is running
  array,    \* the array print_in_hex is called with
  reversed, \* its second argument
  i,        \* bytes printed
  text,     \* what it has written
  read,     \* read_registers, the word behind it at index Words
  mask,     \* registers_to_print, as the set of its one bits
  index,    \* register_index
  printed,  \* history: registers printed by this call, with their text
  asked     \* history: the mask this call was made with

hex == <<array, reversed, i, text>>
registers == <<read, mask, index, printed, asked>>
printvars == <<vars, pc, hex, registers>>

Prefix == 1000 \* "0x"
Newline == 10
Space == 32

NoRegisters == [r \in 0 .. Words |-> 0]

PrintInit ==
  /\ Init
  /\ pc = "main"
  /\ array = <<>> /\ reversed = FALSE /\ i = 0 /\ text = <<>>
  /\ read = NoRegisters /\ mask = {} /\ index = 0
  /\ printed = <<>> /\ asked = {}

-----------------------------------------------------------------------------
(* print_in_hex is called.                                                 *)
print_in_hex(a, backwards) ==
  /\ pc' = "print_in_hex"
  /\ array' = a /\ reversed' = backwards /\ i' = 0 /\ text' = <<Prefix>>

(* Mutant: digits from 9 on are letters.                                   *)
convert_byte_to_char_From9(byte, high) ==
  LET n == IF high THEN byte \div 16 ELSE byte % 16
  IN IF n >= 9 THEN 65 + n - 10 ELSE 48 + n

convert_byte_to_char(byte, high) ==
  LET n == IF high THEN byte \div 16 ELSE byte % 16
  IN IF n > 9 THEN 65 + n - 10 ELSE 48 + n

(* What follows the byte that is printed after n others.  The branch for   *)
(* reversed arrays compares a remainder of 16 with 16.                     *)
Separator(n) ==
  IF n % 16 = (IF reversed THEN 16 ELSE 15) THEN <<Newline, Prefix>>
  ELSE IF n % 2 = 1 THEN <<Space>> ELSE <<>>

(* The byte of the next round of the loop.                                 *)
Current == array[IF reversed THEN Len(array) - i ELSE i + 1]

print_byte ==
  /\ pc = "print_in_hex" /\ i < Len(array)
  /\ text' = text \o <<convert_byte_to_char(Current, TRUE),
                       convert_byte_to_char(Current, FALSE)>> \o Separator(i)
  /\ i' = i + 1
  /\ UNCHANGED <<vars, pc, array, reversed, registers>>

(* The loop has ended; the caller goes on.                                 *)
end_hex ==
  /\ pc = "print_in_hex" /\ i = Len(array)
  /\ IF reversed
     THEN /\ pc' = "next_register"
          /\ printed' = Append(printed, <<index, text>>)
     ELSE pc' = "main" /\ UNCHANGED printed
  /\ array' = <<>> /\ reversed' = FALSE /\ i' = 0 /\ text' = <<>>
  /\ UNCHANGED <<vars, read, mask, index, asked>>

(* main prints the opcodes of a line.                                      *)
print_opcodes(a) ==
  /\ pc = "main" /\ print_in_hex(a, FALSE)
  /\ UNCHANGED <<vars, registers>>

(* get_common_registers refuses the mask, or fills the named registers in. *)
print_registers(m) ==
  /\ pc = "main"
  /\ \E bit \in Limit(GetWidth) :
       /\ result' = ~OutOfRange(m, bit)
       /\ read' = IF result' THEN Copied(env, NoRegisters, m) ELSE NoRegisters
  /\ pc' = IF result' THEN "registers" ELSE "main"
  /\ mask' = IF result' THEN m ELSE {}
  /\ asked' = mask'
  /\ UNCHANGED <<env, caller, hex, index, printed>>

print_register ==
  /\ pc = "registers" /\ 0 \in mask
  /\ print_in_hex(Bytes[read[index]], TRUE)
  /\ UNCHANGED <<vars, registers>>

(* Mutant: the index advances only with the registers that are printed.    *)
next_register_Packed ==
  /\ \/ pc = "next_register" /\ index' = index + 1
     \/ pc = "registers" /\ mask # {} /\ 0 \notin mask /\ index' = index
  /\ pc' = "registers"
  /\ mask' = {b - 1 : b \in mask \ {0}}
  /\ UNCHANGED <<vars, hex, read, printed, asked>>

(* The mask is shifted, whether or not its lowest bit was one.             *)
next_register ==
  /\ \/ pc = "next_register"
     \/ pc = "registers" /\ mask # {} /\ 0 \notin mask
  /\ pc' = "registers"
  /\ mask' = {b - 1 : b \in mask \ {0}} /\ index' = index + 1
  /\ UNCHANGED <<vars, hex, read, printed, asked>>

end_registers ==
  /\ pc = "registers" /\ mask = {} /\ pc' = "main"
  /\ read' = NoRegisters /\ index' = 0
  /\ printed' = <<>> /\ asked' = {}
  /\ UNCHANGED <<vars, hex, mask>>

(* Another client's call.                                                  *)
access_registers == pc = "main" /\ Next /\ UNCHANGED <<pc, hex, registers>>

PrintNext ==
  \/ \E a \in Opcodes : print_opcodes(a)
  \/ \E m \in Masks : print_registers(m)
  \/ print_byte \/ end_hex
  \/ print_register \/ next_register \/ end_registers
  \/ access_registers

PrintSpec == PrintInit /\ [][PrintNext]_printvars

(* One call of print_in_hex by itself, with any arguments.  The program    *)
(* prints nothing backwards but the eight bytes of a register's value.     *)
HexInit ==
  /\ Init
  /\ pc = "print_in_hex"
  /\ array \in Opcodes /\ reversed \in BOOLEAN /\ i = 0 /\ text = <<Prefix>>
  /\ read = NoRegisters /\ mask = {} /\ index = 0
  /\ printed = <<>> /\ asked = {}

HexSpec == HexInit /\ [][print_byte \/ end_hex]_printvars

-----------------------------------------------------------------------------
(* A reader of hexadecimal text skips what is no digit and takes the digits *)
(* two by two: n digits before it make a digit a half of byte n \div 2.     *)
IsDigit(c) == c \in 48 .. 57 \cup 65 .. 70
ValueOf(c) == IF c < 58 THEN c - 48 ELSE c - 55
Half(byte, high) == IF high THEN byte \div 16 ELSE byte % 16
Digits(t) == {p \in DOMAIN t : IsDigit(t[p])}
DigitsBefore(t, p) == Cardinality({q \in Digits(t) : q < p})

ReadsAs(t, bytes) ==
  /\ Cardinality(Digits(t)) = 2 * Len(bytes)
  /\ \A p \in Digits(t) :
       ValueOf(t[p]) = Half(bytes[DigitsBefore(t, p) \div 2 + 1],
                            DigitsBefore(t, p) % 2 = 0)

(* What main prints reads as the bytes printed so far, from the first on   *)
(* or, where a register's value is printed, from the most significant on;  *)
(* its lines hold at most sixteen of them, and each begins with the        *)
(* prefix.                                                                 *)
Breaks == {p \in DOMAIN text : text[p] = Newline}
Line(start) ==
  {p \in DOMAIN text : p > start /\ \A b \in Breaks : b <= start \/ p < b}

TextReadsBack ==
  pc = "print_in_hex" =>
    /\ ReadsAs(text, SubSeq(IF reversed THEN Reverse(array) ELSE array, 1, i))
    /\ \A start \in Breaks \cup {0} :
         /\ text[start + 1] = Prefix
         /\ Cardinality(Digits(text) \cap Line(start)) <= 2 * 16

(* What print_in_hex does with any arguments: the text reads back both     *)
(* ways, but only forwards are its lines limited.  Backwards the condition *)
(* of the line break never holds, and all is one line.                     *)
HexReadsBack ==
  pc = "print_in_hex" =>
    /\ ReadsAs(text, SubSeq(IF reversed THEN Reverse(array) ELSE array, 1, i))
    /\ \A start \in Breaks \cup {0} :
         /\ text[start + 1] = Prefix
         /\ ~reversed => Cardinality(Digits(text) \cap Line(start)) <= 2 * 16
    /\ reversed => Breaks = {}

(* The loop of print_registers has no bound check of its own: masks for    *)
(* which it would read behind the struct are refused before.               *)
PrintsInside == pc = "registers" /\ 0 \in mask => index < Words

(* When print_registers returns from a mask that was not refused, it has   *)
(* printed each register of it once, in order, with its own value.         *)
RegistersPrinted ==
  [][end_registers =>
       /\ {printed[k][1] : k \in DOMAIN printed} = asked
       /\ \A j, k \in DOMAIN printed : j < k => printed[j][1] < printed[k][1]
       /\ \A k \in DOMAIN printed :
            ReadsAs(printed[k][2], Reverse(Bytes[env[printed[k][1]]]))]_printvars

=============================================================================
