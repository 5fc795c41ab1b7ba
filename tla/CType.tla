-------------------------------- MODULE CType --------------------------------
(***************************************************************************)
(* ctype.c: character classes from the 256-entry ctype_table, and the     *)
(* range tests that do not use it.  A class set stands for the table's    *)
(* bit mask (_U _L _D _S _P _C _X).                                        *)
(***************************************************************************)
EXTENDS Integers

\* (unsigned char)c
UChar(c) == c % 256

\* ctype_table[c]: the classes of byte c.  Entry 127 (DEL) is in the
\* punctuation run 123-127.
CtypeTable(c) ==
  CASE c \in 9 .. 13    -> {"C", "S"}
    [] c \in 0 .. 31    -> {"C"}
    [] c = 32           -> {"S"}
    [] c \in 48 .. 57   -> {"D", "X"}
    [] c \in 65 .. 70   -> {"U", "X"}
    [] c \in 71 .. 90   -> {"U"}
    [] c \in 97 .. 102  -> {"L", "X"}
    [] c \in 103 .. 122 -> {"L"}
    [] c \in 33 .. 127  -> {"P"}
    [] OTHER            -> {}

\* ctype_table[(unsigned char)c] & mask != 0
Has(c, mask) == CtypeTable(UChar(c)) \cap mask # {}

isalnum(c) == Has(c, {"U", "L", "D"})
isalpha(c) == Has(c, {"U", "L"})
iscntrl(c) == Has(c, {"C"})
isdigit(c) == Has(c, {"D"})
islower(c) == Has(c, {"L"})
ispunct(c) == Has(c, {"P"})
isspace(c) == Has(c, {"S"})
isupper(c) == Has(c, {"U"})
isxdigit(c) == Has(c, {"X"})

\* (unsigned)c < 128, > 32 && < 127, >= 32 && < 127: a negative c is huge.
isascii(c) == c \in 0 .. 127
isgraph(c) == c \in 33 .. 126
isprint(c) == c \in 32 .. 126
isblank(c) == c \in {32, 9}

tolower(c) == IF isupper(c) THEN c + 32 ELSE c
toupper(c) == IF islower(c) THEN c - 32 ELSE c

=============================================================================
