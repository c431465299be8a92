----------------------------- MODULE CardDatabase -----------------------------
(***************************************************************************)
(* card_database.cpp: the card table of an engine.                         *)
(*                                                                         *)
(* open() copies the rows of every configured SQLite file into memory, in  *)
(* the order of the paths; cardReader serves the engine from that copy.    *)
(*                                                                         *)
(* Widths.  A column holds a 64-bit integer; the fields of a card are      *)
(* narrower and several are packed in one column.  The model scales every  *)
(* width down from one constant, the number of values of a byte: a word    *)
(* has two bytes, a uint32 two words, the setcode column four words.  The  *)
(* attribute and race columns are copied like alias and are left out.      *)
(***************************************************************************)
EXTENDS Integers, Sequences, SequencesExt, JavaLog

CONSTANTS
    ByteBase,   \* the values of a byte: 2^8 in the code
    TYPE_LINK,  \* the bit of the type column that marks a Link monster
    DbPaths     \* the card database files

ASSUME ByteAssumption == ByteBase \in Nat \ {0, 1} /\ TYPE_LINK \in Nat \ {0}

VARIABLES
    databases,      \* external: path -> what SQLite finds there
    cards,          \* cards_: code -> CardDataEntry
    unknownCodes    \* unknownCodes_: codes already warned about

cardVars == <<cards, unknownCodes>>

WordBase == ByteBase * ByteBase
Uint32Base == WordBase * WordBase
Uint64Base == Uint32Base * Uint32Base

\* static_cast to an unsigned type of `base` values, and to int32_t.
Unsigned(base, n) == n % base
Int32(n) == LET half == Uint32Base \div 2 IN Unsigned(Uint32Base, n + half) - half

\* A file of cards: whether it opens, whether it has the table `datas`, its rows,
\* and how many of them sqlite3_step delivers before it returns anything else.
Readable(path) == databases[path].opens /\ databases[path].prepares
RowsRead(path) == SubSeq(databases[path].rows, 1, databases[path].delivers)

-----------------------------------------------------------------------------
(* Rows *)

Rows == [id : Int, alias : Int, setcode : Int, type : Int, level : Int, atk : Int, def : Int]

\* Up to four archetype codes, the empty slots left out, closed by a zero.
SetcodesOf(setcode) ==
    LET shift == <<1, WordBase, Uint32Base, WordBase * Uint32Base>>
        words == [i \in 1..4 |-> Unsigned(WordBase, setcode \div shift[i])]
    IN Append(SelectSeq(words, LAMBDA sc : sc # 0), 0)

IsLink(type) == (type \div TYPE_LINK) % 2 = 1

Entry(row) ==
    LET type == Unsigned(Uint32Base, row.type)
        level == Unsigned(Uint32Base, row.level)
        def == Int32(row.def)
    IN [code |-> Unsigned(Uint32Base, row.id),
        alias |-> Unsigned(Uint32Base, row.alias),
        setcodes |-> SetcodesOf(row.setcode),
        type |-> type,
        level |-> Unsigned(WordBase, level),
        lscale |-> Unsigned(ByteBase, level \div (WordBase * ByteBase)),
        rscale |-> Unsigned(ByteBase, level \div WordBase),
        attack |-> Int32(row.atk),
        defense |-> IF IsLink(type) THEN 0 ELSE def,
        link_marker |-> IF IsLink(type) THEN Unsigned(Uint32Base, def) ELSE 0]

\* Mutant: emplace, which keeps the earlier row.
PutFirst(table, row) ==
    [code \in DOMAIN table \cup {Entry(row).code} |->
        IF code \in DOMAIN table THEN table[code] ELSE Entry(row)]

\* cards_[entry.code] = entry: a later row takes the place of an earlier one.
Put(table, row) ==
    [code \in DOMAIN table \cup {Entry(row).code} |->
        IF code = Entry(row).code THEN Entry(row) ELSE table[code]]

NoCards == [code \in {} |-> {}]

LoadFromFile(table, path) == FoldLeft(Put, table, RowsRead(path))

-----------------------------------------------------------------------------
(* Operations *)

\* Paths are loaded in order; the first that cannot be read fails the whole, and what was
\* loaded before it goes with the engine.
Opens(paths) == paths # <<>> /\ \A path \in ToSet(paths) : Readable(path)

OpenedCards(paths) == FoldLeft(LoadFromFile, NoCards, paths)

Close == cards' = NoCards /\ unknownCodes' = {}

\* What the engine gets for a code: the entry, its setcodes by reference, or a card whose
\* memory is all zero.
Blank == [code |-> 0]
CardData(code) == IF code \in DOMAIN cards THEN cards[code] ELSE Blank

\* The engine asks for a card; only the first question for an unknown code is logged.
CardReader(code) ==
    /\ UNCHANGED cards
    /\ IF code \in DOMAIN cards \/ code \in unknownCodes
       THEN UNCHANGED <<unknownCodes, logVars>>
       ELSE unknownCodes' = unknownCodes \cup {code} /\ JavaLog(UnknownCode(code))
=============================================================================
