-------------------------------- MODULE Format --------------------------------
(***************************************************************************)
(* The description of a trace (CP7Trace_Desc): the constructor parses the  *)
(* format string into the types of the arguments and groups them in        *)
(* blocks, and Trace_Raw makes a chunk of every block, out of the          *)
(* arguments on the stack of its caller.  A format is a sequence of        *)
(* pieces, as the documentation of Trace allows them (P7_Trace.h:173-180); *)
(* a character stands for all that are treated alike: d for d i o u x X,   *)
(* f for e E f g G a A, p for p and n, 5 for flags, width and precision.   *)
(* It is the build for wide characters (UTF8_ENCODING is not defined).     *)
(***************************************************************************)
EXTENDS Integers, SequencesExt

CONSTANTS
  Pieces,         \* what a format may consist of: its characters, and what printf
                  \* takes from the stack for it
  MaxPieces,      \* bound: pieces of a format
  PointerSize,    \* sizeof(void*), to which SIZE_OF_ARG rounds up
  ArgsReserve,    \* entries that Add_Argument adds, 16 in the code
  ChunksReserve   \* m_dwChunks_Max_Count at first, 32 in the code

ASSUME FormatAssumption ==
  /\ \A piece \in Pieces : piece.text \in Seq(STRING)
  /\ MaxPieces \in Nat /\ PointerSize \in {4, 8}
  /\ ArgsReserve \in Nat \ {0, 1} /\ ChunksReserve \in Nat \ {0, 1, 2}

VARIABLES
  pieces,        \* the pieces of i_pFormat
  iterator,      \* l_pIterator
  percent,       \* l_bPercent
  prefix,        \* l_ePrefix, empty if it is unknown
  args,          \* m_pArgs, up to m_dwArgs_Len: the types
  argsMax,       \* m_dwArgs_Max
  blocks,        \* m_pBlocks
  chunksMax,     \* m_dwChunks_Max_Count
  chunks,        \* what Trace_Raw took from the stack, in order
  phase          \* which part of the work is to be done next

formatVars == <<pieces, iterator, percent, prefix, args, argsMax, blocks, chunksMax, chunks, phase>>

format == FlattenSeq([i \in DOMAIN pieces |-> pieces[i].text])

FormatInit ==
  /\ \E n \in 0 .. MaxPieces : pieces \in [1 .. n -> Pieces]
  /\ iterator = 1 /\ percent = FALSE /\ prefix = <<>>
  /\ args = <<>> /\ argsMax = 0
  /\ blocks = <<>>
  /\ chunksMax = ChunksReserve /\ chunks = <<>>
  /\ phase = "parse"

-----------------------------------------------------------------------------
(* The constructor.                                                        *)

\* g_pPrefixes, in the order in which they are searched
Specifiers == <<<<"I", "6", "4">>, <<"I", "3", "2">>, <<"l", "l">>, <<"l">>, <<"h">>, <<"I">>, <<"w">>>>

\* Get_Prefix: the first one that the text begins with
GetPrefix(i) ==
  LET fits == {n \in DOMAIN Specifiers : IsPrefix(Specifiers[n], SubSeq(format, i, Len(format)))}
  IN Specifiers[CHOOSE n \in fits : \A m \in fits : n <= m]

Wide == {<<"l">>}
Ansi == {<<"h">>}

\* The types of P7TRACE_ARG_TYPE_
CharType(c, p) == IF p \in Ansi THEN "char" ELSE IF p \in Wide \/ c = "c" THEN "wchar" ELSE "char"
StringType(c, p) == IF p \in Ansi THEN "astr" ELSE IF p \in Wide \/ c = "s" THEN "wstr" ELSE "astr"
IntType(p) ==
  CASE p = <<"h">> -> "int16"
    [] p \in {<<"l", "l">>, <<"I", "6", "4">>} -> "int64"
    [] p = <<"I">> -> IF PointerSize = 8 THEN "int64" ELSE "int32"
    [] OTHER -> "int32"

ArgType(c, p) ==
  CASE c \in {"c", "C"} -> CharType(c, p)
    [] c \in {"s", "S"} -> StringType(c, p)
    [] c = "d" -> IntType(p)
    [] c = "f" -> "double"
    [] c = "p" -> "pvoid"

Converting == {"c", "C", "s", "S", "d", "f", "p"}

\* What a format consists of: a character, two percent signs, or a conversion, with its
\* flags up to f and a prefix or none, that takes what the table above has for it
Plain(piece)    == Len(piece.text) = 1 /\ piece.text[1] # "%" /\ piece.takes = <<>>
Percents(piece) == piece.text = <<"%", "%">> /\ piece.takes = <<>>
Conversion(piece, f, p) ==
  LET c == Last(piece.text) IN
  /\ piece.text = SubSeq(piece.text, 1, f) \o p \o <<c>>
  /\ piece.text[1] = "%"
  /\ \A k \in 2 .. f : piece.text[k] \notin Converting \cup {"%", "I", "l", "h", "w"}
  /\ c \in Converting /\ piece.takes = <<ArgType(c, p)>>

Legible(piece) ==
  \/ Plain(piece) \/ Percents(piece)
  \/ \E f \in DOMAIN piece.text, p \in ToSet(Specifiers) \cup {<<>>} : Conversion(piece, f, p)

ASSUME PiecesAssumption == \A piece \in Pieces : Legible(piece)

\* Add_Argument
AddArgument(type) ==
  /\ args' = Append(args, type)
  /\ argsMax' = IF Len(args) + 1 >= argsMax THEN Len(args) + ArgsReserve ELSE argsMax

\* Mutant: the prefix of the last conversion stays.
KeepPrefix(p) == p

\* A percent sign forgets the prefix of the conversion before it.
NewPrefix(p) == <<>>

\* One turn of the loop over the format
Parse ==
  /\ phase = "parse" /\ iterator <= Len(format)
  /\ LET c == format[iterator] IN
     \/ /\ ~percent
        /\ percent' = (c = "%")
        /\ prefix' = IF c = "%" THEN NewPrefix(prefix) ELSE prefix
        /\ iterator' = iterator + 1
        /\ UNCHANGED <<args, argsMax>>
     \/ /\ percent /\ c \in {"I", "l", "h", "w"}
        /\ prefix' = GetPrefix(iterator)
        /\ iterator' = iterator + Len(prefix')
        /\ UNCHANGED <<percent, args, argsMax>>
     \/ /\ percent /\ c \in Converting \cup {"%"}
        /\ IF c = "%" THEN UNCHANGED <<args, argsMax>> ELSE AddArgument(ArgType(c, prefix))
        /\ percent' = FALSE
        /\ iterator' = iterator + 1
        /\ UNCHANGED prefix
     \/ /\ percent /\ c \notin Converting \cup {"%", "I", "l", "h", "w"}
        /\ iterator' = iterator + 1
        /\ UNCHANGED <<percent, prefix, args, argsMax>>
  /\ UNCHANGED <<pieces, blocks, chunksMax, chunks, phase>>

IsString(type) == type \in {"astr", "wstr"}

\* SIZE_OF_ARG
SizeOfArg(type) == IF type \in {"int64", "double"} THEN 8 ELSE PointerSize

\* Mutant: a string does not end the block of bytes before it.
GroupedAcross(types) ==
  LET strings == SelectSeq(types, IsString)
      bytes   == SelectSeq(types, LAMBDA t : ~IsString(t))
  IN (IF bytes = <<>> THEN <<>>
      ELSE <<[kind |-> "bytes", size |-> FoldLeft(LAMBDA n, t : n + SizeOfArg(t), 0, bytes)]>>)
     \o [i \in DOMAIN strings |-> [kind |-> strings[i], size |-> PointerSize]]

\* A string is a block of its own.  Anything else joins what stands before it.
Joined(bs, t) ==
  IF ~IsString(t) /\ bs # <<>> /\ Last(bs).kind = "bytes"
  THEN [bs EXCEPT ![Len(bs)].size = @ + SizeOfArg(t)]
  ELSE Append(bs, [kind |-> IF IsString(t) THEN t ELSE "bytes", size |-> SizeOfArg(t)])

\* The blocks: one for each string, and one for what stands between strings
Grouped(types) ==
  LET after[n \in 0 .. Len(types)] == IF n = 0 THEN <<>> ELSE Joined(after[n - 1], types[n])
  IN after[Len(types)]

MakeBlocks ==
  /\ phase = "parse" /\ iterator > Len(format)
  /\ blocks' = Grouped(args)
  /\ phase' = "trace"
  /\ UNCHANGED <<pieces, iterator, percent, prefix, args, argsMax, chunksMax, chunks>>

-----------------------------------------------------------------------------
(* Trace_Raw.                                                              *)

\* Inc_Chunks, when there are blocks and too few chunks for them and three headers
Room(count) == IF count > 0 /\ count + 4 >= chunksMax THEN count + 4 ELSE chunksMax

\* Where things of these sizes end that lie one behind the other
EndsOf(sizes) ==
  LET end[n \in 0 .. Len(sizes)] == IF n = 0 THEN 0 ELSE end[n - 1] + sizes[n] IN end

\* l_pVArgs goes on by the size of a block, or of the pointer to a string.
Chunked(bs) ==
  LET ends == EndsOf([n \in DOMAIN bs |-> bs[n].size])
  IN [n \in DOMAIN bs |-> [kind |-> bs[n].kind, size |-> bs[n].size, offset |-> ends[n - 1]]]

MakeChunks ==
  /\ phase = "trace"
  /\ chunksMax' = Room(Len(blocks))
  /\ chunks' = Chunked(blocks)
  /\ phase' = "sent"
  /\ UNCHANGED <<pieces, iterator, percent, prefix, args, argsMax, blocks>>

Traced == phase = "sent" /\ UNCHANGED formatVars

FormatNext == Parse \/ MakeBlocks \/ MakeChunks \/ Traced

FormatSpec == FormatInit /\ [][FormatNext]_formatVars

-----------------------------------------------------------------------------
(* Properties.                                                             *)

\* What the pieces of the format take from the stack, and where an argument begins
Taken == FlattenSeq([i \in DOMAIN pieces |-> pieces[i].takes])
Offset(i) == EndsOf([n \in DOMAIN Taken |-> SizeOfArg(Taken[n])])[i - 1]

\* The server can tell every argument: the description names those that the pieces
\* of the format take, one after the other, whatever prefixes and percent signs
\* precede them, and the chunks are these arguments as the caller left them: without
\* a gap, each string reached through its pointer.  Both arrays have a place for all
\* of it, the chunks with their three headers.
ArgumentsArrive ==
  /\ phase # "parse" => args = Taken
  /\ args # <<>> => Len(args) < argsMax
  /\ phase = "sent" =>
       /\ Len(chunks) + 3 <= chunksMax
       /\ EndsOf([n \in DOMAIN chunks |-> chunks[n].size])[Len(chunks)] = Offset(Len(Taken) + 1)
       /\ \A i \in DOMAIN Taken : \E c \in ToSet(chunks) :
            /\ c.kind = IF IsString(Taken[i]) THEN Taken[i] ELSE "bytes"
            /\ c.offset <= Offset(i) /\ Offset(i + 1) <= c.offset + c.size
            /\ IsString(Taken[i]) => c.offset = Offset(i) /\ c.size = PointerSize
=============================================================================
