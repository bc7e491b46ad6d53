------------------------------ MODULE LogFormat ------------------------------
(***************************************************************************)
(* log_functions.c: log_vsnprintf.  It cuts the format into pieces, each a *)
(* text with the conversion behind it.  A conversion of printf's is left   *)
(* to vsnprintf, which works on a copy of the argument list; the function  *)
(* then steps its own list over what vsnprintf must have used.  The        *)
(* project's own conversions (errors and their families) it does itself.   *)
(*                                                                         *)
(* A format is a sequence of characters, of which these classes matter:    *)
(*   "text"   a character outside conversions                              *)
(*   "flag"   # - 0 space + I '       "digit"  1 to 9, and $               *)
(*   "d"      d i u o x X             "f"      e E f F g G a A             *)
(*   "c"      c C         "s"  s S    "z"      z Z t j                     *)
(* every other character stands for itself, and so do the letters of the   *)
(* own conversions.  The machine is a 64-bit one.                          *)
(***************************************************************************)
EXTENDS Integers, Sequences, FiniteSets, SequencesExt

CONSTANTS Formats,    \* the formats, as sequences of conversions
          Tails,      \* the texts behind the last conversion
          Registered  \* the error families in tab_family

(* A conversion is written in parts, each a sequence of characters.        *)
PartNames == {"text", "flags", "width", "precision", "length", "letter"}

ASSUME ParametersAssumption ==
    /\ \A format \in Formats : \A i \in 1..Len(format) :
          PartNames \subseteq DOMAIN format[i]
    /\ Registered \subseteq Nat

ERR_SYS == 0
ERR_POSIX == 1

OneError == {"b", "B", "h", "H"}
TwoErrors == {"y", "Y"}
ChangesFamily == {"J", "K"}
ByNumber == {"r", "R", "v", "V", "w", "W"}
Extended == OneError \cup TwoErrors \cup ChangesFamily \cup ByNumber

VARIABLES
    pc,
    format,       \* the format the caller passes
    conversions,  \* history: the conversions it was written from
    arguments,    \* what is left of the argument list
    iterformat,   \* where the scan of the format stands
    ptrsub,       \* where the piece being scanned begins
    typelg,       \* its length modifier
    precision_in_valist,
    err_family, ctx_family,
    out           \* the pieces written, in order

families == <<err_family, ctx_family>>
vars == <<pc, format, conversions, arguments, iterformat, ptrsub, typelg,
          precision_in_valist, families, out>>

-----------------------------------------------------------------------------
(* The caller: a format, and the arguments that go with it                 *)

Spelling(cv) == cv.text \o <<"%">> \o cv.flags \o cv.width \o cv.precision
                   \o cv.length \o <<cv.letter>>

\* What printf's rules, and for its own conversions the function's, ask for.
StarArgs(cv) == SelectSeq(cv.width \o cv.precision, LAMBDA ch : ch = "*")

ErrorArgs == <<"long", "ptr", "ptr">>

LetterArgs(cv) ==
    CASE cv.letter = "d" -> IF cv.length \in {<<"l">>, <<"z">>} THEN <<"long">>
                            ELSE IF cv.length \in {<<"l", "l">>, <<"L">>,
                                                   <<"q">>} THEN <<"llong">>
                            ELSE <<"int">>
      [] cv.letter = "f" -> IF cv.length = <<"L">> THEN <<"ldouble">>
                            ELSE <<"double">>
      [] cv.letter = "c" -> <<"int">>
      [] cv.letter \in {"s", "p", "n"} -> <<"ptr">>
      [] cv.letter \in {"%", "m"} -> << >>
      [] cv.letter \in OneError -> ErrorArgs
      [] cv.letter \in TwoErrors -> ErrorArgs \o ErrorArgs
      [] cv.letter \in ChangesFamily \cup ByNumber -> <<"int">>

\* The arguments of a conversion: their types, and the value of the last one
\* where it chooses a family.
ArgsOf(cv) ==
    LET types == [i \in 1..Len(StarArgs(cv)) |-> "int"] \o LetterArgs(cv)
    IN  [i \in 1..Len(types) |->
            [type |-> types[i],
             value |-> IF cv.letter \in ChangesFamily THEN cv.family ELSE 0]]

\* The format and the arguments from the n-th conversion on.
FormatFrom(cvs, n) ==
    FlattenSeq([i \in 1..(Len(cvs) - n + 1) |-> Spelling(cvs[n + i - 1])])
ArgsFrom(cvs, n) ==
    FlattenSeq([i \in 1..(Len(cvs) - n + 1) |-> ArgsOf(cvs[n + i - 1])])

Init ==
    /\ conversions \in Formats
    /\ \E tail \in Tails : format = FormatFrom(conversions, 1) \o tail
    /\ arguments = ArgsFrom(conversions, 1)
    /\ iterformat = 1
    /\ ptrsub = 1
    /\ typelg = "NO_LONG"
    /\ precision_in_valist = 0
    /\ err_family = ERR_POSIX
    /\ ctx_family = ERR_SYS
    /\ out = << >>
    /\ pc = "text"

-----------------------------------------------------------------------------
(* The scan of one conversion                                              *)

At(i) == IF i <= Len(format) THEN format[i] ELSE "NUL"

\* ONE_STEP, from i, for as long as the character is one of chars.
Skip(i, chars) ==
    CHOOSE j \in i..(Len(format) + 1) :
        At(j) \notin chars /\ \A k \in i..(j - 1) : At(k) \in chars

Scan(from, to) ==
    /\ pc = from
    /\ pc' = to
    /\ UNCHANGED <<format, conversions, arguments, families, out>>

\* The piece begins here; its text ends at a '%'.
Percent ==
    CHOOSE j \in iterformat..(Len(format) + 1) :
        At(j) \in {"%", "NUL"} /\ \A k \in iterformat..(j - 1) : At(k) # "%"

ScanText ==
    /\ At(Percent) = "%"
    /\ Scan("text", "width")
    /\ ptrsub' = iterformat
    /\ typelg' = "NO_LONG"
    /\ iterformat' = Percent + 1
    /\ UNCHANGED precision_in_valist

\* Flags, digits, and a '*' with digits behind it.
ScanWidth ==
    /\ Scan("width", "precision")
    /\ LET i == Skip(Skip(iterformat, {"flag"}), {"digit"})
       IN  IF At(i) = "*"
           THEN /\ iterformat' = Skip(i + 1, {"digit"})
                /\ precision_in_valist' = precision_in_valist + 1
           ELSE /\ iterformat' = i
                /\ UNCHANGED precision_in_valist
    /\ UNCHANGED <<ptrsub, typelg>>

\* Mutant of ScanPrecision: an argument for '.*' is not counted.
ScanPrecisionForgetsStar ==
    /\ Scan("precision", "length")
    /\ iterformat' = IF At(iterformat) = "."
                     THEN Skip(iterformat + 2, {"digit"}) ELSE iterformat
    /\ UNCHANGED <<ptrsub, typelg, precision_in_valist>>

\* A '.' with a '*' or digits.  If it is neither, the next character is taken
\* for the precision, whatever it is.
ScanPrecision ==
    /\ Scan("precision", "length")
    /\ LET behind == At(iterformat + 1)
       IN  IF At(iterformat) # "."
           THEN UNCHANGED <<iterformat, precision_in_valist>>
           ELSE /\ iterformat' = IF behind \in {"*", "digit"}
                                 THEN Skip(iterformat + 2, {"digit"})
                                 ELSE iterformat + 2
                /\ precision_in_valist' =
                        precision_in_valist + (IF behind = "*" THEN 1 ELSE 0)
    /\ UNCHANGED <<ptrsub, typelg>>

\* typelg, and the number of characters it is written with.
LengthModifier ==
    LET c == At(iterformat)
        next == At(iterformat + 1)
    IN  IF c = "h" /\ next = "d" THEN <<"SHORT_LG", 1>>
        ELSE IF c = "h" /\ next = "h" THEN <<"NO_LONG", 2>>
        ELSE IF c = "l" /\ next = "l" THEN <<"LONG_LONG_LG", 2>>
        ELSE IF c \in {"L", "q"} THEN <<"LONG_LONG_LG", 1>>
        ELSE IF c \in {"l", "z"} THEN <<"LONG_LG", 1>>
        ELSE <<"NO_LONG", 0>>

ScanLength ==
    /\ Scan("length", "letter")
    /\ typelg' = LengthModifier[1]
    /\ iterformat' = iterformat + LengthModifier[2]
    /\ UNCHANGED <<ptrsub, precision_in_valist>>

Letter == At(iterformat)

Type ==
    CASE Letter = "d" -> "INT_TYPE"
      [] Letter = "f" -> "DOUBLE_TYPE"
      [] Letter = "c" -> "CHAR_TYPE"
      [] Letter = "s" -> "STRING_TYPE"
      [] Letter = "p" -> "POINTEUR_TYPE"
      [] Letter \in Extended -> "EXTENDED_TYPE"
      [] OTHER -> "NO_TYPE"

subformat == SubSeq(format, ptrsub, iterformat)

-----------------------------------------------------------------------------
(* The argument list                                                       *)

\* va_arg for each of the types.  If the next argument is of another type,
\* or there is none, what the list holds from then on is undefined.
Take(args, types) ==
    IF Len(types) <= Len(args)
       /\ \A i \in 1..Len(types) : args[i].type = types[i]
    THEN SubSeq(args, Len(types) + 1, Len(args))
    ELSE <<[type |-> "undefined", value |-> 0]>>

\* What the two switches take for a type with a length; for a pair that is
\* not in the table they take nothing.
VaArgTable ==
    {<<"NO_LONG", "INT_TYPE", "int">>, <<"NO_LONG", "DOUBLE_TYPE", "double">>,
     <<"NO_LONG", "CHAR_TYPE", "int">>, <<"NO_LONG", "POINTEUR_TYPE", "ptr">>,
     <<"NO_LONG", "STRING_TYPE", "ptr">>, <<"LONG_LG", "INT_TYPE", "long">>,
     <<"LONG_LG", "DOUBLE_TYPE", "ldouble">>,
     <<"LONG_LONG_LG", "INT_TYPE", "llong">>,
     <<"LONG_LONG_LG", "DOUBLE_TYPE", "ldouble">>}

VaArgs(type, lg) ==
    IF lg = "SHORT_LG" THEN <<"int">>
    ELSE SetToSeq({row[3] : row \in {r \in VaArgTable :
                                        r[1] = lg /\ r[2] = type}})

-----------------------------------------------------------------------------
(* The loop                                                                *)

Piece(shown, by, args) == [shown |-> shown, by |-> by, args |-> args]

\* The letter is behind the scan, and the loop goes on unless that was the
\* end of the format.
NextPiece ==
    /\ pc = "letter"
    /\ iterformat' = iterformat + 1
    /\ pc' = IF At(iterformat + 1) = "NUL" THEN "done" ELSE "text"
    /\ UNCHANGED <<format, conversions, ptrsub, typelg>>

\* vsnprintf writes the piece, from a copy of the argument list as it stands;
\* then the list is moved past what it used.
ConvertPlain ==
    /\ NextPiece
    /\ Type # "EXTENDED_TYPE"
    /\ out' = Append(out, Piece(subformat, <<"vsnprintf">>, arguments))
    /\ LET stars == [i \in 1..precision_in_valist |-> "int"]
       IN  arguments' = Take(Take(arguments, stars), VaArgs(Type, typelg))
    /\ precision_in_valist' = 0
    /\ UNCHANGED families

\* The family in whose table a letter's number is looked up.
FamilyOf(letter, err, ctx) ==
    IF letter \in {"r", "R"} THEN err
    ELSE IF letter \in {"v", "V"} THEN ctx
    ELSE ERR_POSIX

\* The text before a conversion of two characters.
LeadingText == SubSeq(subformat, 1, Len(subformat) - 2)

\* A status, a context or both, passed as number, label and message.
ConvertErrors ==
    /\ NextPiece
    /\ Letter \in OneError \cup TwoErrors
    /\ out' = Append(out, Piece(LeadingText, <<Letter>>, arguments))
    /\ arguments' = Take(arguments, LetterArgs([letter |-> Letter]))
    /\ UNCHANGED <<precision_in_valist, families>>

\* Mutant of ChangeFamily: %K sets the family of errors, as %J does.
ChangeFamilyMixesUp ==
    /\ NextPiece
    /\ Letter \in ChangesFamily
    /\ out' = Append(out, Piece(LeadingText, <<Letter>>, arguments))
    /\ err_family' = Head(arguments).value
    /\ arguments' = Take(arguments, <<"int">>)
    /\ UNCHANGED <<precision_in_valist, ctx_family>>

\* The family of the errors or of the contexts to come.
ChangeFamily ==
    /\ NextPiece
    /\ Letter \in ChangesFamily
    /\ out' = Append(out, Piece(LeadingText, <<Letter>>, arguments))
    /\ IF Letter = "J" THEN /\ err_family' = Head(arguments).value
                            /\ UNCHANGED ctx_family
                       ELSE /\ ctx_family' = Head(arguments).value
                            /\ UNCHANGED err_family
    /\ arguments' = Take(arguments, <<"int">>)
    /\ UNCHANGED precision_in_valist

\* An error by its number.  If its family is not registered, "?" is written
\* and the argument stays in the list.
ConvertNumber ==
    /\ NextPiece
    /\ Letter \in ByNumber
    /\ LET family == FamilyOf(Letter, err_family, ctx_family)
       IN  IF family \in Registered
           THEN /\ out' = Append(out, Piece(LeadingText, <<Letter, family>>,
                                            arguments))
                /\ arguments' = Take(arguments, <<"int">>)
           ELSE /\ out' = Append(out, Piece(LeadingText, <<"?">>, arguments))
                /\ UNCHANGED arguments
    /\ UNCHANGED <<precision_in_valist, families>>

\* No conversion is left: what remains of the format is appended.
CopyTail ==
    /\ pc = "text"
    /\ At(Percent) = "NUL"
    /\ pc' = "done"
    /\ out' = Append(out, Piece(SubSeq(format, iterformat, Len(format)),
                                <<"text">>, << >>))
    /\ iterformat' = Percent
    /\ ptrsub' = iterformat
    /\ typelg' = "NO_LONG"
    /\ UNCHANGED <<format, conversions, arguments, precision_in_valist,
                   families>>

Next ==
    \/ ScanText \/ ScanWidth \/ ScanPrecision \/ ScanLength
    \/ ConvertPlain \/ ConvertErrors \/ ChangeFamily \/ ConvertNumber
    \/ CopyTail

Spec == Init /\ [][Next]_vars

-----------------------------------------------------------------------------
(* Properties                                                              *)

\* The family in effect at conversion n: set by the last %J or %K before it.
FamilyAt(cvs, n, letter, default) ==
    LET setters == {i \in 1..(n - 1) : cvs[i].letter = letter}
    IN  IF setters = {} THEN default
        ELSE cvs[CHOOSE i \in setters : \A j \in setters : j <= i].family

FamilyFor(cvs, n) ==
    FamilyOf(cvs[n].letter, FamilyAt(cvs, n, "J", ERR_POSIX),
             FamilyAt(cvs, n, "K", ERR_SYS))

\* The conversions of printf's, and of its own, that the function does not
\* step over as their arguments were passed: %lf is a double, not a long
\* double, %ls, %lc and %n take an argument, a '.' alone is a precision of
\* none, and an error number is there whatever its family is.
Misread(cvs, n) ==
    LET cv == cvs[n]
    IN  \/ cv.length = <<"l">> /\ cv.letter \in {"f", "s", "c"}
        \/ cv.letter = "n"
        \/ cv.precision = <<".">>
        \/ cv.letter \in ByNumber /\ FamilyFor(cvs, n) \notin Registered

\* The argument list stays in step with the format exactly as long as no
\* conversion is misread: each time round the loop, n conversions have been
\* written, the scan stands at the start of the next, and the list at that
\* conversion's first argument.  Once one was misread, every later one prints
\* another's argument, or one of another type.
ArgumentsInStep ==
    pc \in {"text", "done"} =>
        LET n == Len(SelectSeq(out, LAMBDA piece : piece.by # <<"text">>))
            rest == FormatFrom(conversions, n + 1)
        IN  (\A i \in 1..n : i <= Len(conversions)
                              /\ ~Misread(conversions, i)) <=>
            /\ n <= Len(conversions)
            /\ arguments = ArgsFrom(conversions, n + 1)
            /\ Len(out) = n =>
                  \E tail \in Tails :
                      SubSeq(format, iterformat, Len(format)) = rest \o tail
            /\ iterformat <= Len(format) + 1

\* What conversion n must write.
Expected(cvs, n) ==
    LET cv == cvs[n]
    IN  IF cv.letter \notin Extended
        THEN Piece(Spelling(cv), <<"vsnprintf">>, ArgsFrom(cvs, n))
        ELSE Piece(cv.text, IF cv.letter \in ByNumber
                            THEN <<cv.letter, FamilyFor(cvs, n)>>
                            ELSE <<cv.letter>>, ArgsFrom(cvs, n))

\* Unless a conversion is misread, everything the caller asked for is
\* written, in order and once: each conversion from its own arguments, error
\* numbers looked up in the family the last %J (errors) or %K (contexts)
\* chose, and the text that follows.
WritesWhatIsAsked ==
    pc = "done" /\ (\A n \in 1..Len(conversions) : ~Misread(conversions, n)) =>
        LET pieces == [n \in 1..Len(conversions) |-> Expected(conversions, n)]
            tail == SubSeq(format, Len(FormatFrom(conversions, 1)) + 1,
                           Len(format))
        IN  out = IF tail = << >> /\ conversions # << >> THEN pieces
                  ELSE Append(pieces, Piece(tail, <<"text">>, << >>))
=============================================================================
