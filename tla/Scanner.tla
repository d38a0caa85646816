------------------------------ MODULE Scanner ------------------------------
(***************************************************************************)
(* The scanner of scan.c, which the parser calls for one token after the   *)
(* other.  A character is read from the file by fgetu8 of utf8.c, and one  *)
(* that does not belong to the token any more is put back.                 *)
(*                                                                         *)
(* A character stands for its class.  "nl" and "tab" are the characters    *)
(* \n and \t, "space" is every other white space, "letter" includes _ ,    *)
(* "cmp" is one of > < = and !, and "other" is any other character, also   *)
(* one that is not ASCII and the UTF8INVALID that fgetu8 makes of a        *)
(* malformed sequence of bytes.  A file that ends within a sequence of     *)
(* bytes ends before it.                                                   *)
(* What the file has is decided when it is read.  A step reads at most one *)
(* character.                                                              *)
(***************************************************************************)
EXTENDS Integers, Sequences, FiniteSets

CONSTANTS MaxToken,    \* 255 in the code: most characters of a string or of a symbol
          TextBound    \* longest file of a run

ASSUME ScannerAssumption == MaxToken \in Nat \ {0} /\ TextBound \in Nat

VARIABLES
    pb,       \* the characters that were put back
    eof,      \* feof(sc->in)
    x,        \* the last character
    state,    \* the loop of real_scan, "idle" when it has returned
    token, type,
    lino, columno, lastcol,
    text,     \* all characters fgetu8 has read from the file
    tokens    \* the tokens the parser has got

scan == <<pb, eof, x, state, token, type, lino, columno, lastcol, text, tokens>>
input == <<pb, eof, text>>
place == <<lino, columno, lastcol>>
output == <<token, type, tokens>>

White      == {"nl", "tab", "space"}
NumberChar == {"digit", "."}
WordChar   == {"letter", "digit"}
SymbolChar == {"cmp"}
Char       == White \cup NumberChar \cup WordChar \cup SymbolChar \cup {"/", "quote", "other"}
EOF        == "eof"

Token == [type : {"number", "string", "word", "symbol"}, token : Seq(Char)]

One(b) == IF b THEN 1 ELSE 0

(* The column after c when it was col.  For a tab, columno counts on to a  *)
(* multiple of 8, and at least by one.                                     *)
NextColumnStays(col, c) ==   \* mutant: at a multiple of 8 a tab counts for nothing
    CASE c = "nl"  -> 1
      [] c = "tab" -> CHOOSE n \in col .. col + 7 : n % 8 = 0
      [] OTHER     -> col + 1

NextColumn(col, c) ==
    CASE c = "nl"  -> 1
      [] c = "tab" -> CHOOSE n \in col + 1 .. col + 8 : n % 8 = 0
      [] OTHER     -> col + 1

(***************************************************************************)
(* Characters                                                              *)
(***************************************************************************)

(* fgetu8 gives c. *)
Get(c) ==
    \/ /\ pb # <<>> /\ c = Head(pb)
       /\ pb' = Tail(pb)
       /\ UNCHANGED <<eof, text>>
    \/ /\ pb = <<>> /\ c = EOF
       /\ eof' = TRUE
       /\ UNCHANGED <<pb, text>>
    \/ /\ pb = <<>> /\ ~eof /\ c \in Char
       /\ Len(text) < TextBound
       /\ text' = Append(text, c)
       /\ UNCHANGED <<pb, eof>>

(* scan_char *)
ScanChar ==
    \E c \in Char \cup {EOF} :
        /\ Get(c)
        /\ x' = c
        /\ lastcol' = columno
        /\ columno' = NextColumn(columno, c)
        /\ lino' = lino + One(c = "nl")

PutBackBroken ==   \* mutant: the line is not put back
    /\ pb' = IF eof THEN pb ELSE <<x>> \o pb
    /\ columno' = IF eof THEN columno ELSE lastcol
    /\ UNCHANGED <<eof, text, lino, lastcol>>

PutBackLate ==   \* mutant: the column is not put back
    /\ pb' = IF eof THEN pb ELSE <<x>> \o pb
    /\ lino' = IF eof THEN lino ELSE lino - One(x = "nl")
    /\ UNCHANGED <<eof, text, columno, lastcol>>

PutBackTwice ==   \* mutant: at the end of the file EOF is put back
    /\ pb' = <<x>> \o pb
    /\ lino' = IF eof THEN lino ELSE lino - One(x = "nl")
    /\ columno' = IF eof THEN columno ELSE lastcol
    /\ UNCHANGED <<eof, text, lastcol>>

(* scan_putback *)
PutBack ==
    /\ pb' = IF eof THEN pb ELSE <<x>> \o pb
    /\ lino' = IF eof THEN lino ELSE lino - One(x = "nl")
    /\ columno' = IF eof THEN columno ELSE lastcol
    /\ UNCHANGED <<eof, text, lastcol>>

(***************************************************************************)
(* real_scan                                                               *)
(***************************************************************************)
Init ==
    /\ pb = <<>> /\ eof = FALSE /\ text = <<>> /\ x = EOF
    /\ lino = 1 /\ columno = 1 /\ lastcol = 0
    /\ state = "idle" /\ token = <<>> /\ type = "none" /\ tokens = <<>>

Return(ty, tok) ==
    /\ state' = "idle"
    /\ type' = ty /\ token' = tok
    /\ tokens' = IF ty = EOF THEN tokens ELSE Append(tokens, [type |-> ty, token |-> tok])

Call ==
    /\ state = "idle"
    /\ IF eof THEN Return(EOF, <<>>) /\ UNCHANGED <<input, x, place>>
       ELSE /\ ScanChar
            /\ state' = "top" /\ token' = <<>>
            /\ UNCHANGED <<type, tokens>>

SkipWhite ==
    /\ state = "top" /\ x \in White /\ ~eof
    /\ ScanChar
    /\ UNCHANGED <<state, output>>

Slash ==
    /\ state = "top" /\ x = "/"
    /\ ScanChar
    /\ state' = "slash"
    /\ UNCHANGED output

AfterSlash ==
    /\ state = "slash"
    /\ IF x = "/" THEN state' = "comment" /\ UNCHANGED <<input, x, place, output>>
       ELSE /\ PutBack /\ x' = "/"
            /\ IF eof THEN Return(EOF, <<>>) ELSE Return("symbol", <<"/">>)

InComment == x # "nl" /\ ~eof

Comment ==
    /\ state = "comment"
    /\ IF InComment THEN ScanChar /\ UNCHANGED <<state, output>>
       ELSE state' = "top" /\ UNCHANGED <<input, x, place, output>>

(* The loop for a token that begins with x, "idle" if there is none. *)
LoopFor ==
    CASE x = "digit"       -> "number"
      [] x = "letter"      -> "word"
      [] x \in SymbolChar  -> "symbol"
      [] OTHER             -> "idle"

Begin ==
    /\ state = "top" /\ x \notin White \cup {"/", "quote"} /\ ~eof
    /\ IF LoopFor = "idle" THEN Return("symbol", <<x>>)
       ELSE state' = LoopFor /\ UNCHANGED output
    /\ UNCHANGED <<input, x, place>>

BeginString ==
    /\ state = "top" /\ x = "quote"
    /\ ScanChar
    /\ state' = "string"
    /\ UNCHANGED output

AtEndBroken ==   \* mutant: at the end of the file the loops for white space are tried again
    state = "top" /\ eof /\ UNCHANGED scan

AtEnd ==
    /\ state = "top" /\ eof
    /\ Return(EOF, <<>>)
    /\ UNCHANGED <<input, x, place>>

BelongsBroken ==   \* mutant: a string has room for one more
    /\ ~eof
    /\ CASE state = "number" -> x \in NumberChar
         [] state = "word"   -> x \in WordChar
         [] state = "string" -> x # "quote" /\ Len(token) <= MaxToken
         [] state = "symbol" -> x \in SymbolChar /\ Len(token) < MaxToken

(* The conditions of the loops. *)
Belongs ==
    /\ ~eof
    /\ CASE state = "number" -> x \in NumberChar
         [] state = "word"   -> x \in WordChar
         [] state = "string" -> x # "quote" /\ Len(token) < MaxToken
         [] state = "symbol" -> x \in SymbolChar /\ Len(token) < MaxToken

Loop == {"number", "word", "string", "symbol"}

More ==
    /\ state \in Loop /\ Belongs
    /\ token' = Append(token, x)
    /\ ScanChar
    /\ UNCHANGED <<state, type, tokens>>

EndBroken ==   \* mutant: what follows a number or a word is not put back
    /\ state \in Loop /\ ~Belongs
    /\ IF state = "symbol" THEN PutBack ELSE UNCHANGED <<input, place>>
    /\ UNCHANGED x
    /\ Return(state, token)

End ==
    /\ state \in Loop /\ ~Belongs
    /\ IF state = "string" THEN UNCHANGED <<input, place>> ELSE PutBack
    /\ UNCHANGED x
    /\ Return(state, token)

Next == \/ Call \/ SkipWhite \/ Slash \/ AfterSlash \/ Comment
        \/ Begin \/ BeginString \/ AtEnd \/ More \/ End

Spec == Init /\ [][Next]_scan

(* real_scan runs on once it is called; the parser need not call it. *)
Runs     == state # "idle" /\ Next
Fairness == WF_scan(Runs)
FairSpec == Spec /\ Fairness

(***************************************************************************)
(* Properties                                                              *)
(***************************************************************************)
TypeOK ==
    /\ pb \in Seq(Char) /\ Len(pb) <= 1
    /\ eof \in BOOLEAN /\ (eof => pb = <<>>)
    /\ text \in Seq(Char) /\ x \in Char \cup {EOF}
    /\ state \in Loop \cup {"idle", "top", "slash", "comment"}
    /\ token \in Seq(Char)
    /\ state \notin {"idle", "number", "word"} => Len(token) <= MaxToken
    /\ type \in Loop \cup {"none", EOF}
    /\ tokens \in Seq(Token)
    /\ lino \in Nat /\ columno \in Nat /\ lastcol \in Nat

(* The characters that belong to the tokens up to now, and what is between.*)
Consumed == SubSeq(text, 1, Len(text) - Len(pb))

(* The line of an error report is that of the text read so far.            *)
Lines(s) == {i \in DOMAIN s : s[i] = "nl"}
LineIsTrue == lino = 1 + Cardinality(Lines(Consumed))

(* And so is the column, however often characters were put back; only the  *)
(* end of the file counts for one more.  A line begins with column 1, the  *)
(* tab stops are the multiples of 8, and a tab takes one place at least.   *)
ColumnAfter[s \in Seq(Char)] ==
    IF s = <<>> \/ s[Len(s)] = "nl" THEN 1
    ELSE LET col == ColumnAfter[SubSeq(s, 1, Len(s) - 1)]
         IN  IF s[Len(s)] = "tab" THEN 8 * (col \div 8 + 1) ELSE col + 1
ColumnIsTrue == ~eof => columno = ColumnAfter[Consumed]

(* An error is reported at its true place, line and column.                *)
PlaceIsTrue == LineIsTrue /\ ColumnIsTrue

(* How many of the first characters of s are in C. *)
Prefix(s, C) ==
    CHOOSE n \in 0 .. Len(s) : /\ \A i \in 1 .. n : s[i] \in C
                               /\ n < Len(s) => s[n + 1] \notin C
From(s, n) == SubSeq(s, n, Len(s))

(* The tokens of a text: white space and comments are skipped, and a token *)
(* is as long as it can be.                                                *)
Classes == [number |-> NumberChar, word |-> WordChar, symbol |-> SymbolChar]
FirstOf == [number |-> {"digit"}, word |-> {"letter"}, symbol |-> SymbolChar]
Kinds(c) == {k \in DOMAIN Classes : c \in FirstOf[k]}
Kind(c)  == CHOOSE k \in Kinds(c) : TRUE

Comments(s) == Len(s) > 1 /\ s[1] = "/" /\ s[2] = "/"
Quoted(s)   == Prefix(Tail(s), Char \ {"quote"})

(* How many characters the first token of s takes, or what is skipped. *)
Taken(s) ==
    CASE Comments(s)          -> Prefix(s, Char \ {"nl"})
      [] s[1] = "quote"       -> Quoted(s) + 2
      [] Kinds(s[1]) # {}     -> Prefix(s, Classes[Kind(s[1])])
      [] OTHER                -> 1

FirstToken(s) ==
    CASE s[1] \in White \/ Comments(s) -> <<>>
      [] s[1] = "quote"   -> <<[type |-> "string", token |-> SubSeq(s, 2, Quoted(s) + 1)]>>
      [] Kinds(s[1]) # {} -> <<[type |-> Kind(s[1]), token |-> SubSeq(s, 1, Taken(s))]>>
      [] OTHER            -> <<[type |-> "symbol", token |-> <<s[1]>>]>>

TokensOf[s \in Seq(Char)] ==
    IF s = <<>> THEN <<>> ELSE FirstToken(s) \o TokensOf[From(s, Taken(s) + 1)]

(* The two cases in which the scanner drops a character: a string that is  *)
(* too long, and a / that is the last character of the file.               *)
Fits(ts) ==
    \A i \in DOMAIN ts : ts[i].type \in {"string", "symbol"} => Len(ts[i].token) <= MaxToken
EndsInSlash(ts) ==
    eof /\ ts # <<>> /\ ts[Len(ts)].type = "symbol" /\ text[Len(text)] = "/"

(* The parser gets the tokens of the text: no character is lost or read    *)
(* twice between two tokens.                                               *)
TokensAreTheText ==
    state = "idle" => LET ts == TokensOf[Consumed] IN
                      Fits(ts) /\ ~EndsInSlash(ts) => tokens = ts

(* Every call of scan returns, also at the end of the file in a comment or *)
(* a string that does not end.                                             *)
ScanReturns == state # "idle" ~> state = "idle"
============================================================================
