----------------------------- MODULE StringIndex -----------------------------
(***************************************************************************)
(* StrIndex (pkg/core/strindex.go): strings and their numbers.  The list   *)
(* of strings is a sequence whose element k+1 has the number k; the map    *)
(* from strings back to numbers follows from it.  The file of the index    *)
(* has one string after another, each with a newline at its end.           *)
(*                                                                         *)
(* A string is the sequence of its lines, because that is all the file     *)
(* tells apart.  The empty string is never written.                        *)
(***************************************************************************)
EXTENDS Integers, SequencesExt

CONSTANTS
    IndexSpace,   \* how many numbers a uint16 has
    Lines         \* what a line of text may be

ASSUME IndexSpaceAssumption == IndexSpace \in Nat \ {0}

Strings == Seq(Lines)
EmptyString == << >>

(* NewStringIndex and Load, and the str_map of the reader: every line of   *)
(* the file is taken for a string.                                         *)
Load(lines) == <<EmptyString>> \o [k \in DOMAIN lines |-> <<lines[k]>>]

CanGet(index, n) == n < Len(index)
Get(index, n) == index[n + 1]

Place(index, s) == SelectLastInSeq(index, LAMBDA x : x = s)
Known(index, s) == Place(index, s) # 0

(* The number of a string, uint16(len(index) - 1) for a new one.           *)
Idx(index, s) ==
    IF Known(index, s) THEN (Place(index, s) - 1) % IndexSpace
    ELSE Len(index) % IndexSpace

WithString(index, s) == IF Known(index, s) THEN index ELSE Append(index, s)

(* Mutant: the string stays in the buffer of the writer.                   *)
AppendFile_Unflushed(index, file, s) == file

(* appendFile: the lines of a new string reach the file before Idx returns *)
AppendFile(index, file, s) == IF Known(index, s) THEN file ELSE file \o s
=============================================================================
