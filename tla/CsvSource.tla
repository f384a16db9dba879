------------------------------ MODULE CsvSource ------------------------------
(***************************************************************************)
(* The file connector (sources/csv_source.py), called by the extractors of *)
(* the runs that one worker process executes in its threads.  What is      *)
(* shared is the csv module's field size limit, one per process: the check *)
(* of the row lengths raises it tenfold for its own duration and puts back *)
(* the value it had read.                                                  *)
(*                                                                         *)
(* A file is the few facts about it that the connector can act on.  Of its *)
(* text there are two parts: the leading sample, and the rest.             *)
(***************************************************************************)
EXTENDS Integers, Sequences, FiniteSetsExt

CONSTANTS
  Loader,        \* the extractors, each with one file
  File,          \* the files they may be given
  MaxHeaderScan  \* _MAX_HEADER_SCAN_ROWS

\* A field of class n + 1 is too long for a limit raised n times.
FieldClass == 0..4

DelimitedFile ==
  [type : {"csv"},
   text : {"utf8", "legacy", "garbled"}, \* what its bytes can be decoded as
   sep : {",", ";"},
   sniffed : BOOLEAN,                    \* csv.Sniffer finds the delimiter
   large : BOOLEAN,                      \* over _LARGE_FILE_ROW_THRESHOLD lines
   flaw : {"none", "short", "extra", "quote"}, \* of its malformed row, if any
   flawAt : {"sample", "rest"},
   field : FieldClass,                   \* its longest field
   fieldAt : {"sample", "rest"},
   decimals : {"none", "some", "all"}]   \* values of a column with a decimal comma
\* A row of a sheet fills only some columns, or all with text, or all but not with text.
Workbook ==
  [type : {"xlsx"}, sheets : {1, 2}, named : BOOLEAN,
   rows : Seq({"partial", "text", "mixed"}), header : Nat]
\* Records, some with records in them; an array of other values; an object of columns,
\* be they arrays or objects; what pandas refuses, and what has no rows.
Json == [type : {"json"},
         shape : {"records", "nested", "values", "columns", "scalars", "empty"}]

ASSUME CsvSourceAssumption ==
  /\ \A f \in File : f \in DelimitedFile \/ f \in Workbook \/ f \in Json
  /\ MaxHeaderScan \in Nat

VARIABLES
  csAt,     \* where each load is
  csFile,   \* the file it was given
  csLimit,  \* csv.field_size_limit(): how often it has been raised
  csSaved,  \* original_field_size_limit, as each load read it
  csEnd,    \* the table each load returned, or the reason of its ValueError
  csShared  \* history: loads that checked while another one did

csVars == <<csAt, csFile, csLimit, csSaved, csEnd, csShared>>

Tables == {"as written", "numbers", "one column", "keyed", "shifted", "wrong header"}
Errors == {"undecodable", "malformed", "too large", "parser", "sheets", "no header", "no records"}

CSInit ==
  /\ csAt = [l \in Loader |-> "new"] /\ csFile = [l \in Loader |-> [type |-> "none"]]
  /\ csLimit = 0 /\ csSaved = [l \in Loader |-> 0]
  /\ csEnd = [l \in Loader |-> "none"]
  /\ csShared = {}

End(l, end) ==
  /\ csEnd' = [csEnd EXCEPT ![l] = end]
  /\ csAt' = [csAt EXCEPT ![l] = "ended"]

-----------------------------------------------------------------------------
(* Workbooks and JSON: no shared state, one step                           *)

\* _detect_header_row: the first row that fills every column with text; 0 if none.
DetectHeaderRow(rows) ==
  LET S == {i \in 1..Len(rows) : i <= MaxHeaderScan /\ rows[i] = "text"}
  IN IF S = {} THEN 0 ELSE Min(S)

LoadExcel(f) ==
  IF f.sheets > 1 /\ ~f.named THEN "sheets"
  ELSE CASE DetectHeaderRow(f.rows) = 0 -> "no header"
         [] DetectHeaderRow(f.rows) = f.header -> "as written"
         [] OTHER -> "wrong header"

\* pandas.read_json makes a table of an object too, with its keys as the columns.
LoadJson(f) ==
  CASE f.shape \in {"records", "nested"} -> "as written"
    [] f.shape = "values" -> "one column"
    [] f.shape = "columns" -> "keyed"
    [] OTHER -> "no records"

LoadFile(l, f) ==
  /\ csAt[l] = "new"
  /\ csFile' = [csFile EXCEPT ![l] = f]
  /\ CASE f.type = "xlsx" -> End(l, LoadExcel(f))
       [] f.type = "json" -> End(l, LoadJson(f))
       [] f.type = "csv" /\ f.text = "garbled" -> End(l, "undecodable")
       [] OTHER -> csAt' = [csAt EXCEPT ![l] = "read"] /\ UNCHANGED csEnd
  /\ UNCHANGED <<csLimit, csSaved, csShared>>

-----------------------------------------------------------------------------
(* _validate_row_lengths: two calls set the limit, and one puts it back    *)

Checking == {l \in Loader : csAt[l] \in {"raise", "sample", "rest", "restore"}}

\* csv.field_size_limit() without an argument.
ReadLimit(l) ==
  /\ csAt[l] = "read"
  /\ csSaved' = [csSaved EXCEPT ![l] = csLimit]
  /\ csAt' = [csAt EXCEPT ![l] = "raise"]
  /\ csShared' = IF Checking = {} THEN csShared ELSE csShared \cup Checking \cup {l}
  /\ UNCHANGED <<csFile, csLimit, csEnd>>

RaiseLimit(l) ==
  /\ csAt[l] = "raise"
  /\ csLimit' = csSaved[l] + 1
  /\ csAt' = [csAt EXCEPT ![l] = "sample"]
  /\ UNCHANGED <<csFile, csSaved, csEnd, csShared>>

\* The delimiter in use: the one sniffed, else a comma.
Delimiter(f) == IF f.sniffed THEN f.sep ELSE ","
\* Read with the wrong delimiter, a decimal comma splits its row.
Uneven(f, part) ==
  \/ f.flaw # "none" /\ f.flawAt = part
  \/ Delimiter(f) # f.sep /\ f.decimals # "none"

\* csv.reader compares every field with the limit as it is by then.
Walk(l, part, next) ==
  LET f == csFile[l] IN
  /\ csAt[l] = part
  /\ \/ /\ f.field > csLimit /\ f.fieldAt = part
        /\ csEnd' = [csEnd EXCEPT ![l] = "too large"] /\ csAt' = [csAt EXCEPT ![l] = "restore"]
     \/ /\ Uneven(f, part)
        /\ csEnd' = [csEnd EXCEPT ![l] = "malformed"] /\ csAt' = [csAt EXCEPT ![l] = "restore"]
     \/ /\ ~(f.field > csLimit /\ f.fieldAt = part) /\ ~Uneven(f, part)
        /\ csAt' = [csAt EXCEPT ![l] = next] /\ UNCHANGED csEnd
  /\ UNCHANGED <<csFile, csLimit, csSaved, csShared>>

\* A mistake: only the sample of any file is walked.
WalkSampleOnly(l) == Walk(l, "sample", "restore")

\* Of a large file only the sample is walked.
WalkSample(l) == Walk(l, "sample", IF csFile[l].large THEN "restore" ELSE "rest")

WalkRest(l) == Walk(l, "rest", "restore")

\* The finally clause; an exception goes on, else pandas parses the text.
RestoreLimit(l) ==
  /\ csAt[l] = "restore"
  /\ csLimit' = csSaved[l]
  /\ csAt' = [csAt EXCEPT ![l] = IF csEnd[l] = "none" THEN "parse" ELSE "ended"]
  /\ UNCHANGED <<csFile, csSaved, csEnd, csShared>>

\* pandas.read_csv refuses a row with more fields than the header, fills up a
\* short one, and shifts the fields of one with a stray quote.  Decimal commas
\* become numbers in a file with semicolons, if the whole column has them.
Parse(l) ==
  LET f == csFile[l] IN
  /\ csAt[l] = "parse"
  /\ End(l, CASE f.flaw = "extra" -> "parser"
              [] f.flaw \in {"short", "quote"} -> "shifted"
              [] Delimiter(f) # f.sep -> "one column"
              [] Delimiter(f) = ";" /\ f.decimals = "all" -> "numbers"
              [] OTHER -> "as written")
  /\ UNCHANGED <<csFile, csLimit, csSaved, csShared>>

CSNext ==
  \E l \in Loader :
    \/ \E f \in File : LoadFile(l, f)
    \/ ReadLimit(l) \/ RaiseLimit(l) \/ WalkSample(l) \/ WalkRest(l)
    \/ RestoreLimit(l) \/ Parse(l)

CSSpec == CSInit /\ [][CSNext]_csVars

-----------------------------------------------------------------------------
CSTypeOK ==
  /\ csAt \in [Loader -> {"new", "read", "raise", "sample", "rest", "restore", "parse", "ended"}]
  /\ \A l \in Loader : csAt[l] = "new" \/ csFile[l] \in File
  /\ csLimit \in Nat /\ csSaved \in [Loader -> Nat]
  /\ csEnd \in [Loader -> Tables \cup Errors \cup {"none"}]
  /\ csShared \subseteq Loader

\* The first row of a sheet that is all text is its header.
HeaderFirst(f) ==
  /\ f.header \in 1..Len(f.rows) /\ f.rows[f.header] = "text"
  /\ \A i \in 1..(f.header - 1) : f.rows[i] # "text"

\* What a load hands on or refuses is what the file is like: a table with
\* shifted rows comes only of a flaw past the sample of a large file, one with the
\* wrong names only of a sheet whose header is not its first row of text, and a field
\* is refused as too large only if it is longer than ten times the default, or if
\* another load was checking its rows at the same time.
LoadsWhatIsThere ==
  \A l \in Loader :
    LET f == csFile[l] IN
    /\ csEnd[l] = "shifted" => f.large /\ f.flawAt = "rest"
    /\ csEnd[l] = "wrong header" => ~HeaderFirst(f)
    /\ csEnd[l] = "too large" => f.field > 1 \/ l \in csShared

\* _validate_row_lengths: the limit is "restored in `finally` so it doesn't leak
\* into unrelated `csv` usage elsewhere in the process".  Two loads at a time break this.
LimitIsRestored == Checking = {} => csLimit = 0
=============================================================================
