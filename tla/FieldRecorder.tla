--------------------------- MODULE FieldRecorder ---------------------------
(***************************************************************************)
(* The recorder of fields of the colibry library, as a csv file            *)
(* (colibry/src/FieldRecorderCsv.cpp) or as an hdf5 file                   *)
(* (colibry/src/FieldRecorderHDF5.cpp). Its port holds the fields that are *)
(* connected to it; init makes the columns of the file for those that are  *)
(* connected then, and each step adds a row.                               *)
(*                                                                         *)
(* The values in the cells, and the names of the columns, are left out:    *)
(* the cells of an array count as one.                                     *)
(***************************************************************************)
EXTENDS Integers, Sequences

CONSTANTS
  Field,     \* the fields that may be connected to the port
  Shape,     \* what each of them is
  Linked,    \* lists of fields that are connected before init
  Formats    \* the recorders that simulations are built with

ASSUME FieldRecorderAssumption ==
  /\ Shape \in [Field -> {"number", "text", "array", "structure"}]
  /\ Linked \subseteq Seq(Field)
  /\ Formats \subseteq {"csv", "hdf5"}

VARIABLES
  format,     \* the class of the recorder
  recFields,  \* FieldHolder::_recFields
  file,       \* the file: is it open, its columns, the rows written, and how
              \* many of them have left the process
  relinked    \* history: the port has changed since init

recorderVars == <<format, recFields, file, relinked>>

NoFile == [open |-> FALSE, header |-> <<>>, rows |-> <<>>, saved |-> 0]

\* The constructor and what is connected while the simulation is assembled.
RecorderInit ==
  /\ format \in Formats /\ recFields \in Linked
  /\ file = NoFile
  /\ relinked = FALSE

\* A simulation without a recorder.
RecorderAbsent ==
  format = "none" /\ recFields = <<>> /\ file = NoFile /\ relinked = FALSE

-----------------------------------------------------------------------------
(***************************************************************************)
(* The port.                                                               *)
(***************************************************************************)
FieldHolderConnect(f) ==
  /\ recFields' = Append(recFields, f)
  /\ relinked' = TRUE
  /\ UNCHANGED <<format, file>>

\* Every occurrence of the field is removed.
FieldHolderDisconnect(f) ==
  /\ recFields' = SelectSeq(recFields, LAMBDA g : g # f)
  /\ relinked' = TRUE
  /\ UNCHANGED <<format, file>>

-----------------------------------------------------------------------------
(***************************************************************************)
(* The file.                                                               *)
(***************************************************************************)

\* A csv recorder passes over what is neither a simple field nor an array.
CsvColumns(fields) == SelectSeq(fields, LAMBDA f : Shape[f] # "structure")

\* An hdf5 recorder throws on a field whose type it has no equivalent for, and
\* when it makes a data set whose name is in use.
Refused(i) ==
  \/ Shape[recFields[i]] \in {"text", "structure"}
  \/ \E j \in 1 .. i - 1 : recFields[j] = recFields[i]

HasRefused == \E i \in DOMAIN recFields : Refused(i)

\* The columns made before the first field that is refused.
Hdf5Columns ==
  LET last == CHOOSE n \in 0 .. Len(recFields) :
                /\ \A i \in 1 .. n : ~ Refused(i)
                /\ n = Len(recFields) \/ Refused(n + 1)
  IN SubSeq(recFields, 1, last)

InitFails == format = "hdf5" /\ HasRefused

RecorderOpens ==
  /\ file' = [open |-> TRUE, rows |-> <<>>, saved |-> 0,
              header |-> IF format = "csv" THEN CsvColumns(recFields) ELSE Hdf5Columns]
  /\ UNCHANGED <<format, recFields, relinked>>

\* A csv recorder goes through the fields of the port again, an hdf5 recorder
\* through the columns of the file.
Row(time) ==
  [time |-> time,
   columns |-> IF format = "csv" THEN CsvColumns(recFields) ELSE file.header]

\* step. Nothing is written to a file that is not open.
Record(time) ==
  /\ file' = IF file.open THEN [file EXCEPT !.rows = Append(@, Row(time))] ELSE file
  /\ UNCHANGED <<format, recFields, relinked>>

\* Faulty variant: what was written stays in the buffer of the stream.
Flush_Buffered == UNCHANGED recorderVars

Flush ==
  /\ file' = [file EXCEPT !.saved = Len(file.rows)]
  /\ UNCHANGED <<format, recFields, relinked>>

\* disconnect: flushes and closes.
Close ==
  /\ file' = [file EXCEPT !.open = FALSE, !.saved = Len(file.rows)]
  /\ UNCHANGED <<format, recFields, relinked>>

=============================================================================
