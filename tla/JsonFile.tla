------------------------------- MODULE JsonFile -------------------------------
(***************************************************************************)
(* One file of the cache directory, as lib/json-file.js reads and writes   *)
(* it.  fs.writeFile is two steps of the file system, with other callers   *)
(* in between: open(O_CREAT | O_TRUNC), then one write at offset 0.  A     *)
(* file is therefore not "absent or some payload": it can be empty, and a  *)
(* payload written over a longer one keeps the tail of the longer one,     *)
(* which JSON.parse refuses.  Of the bytes we keep what the reader can     *)
(* tell apart: the payload at offset 0 and the length of the file.         *)
(***************************************************************************)
EXTENDS Naturals

CONSTANTS
    Payload,    \* what can be stored: the objects given to writeJSONfile
    Size,       \* length in bytes of JSON.stringify(payload), never 0
    NoPayload   \* the content of a file nothing has been written to

File == [exists : BOOLEAN, content : Payload \cup {NoPayload}, length : Nat]

Absent == [exists |-> FALSE, content |-> NoPayload, length |-> 0]

\* The file after open(path, 'w') by fs.writeFile.
Opened == [exists |-> TRUE, content |-> NoPayload, length |-> 0]

\* The file after the whole of payload is written at offset 0.
Wrote(file, payload) ==
    [exists  |-> TRUE,
     content |-> payload,
     length  |-> IF file.length > Size[payload] THEN file.length
                                                ELSE Size[payload]]

\* A file holding exactly payload, as one undisturbed writeJSONfile leaves it.
Holding(payload) ==
    [exists |-> TRUE, content |-> payload, length |-> Size[payload]]

\* readJSONfile calls back with data: the file is there and parses.
Readable(file) ==
    /\ file.exists
    /\ file.content \in Payload
    /\ file.length = Size[file.content]
===============================================================================
