----------------------------- MODULE HlsArchive -----------------------------
(***************************************************************************)
(* What a stream's output directory promises to those who read it while it *)
(* is written: the HTTP server's clients, and the detection workers that   *)
(* follow the playlist.  The directory holds numbered segment files and    *)
(* one list of them.  Its writer may have lost sight of some of the files, *)
(* when it was opened and could not read all of them.                      *)
(***************************************************************************)
EXTENDS Integers

VARIABLES
    files,      \* the numbers of the segments on disk
    listed,     \* those the archive playlist names
    last,       \* the highest number given so far, -1 before the first
    lost        \* the files that the writer does not know of

archiveVars == <<files, listed, last, lost>>

Known == files \ lost

(* The newest segment of those that the writer knows, if there is any.     *)
Newest == {i \in Known : \A j \in Known : j <= i}

Init ==
    /\ files = {} /\ listed = {}
    /\ last = -1 /\ lost = {}

(* A new file is numbered above every known file, and above every number   *)
(* ever used unless the file that has the highest one is lost.  It takes   *)
(* the place of a lost file of its number.                                 *)
Record ==
    \E n \in files' :
        /\ \A i \in Known : i < n
        /\ n > last \/ last \in lost
        /\ files' = files \union {n}
        /\ lost' = lost \ {n}
        /\ last' = IF n > last THEN n ELSE last
        /\ UNCHANGED listed

(* The list names every known file, but for the newest while it is written. *)
Publish ==
    /\ listed' \in {Known, Known \ Newest}
    /\ UNCHANGED <<files, last, lost>>

(* Old files go, never the newest one, and never a lost one.               *)
Expire ==
    /\ files' \subseteq files
    /\ Newest \union lost \subseteq files'
    /\ UNCHANGED <<listed, last, lost>>

(* The writer is opened again: what it cannot read now is lost, and what   *)
(* was lost before and can be read is found.                               *)
Reopen ==
    /\ lost' \subseteq files
    /\ UNCHANGED <<files, listed, last>>

Next == Record \/ Publish \/ Expire \/ Reopen

Spec == Init /\ [][Next]_archiveVars
=============================================================================
