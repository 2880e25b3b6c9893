--------------------------------- MODULE Text ---------------------------------
(***************************************************************************)
(* What an editor promises: one string with a cursor between two of its    *)
(* characters, into which characters are put and out of which they are     *)
(* taken one at a time, and a file that is the string when it is saved.    *)
(* Where the program has left the promise, lost is set until a file is     *)
(* opened again.                                                           *)
(***************************************************************************)
EXTENDS Naturals, SequencesExt

CONSTANTS Letter, Newline, Absent

VARIABLES text, pos, file, lost

vars == <<text, pos, file, lost>>

Init == text = <<>> /\ pos = 0 /\ lost = FALSE

Insert(c) ==
  /\ text' = InsertAt(text, pos + 1, c)
  /\ pos' = pos + 1
  /\ UNCHANGED <<file, lost>>

(* The first letter behind the last line makes a line.                     *)
AddLine(c) ==
  /\ pos = Len(text)
  /\ text' = text \o <<c, Newline>>
  /\ pos' = pos + 1
  /\ UNCHANGED <<file, lost>>

Erase ==
  /\ pos > 0
  /\ text' = RemoveAt(text, pos)
  /\ pos' = pos - 1
  /\ UNCHANGED <<file, lost>>

Move ==
  /\ pos' \in 0 .. Len(text)
  /\ UNCHANGED <<text, file, lost>>

(* A file that cannot be written is gone.                                  *)
Save ==
  /\ file' \in {text, Absent}
  /\ UNCHANGED <<text, pos, lost>>

Open ==
  /\ text' = IF file = Absent THEN <<>> ELSE file
  /\ pos' = 0 /\ lost' = FALSE
  /\ UNCHANGED file

Close ==
  /\ text' = <<>> /\ pos' = 0 /\ lost' = FALSE
  /\ UNCHANGED file

Next ==
  \/ ~ lost /\ (\/ \E c \in Letter \cup {Newline} : Insert(c)
                \/ \E c \in Letter : AddLine(c)
                \/ Erase \/ Move \/ Save)
  \/ Open \/ Close
  \/ lost'

Spec == Init /\ [][Next]_vars
=============================================================================
