-------------------------------- MODULE Damage --------------------------------
(***************************************************************************)
(* What can happen to the lines of a file: each operator is the set of     *)
(* files that one such accident can leave.                                 *)
(***************************************************************************)
EXTENDS Pack

Line(kind, body_) == [kind |-> kind, body |-> body_]

LineLost(file)      == {RemoveAt(file, i) : i \in DOMAIN file}
LineRepeated(file)  == {InsertAt(file, i, file[i]) : i \in DOMAIN file}
LinesSwapped(file)  ==
    {[file EXCEPT ![i] = file[j], ![j] = file[i]] : i, j \in DOMAIN file} \ {file}
LastMoved(file)     == {InsertAt(Front(file), i, Last(file)) : i \in 1..(Len(file) - 1)}
EndLost(file)       == {SubSeq(file, 1, n) : n \in 0..(Len(file) - 2)}
WithLine(file, l)   == {InsertAt(file, i, l) : i \in 1..(Len(file) + 1)}
LineGarbled(file)   == {[file EXCEPT ![i] = Line("malformed", None)] : i \in DOMAIN file}
=============================================================================
