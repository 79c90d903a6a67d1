------------------------------ MODULE RecordList ------------------------------
(***************************************************************************)
(* What rm_list of lab6 promises: a sequence of records and one iterator,  *)
(* a position of the sequence or the one after its last record.            *)
(***************************************************************************)
EXTENDS Naturals, SequencesExt

CONSTANTS Records,    \* what the list holds: remove_structs
          MaxSize     \* bound: the longest list

VARIABLES list, pos

listVars == <<list, pos>>

Init == list = <<>> /\ pos = 1

AtEnd == pos = Len(list) + 1

Begin == pos' = 1 /\ UNCHANGED list

MoveNext == ~AtEnd /\ pos' = pos + 1 /\ UNCHANGED list

SetRecord(r) == ~AtEnd /\ list' = [list EXCEPT ![pos] = r] /\ UNCHANGED pos

\* The iterator stays on the record it was on, now one place further.
InsertBefore(r) == /\ Len(list) < MaxSize
                   /\ list' = InsertAt(list, pos, r)
                   /\ pos' = pos + 1

\* The iterator moves on to the record after the removed one.
RemoveRecord == ~AtEnd /\ list' = RemoveAt(list, pos) /\ UNCHANGED pos

Next == \/ Begin \/ MoveNext \/ RemoveRecord
        \/ \E r \in Records : SetRecord(r) \/ InsertBefore(r)

Spec == Init /\ [][Next]_listVars
=============================================================================
