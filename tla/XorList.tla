-------------------------------- MODULE XorList --------------------------------
(***************************************************************************)
(* The list of removals of lab6 (structures/rm_list.c): a ring through a   *)
(* barrier, whose elements hold the xor of the addresses of their two      *)
(* neighbours.                                                             *)
(*                                                                         *)
(* The xor of addresses is modelled by the symmetric difference of sets of *)
(* them: an address is a singleton, NULL the empty set.  So a word is used *)
(* as an address only if all others have cancelled, whatever the addresses *)
(* are.  One call is one step; the iterator is the one the program holds.  *)
(***************************************************************************)
EXTENDS Naturals, Sequences, FiniteSets

CONSTANTS Elems,      \* what malloc can return
          Barrier,    \* the element inside rm_list
          Records,    \* the contents of an element
          Empty       \* the contents of the barrier, and of free memory

ASSUME ElemsAssumption ==
  IsFiniteSet(Elems) /\ Barrier \notin Elems /\ Empty \notin Records

VARIABLES pn,         \* of an element, and of the barrier
          val,        \* Empty when the element is free
          first, size,
          it          \* list_iter: prev and cur

listVars == <<pn, val, first, size, it>>

NULL == {}
Ptr(e) == {e}
Xor(x, y) == (x \ y) \cup (y \ x)

\* The element at an address.  No word that is not an address is ever followed
\* (RingWhole); the barrier stands for what would be found there.
At(ptr) == IF Cardinality(ptr) = 1 THEN CHOOSE e \in ptr : TRUE ELSE Barrier

\* Of an iterator i.
GetNext(i) == Xor(pn[At(i.cur)], i.prev)
GetPrevBefore(i) == Xor(i.cur, pn[At(i.prev)])

IterBegin == [prev |-> Ptr(Barrier), cur |-> first]
IterEnd == [prev |-> Xor(pn[Barrier], first), cur |-> Ptr(Barrier)]
Advanced(i) == [prev |-> i.cur, cur |-> GetNext(i)]

ListInit == /\ pn = [e \in Elems \cup {Barrier} |-> NULL]
            /\ val = [e \in Elems \cup {Barrier} |-> Empty]
            /\ first = Ptr(Barrier)
            /\ size = 0
            /\ it = [prev |-> Ptr(Barrier), cur |-> Ptr(Barrier)]

Begin == it' = IterBegin /\ UNCHANGED <<pn, val, first, size>>

\* The loops of the program stop at the end.
MoveNext == it # IterEnd /\ it' = Advanced(it) /\ UNCHANGED <<pn, val, first, size>>

SetRecord(r) == /\ it # IterEnd
                /\ val' = [val EXCEPT ![At(it.cur)] = r]
                /\ UNCHANGED <<pn, first, size, it>>

FirstWithNew(new) == IF it.cur = first THEN Ptr(new) ELSE first

\* Variant: the iterator does not learn of its new neighbour.
IteratorAfterStale(new) == it

IteratorAfter(new) == [it EXCEPT !.prev = Ptr(new)]

\* In an empty list both neighbours are the barrier, and its word stays NULL.
InsertBefore(r) ==
  \E new \in Elems :
    /\ val[new] = Empty
    /\ val' = [val EXCEPT ![new] = r]
    /\ pn' = [pn EXCEPT ![new] = Xor(it.cur, it.prev),
                        ![At(it.prev)] = IF size > 0 THEN Xor(GetPrevBefore(it), Ptr(new)) ELSE @,
                        ![At(it.cur)] = IF size > 0 THEN Xor(Ptr(new), GetNext(it)) ELSE @]
    /\ it' = IteratorAfter(new)
    /\ size' = size + 1
    /\ first' = FirstWithNew(new)

\* Variant: the next element's word is read before the previous one's is written.
UnlinkedAtOnce(words) ==
  LET next == GetNext(it)
  IN  [words EXCEPT ![At(it.prev)] = Xor(GetPrevBefore(it), next),
                    ![At(next)] = Xor(Xor(words[At(next)], it.cur), it.prev)]

\* The word of the next element after the removal of cur.  It may be the same
\* element as the previous one, and is read after that has been written.
Unlinked(words) ==
  LET next == GetNext(it)
      relinked == [words EXCEPT ![At(it.prev)] = Xor(GetPrevBefore(it), next)]
  IN  [relinked EXCEPT ![At(next)] = Xor(Xor(@, it.cur), it.prev)]

RemoveRecord ==
  /\ it # IterEnd
  /\ pn' = Unlinked(pn)
  /\ val' = [val EXCEPT ![At(it.cur)] = Empty]
  /\ first' = IF first = it.cur THEN GetNext(it) ELSE first
  /\ it' = [it EXCEPT !.cur = GetNext(it)]
  /\ size' = size - 1

ListNext == \/ Begin \/ MoveNext \/ RemoveRecord
            \/ \E r \in Records : SetRecord(r) \/ InsertBefore(r)

ListSpec == ListInit /\ [][ListNext]_listVars

-----------------------------------------------------------------------------
\* Words hold no address but those of elements, and first and the iterator are
\* addresses of one element each.
ListTypeOK ==
  LET Places == Elems \cup {Barrier}
      Addresses == {Ptr(e) : e \in Places}
  IN  /\ pn \in [Places -> SUBSET Places]
      /\ val \in [Places -> Records \cup {Empty}]
      /\ first \in Addresses
      /\ size \in 0..Cardinality(Elems)
      /\ it \in [prev : Addresses, cur : Addresses]

\* The iterators a loop from the beginning goes through.
Walk ==
  LET walk[k \in 0..size] ==
        IF k = 0 THEN IterBegin ELSE LET before == walk[k - 1] IN Advanced(before)
  IN  walk

\* A loop from the beginning meets the end after exactly `size' elements, and
\* no sooner: the iterator the code compares with is the one it arrives at
\* (rm_list.c:38-48), so rec_remove's search always stops.  It has met every
\* element that has been allocated and not freed.
RingWhole ==
  /\ Walk[size] = IterEnd
  /\ \A k \in 0..(size - 1) : Walk[k] # IterEnd
  /\ {e \in Elems : val[e] # Empty} = {At(Walk[k].cur) : k \in 0..(size - 1)}

\* The place of the iterator in that loop, 0 if it is nowhere on it.
Place == IF \E k \in 0..size : Walk[k] = it
         THEN 1 + (CHOOSE k \in 0..size : Walk[k] = it)
         ELSE 0

\* The calls do to the ring what they would do to a sequence, the iterator
\* stays on its element when something is inserted before it, and moves to the
\* next one when its own is removed.
Sequence == INSTANCE RecordList WITH
  MaxSize <- Cardinality(Elems),
  list <- [k \in 1..size |-> val[At(Walk[k - 1].cur)]],
  pos <- Place

ImplementsRecordList == Sequence!Spec
=============================================================================
