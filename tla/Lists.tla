------------------------------- MODULE Lists -------------------------------
(***************************************************************************)
(* The kernel's list type, kernel/FreeRTOS/list.c, as pure operators.      *)
(*                                                                         *)
(* In the code a List_t is a circular doubly linked list of ListItem_t     *)
(* closed by the marker xListEnd, with a cursor pxIndex that walks it.     *)
(* Here it is the sequence of the owners in physical order, from the item  *)
(* after xListEnd to the item before it, and the position of the cursor,   *)
(* 0 when it points at xListEnd.  A list whose cursor never leaves         *)
(* xListEnd (every list but the ready lists) is the plain sequence.        *)
(***************************************************************************)
EXTENDS Integers, SequencesExt

\* vListInitialise: no item, the cursor at the end marker.
vListInitialise == [items |-> <<>>, pxIndex |-> 0]

\* The position of x in the sequence s, which holds it once.
PositionIn(s, x) == CHOOSE i \in DOMAIN s : s[i] = x

\* s without x: the unlinking of uxListRemove on a list whose cursor is not used.
Without(s, x) == IF Contains(s, x) THEN RemoveAt(s, PositionIn(s, x)) ELSE s

\* s without the members of the set gone: several items unlinked.
WithoutAll(s, gone) ==
  LET kept[i \in 0 .. Len(s)] ==
        IF i = 0 THEN <<>>
        ELSE IF s[i] \in gone THEN kept[i - 1] ELSE Append(kept[i - 1], s[i])
  IN  kept[Len(s)]

\* vListInsertEnd: just before the cursor, so that the new item is the last
\* one the cursor reaches.
vListInsertEnd(l, x) ==
  IF l.pxIndex = 0
    THEN [items |-> Append(l.items, x), pxIndex |-> 0]
    ELSE [items |-> InsertAt(l.items, l.pxIndex, x), pxIndex |-> l.pxIndex + 1]

\* uxListRemove: a cursor on the removed item steps back to its predecessor.
uxListRemove(l, x) ==
  IF ~Contains(l.items, x) THEN l
  ELSE [items   |-> Without(l.items, x),
        pxIndex |-> IF l.pxIndex >= PositionIn(l.items, x) THEN l.pxIndex - 1
                                                           ELSE l.pxIndex]

\* listGET_OWNER_OF_NEXT_ENTRY: the cursor moves on, over the end marker.
NextIndex(l) == IF l.pxIndex = Len(l.items) THEN 1 ELSE l.pxIndex + 1

\* vListInsert: before the first item with a greater value, so behind its
\* equals; value[y] is the xItemValue of y's list item.
vListInsert(s, x, value) ==
  LET greater == {i \in DOMAIN s : value[s[i]] > value[x]}
  IN  InsertAt(s, IF greater = {} THEN Len(s) + 1 ELSE Min(greater), x)
=============================================================================
