------------------------------- MODULE Paging -------------------------------
(***************************************************************************)
(* Keyset paging with PageConditionComponent: a caller reads a sorted      *)
(* table page by page, and asks for the rows beyond the last one it was    *)
(* given (getPageCondition), while others insert and delete rows.          *)
(*                                                                         *)
(* The library builds the condition.  The caller's SELECT, with its ORDER  *)
(* BY on the paging fields and its LIMIT, the token it keeps and the table *)
(* are external.  Rows are what their paging fields are: a key without     *)
(* NULLs, and no two rows of the table have the same.                      *)
(***************************************************************************)
EXTENDS Integers, Sequences

CONSTANTS
  Width,       (* the number of paging fields                              *)
  Values,      (* the values of a field                                    *)
  Texts,       (* the page token elements                                  *)
  Format,      (* the text the caller keeps of each value                  *)
  extractor,   (* the value its extractor makes of a text                  *)
  PageSize,    (* the caller's LIMIT                                       *)
  MaxWrites    (* bound: inserts and deletes while the table is read       *)

ASSUME WidthAssumption == Width \in Nat \ {0}
ASSUME ValuesAssumption == Values \subseteq Int
ASSUME FormatAssumption ==
  /\ Format \in [Values -> Texts]
  /\ extractor \in [Texts -> Values]
  /\ \A v \in Values : extractor[Format[v]] = v
ASSUME LimitAssumption == PageSize \in Nat \ {0} /\ MaxWrites \in Nat

SortDirection == {"DESC", "ASC"}
Fields == 1..Width
Rows == [Fields -> Values]

VARIABLES
  table,         (* the rows of the table                                  *)
  sortDirection, (* the order the caller wants                             *)
  pagingState,   (* the value of each component, <<>> before the first page *)
  seen,          (* the rows the caller was given                          *)
  finished,      (* the caller has read its last page                      *)
  stable,        (* the rows that have been in the table all along         *)
  writes         (* inserts and deletes so far                             *)

vars == <<table, sortDirection, pagingState, seen, finished, stable, writes>>

Init ==
  /\ table \in SUBSET Rows
  /\ sortDirection \in SortDirection
  /\ pagingState = <<>>
  /\ seen = <<>>
  /\ finished = FALSE
  /\ stable = table
  /\ writes = 0

-----------------------------------------------------------------------------
(* The condition.                                                          *)

eq(row, k) == row[k] = extractor[pagingState[k]]
lt(row, k) == row[k] < extractor[pagingState[k]]
gt(row, k) == row[k] > extractor[pagingState[k]]

Beyond(row, k) ==
  \/ sortDirection = "DESC" /\ lt(row, k)
  \/ sortDirection = "ASC" /\ gt(row, k)

(* Fault: the subList of prior components ends one short.                  *)
FaultPriorShort(row) ==
  \E k \in DOMAIN pagingState : (\A j \in 1..(k - 2) : eq(row, j)) /\ Beyond(row, k)

(* Fault: a row must be beyond the token in every field.                   *)
FaultEveryField(row) == \A k \in DOMAIN pagingState : Beyond(row, k)

(* Fault: a row that equals the token satisfies the condition.             *)
FaultNotStrict(row) ==
  \/ \A k \in DOMAIN pagingState : eq(row, k)
  \/ \E k \in DOMAIN pagingState : (\A j \in 1..(k - 1) : eq(row, j)) /\ Beyond(row, k)

getPageCondition(row) ==
  \E k \in DOMAIN pagingState : (\A j \in 1..(k - 1) : eq(row, j)) /\ Beyond(row, k)

-----------------------------------------------------------------------------
(* ORDER BY the paging fields, in the direction of the caller.             *)
Before(r, s) ==
  \E k \in Fields :
    /\ \A j \in 1..(k - 1) : r[j] = s[j]
    /\ IF sortDirection = "ASC" THEN r[k] < s[k] ELSE r[k] > s[k]

(* The condition needs a component: reduce throws on an empty paging       *)
(* state, so the first page is read without one.                           *)
Matching == {r \in table : pagingState = <<>> \/ getPageCondition(r)}

(* What the SELECT may return: the first rows that match, in order, all of *)
(* them unless the LIMIT cuts them short.                                  *)
IsPage(page) ==
  /\ \A i, j \in DOMAIN page : i < j => Before(page[i], page[j])
  /\ \A r \in Matching \ {page[i] : i \in DOMAIN page} :
       Len(page) = PageSize /\ Before(page[Len(page)], r)

(* Fault: the token leaves the last field out.                             *)
FaultShortToken(row) == [k \in 1..(Width - 1) |-> Format[row[k]]]

TokenOf(row) == [k \in Fields |-> Format[row[k]]]

(* A page that is not full is the last one.                                *)
ReadPage ==
  /\ ~finished
  /\ \E n \in 0..PageSize : \E page \in [1..n -> Matching] :
       /\ IsPage(page)
       /\ seen' = seen \o page
       /\ pagingState' = IF n = 0 THEN pagingState ELSE TokenOf(page[n])
       /\ finished' = (n < PageSize)
  /\ UNCHANGED <<table, sortDirection, stable, writes>>

Insert(row) ==
  /\ writes < MaxWrites
  /\ row \notin table
  /\ table' = table \cup {row}
  /\ writes' = writes + 1
  /\ UNCHANGED <<sortDirection, pagingState, seen, finished, stable>>

(* The row of the token itself may go.                                     *)
Delete(row) ==
  /\ writes < MaxWrites
  /\ row \in table
  /\ table' = table \ {row}
  /\ stable' = stable \ {row}
  /\ writes' = writes + 1
  /\ UNCHANGED <<sortDirection, pagingState, seen, finished>>

Next == ReadPage \/ \E row \in Rows : Insert(row) \/ Delete(row)

Spec == Init /\ [][Next]_vars

-----------------------------------------------------------------------------
(* Types of the state.                                                     *)
TypeOK ==
  /\ table \subseteq Rows
  /\ sortDirection \in SortDirection
  /\ pagingState \in {<<>>} \cup [Fields -> Texts]
  /\ seen \in Seq(Rows)
  /\ finished \in BOOLEAN
  /\ stable \subseteq table
  /\ writes \in 0..MaxWrites

(* Whatever is inserted and deleted between two pages, the caller is given *)
(* rows in the order it asked for, and none of them twice.                 *)
SeenInOrder == \A i, j \in DOMAIN seen : i < j => Before(seen[i], seen[j])

(* A row that is in the table while it is read is not skipped, although    *)
(* rows before it, or the row of the token, are inserted and deleted.      *)
NoRowSkipped ==
  finished => \A r \in stable : \E i \in DOMAIN seen : seen[i] = r
=============================================================================
