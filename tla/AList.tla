-------------------------------- MODULE AList --------------------------------
(***************************************************************************)
(* The linked list CAList with the pool of cells of CBList.  The queues    *)
(* and the window of the client and the buffers of the pool are such       *)
(* lists.  A broken index is rebuilt before it is read, so the model drops *)
(* its contents as soon as it breaks.  Data_Release is what the data wants *)
(* done and leaves the list alone.                                         *)
(***************************************************************************)
EXTENDS Integers, Sequences, FiniteSets

CONSTANTS
  Values,           \* m_pData
  Null,             \* NULL
  CellSegment,      \* m_dwPool_Size
  MaxCellSegments,  \* bound: segments there is memory for
  MaxExtracted,     \* bound: cells that a user has extracted
  IndexReserve      \* entries that Index_Build allocates on top, 128 in the code

ASSUME AListAssumption ==
  /\ Null \notin Values /\ Null \notin Int
  /\ CellSegment \in Nat \ {0} /\ MaxCellSegments \in Nat
  /\ IndexReserve \in Nat /\ MaxExtracted \in Nat

Cells == 1 .. CellSegment * MaxCellSegments

VARIABLES
  cells,         \* m_pData, m_pNext and m_pPrev of each cell
  first, last,   \* m_pFirst and m_pLast
  count,         \* m_dwCount
  index,         \* m_pIndex, or NULL
  indexCount,    \* m_dwIndexCount
  broken,        \* m_bBrokenIndex
  spareCell,     \* m_pPool_Cell_First
  cellSegments,  \* how many segments hang at m_pPool_First
  extracted,     \* the cells the user has from Extract
  picked         \* what the last call asked for and returned, NULL if nothing

chainVars == <<cells, first, last, count>>
indexVars == <<index, indexCount, broken>>
poolVars  == <<spareCell, cellSegments>>
listVars  == <<chainVars, indexVars, poolVars, extracted, picked>>

Blank == [data |-> Null, next |-> Null, prev |-> Null]

\* The cells from c on along the links in one direction, as far as there can be any
FollowIn(links, c, dir) ==
  LET most == Cardinality(Cells) + 1
      walk[n \in 0 .. most] ==
        [x \in Cells \cup {Null} |->
           IF x = Null \/ n = 0 THEN <<>> ELSE <<x>> \o walk[n - 1][links[x][dir]]]
  IN  walk[most][c]

Follow(c, dir) == FollowIn(cells, c, dir)

Ran(s) == {s[i] : i \in DOMAIN s}
Chain == Follow(first, "next")
InList(c) == c \in Ran(Chain)

ListInit ==
  /\ cells = [c \in Cells |-> Blank]
  /\ first = Null /\ last = Null /\ count = 0
  /\ index = Null /\ indexCount = 0 /\ broken = TRUE
  /\ spareCell = Null /\ cellSegments = 0
  /\ extracted = {}
  /\ picked = Null

-----------------------------------------------------------------------------
(* The pool of CBList.                                                     *)

\* Create_Pool_Segment, when the pool is empty
NewSegment == cellSegments * CellSegment + 1 .. (cellSegments + 1) * CellSegment

\* Cell_Allocate gives c; the cells that are made for it are linked to a pool.
CellAllocate(c) ==
  \/ /\ spareCell = c
     /\ spareCell' = cells[c].next
     /\ UNCHANGED cellSegments
  \/ /\ spareCell = Null /\ cellSegments < MaxCellSegments
     /\ c = cellSegments * CellSegment + 1
     /\ spareCell' = IF c + 1 \in NewSegment THEN c + 1 ELSE Null
     /\ cellSegments' = cellSegments + 1

\* The links of the cells after Cell_Allocate
Linked ==
  IF spareCell # Null THEN cells
  ELSE [c \in Cells |-> IF c \in NewSegment /\ c + 1 \in NewSegment
                        THEN [Blank EXCEPT !.next = c + 1] ELSE cells[c]]

\* What Cell_Free makes of a cell; it is the next to be given then.
FreedCell == [Blank EXCEPT !.next = spareCell]

-----------------------------------------------------------------------------
(* CAList.                                                                 *)

\* Mutant: m_pLast is left where it was.
PutAfterLast(f, at, e) ==
  LET next == IF at = Null THEN first ELSE f[at].next IN
  /\ cells' = [c \in Cells |->
       CASE c = e -> [f[e] EXCEPT !.next = next, !.prev = IF at = Null THEN @ ELSE at]
         [] c = at -> [f[c] EXCEPT !.next = e]
         [] c = next -> [f[c] EXCEPT !.prev = e]
         [] OTHER -> f[c]]
  /\ count' = count + 1
  /\ first' = IF at = Null THEN e ELSE first
  /\ last'  = IF first = Null THEN e ELSE last
  /\ broken' = TRUE /\ index' = (IF index = Null THEN Null ELSE <<>>)
  /\ UNCHANGED indexCount

\* Put_After: e comes after the cell at, or first if that is NULL.
PutAfter(f, at, e) ==
  LET next == IF at = Null THEN first ELSE f[at].next IN
  /\ cells' = [c \in Cells |->
       CASE c = e -> [f[e] EXCEPT !.next = next, !.prev = IF at = Null THEN @ ELSE at]
         [] c = at -> [f[c] EXCEPT !.next = e]
         [] c = next -> [f[c] EXCEPT !.prev = e]
         [] OTHER -> f[c]]
  /\ count' = count + 1
  /\ first' = IF at = Null THEN e ELSE first
  /\ last'  = IF last = at THEN e ELSE last
  /\ broken' = TRUE /\ index' = (IF index = Null THEN Null ELSE <<>>)
  /\ UNCHANGED indexCount

Positions == {Null} \cup Ran(Chain)

AddAfter(at, v) ==
  \/ \E c \in Cells :
       /\ CellAllocate(c)
       /\ PutAfter([Linked EXCEPT ![c] = [Blank EXCEPT !.data = v]], at, c)
       /\ picked' = Null
       /\ UNCHANGED extracted
  \/ /\ spareCell = Null /\ cellSegments = MaxCellSegments
     /\ picked' = Null
     /\ UNCHANGED <<chainVars, indexVars, poolVars, extracted>>

\* Put_After with a cell the user extracted
PutBack(at, e) ==
  /\ e \in extracted
  /\ PutAfter(cells, at, e)
  /\ extracted' = extracted \ {e}
  /\ picked' = Null
  /\ UNCHANGED poolVars

\* Cell_Release takes c out of the chain, to become the given cell.  Only a cell
\* with neighbours on both sides has both links.
CellRelease(c, becomes) ==
  LET before == cells[c].prev
      after  == cells[c].next
  IN /\ cells' = [x \in Cells |->
            CASE x = c      -> becomes
              [] x = before -> [cells[x] EXCEPT !.next = after]
              [] x = after  -> [cells[x] EXCEPT !.prev = before]
              [] OTHER      -> cells[x]]
     /\ first' = IF c = first THEN after ELSE first
     /\ last'  = IF c = last THEN before ELSE last
     /\ count' = count - 1
     /\ broken' = TRUE /\ index' = (IF index = Null THEN Null ELSE <<>>)
     /\ UNCHANGED indexCount

DelCell(c) ==
  /\ InList(c)
  /\ CellRelease(c, FreedCell)
  /\ spareCell' = c
  /\ picked' = Null
  /\ UNCHANGED <<cellSegments, extracted>>

Extract(c) ==
  /\ InList(c) /\ Cardinality(extracted) < MaxExtracted
  /\ CellRelease(c, [cells[c] EXCEPT !.next = Null, !.prev = Null])
  /\ extracted' = extracted \cup {c}
  /\ picked' = Null
  /\ UNCHANGED poolVars

\* Put_Data and Set_Data
PutData(c, v) ==
  /\ InList(c)
  /\ cells' = [cells EXCEPT ![c].data = v]
  /\ picked' = Null
  /\ UNCHANGED <<first, last, count, indexVars, poolVars, extracted>>

\* Mutant: the index is filled from the end.
IndexBuildBack ==
  /\ index' = Follow(last, "prev")
  /\ indexCount' = IF index = Null \/ count > indexCount THEN count + IndexReserve ELSE indexCount
  /\ broken' = FALSE

\* Index_Build makes a larger index when the old one is too small.
IndexBuild ==
  /\ index' = Chain
  /\ indexCount' = IF index = Null \/ count > indexCount THEN count + IndexReserve ELSE indexCount
  /\ broken' = FALSE

\* Get_ByIndex, with its i counted from 1, and operator[] for its data
GetByIndex(i) ==
  /\ IF broken THEN IndexBuild ELSE UNCHANGED indexVars
  /\ picked' = [at |-> i, value |-> IF i <= count THEN cells[index'[i]].data ELSE Null]
  /\ UNCHANGED <<chainVars, poolVars, extracted>>

\* Clear releases the first cell until there is none.
ListClear ==
  /\ LET n == Len(Chain)
         chain == Chain
         nextSpare(i) == IF i = 1 THEN spareCell ELSE chain[i - 1]
     IN /\ cells' = [c \in Cells |->
              IF InList(c)
              THEN [Blank EXCEPT !.next = nextSpare(CHOOSE i \in 1 .. n : chain[i] = c)]
              ELSE cells[c]]
        /\ spareCell' = IF n = 0 THEN spareCell ELSE chain[n]
        /\ broken' = (IF n = 0 THEN broken ELSE TRUE)
        /\ index' = IF n = 0 \/ index = Null THEN index ELSE <<>>
        /\ count' = count - n
  /\ first' = Null
  /\ last' = Null
  /\ picked' = Null
  /\ UNCHANGED <<indexCount, cellSegments, extracted>>

ListNext ==
  \/ \E at \in Positions, v \in Values : AddAfter(at, v)
  \/ \E at \in Positions, e \in extracted : PutBack(at, e)
  \/ \E c \in Ran(Chain) : DelCell(c) \/ Extract(c) \/ \E v \in Values : PutData(c, v)
  \/ \E i \in 1 .. count + 1 : GetByIndex(i)
  \/ ListClear

ListSpec == ListInit /\ [][ListNext]_listVars

-----------------------------------------------------------------------------
(* Properties.                                                             *)

\* Both directions show the same cells, as many as are counted, and every cell of
\* the pool is in the list, spare or with the user.
ListIsSound ==
  LET chain == Chain
      back  == Follow(last, "prev")
      spare == Follow(spareCell, "next")
  IN /\ Len(chain) = count /\ Len(back) = count
     /\ \A i \in 1 .. count : back[i] = chain[count + 1 - i]
     /\ Ran(chain) \cup Ran(spare) \cup extracted = 1 .. cellSegments * CellSegment
     /\ count + Len(spare) + Cardinality(extracted) = cellSegments * CellSegment
     /\ ~broken => index = chain /\ count <= indexCount

\* The list is the sequence its users take it for, by index too.
AsSequence ==
  INSTANCE Listing WITH
    NoValue <- Null, answer <- picked,
    items <- LET chain == Chain IN [i \in 1 .. Len(chain) |-> cells[chain[i]].data]

ListIsSequence == AsSequence!Spec
=============================================================================
