----------------------------- MODULE WindowReport -----------------------------
(***************************************************************************)
(* The report of the server on a window (CTPData_Window_Report): a bit for *)
(* each packet of the window that the server has got, at the distance of   *)
(* its ID from the first ID of the window.  After the largest ID comes 1.  *)
(***************************************************************************)
EXTENDS Integers, FiniteSets

CONSTANTS
  MaxReportId,   \* TPACKET_MAX_ID
  Bytes,         \* m_dwCount
  MaxMarked      \* bound: packets reported

ASSUME WindowReportAssumption ==
  MaxReportId \in Nat \ {0} /\ Bytes \in Nat \ {0} /\ MaxMarked \in Nat

PacketIds == 1 .. MaxReportId

VARIABLES
  firstId,       \* i_dwFirst_ID, the same for all calls on a report
  bits,          \* pID: the bits of each byte that are set
  marked         \* history: the IDs that Set_ID has accepted

reportVars == <<firstId, bits, marked>>

NoBits == [i \in 0 .. Bytes - 1 |-> {}]

ReportInit == firstId \in PacketIds /\ bits = NoBits /\ marked = {}

\* Mutant: as if the IDs started over at 0.
IdDifferenceFromZero(first, current) ==
  IF current < first THEN MaxReportId - first + current + 1 ELSE current - first

\* ID_Difference
IdDifference(first, current) ==
  IF current < first THEN MaxReportId - first + current ELSE current - first

\* Has the report a bit for the ID?
Fits(id) == IdDifference(firstId, id) < Bytes * 8

IsId(id) ==
  LET offset == IdDifference(firstId, id)
  IN Fits(id) /\ offset % 8 \in bits[offset \div 8]

SetId(id) ==
  /\ Cardinality(marked) < MaxMarked
  /\ Fits(id)
  /\ bits' = LET offset == IdDifference(firstId, id)
             IN [bits EXCEPT ![offset \div 8] = @ \cup {offset % 8}]
  /\ marked' = marked \cup {id}
  /\ UNCHANGED firstId

ClrIds == bits' = NoBits /\ marked' = {} /\ firstId' \in PacketIds

ReportNext == ClrIds \/ \E id \in PacketIds : SetId(id)

ReportSpec == ReportInit /\ [][ReportNext]_reportVars

\* A window of up to eight packets per byte can be reported, wherever the IDs start
\* over, and what is read of a report is what was written: a packet is taken for
\* received only if it is.
ReportIsTrue ==
  \A n \in 0 .. MaxReportId - 1 :
    LET id == ((firstId - 1 + n) % MaxReportId) + 1
    IN /\ Fits(id) <=> n < Bytes * 8
       /\ IsId(id) <=> id \in marked
=============================================================================
