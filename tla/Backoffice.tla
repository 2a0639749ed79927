------------------------------ MODULE Backoffice ------------------------------
(***************************************************************************)
(* The two sides of the analysts' desk: alerts with their workplans and    *)
(* mails, and the records that are kept by hand.  Their handlers share     *)
(* threads and the database server but no row of what is modelled, so a    *)
(* behaviour here is one of one of them.                                   *)
(***************************************************************************)
EXTENDS CaseWork, Records

VARIABLE office  \* the side that is at work

officeVars == <<office, vars, recordVars>>

OfficeInit ==
  /\ office \in {"cases", "records"}
  /\ Init /\ RecordInit

OfficeNext ==
  /\ \/ office = "cases"   /\ Next       /\ UNCHANGED recordVars
     \/ office = "records" /\ RecordNext /\ UNCHANGED vars
  /\ UNCHANGED office

OfficeSpec == OfficeInit /\ [][OfficeNext]_officeVars
=============================================================================
