--------------------------------- MODULE Inbox ---------------------------------
(***************************************************************************)
(* The inbox of an organization: documents in the pipeline, the page on    *)
(* which their invoices are reviewed, and the page of the buildings and    *)
(* vendors they name.  They share no state here, and take their steps in   *)
(* any order.                                                              *)
(***************************************************************************)
EXTENDS IngestPipeline

CONSTANTS Invoices, MaxRevision, MaxCalls,
          Buildings, Vendors, Entries, MaxLoads, MaxFetches

VARIABLES server, page, calls, write
review == <<server, page, calls, write>>
VARIABLES record, crmPage, loads, fetches, request, mine
crm == <<record, crmPage, loads, fetches, request, mine>>

Browser == INSTANCE InvoicePage WITH invoice <- server
Crm == INSTANCE CrmPage WITH page <- crmPage
ASSUME InboxAssumption == Browser!PageAssumption /\ Crm!CrmPageAssumption

PageConsistent == Browser!PageConsistent
AcceptedAsShown == Browser!AcceptedAsShown
OwnWritesShown == Crm!OwnWritesShown

InboxInit == Init /\ Browser!PageInit /\ Crm!CrmPageInit

Processes == Next /\ UNCHANGED <<review, crm>>
Reviews == Browser!PageNext /\ UNCHANGED <<vars, crm>>
Manages == Crm!CrmPageNext /\ UNCHANGED <<vars, review>>

InboxNext == Processes \/ Reviews \/ Manages

InboxSpec == InboxInit /\ [][InboxNext]_<<vars, review, crm>>
=============================================================================
