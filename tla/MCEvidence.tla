----------------------------- MODULE MCEvidence -----------------------------
(* Small instances of EvidenceSystem. *)
EXTENDS EvidenceSystem

CONSTANTS Other     \* another tenant on the fleet chain

NoPacks       == {}
MCTenantChain == {"tenant:demo-clinic"}
MCOwnChain    == "tenant:demo-clinic"

Own(t)        == [tenant |-> TenantId, created_at |-> t, signed |-> TRUE]
OwnUnsigned(t) == [tenant |-> TenantId, created_at |-> t, signed |-> FALSE]
Others(t)     == [tenant |-> Other, created_at |-> t, signed |-> TRUE]

(* Two tenants interleaved, equal and decreasing times, unsigned rows. *)
ManySchedules ==
    {<<Own(1), Others(1), Own(2), Own(2), Own(3)>>,
     <<Own(2), Own(1), Own(1), OwnUnsigned(3), Own(2)>>,
     <<Others(1), Own(2), Others(1), Own(1), Own(1)>>}

(* A row of another tenant and two own ones out of time order; and three   *)
(* own ones, which may make three batches of one chain.                    *)
TwoSchedules  == {<<Others(1), Own(2), Own(1)>>, <<Own(1), Own(2), Own(2)>>}
PairSchedule  == {<<OwnUnsigned(1), Own(1)>>}
ShortSchedule == {<<Own(1), OwnUnsigned(1), Own(2)>>}

NoFaults       == {}
ExporterFaults == {"reorder", "newer", "omit", "repeat", "omit_batch", "relabel"}
TransitFaults  == {"lose", "truncate", "duplicate", "misplace", "blank", "garble", "alter"}
EachFault      == ExporterFaults \cup TransitFaults \cup {"twin"}
MeetingFaults  == {"lose", "truncate", "duplicate", "omit_batch", "relabel", "alter"}
LabelFaults    == {"relabel"}
Alterations    == {"alter"}
=============================================================================
