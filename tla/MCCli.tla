-------------------------------- MODULE MCCli --------------------------------
(* An instance of CliSystem. *)
EXTENDS CliSystem

MCTenantChain == {"tenant:demo-clinic"}
MCOwnChain    == "tenant:demo-clinic"

MCTexts       == HandedOver \cup AtTheEnd
MCEnds        == AtTheEnd
=============================================================================
