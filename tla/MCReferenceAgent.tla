-------------------------- MODULE MCReferenceAgent ---------------------------
EXTENDS ReferenceAgent
BothModes == {"baseline", "tree"}
BothPolicies == {"fixed", "until_success"}
BothProfiles == {"none", "hotspot"}
ThreeStores == {1, 2, 3}
PresentOrAbsent == {TRUE, FALSE}
FaultyOrNot == {TRUE, FALSE}
=============================================================================
