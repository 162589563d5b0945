SPECIFICATION Spec
CONSTANTS Order <- MCOrder
Scenes <- MCScenes
Puts <- MCPuts
Renames <- MCRenames
Policies <- MCPolicies
Labels <- MCLabels
MountLists <- MCMounts
MaxEntries = 4
MaxLinkHops = 3
MaxChanges = 2
Programs <- MCPrograms
OtherRules <- MCOtherRules
Changes <- MCChanges
Requests <- MCRequests
MaxPasses = 2
INVARIANTS   VerdictsAgree OriginalKept OwnershipSound
CHECK_DEADLOCK FALSE
