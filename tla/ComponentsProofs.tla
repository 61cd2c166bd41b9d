------------------------- MODULE ComponentsProofs ---------------------------
(*****************************************************************************)
(* The components side by side, as the module MCComponents runs them: the    *)
(* part that runs keeps the inductive invariant of its component, although   *)
(* the clock is shared and the others stand still, so that what the other    *)
(* modules prove of each component alone is so of the instances that TLC     *)
(* checks.                                                                   *)
(*****************************************************************************)
EXTENDS MCComponents, NetworkProofs, ServerProofs, MessagesProofs

(* The part that runs keeps the inductive invariant of its component. *)
PartsInv ==
    /\ part = "trust" => TrustInv
    /\ part = "directory" => DirectoryInv
    /\ part = "map" => MapInv
    /\ part = "proxy" => ProxyInv
    /\ part \in {"accounts", "registrations"} => AccountsInv
    /\ part = "sessions" => SessionsInv
    /\ part = "rotation" => V3Inv
    /\ part = "processes" => ProcessesInv
    /\ part = "registry" => RegistryInv
    /\ part = "dialogs" => DialogsInv
    /\ part = "files" => FilesInv
    /\ part = "contacts" => ContactsInv
    /\ part = "padding" => PaddingTypeOK

(* Each component begins in its invariant. *)
LEMMA PartsInit == Init => PartsInv
  BY TrustInvInit, DirectoryInvInit, MapInvInit, ProxyInit_Inv, AccountsInit_Inv,
     SessionsInit_Inv, V3InvInit, ProcessesInvInit, RegistryInvInit, DialogsInvInit,
     FilesInvInit, ContactsInvInit, PaddingTypeInit
     DEF Init, PartsInv

(* Which part runs does not change, and a step is one of its component. *)
LEMMA StepOfPart ==
  ASSUME [Next]_<<componentVars, part>>
  PROVE  /\ part' = part
         /\ part = "trust" => [TrustNext]_<<trustVars, now>>
         /\ part = "directory" => [DirectoryNext]_<<directoryVars, now>>
         /\ part = "map" => [NetworkMapNext]_<<mapVars, now>>
         /\ part = "proxy" => [ProxyNext]_<<proxyVars, now>>
         /\ part \in {"accounts", "registrations"} => [AccountsNext]_<<accountVars, now>>
         /\ part = "sessions" => [SessionsNext]_<<accountVars, sessionVars, now>>
         /\ part = "rotation" => [V3Next]_<<v3Vars, now>>
         /\ part = "processes" => [ProcessesNext]_processVars
         /\ part = "registry" => [RegistryNext]_registryVars
         /\ part = "dialogs" => [DialogsNext]_dialogVars
         /\ part = "files" => [FilesNext]_fileVars
         /\ part = "contacts" => [ContactsNext]_contactVars
         /\ part = "padding" => [PaddingNext]_paddingVars
  <1>1. CASE Next
    BY <1>1 DEF Next
  <1>2. CASE UNCHANGED <<componentVars, part>>
    BY <1>2 DEF componentVars
  <1> QED
    BY <1>1, <1>2

(* A step of the part that runs keeps its invariant. *)
LEMMA PartsStep == PartsInv /\ [Next]_<<componentVars, part>> => PartsInv'
  <1> SUFFICES ASSUME PartsInv, [Next]_<<componentVars, part>>
               PROVE  PartsInv'
    OBVIOUS
  <1>1. part' = part
    BY StepOfPart
  <1>2. ASSUME part = "trust" PROVE TrustInv'
    BY <1>2, StepOfPart, TrustInvStep DEF PartsInv
  <1>3. ASSUME part = "directory" PROVE DirectoryInv'
    BY <1>3, StepOfPart, DirectoryInvStep DEF PartsInv
  <1>4. ASSUME part = "map" PROVE MapInv'
    BY <1>4, StepOfPart, MapInvStep DEF PartsInv
  <1>5. ASSUME part = "proxy" PROVE ProxyInv'
    BY <1>5, StepOfPart, ProxyStep DEF PartsInv
  <1>6. ASSUME part \in {"accounts", "registrations"} PROVE AccountsInv'
    BY <1>6, StepOfPart, AccountsStep DEF PartsInv
  <1>7. ASSUME part = "sessions" PROVE SessionsInv'
    BY <1>7, StepOfPart, SessionsStep DEF PartsInv
  <1>8. ASSUME part = "rotation" PROVE V3Inv'
    BY <1>8, StepOfPart, V3InvStep DEF PartsInv
  <1>9. ASSUME part = "processes" PROVE ProcessesInv'
    BY <1>9, StepOfPart, ProcessesInvStep DEF PartsInv
  <1>10. ASSUME part = "registry" PROVE RegistryInv'
    BY <1>10, StepOfPart, RegistryInvStep DEF PartsInv
  <1>11. ASSUME part = "dialogs" PROVE DialogsInv'
    BY <1>11, StepOfPart, DialogsInvStep DEF PartsInv
  <1>12. ASSUME part = "files" PROVE FilesInv'
    BY <1>12, StepOfPart, FilesInvStep DEF PartsInv
  <1>13. ASSUME part = "contacts" PROVE ContactsInv'
    BY <1>13, StepOfPart, ContactsInvStep DEF PartsInv
  <1>14. ASSUME part = "padding" PROVE PaddingTypeOK'
    BY <1>14, StepOfPart, PaddingTypeStep DEF PartsInv
  <1> QED
    BY <1>1, <1>2, <1>3, <1>4, <1>5, <1>6, <1>7, <1>8, <1>9, <1>10, <1>11, <1>12,
       <1>13, <1>14
       DEF PartsInv

(* Each invariant holds the types of its component. *)
LEMMA PartsTyped == PartsInv => ComponentsTypeOK
  <1>1. /\ TrustInv => TrustTypeOK
        /\ DirectoryInv => DirectoryTypeOK
        /\ MapInv => NetworkMapTypeOK
    BY DEF TrustInv, DirectoryInv, MapInv
  <1>2. /\ ProxyInv => ProxyTypeOK
        /\ AccountsInv => AccountsTypeOK
        /\ SessionsInv => AccountsInv /\ SessionsTypeOK
        /\ RegistryInv => RegistryTypeOK
    BY AccountsInvParts DEF ProxyInv, SessionsInv, RegistryInv
  <1>3. ProcessesInv => ProcessesTypeOK
    BY DEF ProcessesInv, WebInv, ThreadInv, PortsTyped, ThreadsTyped, ProcessesTypeOK
  <1>4. /\ DialogsInv => DialogsTypeOK
        /\ FilesInv => FilesTypeOK
    BY DEF DialogsInv, FilesInv
  <1> QED
    BY <1>1, <1>2, <1>3, <1>4, TypedIsOK, ContactsInvParts DEF PartsInv, ComponentsTypeOK

(* Each component keeps its inductive invariant in the instances of MCComponents,
   which bound what it does and run it beside others that stand still. *)
THEOREM PartsInvariance == Spec => []PartsInv
  BY PartsInit, PartsStep, PTL DEF Spec

(* Every reachable state of every component is well typed, as its module says. *)
THEOREM ComponentsTypeCorrect == Spec => []ComponentsTypeOK
  BY PartsInvariance, PartsTyped, PTL
=============================================================================
