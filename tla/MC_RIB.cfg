\* The RIB engine driven by the calls and requests of test-rib_v2.cc.
CONSTANTS
  Versions = {v1, v2}
  AEs = {ae, fff}
  Classes = {"MyObj", "OtherObj", ""}
  None = None
  v1 = v1
  v2 = v2
  ae = ae
  fff = fff
  MaxRibs <- MCMaxRibs
  MaxIds <- MCMaxIds
  WrongHandle = 9999
  WrongId = 99999
  ConVersion = v1
  SchemaArgs = {v1}
  BindingArgs <- MCBindingArgs
  RibArgs = {v1, v2}
  AssocArgs = {ae, fff}
  ObjHandles = {1, 9999}
  ObjArgs <- MCObjArgs
  ReqArgs <- MCReqArgs

SPECIFICATION Spec
\* After rib::fini the application makes no more calls.
CHECK_DEADLOCK FALSE

INVARIANT TypeOK
PROPERTY ChildrenKeepParent
INVARIANT RemoveHitsItsObject
