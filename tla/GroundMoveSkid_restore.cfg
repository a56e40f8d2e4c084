SPECIFICATION Spec
PROPERTY SkidEndRestoresPhysState
