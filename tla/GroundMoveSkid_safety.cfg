SPECIFICATION Spec
INVARIANT FlyingImpliesSkidding
PROPERTY SkidModeRefined
