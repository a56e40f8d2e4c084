SPECIFICATION Spec
INVARIANT SkiddingSuppressesHeading
