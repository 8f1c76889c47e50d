SPECIFICATION Spec
CONSTANT Contracts <- FourRefs
INVARIANT NewContractIsReadable
