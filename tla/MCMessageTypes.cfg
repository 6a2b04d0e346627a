\* Every number up to and past both bounds of the enum.
SPECIFICATION Spec
CONSTANT Given <- AllTypes
INVARIANT DeclaredTypesAreDefined
