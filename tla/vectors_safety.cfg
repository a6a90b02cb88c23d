CONSTANT Vectors <- Known
SPECIFICATION Spec
INVARIANTS EntryRight ServedRight
