CONSTANT MaxExecutions = 3
SPECIFICATION Spec
INVARIANT WrittenFilesAreUsed
