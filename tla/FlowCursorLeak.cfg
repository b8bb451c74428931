SPECIFICATION Spec
CONSTANT Rows = 1
INVARIANT CursorClosed
