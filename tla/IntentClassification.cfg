SPECIFICATION Spec
CONSTANT Texts <- MCTexts
INVARIANTS TypeOK TieNeverActs EntityStartsOneTool StrongestKept
CHECK_DEADLOCK FALSE
