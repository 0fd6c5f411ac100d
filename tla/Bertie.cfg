SPECIFICATION Spec
CONSTANT Scripts = {"ty.js", "randy.js", "no bertieMove"}
INVARIANT NamesTheWinner
PROPERTIES PlaysByTheRules TyStopsPlayer MarksStay BertieAnswers
