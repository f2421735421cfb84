CONSTANTS
  t1 = t1
  t2 = t2
  Tasks = {t1, t2}
  Frameworks = {"agno", "google", "langchain", "llama_index", "openai", "smolagents"}
  Tools <- ToolList
  Types = {"A", "B"}
  MaxCalls = 3
SPECIFICATION Spec
SYMMETRY Symmetry
CHECK_DEADLOCK FALSE
INVARIANTS OpenIsReachable EnforcesItsType
