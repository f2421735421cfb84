CONSTANTS
  r1 = r1
  r2 = r2
  Runs = {r1, r2}
  RunFrameworks = {"agno", "google", "openai", "smolagents", "langchain", "llama_index"}
  MaxRunCalls = 3
  MaxUpdates = 1
SPECIFICATION RunSpec
SYMMETRY Symmetry
CONSTRAINT OneTrouble
CHECK_DEADLOCK FALSE
INVARIANT WrappersBehave
PROPERTY TraceIsWhole
