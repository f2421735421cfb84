CONSTANTS
  Adapters = {"agno", "google", "langchain", "llama_index", "openai", "smolagents"}
  MaxToolCalls = 2
  MaxChunks = 6
  MaxRounds = 2
SPECIFICATION ChatSpec
CHECK_DEADLOCK FALSE
INVARIANTS AnswerArrives SpanIsTrue RequestPaired
